---------------------------- MODULE AuthSessionProps ----------------------------
(***************************************************************************)
(* What the lock promises.                                                 *)
(***************************************************************************)
EXTENDS AuthSession

\* Signed out stays signed out: once the sessions have been revoked, by a lock,
\* a PIN change or a sign-out everywhere, none of them is accepted again,
\* whatever answer was on its way to the browser (_rotate_sessions, touch).
RevokedStaysRevoked ==
    \A b \in Browsers : Live(cookie[b]) => cookie[b].sid \notin revoked

\* A session outlives neither the person nor the day: one that is accepted
\* belongs to a browser where somebody was there within the idle window and
\* asked for a session within the hard cap.
SessionsEnd ==
    \A b \in Browsers : Live(cookie[b]) =>
        /\ now - human[b] <= idle_seconds
        /\ now - asked[b] <= Absolute

=============================================================================
