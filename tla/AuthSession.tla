------------------------------ MODULE AuthSession ------------------------------
(***************************************************************************)
(* The dashboard's lock: one PIN in a store, and signed cookies that go    *)
(* stale (src/web/services/auth_service.py, routes/auth.py, middleware.py, *)
(* web/auth.py).                                                           *)
(*                                                                         *)
(* Requests are served by threads, and the terminal's commands are a       *)
(* process of their own.  Each loads the store, changes its copy and saves *)
(* it; nothing is locked, and hashing a PIN between the two is slow.       *)
(***************************************************************************)
EXTENDS Integers

CONSTANTS
    Browsers, Terminal,      \* who asks
    Threads,                 \* requests that may be in flight at once
    Pins, Usable,            \* PINs that are typed; those pin_problem accepts
    MaxAttempts, Lockout, Absolute, DefaultIdle,
    IdleMin, IdleMax,        \* the range AUTH_IDLE_MINUTES is honoured in
    IdleInputs,              \* what is written there
    Overlap,                 \* may requests that write the store overlap?
    MaxSecret, MaxSession, MaxTime,    \* bounds
    None

Record == [secret : Nat, gen : Nat, pin : Pins, failed : 0 .. MaxAttempts - 1, until : Nat]

ASSUME AuthAssumption ==
    /\ Terminal \notin Browsers
    /\ Usable \subseteq Pins
    /\ MaxAttempts \in Nat \ {0} /\ Lockout \in Nat
    /\ Absolute \in Nat /\ DefaultIdle \in Nat /\ IdleMin \in Nat /\ IdleMax \in Nat
    /\ IdleInputs \subseteq Nat
    /\ Overlap \in BOOLEAN
    /\ MaxSecret \in Nat /\ MaxSession \in Nat /\ MaxTime \in Nat
    /\ None \notin Record

VARIABLES
    store,       \* auth.json
    minutes,     \* AUTH_IDLE_MINUTES in account.json, whatever is written there
    cookie,      \* the session each browser holds
    call,        \* the request each thread serves
    now,
    secrets,     \* signing secrets made so far: a new one is like no other
    \* What the properties look at; the code does not keep it.
    sessions,    \* sessions handed out so far
    revoked,     \* the sessions somebody signed out, or locked, or changed the PIN over
    human,       \* when a person last did something at each browser
    asked        \* when a person last asked for a session there

vars == <<store, minutes, cookie, call, now, secrets, sessions, revoked, human, asked>>

Token  == [sid : Nat, secret : Nat, gen : Nat, iat : Nat, seen : Nat]
Call   == [op : {"login", "change", "signout", "lock", "heartbeat", "setup", "reset"},
           by : Browsers \union {Terminal},
           pin : Pins \union {None}, new : Pins \union {None},
           tok : Token \union {None}, record : Record \union {None},
           pc : {"hash", "load", "rotate", "create", "issue", "sign"}]

TypeOK ==
    /\ store \in Record \union {None}
    /\ minutes \in Nat
    /\ cookie \in [Browsers -> Token \union {None}]
    /\ call \in [Threads -> Call \union {None}]
    /\ now \in Nat /\ secrets \in Nat /\ sessions \in Nat
    /\ revoked \in SUBSET Nat
    /\ human \in [Browsers -> Nat] /\ asked \in [Browsers -> Nat]

Init ==
    /\ store = None /\ minutes = 0 /\ now = 0
    /\ cookie = [b \in Browsers |-> None]
    /\ call = [t \in Threads |-> None]
    /\ secrets = 0 /\ sessions = 0 /\ revoked = {}
    /\ human = [b \in Browsers |-> 0] /\ asked = [b \in Browsers |-> 0]

(***************************************************************************)
(* Reading the store.                                                      *)
(***************************************************************************)

\* The setting wins where it is in range; otherwise the window the store has.
idle_seconds == IF minutes \in IdleMin .. IdleMax THEN minutes ELSE DefaultIdle

\* The cookie stands for a session: signature, generation and both clocks.
Live(tok) ==
    /\ store # None /\ tok # None
    /\ tok.secret = store.secret /\ tok.gen = store.gen
    /\ now - tok.seen <= idle_seconds
    /\ now - tok.iat <= Absolute

\* The gate in front of every page and endpoint that is not the lock's own.
require_pin(b) == store = None \/ Live(cookie[b])

Fresh(pin) ==
    [secret |-> secrets + 1, gen |-> 1, pin |-> pin, failed |-> 0, until |-> 0]

\* A wrong PIN is counted, and the one that fills the budget shuts the door.
Counted(record) ==
    IF record.failed + 1 >= MaxAttempts
    THEN [record EXCEPT !.failed = 0, !.until = now + Lockout]
    ELSE [record EXCEPT !.failed = @ + 1]

\* Defect: the secret alone is taken to be enough.
SecretOnly(record) ==
    [record EXCEPT !.failed = 0, !.until = 0, !.secret = secrets + 1]

\* Every cookie that exists is dead: a new generation and a new secret.
Rotated(record) ==
    [record EXCEPT !.gen = @ + 1, !.failed = 0, !.until = 0, !.secret = secrets + 1]

(***************************************************************************)
(* Requests.  What a request answers without changing anything is no step. *)
(***************************************************************************)

Quiet == \A t \in Threads : call[t] = None

\* Without Overlap one request at a time may write the store; heartbeats write
\* nothing and overlap everything.
MayStart(op) ==
    Overlap \/ op = "heartbeat" \/
        \A t \in Threads : call[t] # None => call[t].op = "heartbeat"

Begin(t, op, b, pin, new, pc) ==
    /\ call[t] = None /\ MayStart(op)
    /\ call' = [call EXCEPT ![t] =
                  [op |-> op, by |-> b, pin |-> pin, new |-> new,
                   tok |-> IF op = "heartbeat" THEN cookie[b] ELSE None,
                   record |-> IF pc \in {"hash", "rotate"} THEN store ELSE None, pc |-> pc]]
    /\ UNCHANGED <<store, minutes, cookie, now, secrets, sessions, revoked>>

Goes(t, pc, record) == call' = [call EXCEPT ![t].pc = pc, ![t].record = record]
Ends(t)             == call' = [call EXCEPT ![t] = None]

\* A browser is handed a session; the terminal needs none.
ThenIssue(t) ==
    IF call[t].by = Terminal THEN Ends(t) ELSE Goes(t, "issue", None)

At(t, pc)         == call[t] # None /\ call[t].pc = pc
Stamped(f, b)     == [c \in Browsers |-> IF c = b THEN now ELSE f[c]]
PersonAt(b)       == human' = Stamped(human, b)
AsksAt(b)         == PersonAt(b) /\ asked' = Stamped(asked, b)
NobodyAsks        == UNCHANGED <<human, asked>>
StoreKept         == UNCHANGED <<store, secrets, revoked>>

\* verify loads the store and goes on to hash, unless the door is shut.
Login(t, b, pin) ==
    /\ store # None /\ store.until <= now
    /\ Begin(t, "login", b, pin, None, "hash") /\ AsksAt(b)

\* The new PIN is looked at first; the current one is counted like a login.
Change(t, b, pin, new) ==
    /\ new \in Usable
    /\ store # None /\ store.until <= now
    /\ Begin(t, "change", b, pin, new, "hash") /\ AsksAt(b)

\* The save writes back the whole record that was loaded.
RightPin(t) ==
    /\ At(t, "hash") /\ call[t].pin = call[t].record.pin
    /\ store' = IF call[t].record.failed # 0 \/ call[t].record.until # 0
                THEN [call[t].record EXCEPT !.failed = 0, !.until = 0] ELSE store
    /\ IF call[t].op = "login" THEN ThenIssue(t) ELSE Goes(t, "load", None)
    /\ UNCHANGED <<minutes, cookie, now, secrets, sessions, revoked, human, asked>>

WrongPin(t) ==
    /\ At(t, "hash") /\ call[t].pin # call[t].record.pin
    /\ store' = Counted(call[t].record)
    /\ Ends(t)
    /\ UNCHANGED <<minutes, cookie, now, secrets, sessions, revoked, human, asked>>

SignOutEverywhere(t, b) ==
    /\ Live(cookie[b])
    /\ Begin(t, "signout", b, None, None, "load") /\ AsksAt(b)

\* The page locks because nobody is there.
Lock(t, b) ==
    /\ Live(cookie[b])
    /\ Begin(t, "lock", b, None, None, "load") /\ NobodyAsks

KeepsPin(t) == call[t].op = "change" /\ call[t].new = store.pin

\* change_pin and sign_out_others load (again); a PIN that stays is kept.
Load(t) ==
    /\ At(t, "load")
    /\ \/ store = None /\ Ends(t)
       \/ store # None /\ KeepsPin(t) /\ ThenIssue(t)
       \/ store # None /\ ~KeepsPin(t) /\ Goes(t, "rotate", store)
    /\ StoreKept /\ NobodyAsks /\ UNCHANGED <<minutes, cookie, now, sessions>>

\* The forgotten PIN: the terminal is the credential.
Reset(t, new) ==
    /\ store # None /\ new \in Usable
    /\ Begin(t, "reset", Terminal, None, new, "rotate") /\ NobodyAsks

\* The rotation is saved.  Locking clears the cookie with its answer.
Rotate(t) ==
    /\ At(t, "rotate") /\ secrets < MaxSecret
    /\ secrets' = secrets + 1
    /\ store' = [Rotated(call[t].record) EXCEPT
                   !.pin = IF call[t].op \in {"change", "reset"} THEN call[t].new ELSE @]
    /\ revoked' = 1 .. sessions
    /\ cookie' = IF call[t].op = "lock" THEN [cookie EXCEPT ![call[t].by] = None] ELSE cookie
    /\ IF call[t].op = "lock" THEN Ends(t) ELSE ThenIssue(t)
    /\ NobodyAsks /\ UNCHANGED <<minutes, now, sessions>>

\* The first PIN, from the lock screen or the terminal.
Setup(t, b, new) ==
    /\ store = None /\ new \in Usable
    /\ Begin(t, "setup", b, None, new, "create") /\ AsksAt(b)

Create(t) ==
    /\ At(t, "create") /\ secrets < MaxSecret
    /\ secrets' = secrets + 1
    /\ store' = Fresh(call[t].new)
    /\ ThenIssue(t)
    /\ NobodyAsks /\ UNCHANGED <<minutes, cookie, now, sessions, revoked>>

\* Issued after whatever rotated the secret, from the store as it is now.
Issue(t) ==
    /\ At(t, "issue") /\ (store # None => sessions < MaxSession)
    /\ IF store = None THEN UNCHANGED <<cookie, sessions>>
       ELSE /\ sessions' = sessions + 1
            /\ cookie' = [cookie EXCEPT ![call[t].by] =
                            [sid |-> sessions + 1, secret |-> store.secret, gen |-> store.gen,
                             iat |-> now, seen |-> now]]
    /\ Ends(t)
    /\ StoreKept /\ NobodyAsks /\ UNCHANGED <<minutes, now>>

\* Sent only while the page sees a person.
Heartbeat(t, b) ==
    /\ Live(cookie[b])
    /\ Begin(t, "heartbeat", b, None, None, "sign")
    /\ PersonAt(b) /\ UNCHANGED asked

\* Defect: a slide starts the session over.
SlideBoth(tok) == [tok EXCEPT !.seen = now, !.iat = now, !.secret = store.secret]

\* The old payload, under whatever secret the store has by now.
Slid(tok) == [tok EXCEPT !.seen = now, !.secret = store.secret]

Touch(t) ==
    /\ At(t, "sign")
    /\ cookie' = IF store = None THEN cookie
                 ELSE [cookie EXCEPT ![call[t].by] = Slid(call[t].tok)]
    /\ Ends(t)
    /\ StoreKept /\ NobodyAsks /\ UNCHANGED <<minutes, now, sessions>>

\* Also the answer to a lock whose session had ended already.
Logout(b) ==
    /\ cookie[b] # None
    /\ cookie' = [cookie EXCEPT ![b] = None]
    /\ StoreKept /\ NobodyAsks /\ UNCHANGED <<minutes, call, now, sessions>>

(***************************************************************************)
(* The rest of the world.                                                  *)
(***************************************************************************)

\* auth disable, typed while nothing else is going on.
Disable ==
    /\ store # None /\ (Overlap \/ Quiet)
    /\ store' = None
    /\ NobodyAsks
    /\ UNCHANGED <<minutes, cookie, call, now, secrets, sessions, revoked>>

\* The settings form, or a hand in account.json: any number may be there.
SetIdle(b, m) ==
    /\ require_pin(b) /\ minutes # m
    /\ minutes' = m
    /\ StoreKept /\ NobodyAsks /\ UNCHANGED <<cookie, call, now, sessions>>

\* The dashboard is restarted: its requests are gone, files and cookies stay.
Restart ==
    /\ ~Quiet
    /\ call' = [t \in Threads |->
                  IF call[t] # None /\ call[t].by \in Browsers THEN None ELSE call[t]]
    /\ StoreKept /\ NobodyAsks /\ UNCHANGED <<minutes, cookie, now, sessions>>

\* The clock counts minutes: a request takes no time by it.
Tick ==
    /\ now < MaxTime /\ Quiet
    /\ now' = now + 1
    /\ StoreKept /\ NobodyAsks /\ UNCHANGED <<minutes, cookie, call, sessions>>

Serve(t) ==
    \/ RightPin(t) \/ WrongPin(t) \/ Load(t) \/ Rotate(t)
    \/ Create(t) \/ Issue(t) \/ Touch(t)

Ask(t) ==
    \/ \E b \in Browsers, p \in Pins : Login(t, b, p)
    \/ \E b \in Browsers \union {Terminal}, p, q \in Pins : Change(t, b, p, q)
    \/ \E b \in Browsers \union {Terminal}, p \in Pins : Setup(t, b, p)
    \/ \E p \in Pins : Reset(t, p)
    \/ \E b \in Browsers : SignOutEverywhere(t, b) \/ Lock(t, b) \/ Heartbeat(t, b)

Next ==
    \/ \E t \in Threads : Ask(t) \/ Serve(t)
    \/ \E b \in Browsers : Logout(b)
    \/ \E b \in Browsers, m \in IdleInputs : SetIdle(b, m)
    \/ Disable \/ Restart \/ Tick

Spec == Init /\ [][Next]_vars

=============================================================================
