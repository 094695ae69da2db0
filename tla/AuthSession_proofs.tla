-------------------------- MODULE AuthSession_proofs --------------------------
(***************************************************************************)
(* Proofs about the lock, for any browsers, threads, PINs and settings.    *)
(*                                                                         *)
(* SessionsEnd needs to know of a request in flight that a person made it  *)
(* in the minute it is answered in (Clocks).  RevokedStaysRevoked needs to *)
(* know why an answer that is on its way cannot bring back a session: one  *)
(* request at a time writes the store, with the record that is in it       *)
(* (Sole), a rotation makes a secret no cookie has, and the payload of a   *)
(* heartbeat keeps the generation it was read under (Secrets).             *)
(***************************************************************************)
EXTENDS AuthSessionProps, TLAPS

Serving == {"hash", "load", "rotate", "create", "issue", "sign"}
Ops     == {"login", "change", "signout", "lock", "heartbeat", "setup", "reset"}

\* What a request carries, by how far it has got.
Shape(c) ==
    /\ c \in Call
    /\ c.pc \in {"hash", "rotate"} => c.record \in Record
    /\ c.op \in {"change", "reset", "setup"} => c.new \in Pins
    /\ c.pc = "create" => c.op = "setup"
    /\ c.pc = "sign" <=> c.op = "heartbeat"
    /\ c.op = "heartbeat" => c.tok \in Token
    /\ c.pc = "issue" => c.op # "lock"

Typed == TypeOK /\ \A t \in Threads : call[t] # None => Shape(call[t])

(***************************************************************************)
(* A request that begins, whatever it asks for.                            *)
(***************************************************************************)

NewCall(op, b, pin, new, pc) ==
    [op |-> op, by |-> b, pin |-> pin, new |-> new,
     tok |-> IF op = "heartbeat" THEN cookie[b] ELSE None,
     record |-> IF pc \in {"hash", "rotate"} THEN store ELSE None, pc |-> pc]

\* What it was read from...
ReadNow(c) ==
    /\ Shape(c)
    /\ c.op = "heartbeat" => c.by \in Browsers /\ c.tok = cookie[c.by] /\ Live(cookie[c.by])
    /\ c.pc \in {"hash", "rotate"} => c.record = store /\ store # None
    /\ c.pc = "create" => store = None

\* ...and what is known of the person who made it.
Noticed(c) ==
    /\ human' \in [Browsers -> Nat] /\ asked' \in [Browsers -> Nat]
    /\ \A b \in Browsers : human'[b] \in {human[b], now} /\ asked'[b] \in {asked[b], now}
    /\ c.by \in Browsers /\ c.op # "lock" => human'[c.by] = now
    /\ c.by \in Browsers /\ c.op \notin {"lock", "heartbeat"} => asked'[c.by] = now

Requested(t, c) ==
    /\ call[t] = None /\ MayStart(c.op)
    /\ call' = [call EXCEPT ![t] = c]
    /\ UNCHANGED <<store, minutes, cookie, now, secrets, sessions, revoked>>
    /\ ReadNow(c) /\ Noticed(c)

LEMMA StampedIs ==
    ASSUME now \in Nat, NEW f \in [Browsers -> Nat], NEW b
    PROVE  /\ Stamped(f, b) \in [Browsers -> Nat]
           /\ \A c \in Browsers : Stamped(f, b)[c] \in {f[c], now}
           /\ b \in Browsers => Stamped(f, b)[b] = now
BY DEF Stamped

\* A call as Begin makes it.
Began(t, c, op, b, pin, new, pc) ==
    /\ call[t] = None /\ MayStart(c.op)
    /\ call' = [call EXCEPT ![t] = c]
    /\ UNCHANGED <<store, minutes, cookie, now, secrets, sessions, revoked>>
    /\ c \in Call
    /\ c.op = op /\ c.by = b /\ c.pin = pin /\ c.new = new /\ c.pc = pc
    /\ op = "heartbeat" => c.tok = cookie[b] /\ c.tok \in Token
    /\ pc \in {"hash", "rotate"} => c.record = store

LEMMA BeginIs ==
    ASSUME TypeOK, NEW t \in Threads, NEW op \in Ops, NEW b \in Browsers \union {Terminal},
           NEW pin \in Pins \union {None}, NEW new \in Pins \union {None}, NEW pc \in Serving,
           Begin(t, op, b, pin, new, pc),
           op = "heartbeat" => b \in Browsers /\ Live(cookie[b])
    PROVE  \E c : Began(t, c, op, b, pin, new, pc)
<1> DEFINE c == NewCall(op, b, pin, new, pc)
<1>1. c.op = op /\ c.by = b /\ c.pin = pin /\ c.new = new /\ c.pc = pc
  BY DEF NewCall
<1>2. op = "heartbeat" => c.tok = cookie[b] /\ c.tok \in Token
  BY DEF NewCall, TypeOK, Live
<1>3. pc \in {"hash", "rotate"} => c.record = store
  BY DEF NewCall
<1>4. c \in Call
  <2>1. (IF op = "heartbeat" THEN cookie[b] ELSE None) \in Token \union {None}
    BY DEF TypeOK
  <2>2. (IF pc \in {"hash", "rotate"} THEN store ELSE None) \in Record \union {None}
    BY DEF TypeOK
  <2> QED
    BY <2>1, <2>2 DEF NewCall, Call, Ops, Serving
<1>5. /\ call[t] = None /\ MayStart(c.op)
      /\ call' = [call EXCEPT ![t] = c]
      /\ UNCHANGED <<store, minutes, cookie, now, secrets, sessions, revoked>>
  BY <1>1 DEF Begin, NewCall
<1> HIDE DEF c
<1> QED
  BY <1>1, <1>2, <1>3, <1>4, <1>5 DEF Began

\* Whoever asks, and for what, a request has begun.
LEMMA AskRequests ==
    ASSUME TypeOK, NEW t \in Threads, Ask(t)
    PROVE  \E c : Requested(t, c)
<1> USE AuthAssumption
<1>0. now \in Nat /\ human \in [Browsers -> Nat] /\ asked \in [Browsers -> Nat]
  BY DEF TypeOK
<1>1. ASSUME NEW b \in Browsers, NEW p \in Pins, Login(t, b, p)
      PROVE  \E c : Requested(t, c)
  <2>1. Begin(t, "login", b, p, None, "hash") /\ store # None /\ AsksAt(b)
    BY <1>1 DEF Login
  <2> PICK c : Began(t, c, "login", b, p, None, "hash")
    BY <2>1, BeginIs DEF Ops, Serving
  <2>2. Noticed(c)
    BY <2>1, <1>0, StampedIs DEF Noticed, AsksAt, PersonAt, Began
  <2>3. ReadNow(c)
    BY <2>1 DEF ReadNow, Shape, Began, TypeOK
  <2> QED
    BY <2>2, <2>3 DEF Requested, Began
<1>2. ASSUME NEW b \in Browsers \union {Terminal}, NEW p \in Pins, NEW q \in Pins, Change(t, b, p, q)
      PROVE  \E c : Requested(t, c)
  <2>1. Begin(t, "change", b, p, q, "hash") /\ store # None /\ AsksAt(b)
    BY <1>2 DEF Change
  <2> PICK c : Began(t, c, "change", b, p, q, "hash")
    BY <2>1, BeginIs DEF Ops, Serving
  <2>2. Noticed(c)
    BY <2>1, <1>0, StampedIs DEF Noticed, AsksAt, PersonAt, Began
  <2>3. ReadNow(c)
    BY <2>1 DEF ReadNow, Shape, Began, TypeOK
  <2> QED
    BY <2>2, <2>3 DEF Requested, Began
<1>3. ASSUME NEW b \in Browsers \union {Terminal}, NEW p \in Pins, Setup(t, b, p)
      PROVE  \E c : Requested(t, c)
  <2>1. Begin(t, "setup", b, None, p, "create") /\ store = None /\ AsksAt(b)
    BY <1>3 DEF Setup
  <2> PICK c : Began(t, c, "setup", b, None, p, "create")
    BY <2>1, BeginIs DEF Ops, Serving
  <2>2. Noticed(c)
    BY <2>1, <1>0, StampedIs DEF Noticed, AsksAt, PersonAt, Began
  <2>3. ReadNow(c)
    BY <2>1 DEF ReadNow, Shape, Began, TypeOK
  <2> QED
    BY <2>2, <2>3 DEF Requested, Began
<1>4. ASSUME NEW p \in Pins, Reset(t, p)
      PROVE  \E c : Requested(t, c)
  <2>1. Begin(t, "reset", Terminal, None, p, "rotate") /\ store # None /\ NobodyAsks
    BY <1>4 DEF Reset
  <2> PICK c : Began(t, c, "reset", Terminal, None, p, "rotate")
    BY <2>1, BeginIs DEF Ops, Serving
  <2>2. Noticed(c)
    BY <2>1, <1>0 DEF Noticed, NobodyAsks, Began
  <2>3. ReadNow(c)
    BY <2>1 DEF ReadNow, Shape, Began, TypeOK
  <2> QED
    BY <2>2, <2>3 DEF Requested, Began
<1>5. ASSUME NEW b \in Browsers, SignOutEverywhere(t, b)
      PROVE  \E c : Requested(t, c)
  <2>1. Begin(t, "signout", b, None, None, "load") /\ AsksAt(b)
    BY <1>5 DEF SignOutEverywhere
  <2> PICK c : Began(t, c, "signout", b, None, None, "load")
    BY <2>1, BeginIs DEF Ops, Serving
  <2>2. Noticed(c)
    BY <2>1, <1>0, StampedIs DEF Noticed, AsksAt, PersonAt, Began
  <2>3. ReadNow(c)
    BY <2>1 DEF ReadNow, Shape, Began, TypeOK
  <2> QED
    BY <2>2, <2>3 DEF Requested, Began
<1>6. ASSUME NEW b \in Browsers, Lock(t, b)
      PROVE  \E c : Requested(t, c)
  <2>1. Begin(t, "lock", b, None, None, "load") /\ NobodyAsks
    BY <1>6 DEF Lock
  <2> PICK c : Began(t, c, "lock", b, None, None, "load")
    BY <2>1, BeginIs DEF Ops, Serving
  <2>2. Noticed(c)
    BY <2>1, <1>0 DEF Noticed, NobodyAsks, Began
  <2>3. ReadNow(c)
    BY <2>1 DEF ReadNow, Shape, Began, TypeOK
  <2> QED
    BY <2>2, <2>3 DEF Requested, Began
<1>7. ASSUME NEW b \in Browsers, Heartbeat(t, b)
      PROVE  \E c : Requested(t, c)
  <2>1. /\ Begin(t, "heartbeat", b, None, None, "sign") /\ Live(cookie[b])
        /\ PersonAt(b) /\ UNCHANGED asked
    BY <1>7 DEF Heartbeat
  <2> PICK c : Began(t, c, "heartbeat", b, None, None, "sign")
    BY <2>1, BeginIs DEF Ops, Serving
  <2>2. Noticed(c)
    BY <2>1, <1>0, StampedIs DEF Noticed, PersonAt, Began
  <2>3. ReadNow(c)
    BY <2>1 DEF ReadNow, Shape, Began, TypeOK
  <2> QED
    BY <2>2, <2>3 DEF Requested, Began
<1> QED
  BY <1>1, <1>2, <1>3, <1>4, <1>5, <1>6, <1>7 DEF Ask

(***************************************************************************)
(* A request that goes on, and one that is answered.                       *)
(***************************************************************************)

Ended(t) ==
    /\ call' \in [Threads -> Call \union {None}]
    /\ \A u \in Threads \ {t} : call'[u] = call[u]
    /\ call'[t] = None

Moved(t, pc, record) ==
    /\ call' \in [Threads -> Call \union {None}]
    /\ \A u \in Threads \ {t} : call'[u] = call[u]
    /\ call'[t] \in Call
    /\ call'[t].op = call[t].op /\ call'[t].by = call[t].by
    /\ call'[t].new = call[t].new /\ call'[t].tok = call[t].tok
    /\ call'[t].pc = pc /\ call'[t].record = record

LEMMA EndsIs ==
    ASSUME TypeOK, NEW t \in Threads, Ends(t)
    PROVE  Ended(t)
BY DEF TypeOK, Ends, Ended

LEMMA GoesIs ==
    ASSUME TypeOK, NEW t \in Threads, call[t] # None,
           NEW pc \in Serving, NEW record \in Record \union {None}, Goes(t, pc, record)
    PROVE  Moved(t, pc, record)
<1> DEFINE c == [call[t] EXCEPT !.pc = pc, !.record = record]
<1>1. call[t] \in Call
  BY DEF TypeOK
<1>2. call' = [call EXCEPT ![t] = c]
  BY DEF Goes
<1>3. /\ c \in Call
      /\ c.op = call[t].op /\ c.by = call[t].by /\ c.new = call[t].new /\ c.tok = call[t].tok
      /\ c.pc = pc /\ c.record = record
  BY <1>1 DEF Call, Serving
<1> HIDE DEF c
<1> QED
  BY <1>2, <1>3 DEF Moved, TypeOK

\* What a step of a request leaves of it: nothing, or a request that is further
\* on, and has in its hands the record that is in the store.
Onward(t) ==
    \/ Ended(t)
    \/ \E pc \in {"load", "issue"} : Moved(t, pc, None) /\ call[t].op # "heartbeat"
                                     /\ (pc = "issue" => call[t].op # "lock")
    \/ Moved(t, "rotate", store) /\ call[t].op # "heartbeat" /\ store # None /\ store' = store

\* The store is as it was but for the count of wrong PINs.
Counts(t) ==
    /\ call[t].pc = "hash"
    /\ \/ store' = store
       \/ /\ store' \in Record
          /\ store'.secret = call[t].record.secret /\ store'.gen = call[t].record.gen
    /\ UNCHANGED <<cookie, secrets, sessions, revoked>>

Passes(t) == call[t].pc = "load" /\ UNCHANGED <<store, cookie, secrets, sessions, revoked>>

Rotates(t) ==
    /\ call[t].pc = "rotate"
    /\ secrets' = secrets + 1
    /\ store' \in Record
    /\ store'.secret = secrets + 1 /\ store'.gen = call[t].record.gen + 1
    /\ revoked' = 1 .. sessions /\ sessions' = sessions
    /\ cookie' \in [Browsers -> Token \union {None}]
    /\ \A b \in Browsers : cookie'[b] = cookie[b] \/ cookie'[b] = None

Creates(t) ==
    /\ call[t].pc = "create"
    /\ secrets' = secrets + 1
    /\ store' \in Record /\ store'.secret = secrets + 1
    /\ UNCHANGED <<cookie, sessions, revoked>>

\* One browser's cookie is another one, made of the store as it is.
Hands(t) ==
    /\ store # None
    /\ cookie' \in [Browsers -> Token \union {None}]
    /\ \A b \in Browsers : b # call[t].by => cookie'[b] = cookie[b]
    /\ \A b \in Browsers : b = call[t].by =>
          cookie'[b] \in Token /\ cookie'[b].secret = store.secret /\ cookie'[b].seen = now

Issues(t) ==
    /\ call[t].pc = "issue"
    /\ Hands(t)
    /\ sessions' = sessions + 1
    /\ \A b \in Browsers : b = call[t].by =>
          cookie'[b].sid = sessions + 1 /\ cookie'[b].gen = store.gen /\ cookie'[b].iat = now
    /\ UNCHANGED <<store, secrets, revoked>>

Slides(t) ==
    /\ call[t].pc = "sign"
    /\ Hands(t)
    /\ \A b \in Browsers : b = call[t].by =>
          /\ cookie'[b].sid = call[t].tok.sid /\ cookie'[b].gen = call[t].tok.gen
          /\ cookie'[b].iat = call[t].tok.iat
    /\ UNCHANGED <<store, secrets, sessions, revoked>>

\* Nobody can be handed anything without a PIN.
Misses(t) ==
    call[t].pc \in {"issue", "sign"} /\ UNCHANGED <<store, cookie, secrets, sessions, revoked>>

Answers(t) ==
    /\ call[t] # None
    /\ Onward(t)
    /\ Counts(t) \/ Passes(t) \/ Rotates(t) \/ Creates(t) \/ Issues(t) \/ Slides(t) \/ Misses(t)
    /\ UNCHANGED <<minutes, now, human, asked>>

LEMMA ThenIssueIs ==
    ASSUME TypeOK, NEW t \in Threads, call[t] # None, ThenIssue(t),
           call[t].op \notin {"heartbeat", "lock"}
    PROVE  Onward(t)
<1>1. Ended(t) \/ Moved(t, "issue", None)
  BY EndsIs, GoesIs DEF ThenIssue, Serving
<1> QED
  BY <1>1 DEF Onward

LEMMA RecordIs ==
    ASSUME NEW record \in Record
    PROVE  /\ record.secret \in Nat /\ record.gen \in Nat /\ record.pin \in Pins
           /\ record.failed \in 0 .. MaxAttempts - 1 /\ record.until \in Nat
           /\ 0 \in 0 .. MaxAttempts - 1
<1>1. MaxAttempts \in Nat \ {0}
  BY AuthAssumption
<1>2. 0 \in 0 .. MaxAttempts - 1
  BY <1>1
<1> QED
  BY <1>2 DEF Record

LEMMA CountedIs ==
    ASSUME NEW record \in Record, now \in Nat
    PROVE  /\ Counted(record) \in Record
           /\ Counted(record).secret = record.secret /\ Counted(record).gen = record.gen
<1>1. now + Lockout \in Nat
  BY AuthAssumption
<1>2. CASE record.failed + 1 >= MaxAttempts
  <2>1. Counted(record) = [record EXCEPT !.failed = 0, !.until = now + Lockout]
    BY <1>2 DEF Counted
  <2> QED
    BY <1>1, <2>1, RecordIs DEF Record
<1>3. CASE ~(record.failed + 1 >= MaxAttempts)
  <2>1. Counted(record) = [record EXCEPT !.failed = record.failed + 1]
    BY <1>3 DEF Counted, Record
  <2>2. record.failed + 1 \in 0 .. MaxAttempts - 1
    BY <1>3, RecordIs, AuthAssumption
  <2> QED
    BY <2>1, <2>2, RecordIs DEF Record
<1> QED
  BY <1>2, <1>3

LEMMA RotatedIs ==
    ASSUME NEW record \in Record, secrets \in Nat
    PROVE  /\ Rotated(record) \in Record
           /\ Rotated(record).secret = secrets + 1 /\ Rotated(record).gen = record.gen + 1
<1> DEFINE gen == record.gen + 1
           secret == secrets + 1
           r == [record EXCEPT !.gen = gen, !.failed = 0, !.until = 0, !.secret = secret]
<1>1. Rotated(record) = r
  BY DEF Rotated, Record
<1>2. gen \in Nat /\ secret \in Nat
  BY RecordIs
<1>3. r \in Record /\ r.secret = secret /\ r.gen = gen
  <2> HIDE DEF gen, secret
  <2> QED
    BY <1>2, RecordIs DEF Record
<1> QED
  BY <1>1, <1>3

LEMMA NewPinIs ==
    ASSUME NEW record \in Record, NEW pin \in Pins
    PROVE  LET r == [record EXCEPT !.pin = pin]
           IN  r \in Record /\ r.secret = record.secret /\ r.gen = record.gen
BY DEF Record

LEMMA NewCountIs ==
    ASSUME NEW record \in Record
    PROVE  LET r == [record EXCEPT !.failed = 0, !.until = 0]
           IN  r \in Record /\ r.secret = record.secret /\ r.gen = record.gen
BY RecordIs DEF Record

LEMMA SlidIs ==
    ASSUME NEW tok \in Token, now \in Nat, store \in Record
    PROVE  /\ Slid(tok) \in Token
           /\ Slid(tok).sid = tok.sid /\ Slid(tok).gen = tok.gen /\ Slid(tok).iat = tok.iat
           /\ Slid(tok).secret = store.secret /\ Slid(tok).seen = now
BY DEF Slid, Token, Record

\* Every step of a request is one of these.
LEMMA ServeAnswers ==
    ASSUME Typed, NEW t \in Threads, Serve(t)
    PROVE  Answers(t)
<1>0. TypeOK /\ now \in Nat /\ secrets \in Nat /\ sessions \in Nat
  BY DEF Typed, TypeOK
<1>1. CASE RightPin(t)
  <2>1. call[t] # None /\ call[t].pc = "hash" /\ call[t].record \in Record
        /\ call[t].op \notin {"heartbeat"}
    BY <1>1 DEF RightPin, At, Typed, Shape
  <2>2. Onward(t)
    <3>1. CASE call[t].op = "login"
      BY <1>0, <1>1, <2>1, <3>1, ThenIssueIs DEF RightPin
    <3>2. CASE call[t].op # "login"
      <4>1. Moved(t, "load", None)
        BY <1>0, <1>1, <2>1, <3>2, GoesIs DEF RightPin, Serving
      <4> QED
        BY <4>1, <2>1 DEF Onward
    <3> QED
      BY <3>1, <3>2
  <2>3. Counts(t)
    BY <1>1, <2>1, NewCountIs DEF RightPin, Counts
  <2> QED
    BY <1>1, <2>1, <2>2, <2>3 DEF Answers, RightPin
<1>2. CASE WrongPin(t)
  <2>1. call[t] # None /\ call[t].pc = "hash" /\ call[t].record \in Record
    BY <1>2 DEF WrongPin, At, Typed, Shape
  <2>2. Onward(t)
    BY <1>0, <1>2, EndsIs DEF WrongPin, Onward
  <2>3. Counts(t)
    BY <1>0, <1>2, <2>1, CountedIs DEF WrongPin, Counts
  <2> QED
    BY <1>2, <2>1, <2>2, <2>3 DEF Answers, WrongPin
<1>3. CASE Load(t)
  <2>1. call[t] # None /\ call[t].pc = "load" /\ call[t].op # "heartbeat"
    BY <1>3 DEF Load, At, Typed, Shape
  <2>2. Onward(t)
    <3>1. CASE Ends(t)
      BY <1>0, <3>1, EndsIs DEF Onward
    <3>2. CASE KeepsPin(t) /\ ThenIssue(t)
      BY <1>0, <2>1, <3>2, ThenIssueIs DEF KeepsPin
    <3>3. CASE store # None /\ Goes(t, "rotate", store)
      <4>1. Moved(t, "rotate", store)
        BY <1>0, <2>1, <3>3, GoesIs DEF TypeOK, Serving
      <4> QED
        BY <1>3, <2>1, <3>3, <4>1 DEF Onward, Load, StoreKept
    <3> QED
      BY <1>3, <3>1, <3>2, <3>3 DEF Load
  <2>3. Passes(t)
    BY <1>3, <2>1 DEF Load, Passes, StoreKept
  <2> QED
    BY <1>3, <2>1, <2>2, <2>3 DEF Answers, Load, NobodyAsks
<1>4. CASE Rotate(t)
  <2>1. call[t] # None /\ call[t].pc = "rotate" /\ call[t].record \in Record
        /\ call[t].op # "heartbeat"
    BY <1>4 DEF Rotate, At, Typed, Shape
  <2>2. Onward(t)
    BY <1>0, <1>4, <2>1, EndsIs, ThenIssueIs DEF Rotate, Onward
  <2>3. Rotates(t)
    <3> DEFINE old == Rotated(call[t].record)
               pin == IF call[t].op \in {"change", "reset"} THEN call[t].new ELSE old.pin
    <3>1. old \in Record
      BY <1>0, <2>1, RotatedIs
    <3>2. pin \in Pins
      BY <2>1, <3>1 DEF Typed, Shape, Record
    <3>3. store' = [old EXCEPT !.pin = pin]
      BY <1>4 DEF Rotate
    <3>4. store' \in Record /\ store'.secret = secrets + 1 /\ store'.gen = call[t].record.gen + 1
      BY <1>0, <2>1, <3>1, <3>2, <3>3, RotatedIs, NewPinIs
    <3>5. /\ cookie' \in [Browsers -> Token \union {None}]
          /\ \A b \in Browsers : cookie'[b] = cookie[b] \/ cookie'[b] = None
      BY <1>0, <1>4 DEF Rotate, TypeOK
    <3> QED
      BY <1>4, <2>1, <3>4, <3>5 DEF Rotate, Rotates
  <2> QED
    BY <1>4, <2>1, <2>2, <2>3 DEF Answers, Rotate, NobodyAsks
<1>5. CASE Create(t)
  <2>1. /\ call[t] # None /\ call[t].pc = "create" /\ call[t].op = "setup"
        /\ call[t].new \in Pins
    BY <1>5 DEF Create, At, Typed, Shape
  <2>2. Onward(t)
    BY <1>0, <1>5, <2>1, ThenIssueIs DEF Create
  <2>3. Creates(t)
    BY <1>0, <1>5, <2>1, AuthAssumption DEF Create, Creates, Fresh, Record
  <2> QED
    BY <1>5, <2>1, <2>2, <2>3 DEF Answers, Create, NobodyAsks
<1>6. CASE Issue(t)
  <2>1. call[t] # None /\ call[t].pc = "issue"
    BY <1>6 DEF Issue, At
  <2>2. Onward(t)
    BY <1>0, <1>6, EndsIs DEF Issue, Onward
  <2>3. Issues(t) \/ Misses(t)
    <3>1. CASE store = None
      BY <1>6, <2>1, <3>1 DEF Issue, Misses, StoreKept
    <3>2. CASE store # None
      <4> DEFINE tok == [sid |-> sessions + 1, secret |-> store.secret, gen |-> store.gen,
                         iat |-> now, seen |-> now]
      <4>1. store \in Record
        BY <1>0, <3>2 DEF TypeOK
      <4>2. /\ tok \in Token /\ tok.sid = sessions + 1 /\ tok.secret = store.secret
            /\ tok.gen = store.gen /\ tok.iat = now /\ tok.seen = now
        BY <1>0, <4>1 DEF Token, Record
      <4>3. cookie' = [cookie EXCEPT ![call[t].by] = tok] /\ sessions' = sessions + 1
            /\ UNCHANGED <<store, secrets, revoked>>
        BY <1>6, <3>2 DEF Issue, StoreKept
      <4> HIDE DEF tok
      <4>4. Hands(t)
        BY <1>0, <3>2, <4>2, <4>3 DEF Hands, TypeOK
      <4> QED
        BY <1>0, <2>1, <4>2, <4>3, <4>4 DEF Issues, TypeOK
    <3> QED
      BY <3>1, <3>2
  <2> QED
    BY <1>6, <2>1, <2>2, <2>3 DEF Answers, Issue, NobodyAsks
<1>7. CASE Touch(t)
  <2>1. call[t] # None /\ call[t].pc = "sign" /\ call[t].tok \in Token
    BY <1>7 DEF Touch, At, Typed, Shape
  <2>2. Onward(t)
    BY <1>0, <1>7, EndsIs DEF Touch, Onward
  <2>3. Slides(t) \/ Misses(t)
    <3>1. CASE store = None
      BY <1>7, <2>1, <3>1 DEF Touch, Misses, StoreKept
    <3>2. CASE store # None
      <4> DEFINE tok == Slid(call[t].tok)
      <4>1. store \in Record
        BY <1>0, <3>2 DEF TypeOK
      <4>2. /\ tok \in Token /\ tok.sid = call[t].tok.sid /\ tok.gen = call[t].tok.gen
            /\ tok.iat = call[t].tok.iat /\ tok.secret = store.secret /\ tok.seen = now
        BY <1>0, <2>1, <4>1, SlidIs
      <4>3. cookie' = [cookie EXCEPT ![call[t].by] = tok]
            /\ UNCHANGED <<store, secrets, sessions, revoked>>
        BY <1>7, <3>2 DEF Touch, StoreKept
      <4> HIDE DEF tok
      <4>4. Hands(t)
        BY <1>0, <3>2, <4>2, <4>3 DEF Hands, TypeOK
      <4> QED
        BY <1>0, <2>1, <4>2, <4>3, <4>4 DEF Slides, TypeOK
    <3> QED
      BY <3>1, <3>2
  <2> QED
    BY <1>7, <2>1, <2>2, <2>3 DEF Answers, Touch, NobodyAsks
<1> QED
  BY <1>1, <1>2, <1>3, <1>4, <1>5, <1>6, <1>7 DEF Serve

(***************************************************************************)
(* Types.                                                                  *)
(***************************************************************************)

LEMMA InitTyped == Init => Typed
BY DEF Init, Typed, TypeOK

LEMMA OnwardTyped ==
    ASSUME Typed, NEW t \in Threads, call[t] # None, Onward(t)
    PROVE  /\ call' \in [Threads -> Call \union {None}]
           /\ \A u \in Threads : call'[u] # None => Shape(call'[u])
<1>1. \A u \in Threads \ {t} : call'[u] = call[u]
  BY DEF Onward, Ended, Moved
<1>2. Shape(call[t])
  BY DEF Typed
<1>3. CASE Ended(t)
  BY <1>1, <1>3 DEF Ended, Typed
<1>4. ASSUME NEW pc \in {"load", "issue"}, Moved(t, pc, None), call[t].op # "heartbeat",
             pc = "issue" => call[t].op # "lock"
      PROVE  Shape(call'[t])
  BY <1>2, <1>4 DEF Moved, Shape
<1>5. ASSUME Moved(t, "rotate", store), call[t].op # "heartbeat", store # None
      PROVE  Shape(call'[t])
  BY <1>2, <1>5 DEF Moved, Shape, Typed, TypeOK
<1>6. ~Ended(t) => Shape(call'[t]) /\ call' \in [Threads -> Call \union {None}]
  BY <1>4, <1>5 DEF Onward, Moved
<1> QED
  BY <1>1, <1>3, <1>6 DEF Typed

LEMMA AnswersTyped ==
    ASSUME Typed, NEW t \in Threads, Answers(t)
    PROVE  Typed'
<1>1. /\ call' \in [Threads -> Call \union {None}]
      /\ \A u \in Threads : call'[u] # None => Shape(call'[u])
  BY OnwardTyped DEF Answers
<1>2. /\ store' \in Record \union {None} /\ cookie' \in [Browsers -> Token \union {None}]
      /\ secrets' \in Nat /\ sessions' \in Nat /\ revoked' \in SUBSET Nat
  <2>1. /\ store \in Record \union {None} /\ cookie \in [Browsers -> Token \union {None}]
        /\ secrets \in Nat /\ sessions \in Nat /\ revoked \in SUBSET Nat
    BY DEF Typed, TypeOK
  <2>2. CASE Counts(t) \/ Passes(t) \/ Misses(t)
    BY <2>1, <2>2 DEF Counts, Passes, Misses
  <2>3. CASE Rotates(t)
    <3>1. 1 .. sessions \in SUBSET Nat /\ secrets + 1 \in Nat
      BY <2>1
    <3> QED
      BY <2>1, <2>3, <3>1 DEF Rotates
  <2>4. CASE Creates(t)
    BY <2>1, <2>4 DEF Creates
  <2>5. CASE Issues(t)
    BY <2>1, <2>5 DEF Issues, Hands
  <2>6. CASE Slides(t)
    BY <2>1, <2>6 DEF Slides, Hands
  <2> QED
    BY <2>2, <2>3, <2>4, <2>5, <2>6 DEF Answers
<1>3. UNCHANGED <<minutes, now, human, asked>>
  BY DEF Answers
<1> QED
  BY <1>1, <1>2, <1>3 DEF Typed, TypeOK

LEMMA RequestedTyped ==
    ASSUME Typed, NEW t \in Threads, NEW c, Requested(t, c)
    PROVE  Typed'
<1>1. c \in Call /\ Shape(c)
  BY DEF Requested, ReadNow, Shape
<1>2. TypeOK'
  BY <1>1 DEF Requested, Noticed, Typed, TypeOK
<1>3. \A u \in Threads : call'[u] # None => Shape(call'[u])
  BY <1>1 DEF Requested, Typed, TypeOK
<1> QED
  BY <1>2, <1>3 DEF Typed

\* What no request does.
World ==
    \/ \E b \in Browsers : Logout(b)
    \/ \E b \in Browsers, m \in IdleInputs : SetIdle(b, m)
    \/ Disable \/ Restart \/ Tick

LEMMA WorldTyped == Typed /\ World => Typed'
<1> SUFFICES ASSUME Typed, World PROVE Typed'
  OBVIOUS
<1> USE DEF StoreKept, NobodyAsks, Typed, TypeOK
<1>1. ASSUME NEW b \in Browsers, Logout(b) PROVE Typed'
  BY <1>1 DEF Logout
<1>2. ASSUME NEW b \in Browsers, NEW m \in IdleInputs, SetIdle(b, m) PROVE Typed'
  BY <1>2, AuthAssumption DEF SetIdle
<1>3. CASE Disable
  BY <1>3 DEF Disable
<1>4. CASE Restart
  BY <1>4 DEF Restart
<1>5. CASE Tick
  BY <1>5 DEF Tick
<1> QED
  BY <1>1, <1>2, <1>3, <1>4, <1>5 DEF World

LEMMA TypedStep == Typed /\ [Next]_vars => Typed'
<1> SUFFICES ASSUME Typed, [Next]_vars PROVE Typed'
  OBVIOUS
<1>1. ASSUME NEW t \in Threads, Ask(t) PROVE Typed'
  BY <1>1, AskRequests, RequestedTyped DEF Typed
<1>2. ASSUME NEW t \in Threads, Serve(t) PROVE Typed'
  BY <1>2, ServeAnswers, AnswersTyped
<1>3. CASE World
  BY <1>3, WorldTyped
<1>4. CASE UNCHANGED vars
  BY <1>4 DEF Typed, TypeOK, vars
<1> QED
  BY <1>1, <1>2, <1>3, <1>4 DEF Next, World

\* The store, the cookies and the requests keep their types.
THEOREM AuthTypeCorrect == Spec => []TypeOK
<1>1. Spec => []Typed
  BY InitTyped, TypedStep, PTL DEF Spec
<1>2. Typed => TypeOK
  BY DEF Typed
<1> QED
  BY <1>1, <1>2, PTL

(***************************************************************************)
(* SessionsEnd.                                                            *)
(***************************************************************************)

\* The person behind a request in flight has just made it, or, behind a
\* heartbeat, asked for its session no earlier than the token says.
Witnessed(c) ==
    \A b \in Browsers : b = c.by /\ c.op # "lock" =>
        /\ human[b] = now
        /\ IF c.op = "heartbeat" THEN c.tok.iat <= asked[b] ELSE asked[b] = now

Clocks ==
    /\ \A b \in Browsers : human[b] <= now /\ asked[b] <= now
    /\ \A b \in Browsers : cookie[b] # None =>
          cookie[b].seen <= human[b] /\ cookie[b].iat <= asked[b]
    /\ \A t \in Threads : call[t] # None => Witnessed(call[t])

LEMMA InitClocks == Init => Clocks
BY DEF Init, Clocks

LEMMA RequestedClocks ==
    ASSUME Typed, Clocks, NEW t \in Threads, NEW c, Requested(t, c)
    PROVE  Clocks'
<1>0. /\ now \in Nat /\ human \in [Browsers -> Nat] /\ asked \in [Browsers -> Nat]
      /\ cookie \in [Browsers -> Token \union {None}] /\ call \in [Threads -> Call \union {None}]
  BY DEF Typed, TypeOK
<1>1. \A b \in Browsers : /\ human'[b] \in {human[b], now} /\ asked'[b] \in {asked[b], now}
                          /\ human[b] <= human'[b] /\ human'[b] <= now
                          /\ asked[b] <= asked'[b] /\ asked'[b] <= now
  BY <1>0 DEF Requested, Noticed, Clocks
<1>2. \A b \in Browsers : cookie[b] # None =>
          cookie[b].seen <= human'[b] /\ cookie[b].iat <= asked'[b]
  BY <1>0, <1>1 DEF Clocks, Token
<1>3. ASSUME NEW u \in Threads, u # t, call[u] # None, NEW b \in Browsers,
             b = call[u].by, call[u].op # "lock"
      PROVE  /\ human'[b] = now
             /\ IF call[u].op = "heartbeat" THEN call[u].tok.iat <= asked'[b] ELSE asked'[b] = now
  <2>1. /\ human[b] = now
        /\ IF call[u].op = "heartbeat" THEN call[u].tok.iat <= asked[b] ELSE asked[b] = now
    BY <1>3 DEF Clocks, Witnessed
  <2>2. call[u].op = "heartbeat" => call[u].tok.iat \in Nat
    BY <1>3 DEF Typed, Shape, Token
  <2> QED
    BY <1>0, <1>1, <2>1, <2>2
<1>4. ASSUME NEW b \in Browsers, b = c.by, c.op # "lock"
      PROVE  /\ human'[b] = now
             /\ IF c.op = "heartbeat" THEN c.tok.iat <= asked'[b] ELSE asked'[b] = now
  <2>1. c.op = "heartbeat" => c.tok = cookie[b] /\ cookie[b] # None
    BY <1>4 DEF Requested, ReadNow, Live
  <2>2. human'[b] = now /\ (c.op # "heartbeat" => asked'[b] = now)
    BY <1>4 DEF Requested, Noticed
  <2> QED
    BY <1>2, <2>1, <2>2
<1>5. call'[t] = c /\ cookie' = cookie /\ now' = now /\ \A u \in Threads \ {t} : call'[u] = call[u]
  BY <1>0 DEF Requested
<1>6. \A u \in Threads : call'[u] # None => Witnessed(call[u])'
  BY <1>3, <1>4, <1>5 DEF Witnessed
<1> QED
  BY <1>1, <1>2, <1>5, <1>6 DEF Clocks

LEMMA AnswersClocks ==
    ASSUME Typed, Clocks, NEW t \in Threads, Answers(t)
    PROVE  Clocks'
<1>0. /\ now \in Nat /\ human \in [Browsers -> Nat] /\ asked \in [Browsers -> Nat]
      /\ cookie \in [Browsers -> Token \union {None}] /\ UNCHANGED <<now, human, asked>>
  BY DEF Typed, TypeOK, Answers
<1>1. \A b \in Browsers : cookie'[b] # None =>
          cookie'[b].seen <= human[b] /\ cookie'[b].iat <= asked[b]
  <2>1. CASE Counts(t) \/ Passes(t) \/ Misses(t) \/ Creates(t)
    BY <2>1 DEF Counts, Passes, Misses, Creates, Clocks
  <2>2. CASE Rotates(t)
    BY <2>2 DEF Rotates, Clocks
  <2>3. CASE Issues(t)
    <3>1. call[t].op \notin {"heartbeat", "lock"} /\ call[t] # None
      BY <2>3 DEF Issues, Answers, Typed, Shape
    <3>2. \A b \in Browsers : b = call[t].by =>
              human[b] = now /\ asked[b] = now /\ cookie'[b].seen = now /\ cookie'[b].iat = now
      BY <2>3, <3>1 DEF Issues, Hands, Clocks, Witnessed
    <3>3. \A b \in Browsers : b # call[t].by => cookie'[b] = cookie[b]
      BY <2>3 DEF Issues, Hands
    <3> QED
      BY <1>0, <3>2, <3>3 DEF Clocks
  <2>4. CASE Slides(t)
    <3>1. call[t].op = "heartbeat" /\ call[t] # None
      BY <2>4 DEF Slides, Answers, Typed, Shape
    <3>2. \A b \in Browsers : b = call[t].by =>
              /\ human[b] = now /\ call[t].tok.iat <= asked[b]
              /\ cookie'[b].seen = now /\ cookie'[b].iat = call[t].tok.iat
      BY <2>4, <3>1 DEF Slides, Hands, Clocks, Witnessed
    <3>3. \A b \in Browsers : b # call[t].by => cookie'[b] = cookie[b]
      BY <2>4 DEF Slides, Hands
    <3> QED
      BY <1>0, <3>2, <3>3 DEF Clocks
  <2> QED
    BY <2>1, <2>2, <2>3, <2>4 DEF Answers
<1>2. \A u \in Threads : call'[u] # None => Witnessed(call'[u])
  <2>1. \A u \in Threads \ {t} : call'[u] = call[u]
    BY DEF Answers, Onward, Ended, Moved
  <2>2. call'[t] # None => call'[t].op = call[t].op /\ call'[t].by = call[t].by
                           /\ call'[t].tok = call[t].tok
    BY DEF Answers, Onward, Ended, Moved
  <2>3. call[t] # None
    BY DEF Answers
  <2> QED
    BY <2>1, <2>2, <2>3 DEF Clocks, Witnessed
<1>3. \A u \in Threads : call'[u] # None => Witnessed(call[u])'
  BY <1>0, <1>2 DEF Witnessed
<1> QED
  BY <1>0, <1>1, <1>3 DEF Clocks

LEMMA WorldClocks ==
    ASSUME Typed, Clocks, World
    PROVE  Clocks'
<1> USE DEF NobodyAsks, Clocks, Witnessed
<1>0. /\ now \in Nat /\ human \in [Browsers -> Nat] /\ asked \in [Browsers -> Nat]
      /\ cookie \in [Browsers -> Token \union {None}] /\ call \in [Threads -> Call \union {None}]
  BY DEF Typed, TypeOK
<1>1. ASSUME NEW b \in Browsers, Logout(b) PROVE Clocks'
  BY <1>0, <1>1 DEF Logout
<1>2. ASSUME NEW b \in Browsers, NEW m \in IdleInputs, SetIdle(b, m) PROVE Clocks'
  BY <1>2 DEF SetIdle
<1>3. CASE Disable
  BY <1>3 DEF Disable
<1>4. CASE Restart
  BY <1>0, <1>4 DEF Restart
<1>5. CASE Tick
  BY <1>0, <1>5 DEF Tick, Quiet
<1> QED
  BY <1>1, <1>2, <1>3, <1>4, <1>5 DEF World

LEMMA ClocksStep == Typed /\ Clocks /\ [Next]_vars => Clocks'
<1> SUFFICES ASSUME Typed, Clocks, [Next]_vars PROVE Clocks'
  OBVIOUS
<1>1. ASSUME NEW t \in Threads, Ask(t) PROVE Clocks'
  BY <1>1, AskRequests, RequestedClocks DEF Typed
<1>2. ASSUME NEW t \in Threads, Serve(t) PROVE Clocks'
  BY <1>2, ServeAnswers, AnswersClocks
<1>3. CASE World
  BY <1>3, WorldClocks
<1>4. CASE UNCHANGED vars
  BY <1>4 DEF Clocks, Witnessed, vars
<1> QED
  BY <1>1, <1>2, <1>3, <1>4 DEF Next, World

LEMMA ClocksEndSessions == Typed /\ Clocks => SessionsEnd
<1> SUFFICES ASSUME Typed, Clocks, NEW b \in Browsers, Live(cookie[b])
             PROVE  now - human[b] <= idle_seconds /\ now - asked[b] <= Absolute
  BY DEF SessionsEnd
<1>1. cookie[b] \in Token /\ cookie[b].seen <= human[b] /\ cookie[b].iat <= asked[b]
  BY DEF Live, Typed, TypeOK, Clocks
<1>2. now - cookie[b].seen <= idle_seconds /\ now - cookie[b].iat <= Absolute
  BY DEF Live
<1>3. /\ cookie[b].seen \in Nat /\ cookie[b].iat \in Nat
      /\ human[b] \in Nat /\ asked[b] \in Nat /\ now \in Nat
  BY <1>1 DEF Token, Typed, TypeOK
<1>4. idle_seconds \in Nat
  BY AuthAssumption DEF idle_seconds, Typed, TypeOK
<1> QED
  BY <1>1, <1>2, <1>3, <1>4, AuthAssumption

\* A session that is accepted belongs to a browser where somebody was there
\* within the idle window and asked for it within the hard cap, for any windows
\* and however the requests overlap.
THEOREM SessionsDoEnd == Spec => []SessionsEnd
<1>1. Init => Typed /\ Clocks
  BY InitTyped, InitClocks
<1>2. Typed /\ Clocks /\ [Next]_vars => (Typed /\ Clocks)'
  BY TypedStep, ClocksStep
<1> QED
  BY <1>1, <1>2, ClocksEndSessions, PTL DEF Spec

(***************************************************************************)
(* RevokedStaysRevoked, when no two requests that write the store overlap. *)
(***************************************************************************)

Writes(t) == call[t] # None /\ call[t].op # "heartbeat"

\* Whoever writes the store is alone, and what it has in its hands is what the
\* store holds.
Sole ==
    /\ \A t, u \in Threads : Writes(t) /\ Writes(u) => t = u
    /\ \A t \in Threads : call[t] # None =>
          /\ call[t].pc \in {"hash", "rotate"} => call[t].record = store /\ store # None
          /\ call[t].pc = "create" => store = None

\* Of a token: in this store it stands for no session that was revoked.
Clean(tok) == tok.gen = store.gen => tok.sid \notin revoked

\* A token that matches the store is clean; a secret that is still to be made
\* matches none.  The payload of a heartbeat, which may be signed with another
\* secret than it was read under, is clean or of an earlier generation.
Secrets ==
    /\ revoked \subseteq 1 .. sessions
    /\ store # None => store.secret <= secrets
    /\ \A b \in Browsers : cookie[b] # None =>
          /\ cookie[b].secret <= secrets
          /\ store # None /\ cookie[b].secret = store.secret => Clean(cookie[b])
    /\ \A t \in Threads : call[t] # None /\ call[t].op = "heartbeat" =>
          store # None /\ call[t].tok.gen <= store.gen /\ Clean(call[t].tok)

Secured == Typed /\ Sole /\ Secrets

LEMMA InitSecured == Init => Secured
<1>1. Init => Sole /\ Secrets
  BY DEF Init, Sole, Writes, Secrets
<1> QED
  BY <1>1, InitTyped DEF Secured

LEMMA RequestedSole ==
    ASSUME ~Overlap, Secured, NEW t \in Threads, NEW c, Requested(t, c)
    PROVE  Sole'
<1>1. /\ call[t] = None /\ store' = store /\ call'[t] = c
      /\ \A u \in Threads \ {t} : call'[u] = call[u]
  BY DEF Requested, Secured, Typed, TypeOK
<1>2. c.op = "heartbeat" \/ \A u \in Threads : ~Writes(u)
  BY DEF Requested, MayStart, Writes
<1>3. /\ c.pc \in {"hash", "rotate"} => c.record = store /\ store # None
      /\ c.pc = "create" => store = None
  BY DEF Requested, ReadNow
<1>4. \A u, v \in Threads : Writes(u)' /\ Writes(v)' => u = v
  BY <1>1, <1>2 DEF Writes, Secured, Sole
<1>5. \A u \in Threads : call'[u] # None =>
          /\ call'[u].pc \in {"hash", "rotate"} => call'[u].record = store' /\ store' # None
          /\ call'[u].pc = "create" => store' = None
  BY <1>1, <1>3 DEF Secured, Sole
<1> QED
  BY <1>4, <1>5 DEF Sole

LEMMA RequestedSecrets ==
    ASSUME Secured, NEW t \in Threads, NEW c, Requested(t, c)
    PROVE  Secrets'
<1>1. /\ call'[t] = c /\ UNCHANGED <<store, cookie, secrets, sessions, revoked>>
      /\ \A u \in Threads \ {t} : call'[u] = call[u]
  BY DEF Requested, Secured, Typed, TypeOK
<1>2. c.op = "heartbeat" => store # None /\ c.tok.gen <= store.gen /\ Clean(c.tok)
  <2> SUFFICES ASSUME c.op = "heartbeat"
               PROVE  store # None /\ c.tok.gen <= store.gen /\ Clean(c.tok)
    OBVIOUS
  <2>1. c.by \in Browsers /\ c.tok = cookie[c.by] /\ Live(cookie[c.by])
    BY DEF Requested, ReadNow
  <2>2. c.tok # None /\ store # None /\ c.tok.secret = store.secret /\ c.tok.gen = store.gen
    BY <2>1 DEF Live
  <2>3. store.gen \in Nat
    BY <2>2 DEF Secured, Typed, TypeOK, Record
  <2> QED
    BY <2>1, <2>2, <2>3 DEF Secured, Secrets
<1> QED
  BY <1>1, <1>2 DEF Secured, Secrets, Clean

\* While a request that writes is in flight, the others are heartbeats.
LEMMA OthersAreHeartbeats ==
    ASSUME Secured, NEW t \in Threads, Writes(t), NEW u \in Threads, u # t, call[u] # None
    PROVE  call[u].op = "heartbeat" /\ call[u].pc = "sign"
BY DEF Secured, Sole, Writes, Typed, Shape

LEMMA AnswersSole ==
    ASSUME Secured, NEW t \in Threads, Answers(t)
    PROVE  Sole'
<1>0. call[t] # None /\ Onward(t) /\ Shape(call[t])
  BY DEF Answers, Secured, Typed
<1>1. \A u \in Threads \ {t} : call'[u] = call[u]
  BY <1>0 DEF Onward, Ended, Moved
<1>2. call'[t] # None => call'[t].op = call[t].op
  BY <1>0 DEF Onward, Ended, Moved
<1>3. \A u, v \in Threads : Writes(u)' /\ Writes(v)' => u = v
  BY <1>0, <1>1, <1>2 DEF Writes, Secured, Sole
<1>4. call'[t] # None =>
          /\ call'[t].pc \in {"hash", "rotate"} => call'[t].record = store' /\ store' # None
          /\ call'[t].pc = "create" => store' = None
  BY <1>0 DEF Onward, Ended, Moved
<1>5. ASSUME NEW u \in Threads, u # t, call[u] # None
      PROVE  /\ call[u].pc \in {"hash", "rotate"} => call[u].record = store' /\ store' # None
             /\ call[u].pc = "create" => store' = None
  <2>1. CASE Writes(t)
    BY <1>5, <2>1, OthersAreHeartbeats
  <2>2. CASE ~Writes(t)
    <3>1. call[t].pc = "sign"
      BY <1>0, <2>2 DEF Writes, Shape
    <3>2. store' = store
      BY <3>1 DEF Answers, Counts, Passes, Rotates, Creates, Issues, Slides, Misses
    <3> QED
      BY <1>5, <3>2 DEF Secured, Sole
  <2> QED
    BY <2>1, <2>2
<1>6. \A u \in Threads : call'[u] # None =>
          /\ call'[u].pc \in {"hash", "rotate"} => call'[u].record = store' /\ store' # None
          /\ call'[u].pc = "create" => store' = None
  BY <1>1, <1>4, <1>5
<1> QED
  BY <1>3, <1>6 DEF Sole

LEMMA AnswersSecrets ==
    ASSUME Secured, NEW t \in Threads, Answers(t)
    PROVE  Secrets'
<1>0. /\ call[t] # None /\ Onward(t) /\ Shape(call[t]) /\ Secrets
      /\ secrets \in Nat /\ sessions \in Nat /\ cookie \in [Browsers -> Token \union {None}]
      /\ store \in Record \union {None}
  BY DEF Answers, Secured, Typed, TypeOK
\* A heartbeat in flight was in flight before.
<1>1. \A u \in Threads : call'[u] # None /\ call'[u].op = "heartbeat" =>
          call[u] # None /\ call[u].op = "heartbeat" /\ call'[u].tok = call[u].tok
  BY <1>0 DEF Onward, Ended, Moved
<1>2. \A b \in Browsers : cookie[b] # None => cookie[b].secret \in Nat /\ cookie[b].secret <= secrets
  BY <1>0 DEF Secrets, Token
<1>3. CASE Counts(t)
  <2>1. store # None /\ call[t].record = store
    BY <1>0, <1>3 DEF Counts, Secured, Sole
  <2>2. /\ store' # None => store'.secret = store.secret /\ store'.gen = store.gen
        /\ UNCHANGED <<cookie, secrets, sessions, revoked>>
    BY <1>3, <2>1 DEF Counts
  <2>3. store' # None
    BY <1>3, <2>1, AuthAssumption DEF Counts
  <2> QED
    BY <1>0, <1>1, <2>1, <2>2, <2>3 DEF Secrets, Clean
<1>4. CASE Passes(t) \/ Misses(t)
  BY <1>0, <1>1, <1>4 DEF Passes, Misses, Secrets, Clean
<1>5. CASE Rotates(t)
  <2>1. store # None /\ call[t].record = store /\ Writes(t)
    BY <1>0, <1>5 DEF Rotates, Secured, Sole, Writes, Shape
  <2>2. /\ store'.secret = secrets + 1 /\ store'.gen = store.gen + 1 /\ store.gen \in Nat
        /\ secrets' = secrets + 1 /\ revoked' = 1 .. sessions /\ sessions' = sessions
        /\ \A b \in Browsers : cookie'[b] = cookie[b] \/ cookie'[b] = None
    BY <1>0, <1>5, <2>1 DEF Rotates, Record
  <2>3. store' # None
    BY <1>5, AuthAssumption DEF Rotates
  <2>4. \A b \in Browsers : cookie'[b] # None =>
            cookie'[b].secret <= secrets' /\ cookie'[b].secret # store'.secret
    BY <1>0, <1>2, <2>2
  <2>5. \A u \in Threads : call'[u] # None /\ call'[u].op = "heartbeat" =>
            call'[u].tok.gen < store'.gen
    <3>1. \A u \in Threads : call[u] # None /\ call[u].op = "heartbeat" =>
              call[u].tok.gen <= store.gen /\ call[u].tok.gen \in Nat
      BY <1>0 DEF Secrets, Secured, Typed, Shape, Token
    <3> QED
      BY <1>1, <2>2, <3>1
  <2>6. store'.secret <= secrets' /\ store'.gen \in Nat
    BY <1>0, <2>2
  <2>7. \A u \in Threads : call'[u] # None /\ call'[u].op = "heartbeat" =>
            store' # None /\ call'[u].tok.gen <= store'.gen /\ call'[u].tok.gen # store'.gen
    <3>1. \A u \in Threads : call'[u] # None /\ call'[u].op = "heartbeat" => call'[u].tok.gen \in Nat
      BY <1>1 DEF Secured, Typed, Shape, Token
    <3> QED
      BY <2>3, <2>5, <2>6, <3>1
  <2> QED
    BY <2>2, <2>4, <2>6, <2>7 DEF Secrets, Clean
<1>6. CASE Creates(t)
  <2>1. store = None /\ secrets' = secrets + 1 /\ store'.secret = secrets + 1
        /\ UNCHANGED <<cookie, sessions, revoked>>
    BY <1>0, <1>6 DEF Creates, Secured, Sole
  <2>2. \A b \in Browsers : cookie'[b] # None =>
            cookie'[b].secret <= secrets' /\ cookie'[b].secret # store'.secret
    BY <1>0, <1>2, <2>1
  <2>3. \A u \in Threads : ~(call'[u] # None /\ call'[u].op = "heartbeat")
    BY <1>0, <1>1, <2>1 DEF Secrets
  <2>4. store'.secret <= secrets'
    BY <1>0, <2>1
  <2> QED
    BY <1>0, <2>1, <2>2, <2>3, <2>4 DEF Secrets
<1>7. CASE Issues(t)
  <2>1. /\ store # None /\ sessions' = sessions + 1 /\ UNCHANGED <<store, secrets, revoked>>
        /\ \A b \in Browsers : b # call[t].by => cookie'[b] = cookie[b]
        /\ \A b \in Browsers : b = call[t].by =>
              cookie'[b].secret = store.secret /\ cookie'[b].sid = sessions + 1
    BY <1>7 DEF Issues, Hands
  <2>2. revoked \subseteq 1 .. sessions /\ sessions + 1 \notin revoked
    BY <1>0 DEF Secrets
  <2>3. revoked' \subseteq 1 .. sessions'
    BY <1>0, <2>1, <2>2
  <2>4. \A b \in Browsers : cookie'[b] # None =>
            /\ cookie'[b].secret <= secrets
            /\ cookie'[b].secret = store.secret => Clean(cookie'[b])
    BY <1>0, <2>1, <2>2 DEF Secrets, Clean
  <2> QED
    BY <1>0, <1>1, <2>1, <2>3, <2>4 DEF Secrets, Clean
<1>8. CASE Slides(t)
  <2>1. call[t].op = "heartbeat"
    BY <1>0, <1>8 DEF Slides, Shape
  <2>2. /\ store # None /\ UNCHANGED <<store, secrets, sessions, revoked>>
        /\ \A b \in Browsers : b # call[t].by => cookie'[b] = cookie[b]
        /\ \A b \in Browsers : b = call[t].by =>
              /\ cookie'[b].secret = store.secret
              /\ cookie'[b].sid = call[t].tok.sid /\ cookie'[b].gen = call[t].tok.gen
    BY <1>8 DEF Slides, Hands
  <2>3. Clean(call[t].tok)
    BY <1>0, <2>1 DEF Secrets
  <2>4. \A b \in Browsers : cookie'[b] # None =>
            /\ cookie'[b].secret <= secrets
            /\ cookie'[b].secret = store.secret => Clean(cookie'[b])
    BY <1>0, <2>2, <2>3 DEF Secrets, Clean
  <2> QED
    BY <1>0, <1>1, <2>2, <2>4 DEF Secrets, Clean
<1> QED
  BY <1>3, <1>4, <1>5, <1>6, <1>7, <1>8 DEF Answers

LEMMA WorldSecured ==
    ASSUME ~Overlap, Secured, World
    PROVE  (Sole /\ Secrets)'
<1> USE DEF StoreKept, NobodyAsks, Sole, Secrets, Clean, Writes
<1>0. /\ cookie \in [Browsers -> Token \union {None}] /\ call \in [Threads -> Call \union {None}]
      /\ Sole /\ Secrets
  BY DEF Secured, Typed, TypeOK
<1>1. ASSUME NEW b \in Browsers, Logout(b) PROVE (Sole /\ Secrets)'
  BY <1>0, <1>1 DEF Logout
<1>2. ASSUME NEW b \in Browsers, NEW m \in IdleInputs, SetIdle(b, m) PROVE (Sole /\ Secrets)'
  BY <1>0, <1>2 DEF SetIdle
<1>3. CASE Disable
  <2>1. Quiet
    BY <1>3 DEF Disable
  <2> QED
    BY <1>0, <1>3, <2>1 DEF Disable, Quiet
<1>4. CASE Restart
  BY <1>0, <1>4 DEF Restart
<1>5. CASE Tick
  BY <1>0, <1>5 DEF Tick
<1> QED
  BY <1>1, <1>2, <1>3, <1>4, <1>5 DEF World

LEMMA SecuredStep == ~Overlap /\ Secured /\ [Next]_vars => Secured'
<1> SUFFICES ASSUME ~Overlap, Secured, [Next]_vars PROVE (Sole /\ Secrets)'
  BY TypedStep DEF Secured
<1>1. ASSUME NEW t \in Threads, Ask(t) PROVE (Sole /\ Secrets)'
  BY <1>1, AskRequests, RequestedSole, RequestedSecrets DEF Secured, Typed
<1>2. ASSUME NEW t \in Threads, Serve(t) PROVE (Sole /\ Secrets)'
  BY <1>2, ServeAnswers, AnswersSole, AnswersSecrets DEF Secured
<1>3. CASE World
  BY <1>3, WorldSecured
<1>4. CASE UNCHANGED vars
  BY <1>4 DEF Secured, Sole, Secrets, Clean, Writes, vars
<1> QED
  BY <1>1, <1>2, <1>3, <1>4 DEF Next, World

LEMMA SecuredIsRevoked == Secured => RevokedStaysRevoked
BY DEF Secured, Secrets, Clean, RevokedStaysRevoked, Live

\* If no two requests that write the store overlap, no session that was signed
\* out, locked or changed the PIN over is accepted again, whichever heartbeats
\* were on their way, for any browsers and threads.
THEOREM RevokedForGood == ~Overlap /\ Spec => []RevokedStaysRevoked
<1>1. ~Overlap /\ Secured /\ [Next]_vars => Secured'
  BY SecuredStep
<1>2. CASE ~Overlap
  <2>1. Secured /\ [Next]_vars => Secured'
    BY <1>2, <1>1
  <2> QED
    BY <2>1, InitSecured, SecuredIsRevoked, PTL DEF Spec
<1>3. CASE Overlap
  BY <1>3
<1> QED
  BY <1>2, <1>3

=============================================================================
