----------------------------- MODULE Replay_proofs -----------------------------
(***************************************************************************)
(* For any configuration and any bars, however many: the live driver makes *)
(* the trades of the backtest, the curve is made of its trades, and the    *)
(* intervals of a chart follow the signals.  What the backtest computes is *)
(* a recursive function of the bar, so that each of these is an induction  *)
(* over the bars, by a set of bars that the next one cannot leave.         *)
(***************************************************************************)
EXTENDS ReplayProps, SequenceTheorems, WellFoundedInduction, TLAPS

\* A set that holds 1, and with each number below n the next, holds all to n.
LEMMA UpTo ==
  ASSUME NEW n \in Nat, NEW S, 1 \in S, \A m \in 1 .. n - 1 : m \in S => m + 1 \in S
  PROVE  \A m \in 1 .. n : m \in S
<1> DEFINE Less == OpToRel(<, Nat)
<1> DEFINE Out == {m \in 1 .. n : m \notin S}
<1> HIDE DEF Less
<1>1. IsWellFoundedOn(Less, Nat)
  BY NatLessThanWellFounded DEF Less
<1> SUFFICES ASSUME Out # {} PROVE FALSE
  OBVIOUS
<1>2. Out \subseteq Nat
  OBVIOUS
<1>3. PICK x \in Out : \A y \in Out : ~ (<<y, x>> \in Less)
  <2> HIDE DEF Out
  <2> QED BY <1>1, <1>2, WFMin
<1>4. \A y \in Out : ~ (y < x)
  <2> HIDE DEF Out
  <2> SUFFICES ASSUME NEW y \in Out, y < x PROVE <<y, x>> \in Less
    BY <1>3
  <2> QED BY <1>2 DEF Less, OpToRel
<1>5. x # 1 /\ x - 1 \in 1 .. n - 1 /\ x - 1 \in Nat
  BY <1>3
<1>6. x - 1 \in S
  BY <1>4, <1>5
<1>7. (x - 1) + 1 \in S
  BY <1>5, <1>6
<1> QED
  BY <1>3, <1>5, <1>7

(***************************************************************************)
(* The folds.                                                              *)
(***************************************************************************)

\* At most two intents are settled.
LEMMA ActedOver ==
  ASSUME NEW all, NEW s, NEW k, NEW intents, Len(intents) \in 0 .. 2
  PROVE  LET after(r, i) == [pos    |-> intents[i].pos,
                             ledger |-> settle(r.ledger, all, r.pos, k, intents[i])]
         IN  Acted(all, s, k, intents) = IF Len(intents) = 0 THEN s
                                         ELSE IF Len(intents) = 1 THEN after(s, 1)
                                         ELSE after(after(s, 1), 2)
<1> DEFINE after(r, i) == [pos    |-> intents[i].pos,
                           ledger |-> settle(r.ledger, all, r.pos, k, intents[i])]
           n == Len(intents)
           P(f) == f = [i \in 0 .. n |-> IF i = 0 THEN s ELSE after(f[i - 1], i)]
           h == CHOOSE f : P(f)
<1>1. Acted(all, s, k, intents) = h[n]
  BY DEF Acted
<1>2. n \in 0 .. 2
  OBVIOUS
<1> HIDE DEF n, after
<1>3. \E f : P(f)
  <2> DEFINE s1 == after(s, 1)
             g  == [i \in 0 .. n |-> IF i = 0 THEN s ELSE IF i = 1 THEN s1 ELSE after(s1, 2)]
  <2>1. P(g)
    <3> HIDE DEF s1
    <3> SUFFICES ASSUME NEW i \in 0 .. n
                 PROVE  g[i] = IF i = 0 THEN s ELSE after(g[i - 1], i)
      OBVIOUS
    <3>1. CASE i = 0
      BY <3>1
    <3>2. CASE i = 1
      BY <3>2, <1>2 DEF s1
    <3>3. CASE i = 2
      BY <3>3, <1>2
    <3> QED BY <1>2, <3>1, <3>2, <3>3
  <2> HIDE DEF g, P
  <2> QED BY <2>1
<1>4. P(h)
  BY <1>3
<1> HIDE DEF h
<1>5. h[0] = s
  BY <1>2, <1>4
<1>6. n >= 1 => h[1] = after(s, 1)
  BY <1>2, <1>4, <1>5
<1>7. n = 2 => h[2] = after(h[1], 2)
  BY <1>2, <1>4
<1>8. h[n] = IF n = 0 THEN s ELSE IF n = 1 THEN after(s, 1) ELSE after(after(s, 1), 2)
  BY <1>2, <1>5, <1>6, <1>7
<1> QED
  BY <1>1, <1>8 DEF n, after

LEMMA SubmittedOver ==
  ASSUME NEW quantity, NEW intents, Len(intents) \in 0 .. 2
  PROVE  Submitted(quantity, intents) =
            IF Len(intents) = 0 THEN quantity
            ELSE IF Len(intents) = 1 THEN submit(quantity, intents[1])
            ELSE submit(submit(quantity, intents[1]), intents[2])
<1> DEFINE n == Len(intents)
           P(f) == f = [i \in 0 .. n |-> IF i = 0 THEN quantity ELSE submit(f[i - 1], intents[i])]
           h == CHOOSE f : P(f)
<1>1. Submitted(quantity, intents) = h[n]
  BY DEF Submitted
<1>2. n \in 0 .. 2
  OBVIOUS
<1> HIDE DEF n
<1>3. \E f : P(f)
  <2> DEFINE s1 == submit(quantity, intents[1])
             g  == [i \in 0 .. n |-> IF i = 0 THEN quantity
                                     ELSE IF i = 1 THEN s1 ELSE submit(s1, intents[2])]
  <2>1. P(g)
    <3> HIDE DEF s1
    <3> SUFFICES ASSUME NEW i \in 0 .. n
                 PROVE  g[i] = IF i = 0 THEN quantity ELSE submit(g[i - 1], intents[i])
      OBVIOUS
    <3>1. CASE i = 0
      BY <3>1
    <3>2. CASE i = 1
      BY <3>2, <1>2 DEF s1
    <3>3. CASE i = 2
      BY <3>3, <1>2
    <3> QED BY <1>2, <3>1, <3>2, <3>3
  <2> HIDE DEF g, P
  <2> QED BY <2>1
<1>4. P(h)
  BY <1>3
<1> HIDE DEF h
<1>5. h[0] = quantity
  BY <1>2, <1>4
<1>6. n >= 1 => h[1] = submit(quantity, intents[1])
  BY <1>2, <1>4, <1>5
<1>7. n = 2 => h[2] = submit(h[1], intents[2])
  BY <1>2, <1>4
<1>8. h[n] = IF n = 0 THEN quantity ELSE IF n = 1 THEN submit(quantity, intents[1])
             ELSE submit(submit(quantity, intents[1]), intents[2])
  BY <1>2, <1>5, <1>6, <1>7
<1> QED
  BY <1>1, <1>8 DEF n

\* The states of the backtest, bar by bar.
Start(all) == [pos |-> None, ledger |-> Ledger(Len(all)), seen |-> <<>>]
IsBatch(cfg, all, f) ==
    f = [k \in 1 .. Len(all) |-> IF k = 1 THEN Start(all) ELSE Filled(cfg, all, f[k - 1], k)]

LEMMA BatchExists ==
  ASSUME NEW cfg, NEW all, Len(all) \in Nat \ {0}
  PROVE  \E f : IsBatch(cfg, all, f) /\ Batch(cfg, all) = f[Len(all)]
<1> DEFINE n == Len(all)
           After(s, k) == Filled(cfg, all, s, k)
           Upto(m, f) == \A k \in 1 .. m : f[k] = IF k = 1 THEN Start(all) ELSE After(f[k - 1], k)
           S == {m \in 1 .. n : \E f : Upto(m, f)}
<1> n \in Nat \ {0}
  OBVIOUS
<1> HIDE DEF n, After
<1>1. 1 \in S
  <2> DEFINE g == [k \in {1} |-> Start(all)]
  <2>1. Upto(1, g)
    <3>1. \A k \in 1 .. 1 : k = 1 /\ g[k] = Start(all)
      OBVIOUS
    <3> HIDE DEF g
    <3> QED BY <3>1
  <2> HIDE DEF g, Upto
  <2> QED BY <2>1
<1>2. \A m \in 1 .. n - 1 : m \in S => m + 1 \in S
  <2> SUFFICES ASSUME NEW m \in 1 .. n - 1, m \in S PROVE m + 1 \in S
    OBVIOUS
  <2>1. PICK f : Upto(m, f)
    OBVIOUS
  <2> DEFINE g == [k \in 1 .. m + 1 |-> IF k = m + 1 THEN After(f[m], k) ELSE f[k]]
  <2>2. Upto(m + 1, g)
    <3> SUFFICES ASSUME NEW k \in 1 .. m + 1
                 PROVE  g[k] = IF k = 1 THEN Start(all) ELSE After(g[k - 1], k)
      OBVIOUS
    <3>1. CASE k = m + 1
      <4>1. k # 1 /\ k - 1 = m /\ m \in 1 .. m + 1 /\ m # m + 1 /\ k \in 1 .. m + 1
        BY <3>1
      <4>2. g[k] = After(f[m], k) /\ g[m] = f[m]
        BY <3>1, <4>1
      <4> HIDE DEF g
      <4> QED BY <4>1, <4>2
    <3>2. CASE k # m + 1
      <4>1. k \in 1 .. m /\ g[k] = f[k]
        BY <3>2
      <4>2. k # 1 => g[k - 1] = f[k - 1]
        BY <4>1
      <4> QED BY <2>1, <4>1, <4>2
    <3> QED BY <3>1, <3>2
  <2> HIDE DEF Upto, g
  <2>3. m + 1 \in 1 .. n
    OBVIOUS
  <2> QED BY <2>2, <2>3
<1>3. n \in S
  <2> HIDE DEF S
  <2>1. \A m \in 1 .. n : m \in S
    BY <1>1, <1>2, UpTo
  <2> QED BY <2>1
<1>4. \E f : IsBatch(cfg, all, f)
  <2>1. PICK f : Upto(n, f)
    BY <1>3
  <2> DEFINE g == [k \in 1 .. n |-> f[k]]
  <2>2. \A k \in 1 .. n : k # 1 => k - 1 \in 1 .. n
    OBVIOUS
  <2>3. g = [k \in 1 .. n |-> IF k = 1 THEN Start(all) ELSE After(g[k - 1], k)]
    BY <2>1, <2>2
  <2> HIDE DEF g
  <2>4. IsBatch(cfg, all, g)
    BY <2>3 DEF IsBatch, n, After
  <2> QED BY <2>4
<1> DEFINE h == CHOOSE f : IsBatch(cfg, all, f)
<1>5. Batch(cfg, all) = h[Len(all)]
  BY DEF Batch, IsBatch, Start
<1> QED
  BY <1>4, <1>5

LEMMA BatchSteps ==
  ASSUME NEW cfg, NEW all, Len(all) \in Nat \ {0}, NEW f, IsBatch(cfg, all, f)
  PROVE  /\ f[1] = Start(all)
         /\ \A k \in 2 .. Len(all) : f[k] = Filled(cfg, all, f[k - 1], k)
<1> DEFINE n == Len(all)
<1>1. n \in Nat \ {0}
  OBVIOUS
<1>2. f = [k \in 1 .. n |-> IF k = 1 THEN Start(all) ELSE Filled(cfg, all, f[k - 1], k)]
  BY DEF IsBatch
<1> HIDE DEF n
<1>3. 1 \in 1 .. n /\ \A k \in 2 .. n : k \in 1 .. n /\ k # 1
  BY <1>1
<1>4. f[1] = Start(all) /\ \A k \in 2 .. n : f[k] = Filled(cfg, all, f[k - 1], k)
  BY <1>2, <1>3
<1> QED
  BY <1>4 DEF n

(***************************************************************************)
(* What a bar does.                                                        *)
(***************************************************************************)

Enters(cfg, pos, act) == pos = None /\ Wants(cfg, act)
Leaves(pos, act)      == pos # None /\ Opposes(pos, act)

\* Stopped out, or its profit taken, at that level.
AtLevel(cfg, pos, hit) == _close_at(cfg, pos, pos.levels[hit], hit)

LEMMA TwoInARow ==
  ASSUME NEW a, NEW b
  PROVE  <<a>> \o <<b>> = <<a, b>>
<1> DEFINE S == {a, b}
<1>1. <<a>> \in Seq(S) /\ <<b>> \in Seq(S) /\ <<a, b>> \in Seq(S)
  OBVIOUS
<1> DEFINE ab == <<a>> \o <<b>>
<1>2. ab \in Seq(S) /\ Len(ab) = 2 /\ ab[1] = a /\ ab[2] = b
  BY <1>1, ConcatProperties
<1>3. Len(<<a, b>>) = 2 /\ <<a, b>>[1] = a /\ <<a, b>>[2] = b
  OBVIOUS
<1> HIDE DEF ab
<1>4. \A i \in 1 .. Len(ab) : ab[i] = <<a, b>>[i]
  BY <1>2, <1>3
<1> QED
  BY <1>1, <1>2, <1>3, <1>4, SeqEqual DEF ab

LEMMA StepForms ==
  ASSUME NEW cfg, NEW pos, NEW seen, NEW k, NEW bar, NEW act
  PROVE  LET E       == _entry_intent(cfg, seen, k, bar, act)
             todo    == step(cfg, pos, seen, k, bar, act)
         IN  \/ Leaves(pos, act) /\ todo = <<_close_at(cfg, pos, bar.open, "signal")>>
             \/ ~Leaves(pos, act) /\ ~Enters(cfg, pos, act) /\ todo = <<>>
             \/ Enters(cfg, pos, act) /\ todo = <<E>>
             \/ /\ pos # None /\ ~Leaves(pos, act)
                /\ \E hit \in {"stop", "take"} :
                      LevelHit(pos, bar) = hit /\ todo = <<AtLevel(cfg, pos, hit)>>
             \/ /\ Enters(cfg, pos, act)
                /\ \E hit \in {"stop", "take"} :
                      LevelHit(E.pos, bar) = hit /\ todo = <<E, AtLevel(cfg, E.pos, hit)>>
<1> DEFINE E     == _entry_intent(cfg, seen, k, bar, act)
           entry == IF pos = None /\ Wants(cfg, act) THEN <<E>> ELSE <<>>
           open  == IF entry # <<>> THEN entry[1].pos ELSE pos
           hit   == IF open = None THEN None ELSE LevelHit(open, bar)
           todo  == step(cfg, pos, seen, k, bar, act)
<1>1. todo = IF pos # None /\ Opposes(pos, act) THEN <<_close_at(cfg, pos, bar.open, "signal")>>
             ELSE IF hit = None THEN entry
             ELSE entry \o <<AtLevel(cfg, open, hit)>>
  BY DEF step, AtLevel
<1>2. \A q : LevelHit(q, bar) \in {"stop", "take", None}
  BY DEF LevelHit
<1> HIDE DEF E, todo
<1>3. CASE Leaves(pos, act)
  BY <1>1, <1>3 DEF Leaves, todo
<1>4. CASE ~Leaves(pos, act) /\ Enters(cfg, pos, act)
  <2>1. entry = <<E>> /\ open = E.pos
    BY <1>4 DEF Enters
  <2>2. CASE hit = None
    BY <1>1, <1>4, <2>1, <2>2 DEF Leaves, E, todo
  <2>3. CASE hit # None
    <3>1. hit = LevelHit(E.pos, bar) /\ hit \in {"stop", "take"}
      BY <1>2, <2>1, <2>3
    <3>2. todo = <<E>> \o <<AtLevel(cfg, E.pos, hit)>>
      BY <1>1, <1>4, <2>1, <2>3 DEF Leaves
    <3> HIDE DEF hit
    <3>3. todo = <<E, AtLevel(cfg, E.pos, hit)>>
      BY <3>2, TwoInARow
    <3> QED BY <1>4, <3>1, <3>3 DEF E, todo
  <2> QED BY <2>2, <2>3
<1>5. CASE ~Leaves(pos, act) /\ ~Enters(cfg, pos, act)
  <2>1. entry = <<>> /\ open = pos
    BY <1>5 DEF Enters
  <2>2. CASE hit = None
    BY <1>1, <1>5, <2>1, <2>2 DEF Leaves, todo
  <2>3. CASE hit # None
    <3>1. hit = LevelHit(pos, bar) /\ hit \in {"stop", "take"} /\ pos # None
      BY <1>2, <2>1, <2>3
    <3>2. todo = <<>> \o <<AtLevel(cfg, pos, hit)>>
      BY <1>1, <1>5, <2>1, <2>3 DEF Leaves
    <3> HIDE DEF hit
    <3>3. todo = <<AtLevel(cfg, pos, hit)>>
      BY <3>2
    <3> QED BY <1>5, <3>1, <3>3 DEF E, todo
  <2> QED BY <2>2, <2>3
<1> QED
  BY <1>3, <1>4, <1>5

\* What the intents of a bar make of a position and a ledger.
LEMMA ActedForms ==
  ASSUME NEW cfg, NEW pos, NEW seen, NEW k, NEW bar, NEW act, NEW all, NEW led
  PROVE  LET E  == _entry_intent(cfg, seen, k, bar, act)
             r  == Acted(all, [pos |-> pos, ledger |-> led], k, step(cfg, pos, seen, k, bar, act))
             At(p, hit) == AtLevel(cfg, p, hit)
         IN  \/ /\ Leaves(pos, act) /\ r.pos = None
                /\ r.ledger = book(led, all, pos, k - 1, k, Costed(cfg, bar.open, pos.short), "signal")
             \/ ~Leaves(pos, act) /\ ~Enters(cfg, pos, act) /\ r.pos = pos /\ r.ledger = led
             \/ Enters(cfg, pos, act) /\ r.pos = E.pos /\ r.ledger = led
             \/ /\ pos # None /\ ~Leaves(pos, act) /\ r.pos = None
                /\ \E hit \in {"stop", "take"} :
                      /\ LevelHit(pos, bar) = hit
                      /\ r.ledger = book(led, all, pos, k, k, At(pos, hit).price, hit)
             \/ /\ Enters(cfg, pos, act) /\ r.pos = None
                /\ \E hit \in {"stop", "take"} :
                      /\ LevelHit(E.pos, bar) = hit
                      /\ r.ledger = book(led, all, E.pos, k, k, At(E.pos, hit).price, hit)
<1> DEFINE E    == _entry_intent(cfg, seen, k, bar, act)
           todo == step(cfg, pos, seen, k, bar, act)
           s    == [pos |-> pos, ledger |-> led]
           r    == Acted(all, s, k, todo)
           Over(t) == LET after(q, i) == [pos    |-> t[i].pos,
                                          ledger |-> settle(q.ledger, all, q.pos, k, t[i])]
                      IN  IF Len(t) = 0 THEN s ELSE IF Len(t) = 1 THEN after(s, 1)
                          ELSE after(after(s, 1), 2)
<1>1. E.action = "open"
  BY DEF _entry_intent
<1>2. \A p, price, reason : /\ _close_at(cfg, p, price, reason).action = "close"
                            /\ _close_at(cfg, p, price, reason).reason = reason
                            /\ _close_at(cfg, p, price, reason).price = Costed(cfg, price, p.short)
                            /\ _close_at(cfg, p, price, reason).pos = None
  BY DEF _close_at
<1>3. s.pos = pos /\ s.ledger = led
  OBVIOUS
<1>4. Len(todo) \in 0 .. 2 => r = Over(todo)
  BY ActedOver
<1> HIDE DEF E, todo, s, r
<1>5. CASE Leaves(pos, act) /\ todo = <<_close_at(cfg, pos, bar.open, "signal")>>
  <2> DEFINE c == _close_at(cfg, pos, bar.open, "signal")
  <2>1. c.action = "close" /\ c.reason = "signal" /\ c.price = Costed(cfg, bar.open, pos.short) /\ c.pos = None
    BY <1>2
  <2> HIDE DEF c
  <2>2. todo = <<c>> /\ Len(todo) = 1 /\ todo[1] = c
    BY <1>5 DEF c
  <2>3. r.pos = c.pos /\ r.ledger = settle(led, all, pos, k, c)
    BY <1>3, <1>4, <2>2
  <2>4. r.ledger = book(led, all, pos, k - 1, k, Costed(cfg, bar.open, pos.short), "signal")
    BY <2>1, <2>3 DEF settle
  <2> QED BY <1>5, <2>1, <2>3, <2>4 DEF E, r, todo, s
<1>6. CASE ~Leaves(pos, act) /\ ~Enters(cfg, pos, act) /\ todo = <<>>
  <2>1. r.pos = pos /\ r.ledger = led
    BY <1>3, <1>4, <1>6
  <2> QED BY <1>6, <2>1 DEF E, r, todo, s
<1>7. CASE Enters(cfg, pos, act) /\ todo = <<E>>
  <2>1. Len(todo) = 1 /\ todo[1] = E
    BY <1>7
  <2>2. r.pos = E.pos /\ r.ledger = settle(led, all, pos, k, E)
    BY <1>3, <1>4, <2>1
  <2>3. r.ledger = led
    BY <1>1, <2>2 DEF settle
  <2> QED BY <1>7, <2>2, <2>3 DEF E, r, todo, s
<1>8. ASSUME pos # None, ~Leaves(pos, act), NEW hit \in {"stop", "take"},
             LevelHit(pos, bar) = hit, todo = <<AtLevel(cfg, pos, hit)>>
      PROVE  r.pos = None /\ r.ledger = book(led, all, pos, k, k, AtLevel(cfg, pos, hit).price, hit)
  <2> DEFINE c == AtLevel(cfg, pos, hit)
  <2>1. c.action = "close" /\ c.reason = hit /\ c.pos = None
    BY <1>2 DEF AtLevel
  <2> HIDE DEF c
  <2>2. todo = <<c>> /\ Len(todo) = 1 /\ todo[1] = c
    BY <1>8 DEF c
  <2>3. r.pos = c.pos /\ r.ledger = settle(led, all, pos, k, c)
    BY <1>3, <1>4, <2>2
  <2>4. r.ledger = book(led, all, pos, k, k, c.price, hit)
    BY <2>1, <2>3 DEF settle
  <2> QED BY <2>1, <2>3, <2>4 DEF c
<1>9. ASSUME Enters(cfg, pos, act), NEW hit \in {"stop", "take"},
             LevelHit(E.pos, bar) = hit, todo = <<E, AtLevel(cfg, E.pos, hit)>>
      PROVE  r.pos = None /\ r.ledger = book(led, all, E.pos, k, k, AtLevel(cfg, E.pos, hit).price, hit)
  <2> DEFINE c == AtLevel(cfg, E.pos, hit)
  <2>1. c.action = "close" /\ c.reason = hit /\ c.pos = None
    BY <1>2 DEF AtLevel
  <2> HIDE DEF c
  <2>2. todo = <<E, c>> /\ Len(todo) = 2 /\ todo[1] = E /\ todo[2] = c
    BY <1>9 DEF c
  <2>3. settle(led, all, pos, k, E) = led
    BY <1>1 DEF settle
  <2>4. r.pos = c.pos /\ r.ledger = settle(led, all, E.pos, k, c)
    BY <1>3, <1>4, <2>2, <2>3
  <2>5. r.ledger = book(led, all, E.pos, k, k, c.price, hit)
    BY <2>1, <2>4 DEF settle
  <2> QED BY <2>1, <2>4, <2>5 DEF c
<1>10. \/ Leaves(pos, act) /\ todo = <<_close_at(cfg, pos, bar.open, "signal")>>
       \/ ~Leaves(pos, act) /\ ~Enters(cfg, pos, act) /\ todo = <<>>
       \/ Enters(cfg, pos, act) /\ todo = <<E>>
       \/ /\ pos # None /\ ~Leaves(pos, act)
          /\ \E hit \in {"stop", "take"} :
                LevelHit(pos, bar) = hit /\ todo = <<AtLevel(cfg, pos, hit)>>
       \/ /\ Enters(cfg, pos, act)
          /\ \E hit \in {"stop", "take"} :
                LevelHit(E.pos, bar) = hit /\ todo = <<E, AtLevel(cfg, E.pos, hit)>>
  BY StepForms DEF E, todo
<1>11. CASE pos # None /\ ~Leaves(pos, act)
            /\ \E hit \in {"stop", "take"} :
                  LevelHit(pos, bar) = hit /\ todo = <<AtLevel(cfg, pos, hit)>>
  BY <1>8, <1>11 DEF E, r, todo, s
<1>12. CASE Enters(cfg, pos, act)
            /\ \E hit \in {"stop", "take"} :
                  LevelHit(E.pos, bar) = hit /\ todo = <<E, AtLevel(cfg, E.pos, hit)>>
  BY <1>9, <1>12 DEF E, r, todo, s
<1> QED
  BY <1>5, <1>6, <1>7, <1>10, <1>11, <1>12

(***************************************************************************)
(* Types.                                                                  *)
(***************************************************************************)

LegOf(reasons) == [entry : Nat, exit : Nat, short : BOOLEAN, price : Int, exit_price : Int,
                   weight : Seq(Nat), reason : reasons]
Leg    == LegOf({"signal", "stop", "take"})
AnyLeg == LegOf({"signal", "stop", "take", "forced"})

LEMMA SeenType ==
  ASSUME NEW cfg \in StrategyConfig, NEW seen \in Seq(Nat), NEW close \in Nat
  PROVE  observe_close(cfg, seen, close) \in Seq(Nat)
<1> DEFINE all == Append(seen, close)
<1>1. all \in Seq(Nat) /\ Len(all) \in Nat
  OBVIOUS
<1>2. cfg.period \in Nat
  BY DEF StrategyConfig
<1> HIDE DEF all
<1>3. ASSUME Len(all) > cfg.period + 2
      PROVE  SubSeq(all, Len(all) - (cfg.period + 2) + 1, Len(all)) \in Seq(Nat)
  <2> DEFINE m == Len(all) - (cfg.period + 2) + 1
  <2>1. m \in 1 .. Len(all) + 1 /\ Len(all) \in (m - 1) .. Len(all)
    BY <1>1, <1>2, <1>3
  <2> HIDE DEF m
  <2>2. \A i \in m .. Len(all) : all[i] \in Nat
    BY <1>1, <2>1
  <2>3. SubSeq(all, m, Len(all)) \in Seq(Nat)
    BY <1>1, <2>1, <2>2, SubSeqProperties
  <2> QED BY <2>3 DEF m
<1> QED
  BY <1>1, <1>2, <1>3 DEF observe_close, all

LEMMA WeightType ==
  ASSUME NEW cfg \in StrategyConfig, NEW seen \in Seq(Nat)
  PROVE  deploy_weight(cfg, seen) \in Seq(Nat)
<1>1. cfg.period \in Nat /\ Len(seen) \in Nat
  BY DEF StrategyConfig
<1> DEFINE m == IF Len(seen) > cfg.period THEN Len(seen) - cfg.period ELSE 1
<1>2. ASSUME Len(seen) >= 3
      PROVE  SubSeq(seen, m, Len(seen)) \in Seq(Nat)
  <2>1. m \in 1 .. Len(seen) + 1 /\ Len(seen) \in (m - 1) .. Len(seen)
    BY <1>1, <1>2
  <2> HIDE DEF m
  <2>2. \A i \in m .. Len(seen) : seen[i] \in Nat
    BY <1>1, <2>1
  <2> QED BY <1>1, <2>1, <2>2, SubSeqProperties
<1>3. <<>> \in Seq(Nat)
  OBVIOUS
<1> QED
  BY <1>1, <1>2, <1>3 DEF deploy_weight, realized_volatility

\* A position that bar k has opened.
NewPos(cfg, p, k, act) ==
    /\ p \in Position /\ p.entry = k /\ p.short = (act = "SELL")
    /\ p.levels = levels(cfg, p.price, p.short)

LEMMA EntryType ==
  ASSUME NEW cfg \in StrategyConfig, NEW seen \in Seq(Nat), NEW k \in Nat, NEW bar \in Bar, NEW act
  PROVE  LET E == _entry_intent(cfg, seen, k, bar, act)
         IN  /\ NewPos(cfg, E.pos, k, act) /\ E.pos # None
             /\ E.action = "open" /\ E.short = E.pos.short
<1> DEFINE short == act = "SELL"
           price == Costed(cfg, bar.open, ~short)
           lev   == levels(cfg, price, short)
           w     == deploy_weight(cfg, seen)
           p     == [entry |-> k, price |-> price, short |-> short, levels |-> lev, weight |-> w]
           E     == _entry_intent(cfg, seen, k, bar, act)
<1>1. E.pos = p /\ E.action = "open" /\ E.short = short
  BY DEF _entry_intent
<1>2. /\ bar.open \in Nat /\ cfg.cost \in Nat /\ cfg.stop \in Nat /\ cfg.take \in Nat
      /\ short \in BOOLEAN
  BY DEF Bar, StrategyConfig
<1> HIDE DEF short
<1>3. price \in Int
  BY <1>2 DEF Costed
<1> HIDE DEF price
<1>4. lev \in [stop : Int \union {None}, take : Int \union {None}]
  BY <1>2, <1>3 DEF levels
<1>5. w \in Seq(Nat)
  BY WeightType
<1> HIDE DEF w, E
<1>6. /\ p.entry = k /\ p.price = price /\ p.short = short /\ p.levels = levels(cfg, price, short)
      /\ p \in Position
  <2>1. p.entry = k /\ p.price = price /\ p.short = short /\ p.levels = levels(cfg, price, short)
    OBVIOUS
  <2> HIDE DEF lev
  <2>2. p \in Position
    BY <1>2, <1>3, <1>4, <1>5 DEF Position
  <2> QED BY <2>1, <2>2
<1> HIDE DEF p, lev
<1>7. p # None
  BY <1>6, ReplayAssumption
<1> QED
  BY <1>1, <1>6, <1>7 DEF NewPos, E, short

\* A level that is hit is there, and the exit has its price.
LEMMA LevelPrice ==
  ASSUME NEW cfg \in StrategyConfig, NEW p \in Position, NEW bar \in Bar,
         NEW hit \in {"stop", "take"}, LevelHit(p, bar) = hit
  PROVE  AtLevel(cfg, p, hit).price \in Int /\ p.levels[hit] # None
<1>1. /\ p.levels.stop \in Int \union {None} /\ p.levels.take \in Int \union {None}
      /\ p.short \in BOOLEAN /\ cfg.cost \in Nat
  BY DEF Position, StrategyConfig
<1>2. p.levels[hit] # None
  <2>1. hit # None
    BY ReplayAssumption
  <2>2. CASE hit = "stop"
    BY <2>2, <2>1 DEF LevelHit
  <2>3. CASE hit = "take"
    BY <2>3, <2>1 DEF LevelHit
  <2> QED BY <2>2, <2>3
<1>3. p.levels[hit] \in Int
  BY <1>1, <1>2
<1> QED
  BY <1>1, <1>2, <1>3 DEF AtLevel, _close_at, Costed

(***************************************************************************)
(* A bar of the backtest.                                                  *)
(***************************************************************************)

LastBarOf(leg) == IF leg.reason \in {"signal", "forced"} THEN leg.exit - 1 ELSE leg.exit

BatchType(s) ==
    /\ s.pos \in Position \union {None}
    /\ s.seen \in Seq(Nat)

\* The three things a bar may do to a position.
Stays(s, t) == t.pos = s.pos /\ t.ledger = s.ledger
Opens(cfg, s, t, k, act) ==
    Enters(cfg, s.pos, act) /\ t.pos # None /\ NewPos(cfg, t.pos, k, act) /\ t.ledger = s.ledger
Closes(cfg, all, s, t, k, act, p, price, reason) ==
    /\ p \in Position /\ price \in Int /\ t.pos = None
    /\ t.ledger = book(s.ledger, all, p, IF reason = "signal" THEN k - 1 ELSE k, k, price, reason)
    /\ \/ s.pos # None /\ p = s.pos /\ (reason = "signal" <=> Opposes(p, act))
       \/ Enters(cfg, s.pos, act) /\ NewPos(cfg, p, k, act) /\ reason # "signal"
    /\ reason # "signal" => p.levels[reason] # None

LEMMA FilledForms ==
  ASSUME NEW cfg \in StrategyConfig, NEW all \in Seq(Bar), NEW k \in 2 .. Len(all),
         NEW s, BatchType(s)
  PROVE  LET t   == Filled(cfg, all, s, k)
             act == all[k - 1].signal
         IN  /\ BatchType(t)
             /\ t.seen = observe_close(cfg, s.seen, all[k - 1].close)
             /\ \/ Stays(s, t) /\ ~Leaves(s.pos, act) /\ ~Enters(cfg, s.pos, act)
                \/ Opens(cfg, s, t, k, act)
                \/ \E p, price : \E reason \in {"signal", "stop", "take"} :
                      Closes(cfg, all, s, t, k, act, p, price, reason)
<1> DEFINE bar  == all[k]
           act  == all[k - 1].signal
           seen == observe_close(cfg, s.seen, all[k - 1].close)
           E    == _entry_intent(cfg, seen, k, bar, act)
           r    == Acted(all, [pos |-> s.pos, ledger |-> s.ledger], k,
                         step(cfg, s.pos, seen, k, bar, act))
           t    == Filled(cfg, all, s, k)
<1>1. t.pos = r.pos /\ t.ledger = r.ledger /\ t.seen = seen
  BY DEF Filled
<1>2. bar \in Bar /\ all[k - 1] \in Bar /\ all[k - 1].close \in Nat /\ k \in Nat /\ bar.open \in Nat
  <2>1. Len(all) \in Nat /\ k \in 1 .. Len(all) /\ k - 1 \in 1 .. Len(all)
    OBVIOUS
  <2>2. all[k] \in Bar /\ all[k - 1] \in Bar
    BY <2>1
  <2>3. all[k].open \in Nat /\ all[k - 1].close \in Nat
    BY <2>2 DEF Bar
  <2> QED BY <2>1, <2>2, <2>3
<1>3. seen \in Seq(Nat)
  BY <1>2, SeenType DEF BatchType
<1> HIDE DEF bar, act, seen
<1>4. NewPos(cfg, E.pos, k, act) /\ E.pos # None /\ E.pos \in Position
  BY <1>2, <1>3, EntryType DEF NewPos
<1>5. \/ /\ Leaves(s.pos, act) /\ r.pos = None
         /\ r.ledger = book(s.ledger, all, s.pos, k - 1, k, Costed(cfg, bar.open, s.pos.short), "signal")
      \/ ~Leaves(s.pos, act) /\ ~Enters(cfg, s.pos, act) /\ r.pos = s.pos /\ r.ledger = s.ledger
      \/ Enters(cfg, s.pos, act) /\ r.pos = E.pos /\ r.ledger = s.ledger
      \/ /\ s.pos # None /\ ~Leaves(s.pos, act) /\ r.pos = None
         /\ \E hit \in {"stop", "take"} :
               /\ LevelHit(s.pos, bar) = hit
               /\ r.ledger = book(s.ledger, all, s.pos, k, k, AtLevel(cfg, s.pos, hit).price, hit)
      \/ /\ Enters(cfg, s.pos, act) /\ r.pos = None
         /\ \E hit \in {"stop", "take"} :
               /\ LevelHit(E.pos, bar) = hit
               /\ r.ledger = book(s.ledger, all, E.pos, k, k, AtLevel(cfg, E.pos, hit).price, hit)
  BY ActedForms
<1> HIDE DEF E, r, t
<1>6. BatchType(t)
  BY <1>1, <1>3, <1>4, <1>5 DEF BatchType
<1>7. ASSUME Leaves(s.pos, act), r.pos = None,
             r.ledger = book(s.ledger, all, s.pos, k - 1, k, Costed(cfg, bar.open, s.pos.short), "signal")
      PROVE  Closes(cfg, all, s, t, k, act, s.pos, Costed(cfg, bar.open, s.pos.short), "signal")
  <2>1. s.pos \in Position /\ s.pos # None /\ Opposes(s.pos, act)
    BY <1>7 DEF BatchType, Leaves
  <2>2. Costed(cfg, bar.open, s.pos.short) \in Int
    BY <1>2 DEF Costed, StrategyConfig
  <2> QED BY <1>1, <1>7, <2>1, <2>2 DEF Closes
<1>8. ASSUME s.pos # None, ~Leaves(s.pos, act), r.pos = None, NEW hit \in {"stop", "take"},
             LevelHit(s.pos, bar) = hit,
             r.ledger = book(s.ledger, all, s.pos, k, k, AtLevel(cfg, s.pos, hit).price, hit)
      PROVE  Closes(cfg, all, s, t, k, act, s.pos, AtLevel(cfg, s.pos, hit).price, hit)
  <2>1. s.pos \in Position /\ ~Opposes(s.pos, act)
    BY <1>8 DEF BatchType, Leaves
  <2>2. AtLevel(cfg, s.pos, hit).price \in Int /\ s.pos.levels[hit] # None
    BY <1>2, <1>8, <2>1, LevelPrice
  <2> QED BY <1>1, <1>8, <2>1, <2>2 DEF Closes
<1>9. ASSUME Enters(cfg, s.pos, act), r.pos = None, NEW hit \in {"stop", "take"},
             LevelHit(E.pos, bar) = hit,
             r.ledger = book(s.ledger, all, E.pos, k, k, AtLevel(cfg, E.pos, hit).price, hit)
      PROVE  Closes(cfg, all, s, t, k, act, E.pos, AtLevel(cfg, E.pos, hit).price, hit)
  <2>1. AtLevel(cfg, E.pos, hit).price \in Int /\ E.pos.levels[hit] # None
    BY <1>2, <1>4, <1>9, LevelPrice
  <2> QED BY <1>1, <1>4, <1>9, <2>1 DEF Closes
<1>10. \/ Stays(s, t) /\ ~Leaves(s.pos, act) /\ ~Enters(cfg, s.pos, act)
       \/ Opens(cfg, s, t, k, act)
       \/ \E p, price : \E reason \in {"signal", "stop", "take"} :
              Closes(cfg, all, s, t, k, act, p, price, reason)
  <2>1. CASE ~Leaves(s.pos, act) /\ ~Enters(cfg, s.pos, act) /\ r.pos = s.pos /\ r.ledger = s.ledger
    BY <1>1, <2>1 DEF Stays
  <2>2. CASE Enters(cfg, s.pos, act) /\ r.pos = E.pos /\ r.ledger = s.ledger
    BY <1>1, <1>4, <2>2 DEF Opens
  <2> QED BY <1>5, <1>7, <1>8, <1>9, <2>1, <2>2
<1> QED
  BY <1>1, <1>6, <1>10 DEF act, seen, t

(***************************************************************************)
(* The curve.                                                              *)
(***************************************************************************)

Reasons == {"signal", "stop", "take", "forced"}

\* The leg that is booked.
LegFor(pos, exit, price, reason) ==
    [entry |-> pos.entry, exit |-> exit, short |-> pos.short, price |-> pos.price,
     exit_price |-> price, weight |-> pos.weight, reason |-> reason]

\* What booking it does.
Booked(led, all, p, last, exit, price, reason) ==
    LET b == book(led, all, p, last, exit, price, reason)
        l == LegFor(p, exit, price, reason)
        m == Len(led.legs)
    IN  /\ l \in LegOf({reason}) /\ l.entry = p.entry /\ l.exit = exit /\ l.reason = reason
        /\ l.short = p.short /\ l.price = p.price /\ l.exit_price = price /\ l.weight = p.weight
        /\ b.legs = Append(led.legs, l)
        /\ Len(b.legs) = m + 1 /\ m \in Nat /\ b.legs[m + 1] = l
        /\ \A i \in 1 .. m : b.legs[i] = led.legs[i]
        /\ DOMAIN b.returns = DOMAIN led.returns
        /\ \A k \in DOMAIN b.returns :
              b.returns[k] = IF p.entry <= k /\ k <= last
                             THEN [leg |-> m + 1,
                                   den |-> IF k = p.entry THEN p.price ELSE all[k].open,
                                   num |-> IF k = last THEN price ELSE all[k + 1].open]
                             ELSE led.returns[k]

LEMMA BookFacts ==
  ASSUME NEW led, NEW all, NEW p \in Position, NEW last, NEW exit \in Nat, NEW price \in Int,
         NEW reason \in Reasons, led.legs \in Seq(AnyLeg)
  PROVE  Booked(led, all, p, last, exit, price, reason)
<1> DEFINE b == book(led, all, p, last, exit, price, reason)
           l == LegFor(p, exit, price, reason)
           m == Len(led.legs)
           mark(k) == [leg |-> m + 1,
                       den |-> IF k = p.entry THEN p.price ELSE all[k].open,
                       num |-> IF k = last THEN price ELSE all[k + 1].open]
<1>1. /\ b.legs = Append(led.legs, l)
      /\ b.returns = [k \in DOMAIN led.returns |->
                        IF p.entry <= k /\ k <= last THEN mark(k) ELSE led.returns[k]]
  BY DEF book, LegFor
<1>2. l \in LegOf({reason}) /\ l.entry = p.entry /\ l.exit = exit /\ l.reason = reason
      /\ l.short = p.short /\ l.price = p.price /\ l.exit_price = price /\ l.weight = p.weight
  BY DEF LegFor, LegOf, Position
<1> HIDE DEF b, l
<1>3. m \in Nat /\ Len(b.legs) = m + 1 /\ b.legs[m + 1] = l /\ \A i \in 1 .. m : b.legs[i] = led.legs[i]
  <2>1. led.legs \in Seq(AnyLeg \union {l})
    OBVIOUS
  <2> QED BY <1>1, <2>1, AppendProperties
<1> HIDE DEF m, mark
<1>4. /\ DOMAIN b.returns = DOMAIN led.returns
      /\ \A k \in DOMAIN b.returns :
            b.returns[k] = IF p.entry <= k /\ k <= last THEN mark(k) ELSE led.returns[k]
  BY <1>1
<1> QED
  BY <1>1, <1>2, <1>3, <1>4 DEF Booked, b, l, m, mark

\* The returns of a leg's bars multiply to the return of the leg.
OnCurve(led, i, n) ==
    LET leg == led.legs[i]
        mark(k) == led.returns[k]
    IN  leg.entry < n /\ LastBarOf(leg) < n =>
            /\ \A k \in leg.entry .. LastBarOf(leg) : mark(k) # None /\ mark(k).leg = i
            /\ mark(leg.entry).den = leg.price
            /\ mark(LastBarOf(leg)).num = leg.exit_price
            /\ \A k \in leg.entry + 1 .. LastBarOf(leg) : mark(k).den = mark(k - 1).num

\* What is booked goes after what is there.
Follows(led, p) == \A i \in DOMAIN led.legs : LastBarOf(led.legs[i]) < p.entry

LEMMA BookedOnCurve ==
  ASSUME NEW all \in Seq(Bar), NEW led, NEW p \in Position, NEW exit \in Nat \ {0}, NEW price \in Int,
         NEW reason \in Reasons, NEW last \in Nat,
         last = (IF reason \in {"signal", "forced"} THEN exit - 1 ELSE exit),
         led.legs \in Seq(AnyLeg), DOMAIN led.returns = 1 .. Len(all) - 1,
         p.entry >= 1, p.entry <= last \/ p.entry >= Len(all), Follows(led, p),
         \A i \in DOMAIN led.legs : /\ OnCurve(led, i, Len(all))
                                    /\ 1 <= led.legs[i].entry
                                    /\ led.legs[i].entry <= LastBarOf(led.legs[i])
  PROVE  LET b == book(led, all, p, last, exit, price, reason)
         IN  \A i \in DOMAIN b.legs : OnCurve(b, i, Len(all))
<1> DEFINE n == Len(all)
           b == book(led, all, p, last, exit, price, reason)
           l == LegFor(p, exit, price, reason)
           m == Len(led.legs)
           mark(k) == [leg |-> m + 1,
                       den |-> IF k = p.entry THEN p.price ELSE all[k].open,
                       num |-> IF k = last THEN price ELSE all[k + 1].open]
<1>0. exit \in Nat
  OBVIOUS
<1>1. /\ l \in LegOf({reason}) /\ l.entry = p.entry /\ l.exit = exit /\ l.reason = reason
      /\ l.short = p.short /\ l.price = p.price /\ l.exit_price = price
      /\ b.legs = Append(led.legs, l)
      /\ Len(b.legs) = m + 1 /\ m \in Nat /\ b.legs[m + 1] = l
      /\ \A i \in 1 .. m : b.legs[i] = led.legs[i]
      /\ DOMAIN b.returns = DOMAIN led.returns
      /\ \A k \in DOMAIN b.returns :
            b.returns[k] = IF p.entry <= k /\ k <= last THEN mark(k) ELSE led.returns[k]
  <2>1. Booked(led, all, p, last, exit, price, reason)
    BY <1>0, BookFacts
  <2> QED BY <2>1 DEF Booked
<1> HIDE DEF mark, b, l
<1>2. b.legs \in Seq(AnyLeg \union {l})
  <2>1. led.legs \in Seq(AnyLeg \union {l})
    OBVIOUS
  <2>2. Append(led.legs, l) \in Seq(AnyLeg \union {l})
    BY <2>1
  <2> QED BY <1>1, <2>2
<1> USE DEF mark
<1>3. n \in Nat /\ p.entry \in Nat /\ p.price \in Int
  BY DEF Position
<1> HIDE DEF n
<1>4. DOMAIN b.legs = 1 .. m + 1 /\ DOMAIN led.legs = 1 .. m
  BY <1>1, <1>2
<1>5. LastBarOf(l) = last
  BY <1>1 DEF LastBarOf
<1>6. ASSUME NEW i \in 1 .. m PROVE OnCurve(b, i, n)
  <2>1. b.legs[i] = led.legs[i] /\ LastBarOf(led.legs[i]) < p.entry /\ led.legs[i].entry >= 1
        /\ led.legs[i].entry <= LastBarOf(led.legs[i]) /\ OnCurve(led, i, n)
    BY <1>1, <1>4, <1>6 DEF Follows, n
  <2> DEFINE leg == led.legs[i]
  <2>2. leg \in AnyLeg
    BY <1>4
  <2>3. leg.entry \in Nat /\ LastBarOf(leg) \in Int
    <3> HIDE DEF leg
    <3>1. leg.entry \in Nat /\ leg.exit \in Nat
      BY <2>2 DEF AnyLeg, LegOf
    <3> QED BY <3>1 DEF LastBarOf
  <2> HIDE DEF leg, m
  <2>4. SUFFICES ASSUME leg.entry < n /\ LastBarOf(leg) < n
                 PROVE  /\ \A k \in leg.entry .. LastBarOf(leg) : b.returns[k] # None /\ b.returns[k].leg = i
                        /\ b.returns[leg.entry].den = leg.price
                        /\ b.returns[LastBarOf(leg)].num = leg.exit_price
                        /\ \A k \in leg.entry + 1 .. LastBarOf(leg) :
                              b.returns[k].den = b.returns[k - 1].num
    BY <2>1 DEF OnCurve, leg
  <2> DEFINE z == LastBarOf(leg)
  <2>5. /\ \A k \in leg.entry .. z : led.returns[k] # None /\ led.returns[k].leg = i
        /\ led.returns[leg.entry].den = leg.price
        /\ led.returns[z].num = leg.exit_price
        /\ \A k \in leg.entry + 1 .. z : led.returns[k].den = led.returns[k - 1].num
    BY <2>1, <2>4 DEF OnCurve, leg
  <2>6. \A k \in 1 .. n - 1 : k < p.entry => b.returns[k] = led.returns[k]
    <3> SUFFICES ASSUME NEW k \in 1 .. n - 1, k < p.entry PROVE b.returns[k] = led.returns[k]
      OBVIOUS
    <3>1. k \in DOMAIN b.returns /\ ~(p.entry <= k)
      BY <1>1, <1>3 DEF n
    <3> QED BY <1>1, <3>1
  <2>7. z < p.entry /\ z \in Int /\ leg.entry >= 1 /\ z < n /\ leg.entry <= z /\ leg.entry \in Nat
    BY <2>1, <2>3, <2>4 DEF leg
  <2> HIDE DEF z
  <2>8. \A k \in leg.entry .. z : b.returns[k] = led.returns[k]
    <3> SUFFICES ASSUME NEW k \in leg.entry .. z PROVE b.returns[k] = led.returns[k]
      OBVIOUS
    <3>1. k \in 1 .. n - 1 /\ k < p.entry
      BY <1>3, <2>7
    <3> QED BY <2>6, <3>1
  <2>9. \A k \in leg.entry + 1 .. z : k \in leg.entry .. z /\ k - 1 \in leg.entry .. z
    BY <2>7
  <2>10. leg.entry \in leg.entry .. z /\ z \in leg.entry .. z
    BY <2>7
  <2>11. /\ \A k \in leg.entry .. z : b.returns[k] # None /\ b.returns[k].leg = i
         /\ b.returns[leg.entry].den = leg.price
         /\ b.returns[z].num = leg.exit_price
    BY <2>5, <2>8, <2>10 DEF z
  <2>12. \A k \in leg.entry + 1 .. z : b.returns[k].den = b.returns[k - 1].num
    BY <2>5, <2>8, <2>9 DEF z
  <2> QED BY <2>11, <2>12 DEF z
<1>7. OnCurve(b, m + 1, n)
  <2>1. SUFFICES ASSUME p.entry < n, last < n
                 PROVE  /\ \A k \in p.entry .. last : b.returns[k] # None /\ b.returns[k].leg = m + 1
                        /\ b.returns[p.entry].den = p.price
                        /\ b.returns[last].num = price
                        /\ \A k \in p.entry + 1 .. last : b.returns[k].den = b.returns[k - 1].num
    BY <1>1, <1>5 DEF OnCurve
  <2>2. p.entry <= last
    BY <1>3, <2>1 DEF n
  <2>3. \A k \in p.entry .. last : b.returns[k] = mark(k)
    <3> SUFFICES ASSUME NEW k \in p.entry .. last PROVE b.returns[k] = mark(k)
      OBVIOUS
    <3>1. k \in 1 .. n - 1 /\ p.entry <= k /\ k <= last
      BY <1>3, <2>1
    <3> HIDE DEF mark
    <3> QED BY <1>1, <3>1 DEF n
  <2>4. \A k \in p.entry .. last : mark(k) \in Return /\ mark(k).leg = m + 1
    <3> SUFFICES ASSUME NEW k \in p.entry .. last PROVE mark(k) \in Return /\ mark(k).leg = m + 1
      OBVIOUS
    <3>1. k \in 1 .. Len(all) /\ (k # last => k + 1 \in 1 .. Len(all))
      BY <1>3, <2>1 DEF n
    <3> DEFINE z == all[k + 1]
    <3>2. all[k] \in Bar /\ (k # last => z \in Bar)
      BY <3>1
    <3> HIDE DEF z
    <3>4. all[k].open \in Nat /\ (k # last => z.open \in Nat)
      BY <3>2 DEF Bar
    <3> USE DEF z
    <3>3. m + 1 \in Nat
      BY <1>1
    <3> QED BY <1>3, <3>3, <3>4 DEF Return
  <2>5. \A k \in p.entry .. last : b.returns[k] # None /\ b.returns[k].leg = m + 1
    <3> HIDE DEF mark
    <3> QED BY <2>3, <2>4, ReplayAssumption
  <2>6. p.entry \in p.entry .. last /\ last \in p.entry .. last
    BY <1>3, <2>2
  <2>7. b.returns[p.entry].den = p.price /\ b.returns[last].num = price
    <3>1. mark(p.entry).den = p.price /\ mark(last).num = price
      OBVIOUS
    <3> HIDE DEF mark
    <3> QED BY <2>3, <2>6, <3>1
  <2>8. \A k \in p.entry + 1 .. last : b.returns[k].den = b.returns[k - 1].num
    <3> SUFFICES ASSUME NEW k \in p.entry + 1 .. last PROVE b.returns[k].den = b.returns[k - 1].num
      OBVIOUS
    <3>1. k \in p.entry .. last /\ k - 1 \in p.entry .. last /\ k # p.entry /\ k - 1 # last /\ (k - 1) + 1 = k
      BY <1>3
    <3>2. mark(k).den = all[k].open /\ mark(k - 1).num = all[k].open
      BY <3>1
    <3> HIDE DEF mark
    <3> QED BY <2>3, <3>1, <3>2
  <2> QED BY <2>5, <2>7, <2>8
<1> QED
  BY <1>4, <1>6, <1>7 DEF b, n

\* After bar k, the ledger's legs are on the curve one after the other, and what
\* is held goes after all of them.
CurveInv(all, s, k) ==
    /\ BatchType(s)
    /\ s.pos # None => s.pos.entry \in 2 .. k /\ Follows(s.ledger, s.pos)
    /\ s.ledger.legs \in Seq(Leg) /\ DOMAIN s.ledger.returns = 1 .. Len(all) - 1
    /\ \A i \in DOMAIN s.ledger.legs : /\ OnCurve(s.ledger, i, Len(all))
                                       /\ 1 <= s.ledger.legs[i].entry
                                       /\ s.ledger.legs[i].entry <= LastBarOf(s.ledger.legs[i])
                                       /\ LastBarOf(s.ledger.legs[i]) <= k

LEMMA CurveStart ==
  ASSUME NEW all \in Seq(Bar), Len(all) \in Nat \ {0}
  PROVE  CurveInv(all, Start(all), 1)
<1> DEFINE s == Start(all)
<1>1. s.pos = None /\ s.ledger = Ledger(Len(all)) /\ s.seen = <<>>
  BY DEF Start
<1>2. s.ledger.legs = <<>> /\ DOMAIN s.ledger.returns = 1 .. Len(all) - 1
  BY <1>1 DEF Ledger
<1> HIDE DEF s
<1>3. BatchType(s)
  BY <1>1 DEF BatchType
<1>4. CurveInv(all, s, 1)
  BY <1>1, <1>2, <1>3 DEF CurveInv
<1> QED
  BY <1>4 DEF s

LEMMA CurveStep ==
  ASSUME NEW cfg \in StrategyConfig, NEW all \in Seq(Bar), NEW k \in 2 .. Len(all),
         NEW s, CurveInv(all, s, k - 1)
  PROVE  CurveInv(all, Filled(cfg, all, s, k), k)
<1> DEFINE t   == Filled(cfg, all, s, k)
           act == all[k - 1].signal
           n   == Len(all)
<1>1. BatchType(s)
  BY DEF CurveInv
<1>2. /\ BatchType(t)
      /\ \/ Stays(s, t) /\ ~Leaves(s.pos, act) /\ ~Enters(cfg, s.pos, act)
         \/ Opens(cfg, s, t, k, act)
         \/ \E p, price : \E reason \in {"signal", "stop", "take"} :
               Closes(cfg, all, s, t, k, act, p, price, reason)
  <2>1. Stays(s, t) /\ s.pos # None /\ ~Leaves(s.pos, act) => ~Enters(cfg, s.pos, act)
    BY DEF Enters
  <2> QED BY <1>1, <2>1, FilledForms
<1> HIDE DEF t, act
<1>3. k \in Nat /\ k >= 2 /\ n \in Nat /\ k <= n
  OBVIOUS
<1>4. /\ s.pos # None => s.pos.entry \in 2 .. k - 1 /\ Follows(s.ledger, s.pos)
      /\ s.ledger.legs \in Seq(Leg) /\ DOMAIN s.ledger.returns = 1 .. n - 1
      /\ \A i \in DOMAIN s.ledger.legs : /\ OnCurve(s.ledger, i, n)
                                         /\ 1 <= s.ledger.legs[i].entry
                                         /\ s.ledger.legs[i].entry <= LastBarOf(s.ledger.legs[i])
                                         /\ LastBarOf(s.ledger.legs[i]) <= k - 1
  BY DEF CurveInv
<1>5. \A i \in DOMAIN s.ledger.legs : LastBarOf(s.ledger.legs[i]) \in Int
  <2> SUFFICES ASSUME NEW i \in DOMAIN s.ledger.legs PROVE LastBarOf(s.ledger.legs[i]) \in Int
    OBVIOUS
  <2> DEFINE leg == s.ledger.legs[i]
  <2>1. leg \in Leg
    BY <1>4
  <2> HIDE DEF leg
  <2>2. leg.exit \in Nat
    BY <2>1 DEF Leg, LegOf
  <2> QED BY <2>2 DEF LastBarOf, leg
<1> HIDE DEF n
<1>6. CASE Stays(s, t)
  <2>1. t.pos = s.pos /\ t.ledger = s.ledger
    BY <1>6 DEF Stays
  <2>2. t.pos # None => t.pos.entry \in 2 .. k
    BY <1>3, <1>4, <2>1
  <2>3. \A i \in DOMAIN s.ledger.legs : LastBarOf(s.ledger.legs[i]) <= k
    BY <1>3, <1>4, <1>5
  <2> QED BY <1>2, <1>4, <2>1, <2>2, <2>3 DEF CurveInv, n, t
<1>7. \A q : q.entry = k => Follows(s.ledger, q)
  BY <1>3, <1>4, <1>5 DEF Follows
<1>8. CASE Opens(cfg, s, t, k, act)
  <2>1. t.pos.entry = k /\ t.ledger = s.ledger
    BY <1>8 DEF Opens, NewPos
  <2>2. t.pos.entry \in 2 .. k /\ Follows(t.ledger, t.pos)
    BY <1>3, <1>7, <2>1
  <2>3. \A i \in DOMAIN s.ledger.legs : LastBarOf(s.ledger.legs[i]) <= k
    BY <1>3, <1>4, <1>5
  <2> QED BY <1>2, <1>4, <2>1, <2>2, <2>3 DEF CurveInv, n, t
<1>9. ASSUME NEW p, NEW price, NEW reason \in {"signal", "stop", "take"},
             Closes(cfg, all, s, t, k, act, p, price, reason)
      PROVE  CurveInv(all, t, k)
  <2> DEFINE last == IF reason = "signal" THEN k - 1 ELSE k
             b    == book(s.ledger, all, p, last, k, price, reason)
             l    == LegFor(p, k, price, reason)
             m    == Len(s.ledger.legs)
  <2>1. p \in Position /\ price \in Int /\ t.pos = None /\ t.ledger = b
    BY <1>9 DEF Closes
  <2>2. /\ p.entry \in 2 .. k /\ Follows(s.ledger, p) /\ (reason = "signal" => p.entry \in 2 .. k - 1)
    <3>1. CASE s.pos # None /\ p = s.pos
      BY <1>3, <1>4, <3>1
    <3>2. CASE NewPos(cfg, p, k, act) /\ reason # "signal"
      BY <1>3, <1>7, <3>2 DEF NewPos
    <3> QED BY <1>9, <3>1, <3>2 DEF Closes
  <2>3. last \in Nat /\ p.entry <= last /\ p.entry >= 1 /\ last <= k
    BY <1>3, <2>2
  <2>4. reason \in Reasons /\ last = (IF reason \in {"signal", "forced"} THEN k - 1 ELSE k)
    BY DEF Reasons
  <2>5. s.ledger.legs \in Seq(AnyLeg)
    <3>1. Leg \subseteq AnyLeg
      BY DEF Leg, AnyLeg, LegOf
    <3> QED BY <1>4, <3>1
  <2> HIDE DEF last, b
  <2>6. \A i \in DOMAIN b.legs : OnCurve(b, i, n)
    <3>1. k \in Nat \ {0}
      BY <1>3
    <3>2. p.entry <= last \/ p.entry >= Len(all)
      BY <2>3
    <3> QED BY <1>4, <2>1, <2>2, <2>3, <2>4, <2>5, <3>1, <3>2, BookedOnCurve DEF b, n
  <2>7. Booked(s.ledger, all, p, last, k, price, reason)
    BY <1>3, <2>1, <2>4, <2>5, BookFacts
  <2>8. /\ l \in LegOf({reason}) /\ l.entry = p.entry /\ l.exit = k /\ l.reason = reason
        /\ b.legs = Append(s.ledger.legs, l)
        /\ Len(b.legs) = m + 1 /\ m \in Nat /\ b.legs[m + 1] = l
        /\ \A i \in 1 .. m : b.legs[i] = s.ledger.legs[i]
        /\ DOMAIN b.returns = DOMAIN s.ledger.returns
    BY <2>7 DEF Booked, b
  <2> HIDE DEF l
  <2>9. l \in Leg
    BY <2>8 DEF Leg, LegOf
  <2>10. b.legs \in Seq(Leg)
    BY <1>4, <2>8, <2>9
  <2>11. LastBarOf(l) = last
    BY <2>4, <2>8 DEF LastBarOf
  <2>12. \A i \in DOMAIN b.legs : /\ 1 <= b.legs[i].entry
                                  /\ b.legs[i].entry <= LastBarOf(b.legs[i])
                                  /\ LastBarOf(b.legs[i]) <= k
    <3> SUFFICES ASSUME NEW i \in DOMAIN b.legs
                 PROVE  /\ 1 <= b.legs[i].entry
                        /\ b.legs[i].entry <= LastBarOf(b.legs[i])
                        /\ LastBarOf(b.legs[i]) <= k
      OBVIOUS
    <3>1. i \in 1 .. m + 1
      BY <2>8, <2>10
    <3>2. CASE i = m + 1
      BY <2>3, <2>8, <2>11, <3>2
    <3>3. CASE i # m + 1
      <4>1. i \in 1 .. m /\ i \in DOMAIN s.ledger.legs
        BY <1>4, <2>8, <3>1, <3>3
      <4> QED BY <1>3, <1>4, <1>5, <2>8, <4>1
    <3> QED BY <3>2, <3>3
  <2> QED BY <1>2, <1>4, <2>1, <2>6, <2>8, <2>10, <2>12 DEF CurveInv, n
<1> QED
  BY <1>2, <1>6, <1>8, <1>9 DEF t

LEMMA CurveOfBatch ==
  ASSUME NEW cfg \in StrategyConfig, NEW all \in Seq(Bar), Len(all) \in Nat \ {0}
  PROVE  CurveInv(all, Batch(cfg, all), Len(all))
<1>1. PICK f : IsBatch(cfg, all, f) /\ Batch(cfg, all) = f[Len(all)]
  BY BatchExists
<1> DEFINE n == Len(all)
           S == {k \in 1 .. n : CurveInv(all, f[k], k)}
<1>2. n \in Nat \ {0}
  OBVIOUS
<1>3. /\ f[1] = Start(all)
      /\ \A k \in 2 .. n : f[k] = Filled(cfg, all, f[k - 1], k)
  <2>1. IsBatch(cfg, all, f)
    BY <1>1
  <2> HIDE DEF S, n
  <2> QED BY <2>1, BatchSteps, Zenon DEF n
<1>4. 1 \in S
  BY <1>2, <1>3, CurveStart
<1>5. \A m \in 1 .. n - 1 : m \in S => m + 1 \in S
  <2> SUFFICES ASSUME NEW m \in 1 .. n - 1, m \in S PROVE m + 1 \in S
    OBVIOUS
  <2>1. m + 1 \in 2 .. n /\ (m + 1) - 1 = m
    BY <1>2
  <2>2. f[m + 1] = Filled(cfg, all, f[m], m + 1) /\ CurveInv(all, f[m], (m + 1) - 1)
    BY <1>3, <2>1
  <2>3. CurveInv(all, Filled(cfg, all, f[m], m + 1), m + 1)
    BY <2>1, <2>2, CurveStep
  <2> QED BY <2>1, <2>2, <2>3
<1> HIDE DEF S
<1>6. \A m \in 1 .. n : m \in S
  BY <1>2, <1>4, <1>5, UpTo
<1>7. n \in S
  BY <1>2, <1>6
<1> QED
  BY <1>1, <1>7 DEF S

\* What is still open at the end is one leg more.
LEMMA RunForms ==
  ASSUME NEW cfg \in StrategyConfig, NEW all \in Seq(Bar), Len(all) \in Nat \ {0}
  PROVE  LET s == Batch(cfg, all)
             n == Len(all)
         IN  /\ s.pos = None => run(cfg, all) = s.ledger
             /\ s.pos # None => \E price \in Int :
                   run(cfg, all) = book(s.ledger, all, s.pos, n - 1, n, price, "forced")
<1> DEFINE s == Batch(cfg, all)
           n == Len(all)
           price == Costed(cfg, all[n].close, s.pos.short)
<1>1. all[n] \in Bar
  <2>1. n \in 1 .. Len(all)
    OBVIOUS
  <2> HIDE DEF n
  <2> QED BY <2>1
<1>2. price \in Int
  <2> DEFINE bar == all[n]
  <2> HIDE DEF bar
  <2>1. bar.close \in Nat /\ cfg.cost \in Nat
    BY <1>1 DEF bar, Bar, StrategyConfig
  <2> QED BY <2>1 DEF Costed, bar
<1>3. run(cfg, all) = IF s.pos = None THEN s.ledger
                      ELSE book(s.ledger, all, s.pos, n - 1, n, price, "forced")
  BY DEF run
<1> HIDE DEF price, s, n
<1> QED
  BY <1>2, <1>3 DEF s, n

LEMMA CurveOfRun ==
  ASSUME NEW cfg \in StrategyConfig, NEW all \in Seq(Bar), Len(all) \in Nat \ {0}
  PROVE  \A i \in DOMAIN run(cfg, all).legs : OnCurve(run(cfg, all), i, Len(all))
<1> DEFINE s == Batch(cfg, all)
           n == Len(all)
           r == run(cfg, all)
<1>1. CurveInv(all, s, n)
  BY CurveOfBatch
<1>2. /\ s.pos = None => r = s.ledger
      /\ s.pos # None => \E price \in Int : r = book(s.ledger, all, s.pos, n - 1, n, price, "forced")
  BY RunForms
<1>3. n \in Nat \ {0}
  OBVIOUS
<1> HIDE DEF s, n, r
<1>4. CASE s.pos = None
  BY <1>1, <1>2, <1>4 DEF CurveInv, n, r
<1>5. CASE s.pos # None
  <2>1. PICK price \in Int : r = book(s.ledger, all, s.pos, n - 1, n, price, "forced")
    BY <1>2, <1>5
  <2>2. /\ s.pos \in Position /\ s.pos.entry \in 2 .. n /\ Follows(s.ledger, s.pos)
        /\ DOMAIN s.ledger.returns = 1 .. n - 1
        /\ \A i \in DOMAIN s.ledger.legs : /\ OnCurve(s.ledger, i, n)
                                           /\ 1 <= s.ledger.legs[i].entry
                                           /\ s.ledger.legs[i].entry <= LastBarOf(s.ledger.legs[i])
    BY <1>1, <1>5 DEF CurveInv, BatchType, n
  <2>3. s.ledger.legs \in Seq(AnyLeg)
    <3>1. s.ledger.legs \in Seq(Leg)
      BY <1>1 DEF CurveInv
    <3>2. Leg \subseteq AnyLeg
      BY DEF Leg, AnyLeg, LegOf
    <3> QED BY <3>1, <3>2
  <2>4. /\ n - 1 \in Nat /\ s.pos.entry >= 1
        /\ s.pos.entry <= n - 1 \/ s.pos.entry >= n
    BY <1>3, <2>2
  <2>5. "forced" \in Reasons /\ n - 1 = (IF "forced" \in {"signal", "forced"} THEN n - 1 ELSE n)
    BY DEF Reasons
  <2> DEFINE b == book(s.ledger, all, s.pos, n - 1, n, price, "forced")
  <2>6. \A i \in DOMAIN b.legs : OnCurve(b, i, n)
    BY <1>3, <2>2, <2>3, <2>4, <2>5, BookedOnCurve DEF n
  <2> HIDE DEF b
  <2> QED BY <2>1, <2>6 DEF b, n, r
<1> QED
  BY <1>4, <1>5

\* Only bars are ever seen, and never less than one.
BarsInv == bars \in Seq(Bar) /\ Len(bars) \in Nat \ {0}

LEMMA DecidedBar == \A c \in Candles, s \in Signals : Decided(c, s) \in Bar
<1> SUFFICES ASSUME NEW c \in Candles, NEW s \in Signals PROVE Decided(c, s) \in Bar
  OBVIOUS
<1>1. c \in [open : Nat, high : Nat, low : Nat, close : Nat]
  BY ReplayAssumption
<1> QED
  BY <1>1 DEF Decided, Bar

LEMMA InitBars == Init => BarsInv
<1> SUFFICES ASSUME Init PROVE BarsInv
  OBVIOUS
<1>1. PICK c \in Candles : \E s \in Signals : bars = <<Decided(c, s)>>
  BY DEF Init
<1>2. PICK s \in Signals : bars = <<Decided(c, s)>>
  BY <1>1
<1> DEFINE d == Decided(c, s)
<1>3. d \in Bar
  BY DecidedBar
<1> HIDE DEF d
<1>4. bars = <<d>>
  BY <1>2 DEF d
<1> QED
  BY <1>3, <1>4 DEF BarsInv

LEMMA BarsHold == Spec => []BarsInv
<1>1. BarsInv /\ [Next]_vars => BarsInv'
  <2> SUFFICES ASSUME BarsInv, [Next]_vars PROVE BarsInv'
    OBVIOUS
  <2>1. CASE UNCHANGED vars
    BY <2>1 DEF vars, BarsInv
  <2>2. CASE Next
    <3>1. PICK c \in Candles : \E s \in Signals : on_bar_closed(Decided(c, s))
      BY <2>2 DEF Next
    <3>2. PICK s \in Signals : on_bar_closed(Decided(c, s))
      BY <3>1
    <3> DEFINE d == Decided(c, s)
    <3>3. d \in Bar
      BY DecidedBar
    <3> HIDE DEF d
    <3>4. bars' = Append(bars, d)
      BY <3>2 DEF on_bar_closed, d
    <3> QED BY <3>3, <3>4 DEF BarsInv
  <2> QED BY <2>1, <2>2
<1> QED
  BY <1>1, InitBars, PTL DEF Spec

\* The returns of a trade's bars multiply to the return of the trade, and no
\* other trade has written over any of them (Ledger.book).
THEOREM CurveHasEveryTrade == Spec => []CurveHoldsTrades
<1>1. BarsInv => CurveHoldsTrades
  <2> SUFFICES ASSUME BarsInv PROVE CurveHoldsTrades
    OBVIOUS
  <2> DEFINE led == run(Config, bars)
  <2>1. \A i \in DOMAIN led.legs : OnCurve(led, i, Len(bars))
    BY CurveOfRun, ReplayAssumption DEF BarsInv
  <2> HIDE DEF led
  <2>2. led \in {run(Config, bars)}
    BY DEF led
  <2> QED BY <2>1, <2>2 DEF CurveHoldsTrades, OnCurve, LastBarOf
<1> QED
  BY <1>1, BarsHold, PTL

(***************************************************************************)
(* The intervals.                                                          *)
(***************************************************************************)

SignalLeg == LegOf({"signal"})

\* The bar before its first says so, and no bar before the one called end says
\* otherwise.
Held(all, x, end) ==
    /\ x.short = (all[x.entry - 1].signal = "SELL")
    /\ \A j \in x.entry + 1 .. end - 1 : ~Opposes(x, all[j - 1].signal)

\* The legs so far, all of them closed by a signal, are what the signals say.
HeldInv(cfg, all, s, k) ==
    /\ BatchType(s) /\ s.ledger.legs \in Seq(SignalLeg)
    /\ s.pos # None =>
          /\ s.pos.entry \in 2 .. k /\ Held(all, s.pos, k + 1)
          /\ s.pos.levels.stop = None /\ s.pos.levels.take = None
          /\ \A i \in DOMAIN s.ledger.legs : s.ledger.legs[i].exit < s.pos.entry
    /\ \A i \in DOMAIN s.ledger.legs :
          LET leg == s.ledger.legs[i]
          IN  /\ leg.entry \in 2 .. k /\ leg.exit \in 2 .. k
              /\ Held(all, leg, leg.exit) /\ Opposes(leg, all[leg.exit - 1].signal)
              /\ i > 1 => s.ledger.legs[i - 1].exit < leg.entry
    /\ \A j \in 2 .. k : Wants(cfg, all[j - 1].signal) =>
          \/ \E i \in DOMAIN s.ledger.legs : s.ledger.legs[i].entry <= j /\ j <= s.ledger.legs[i].exit
          \/ s.pos # None /\ s.pos.entry <= j

LEMMA HeldStart ==
  ASSUME NEW cfg, NEW all \in Seq(Bar), Len(all) \in Nat \ {0}
  PROVE  HeldInv(cfg, all, Start(all), 1)
<1> DEFINE s == Start(all)
<1>1. s.pos = None /\ s.ledger = Ledger(Len(all)) /\ s.seen = <<>>
  BY DEF Start
<1>2. s.ledger.legs = <<>>
  BY <1>1 DEF Ledger
<1> HIDE DEF s
<1>3. BatchType(s)
  BY <1>1 DEF BatchType
<1>4. HeldInv(cfg, all, s, 1)
  BY <1>1, <1>2, <1>3 DEF HeldInv
<1> QED
  BY <1>4 DEF s

\* A leg or a position stays held for as long as nothing speaks against it.
LEMMA HeldOn ==
  ASSUME NEW all, NEW x, NEW k \in Nat, x.entry \in Nat, Held(all, x, k),
         x.entry = k \/ ~Opposes(x, all[k - 1].signal)
  PROVE  Held(all, x, k + 1)
<1> SUFFICES ASSUME NEW j \in x.entry + 1 .. k PROVE ~Opposes(x, all[j - 1].signal)
  BY DEF Held
<1>1. CASE j = k
  BY <1>1
<1>2. CASE j # k
  <2>1. j \in x.entry + 1 .. k - 1
    BY <1>2
  <2> QED BY <2>1 DEF Held
<1> QED
  BY <1>1, <1>2

LEMMA HeldStep ==
  ASSUME NEW cfg \in StrategyConfig, ~uses_stop(cfg), ~uses_take(cfg),
         NEW all \in Seq(Bar), NEW k \in 2 .. Len(all), NEW s, HeldInv(cfg, all, s, k - 1)
  PROVE  HeldInv(cfg, all, Filled(cfg, all, s, k), k)
<1> DEFINE t   == Filled(cfg, all, s, k)
           act == all[k - 1].signal
           n   == Len(all)
<1>1. BatchType(s)
  BY DEF HeldInv
<1>2. /\ BatchType(t)
      /\ \/ Stays(s, t) /\ ~Leaves(s.pos, act) /\ ~Enters(cfg, s.pos, act)
         \/ Opens(cfg, s, t, k, act)
         \/ \E p, price : \E reason \in {"signal", "stop", "take"} :
               Closes(cfg, all, s, t, k, act, p, price, reason)
  <2>1. Stays(s, t) /\ s.pos # None /\ ~Leaves(s.pos, act) => ~Enters(cfg, s.pos, act)
    BY DEF Enters
  <2> QED BY <1>1, <2>1, FilledForms
<1> HIDE DEF t
<1>3. k \in Nat /\ k >= 2 /\ n \in Nat /\ k <= n /\ (k - 1) + 1 = k
  OBVIOUS
<1> DEFINE legs == s.ledger.legs
<1>4. /\ legs \in Seq(SignalLeg)
      /\ s.pos # None =>
            /\ s.pos.entry \in 2 .. k - 1 /\ Held(all, s.pos, k)
            /\ s.pos.levels.stop = None /\ s.pos.levels.take = None
            /\ \A i \in DOMAIN legs : legs[i].exit < s.pos.entry
      /\ \A i \in DOMAIN legs :
            /\ legs[i].entry \in 2 .. k - 1 /\ legs[i].exit \in 2 .. k - 1
            /\ Held(all, legs[i], legs[i].exit) /\ Opposes(legs[i], all[legs[i].exit - 1].signal)
            /\ i > 1 => legs[i - 1].exit < legs[i].entry
      /\ \A j \in 2 .. k - 1 : Wants(cfg, all[j - 1].signal) =>
            \/ \E i \in DOMAIN legs : legs[i].entry <= j /\ j <= legs[i].exit
            \/ s.pos # None /\ s.pos.entry <= j
  BY <1>3 DEF HeldInv
<1>5. \A i \in DOMAIN legs : /\ legs[i].entry \in 2 .. k /\ legs[i].exit \in 2 .. k
                             /\ legs[i].exit < k
  BY <1>3, <1>4
<1>6. \A j \in 2 .. k : j # k => j \in 2 .. k - 1
  BY <1>3
<1> HIDE DEF n, legs
<1>7. CASE Stays(s, t) /\ ~Leaves(s.pos, act) /\ ~Enters(cfg, s.pos, act)
  <2>1. t.pos = s.pos /\ t.ledger = s.ledger
    BY <1>7 DEF Stays
  <2>2. s.pos # None => s.pos.entry \in 2 .. k /\ Held(all, s.pos, k + 1)
    <3> SUFFICES ASSUME s.pos # None PROVE s.pos.entry \in 2 .. k /\ Held(all, s.pos, k + 1)
      OBVIOUS
    <3>1. ~Opposes(s.pos, act)
      BY <1>7 DEF Leaves
    <3>2. s.pos.entry \in 2 .. k /\ s.pos.entry \in Nat
      BY <1>3, <1>4
    <3>3. Held(all, s.pos, k + 1)
      BY <1>3, <1>4, <3>1, <3>2, HeldOn
    <3> QED BY <3>2, <3>3
  <2>3. ASSUME NEW j \in 2 .. k, Wants(cfg, all[j - 1].signal)
        PROVE  \/ \E i \in DOMAIN legs : legs[i].entry <= j /\ j <= legs[i].exit
               \/ s.pos # None /\ s.pos.entry <= j
    <3>1. CASE j = k
      <4>1. s.pos # None
        BY <1>7, <2>3, <3>1 DEF Enters
      <4> QED BY <1>3, <1>4, <3>1, <4>1
    <3> QED BY <1>4, <1>6, <2>3, <3>1
  <2> QED BY <1>2, <1>4, <1>5, <2>1, <2>2, <2>3 DEF HeldInv, legs, t
<1>8. CASE Opens(cfg, s, t, k, act)
  <2>1. /\ s.pos = None /\ t.pos # None /\ t.ledger = s.ledger
        /\ t.pos.entry = k /\ t.pos.short = (act = "SELL")
        /\ t.pos.levels = levels(cfg, t.pos.price, t.pos.short)
    BY <1>8 DEF Opens, NewPos, Enters
  <2>2. t.pos.levels.stop = None /\ t.pos.levels.take = None
    BY <2>1 DEF levels
  <2>3. Held(all, t.pos, k + 1)
    BY <1>3, <2>1 DEF Held
  <2>4. \A i \in DOMAIN legs : legs[i].exit < t.pos.entry
    BY <1>5, <2>1
  <2>5. ASSUME NEW j \in 2 .. k, Wants(cfg, all[j - 1].signal)
        PROVE  \/ \E i \in DOMAIN legs : legs[i].entry <= j /\ j <= legs[i].exit
               \/ t.pos # None /\ t.pos.entry <= j
    <3>1. CASE j = k
      BY <1>3, <2>1, <3>1
    <3> QED BY <1>4, <1>6, <2>1, <2>5, <3>1
  <2> QED BY <1>2, <1>3, <1>4, <1>5, <2>1, <2>2, <2>3, <2>4, <2>5 DEF HeldInv, legs, t
<1>9. ASSUME NEW p, NEW price, NEW reason \in {"signal", "stop", "take"},
             Closes(cfg, all, s, t, k, act, p, price, reason)
      PROVE  HeldInv(cfg, all, t, k)
  <2>1. p \in Position /\ price \in Int /\ t.pos = None
    BY <1>9 DEF Closes
  <2>2. reason = "signal" /\ s.pos # None /\ p = s.pos /\ Opposes(p, act)
    <3>1. p.levels.stop = None /\ p.levels.take = None
      <4>1. CASE s.pos # None /\ p = s.pos
        BY <1>4, <4>1
      <4>2. CASE NewPos(cfg, p, k, act)
        BY <4>2 DEF NewPos, levels
      <4> QED BY <1>9, <4>1, <4>2 DEF Closes
    <3>2. reason = "signal"
      <4>1. reason # "signal" => p.levels[reason] # None
        BY <1>9 DEF Closes
      <4>2. CASE reason = "stop"
        BY <3>1, <4>1, <4>2
      <4>3. CASE reason = "take"
        BY <3>1, <4>1, <4>3
      <4> QED BY <4>2, <4>3
    <3> QED BY <1>9, <3>2 DEF Closes
  <2> DEFINE b == book(s.ledger, all, p, k - 1, k, price, "signal")
             l == LegFor(p, k, price, "signal")
             m == Len(legs)
  <2>3. t.ledger = b
    BY <1>9, <2>2 DEF Closes
  <2>4. s.ledger.legs \in Seq(AnyLeg)
    <3>1. SignalLeg \subseteq AnyLeg
      BY DEF SignalLeg, AnyLeg, LegOf
    <3> QED BY <1>4, <3>1 DEF legs
  <2>5. Booked(s.ledger, all, p, k - 1, k, price, "signal")
    BY <1>3, <2>1, <2>4, BookFacts DEF Reasons
  <2> HIDE DEF b
  <2>6. /\ l \in SignalLeg /\ l.entry = p.entry /\ l.exit = k /\ l.short = p.short
        /\ b.legs = Append(legs, l)
        /\ Len(b.legs) = m + 1 /\ m \in Nat /\ b.legs[m + 1] = l
        /\ \A i \in 1 .. m : b.legs[i] = legs[i]
    BY <2>5 DEF Booked, b, SignalLeg, legs
  <2> HIDE DEF l
  <2>7. b.legs \in Seq(SignalLeg)
    BY <1>4, <2>6
  <2> HIDE DEF m
  <2>8. DOMAIN b.legs = 1 .. m + 1 /\ DOMAIN legs = 1 .. m
    BY <1>4, <2>6, <2>7 DEF m
  <2>9. /\ l.entry \in 2 .. k /\ l.exit \in 2 .. k /\ l.entry <= k
        /\ Held(all, l, l.exit) /\ Opposes(l, all[l.exit - 1].signal)
        /\ \A i \in 1 .. m : legs[i].exit < l.entry
    <3>1. l.entry \in 2 .. k /\ l.exit \in 2 .. k /\ l.entry <= k
      BY <1>3, <1>4, <2>2, <2>6
    <3>2. Held(all, p, k) /\ Opposes(p, act)
      BY <1>4, <2>2
    <3>3. Held(all, l, l.exit) /\ Opposes(l, all[l.exit - 1].signal)
      BY <2>6, <3>2 DEF Held, Opposes
    <3> QED BY <1>4, <2>2, <2>6, <2>8, <3>1, <3>3
  <2>10. ASSUME NEW i \in DOMAIN b.legs
         PROVE  /\ b.legs[i].entry \in 2 .. k /\ b.legs[i].exit \in 2 .. k
                /\ Held(all, b.legs[i], b.legs[i].exit)
                /\ Opposes(b.legs[i], all[b.legs[i].exit - 1].signal)
                /\ i > 1 => b.legs[i - 1].exit < b.legs[i].entry
    <3>1. CASE i = m + 1
      <4>1. i > 1 => i - 1 \in 1 .. m
        BY <2>6, <3>1
      <4> QED BY <2>6, <2>9, <3>1, <4>1
    <3>2. CASE i # m + 1
      <4>1. i \in 1 .. m /\ (i > 1 => i - 1 \in 1 .. m)
        BY <2>6, <2>8, <3>2
      <4> QED BY <1>4, <1>5, <2>6, <2>8, <4>1
    <3> QED BY <3>1, <3>2
  <2>11. ASSUME NEW j \in 2 .. k, Wants(cfg, all[j - 1].signal)
         PROVE  \E i \in DOMAIN b.legs : b.legs[i].entry <= j /\ j <= b.legs[i].exit
    <3>1. CASE l.entry <= j
      <4>1. m + 1 \in DOMAIN b.legs
        BY <2>6, <2>8
      <4> QED BY <2>6, <3>1, <4>1
    <3>2. CASE ~(l.entry <= j)
      <4>1. j \in 2 .. k - 1 /\ ~(s.pos.entry <= j)
        BY <1>6, <2>2, <2>6, <2>9, <3>2
      <4>2. PICK i \in DOMAIN legs : legs[i].entry <= j /\ j <= legs[i].exit
        BY <1>4, <2>11, <4>1
      <4>3. i \in DOMAIN b.legs /\ b.legs[i] = legs[i]
        BY <2>6, <2>8
      <4> QED BY <4>2, <4>3
    <3> QED BY <3>1, <3>2
  <2> QED BY <1>2, <2>1, <2>3, <2>7, <2>10, <2>11 DEF HeldInv
<1> QED
  BY <1>2, <1>7, <1>8, <1>9 DEF t

LEMMA HeldOfBatch ==
  ASSUME NEW cfg \in StrategyConfig, ~uses_stop(cfg), ~uses_take(cfg),
         NEW all \in Seq(Bar), Len(all) \in Nat \ {0}
  PROVE  HeldInv(cfg, all, Batch(cfg, all), Len(all))
<1>1. PICK f : IsBatch(cfg, all, f) /\ Batch(cfg, all) = f[Len(all)]
  BY BatchExists
<1> DEFINE n == Len(all)
           S == {k \in 1 .. n : HeldInv(cfg, all, f[k], k)}
<1>2. n \in Nat \ {0}
  OBVIOUS
<1>3. /\ f[1] = Start(all)
      /\ \A k \in 2 .. n : f[k] = Filled(cfg, all, f[k - 1], k)
  <2>1. IsBatch(cfg, all, f)
    BY <1>1
  <2> HIDE DEF S, n
  <2> QED BY <2>1, BatchSteps, Zenon DEF n
<1>4. 1 \in S
  BY <1>2, <1>3, HeldStart
<1>5. \A m \in 1 .. n - 1 : m \in S => m + 1 \in S
  <2> SUFFICES ASSUME NEW m \in 1 .. n - 1, m \in S PROVE m + 1 \in S
    OBVIOUS
  <2>1. m + 1 \in 2 .. n /\ (m + 1) - 1 = m
    BY <1>2
  <2>2. f[m + 1] = Filled(cfg, all, f[m], m + 1) /\ HeldInv(cfg, all, f[m], (m + 1) - 1)
    BY <1>3, <2>1
  <2>3. HeldInv(cfg, all, Filled(cfg, all, f[m], m + 1), m + 1)
    BY <2>1, <2>2, HeldStep
  <2> QED BY <2>1, <2>2, <2>3
<1> HIDE DEF S
<1>6. \A m \in 1 .. n : m \in S
  BY <1>2, <1>4, <1>5, UpTo
<1>7. n \in S
  BY <1>2, <1>6
<1> QED
  BY <1>1, <1>7 DEF S

\* A position is opened on the bar after a signal for it, if none is held, and
\* held until the bar after the first signal against it (position_intervals).
THEOREM ChartFollowsSignals == Spec => []IntervalsFollowSignals
<1> DEFINE raw  == Raw(Config)
           s    == Batch(raw, bars)
           n    == Len(bars)
           r    == run(raw, bars)
           legs == s.ledger.legs
           m    == Len(legs)
           iv   == position_intervals(Config, bars)
           Against(i, k) == Opposes(iv[i], bars[k - 1].signal)
           Good(i) == /\ iv[i].short = (bars[iv[i].entry - 1].signal = "SELL")
                      /\ iv[i].exit <= n => Against(i, iv[i].exit)
                      /\ \A k \in iv[i].entry + 1 .. iv[i].exit - 1 : k <= n => ~Against(i, k)
                      /\ i > 1 => iv[i - 1].exit < iv[i].entry
           Shown(k) == \E i \in DOMAIN iv : iv[i].entry <= k /\ k <= iv[i].exit
<1>1. BarsInv => IntervalsFollowSignals
  <2> SUFFICES ASSUME BarsInv PROVE IntervalsFollowSignals
    OBVIOUS
  <2>1. raw \in StrategyConfig /\ ~uses_stop(raw) /\ ~uses_take(raw)
        /\ \A act : Wants(raw, act) <=> Wants(Config, act)
    <3>1. Config \in StrategyConfig
      BY ReplayAssumption
    <3>2. raw \in StrategyConfig /\ raw.stop = 0 /\ raw.take = 0
          /\ raw.allow_short = Config.allow_short
      BY <3>1 DEF Raw, StrategyConfig
    <3> HIDE DEF raw
    <3> QED BY <3>2 DEF uses_stop, uses_take, Wants
  <2>2. bars \in Seq(Bar) /\ n \in Nat \ {0}
    BY DEF BarsInv
  <2>3. iv = [i \in DOMAIN r.legs |->
                [entry |-> r.legs[i].entry, short |-> r.legs[i].short,
                 exit  |-> IF r.legs[i].reason = "forced" THEN n + 1 ELSE r.legs[i].exit]]
    BY DEF position_intervals
  <2> HIDE DEF raw
  <2>4. HeldInv(raw, bars, s, n)
    BY <2>1, <2>2, HeldOfBatch
  <2>5. /\ s.pos = None => r = s.ledger
        /\ s.pos # None => \E price \in Int : r = book(s.ledger, bars, s.pos, n - 1, n, price, "forced")
    BY <2>1, <2>2, RunForms
  <2> HIDE DEF s, n, r
  <2>6. /\ legs \in Seq(SignalLeg)
        /\ \A i \in DOMAIN legs :
            /\ legs[i].entry \in 2 .. n /\ legs[i].exit \in 2 .. n
            /\ Held(bars, legs[i], legs[i].exit) /\ Opposes(legs[i], bars[legs[i].exit - 1].signal)
            /\ i > 1 => legs[i - 1].exit < legs[i].entry
        /\ \A j \in 2 .. n : Wants(Config, bars[j - 1].signal) =>
            \/ \E i \in DOMAIN legs : legs[i].entry <= j /\ j <= legs[i].exit
            \/ s.pos # None /\ s.pos.entry <= j
    BY <2>1, <2>4 DEF HeldInv
  <2>7. \A i \in DOMAIN legs : legs[i].reason # "forced"
    <3> SUFFICES ASSUME NEW i \in DOMAIN legs PROVE legs[i].reason # "forced"
      OBVIOUS
    <3> DEFINE leg == legs[i]
    <3>1. leg \in SignalLeg
      BY <2>6
    <3> HIDE DEF leg
    <3>2. leg.reason \in {"signal"}
      BY <3>1 DEF SignalLeg, LegOf
    <3> QED BY <3>2 DEF leg
  <2>8. m \in Nat /\ DOMAIN legs = 1 .. m
    BY <2>6
  <2> HIDE DEF iv, legs
  \* The legs that a signal closed.
  <2>9. ASSUME 1 .. m \subseteq DOMAIN r.legs, \A i \in 1 .. m : r.legs[i] = legs[i]
        PROVE  /\ \A i \in 1 .. m : iv[i].entry = legs[i].entry /\ iv[i].exit = legs[i].exit
               /\ \A i \in 1 .. m : Good(i)
    <3>1. ASSUME NEW i \in 1 .. m
          PROVE  /\ iv[i].entry = legs[i].entry /\ iv[i].exit = legs[i].exit /\ iv[i].short = legs[i].short
      BY <2>3, <2>7, <2>8, <2>9
    <3>2. ASSUME NEW i \in 1 .. m PROVE Good(i)
      <4> DEFINE leg == legs[i]
                 x   == iv[i]
      <4>1. x.entry = leg.entry /\ x.exit = leg.exit /\ x.short = leg.short
        BY <3>1
      <4>2. /\ Held(bars, leg, leg.exit) /\ Opposes(leg, bars[leg.exit - 1].signal)
            /\ leg.entry \in 2 .. n /\ leg.exit \in 2 .. n
            /\ i > 1 => legs[i - 1].exit < leg.entry
        BY <2>6, <2>8
      <4>3. i > 1 => iv[i - 1].exit < iv[i].entry
        <5> SUFFICES ASSUME i > 1 PROVE iv[i - 1].exit < iv[i].entry
          OBVIOUS
        <5>1. i - 1 \in 1 .. m
          BY <2>8
        <5> QED BY <3>1, <4>1, <4>2, <5>1
      <4> HIDE DEF leg, x
      <4>4. \A act : Opposes(x, act) <=> Opposes(leg, act)
        BY <4>1 DEF Opposes
      <4>5. /\ x.short = (bars[x.entry - 1].signal = "SELL")
            /\ Opposes(x, bars[x.exit - 1].signal)
            /\ \A k \in x.entry + 1 .. x.exit - 1 : ~Opposes(x, bars[k - 1].signal)
        BY <4>1, <4>2, <4>4 DEF Held
      <4> QED BY <4>3, <4>5 DEF x
    <3> QED BY <3>1, <3>2
  <2>10. /\ \A i \in DOMAIN iv : Good(i)
         /\ \A k \in 2 .. n : Wants(Config, bars[k - 1].signal) => Shown(k)
    <3>1. CASE s.pos = None
      <4>1. r.legs = legs
        BY <2>5, <3>1 DEF legs
      <4>2. DOMAIN iv = 1 .. m /\ 1 .. m \subseteq DOMAIN r.legs /\ \A i \in 1 .. m : r.legs[i] = legs[i]
        BY <2>3, <2>8, <4>1
      <4>3. /\ \A i \in 1 .. m : iv[i].entry = legs[i].entry /\ iv[i].exit = legs[i].exit
            /\ \A i \in 1 .. m : Good(i)
        BY <2>9, <4>2
      <4> HIDE DEF Good, m
      <4>4. \A i \in DOMAIN iv : Good(i)
        BY <4>2, <4>3
      <4>5. ASSUME NEW k \in 2 .. n, Wants(Config, bars[k - 1].signal) PROVE Shown(k)
        <5>1. PICK i \in DOMAIN legs : legs[i].entry <= k /\ k <= legs[i].exit
          BY <2>6, <3>1, <4>5
        <5>2. i \in 1 .. m
          BY <2>8
        <5> QED BY <4>2, <4>3, <5>1, <5>2
      <4> QED BY <4>4, <4>5
    <3>2. CASE s.pos # None
      <4>1. PICK price \in Int : r = book(s.ledger, bars, s.pos, n - 1, n, price, "forced")
        BY <2>5, <3>2
      <4> DEFINE l == LegFor(s.pos, n, price, "forced")
      <4>2. /\ s.pos \in Position /\ s.pos.entry \in 2 .. n /\ Held(bars, s.pos, n + 1)
            /\ \A i \in 1 .. m : legs[i].exit < s.pos.entry
        BY <2>4, <2>8, <3>2 DEF HeldInv, BatchType, legs
      <4>3. s.ledger.legs \in Seq(AnyLeg)
        <5>1. SignalLeg \subseteq AnyLeg
          BY DEF SignalLeg, AnyLeg, LegOf
        <5> QED BY <2>6, <5>1 DEF legs
      <4>4. Booked(s.ledger, bars, s.pos, n - 1, n, price, "forced")
        BY <2>2, <4>2, <4>3, BookFacts DEF Reasons
      <4>5. /\ l.entry = s.pos.entry /\ l.reason = "forced" /\ l.short = s.pos.short
            /\ r.legs = Append(legs, l) /\ Len(r.legs) = m + 1 /\ r.legs[m + 1] = l
            /\ \A i \in 1 .. m : r.legs[i] = legs[i]
        BY <4>1, <4>4 DEF Booked, legs
      <4> HIDE DEF l
      <4>6. DOMAIN r.legs = 1 .. m + 1
        <5>1. legs \in Seq(SignalLeg \union {l})
          BY <2>6
        <5>2. Append(legs, l) \in Seq(SignalLeg \union {l})
          BY <5>1
        <5> QED BY <4>5, <5>2
      <4> HIDE DEF m
      <4>7. DOMAIN iv = 1 .. m + 1 /\ 1 .. m \subseteq DOMAIN r.legs
        BY <2>3, <2>8, <4>6
      <4>8. /\ \A i \in 1 .. m : iv[i].entry = legs[i].entry /\ iv[i].exit = legs[i].exit
            /\ \A i \in 1 .. m : Good(i)
        BY <2>9, <4>5, <4>7
      <4> DEFINE x == iv[m + 1]
      <4>9. x.entry = s.pos.entry /\ x.short = s.pos.short /\ x.exit = n + 1
        BY <2>3, <2>8, <4>5, <4>6
      <4> HIDE DEF x
      <4>10. Good(m + 1)
        <5>1. \A act : Opposes(x, act) <=> Opposes(s.pos, act)
          BY <4>9 DEF Opposes
        <5>2. /\ x.short = (bars[x.entry - 1].signal = "SELL")
              /\ \A k \in x.entry + 1 .. x.exit - 1 : ~Opposes(x, bars[k - 1].signal)
          BY <4>2, <4>9, <5>1 DEF Held
        <5>3. ~(x.exit <= n)
          BY <2>2, <4>9
        <5>4. m + 1 > 1 => iv[(m + 1) - 1].exit < x.entry
          <6> SUFFICES ASSUME m + 1 > 1 PROVE iv[(m + 1) - 1].exit < x.entry
            OBVIOUS
          <6>1. (m + 1) - 1 = m /\ m \in 1 .. m
            BY <2>8
          <6> QED BY <4>2, <4>8, <4>9, <6>1
        <5> QED BY <5>2, <5>3, <5>4 DEF x
      <4>11. \A i \in DOMAIN iv : Good(i)
        <5> HIDE DEF Good
        <5>1. \A i \in 1 .. m + 1 : i \in 1 .. m \/ i = m + 1
          BY <2>8
        <5> QED BY <4>7, <4>8, <4>10, <5>1
      <4>12. ASSUME NEW k \in 2 .. n, Wants(Config, bars[k - 1].signal) PROVE Shown(k)
        <5>1. CASE \E i \in DOMAIN legs : legs[i].entry <= k /\ k <= legs[i].exit
          <6>1. PICK i \in DOMAIN legs : legs[i].entry <= k /\ k <= legs[i].exit
            BY <5>1
          <6>2. i \in 1 .. m /\ i \in DOMAIN iv
            BY <2>8, <4>7
          <6> QED BY <4>8, <6>1, <6>2
        <5>2. CASE s.pos.entry <= k
          <6>1. m + 1 \in DOMAIN iv /\ x.entry <= k /\ k <= x.exit
            BY <2>2, <2>8, <4>7, <4>9, <5>2
          <6> QED BY <6>1 DEF x
        <5> QED BY <2>6, <4>12, <5>1, <5>2
      <4> HIDE DEF Good, Shown
      <4> QED BY <4>11, <4>12
    <3> QED BY <3>1, <3>2
  <2>11. iv \in {position_intervals(Config, bars)}
    BY DEF iv
  <2> QED BY <2>10, <2>11 DEF IntervalsFollowSignals, n
<1> QED
  BY <1>1, BarsHold, PTL

(***************************************************************************)
(* The live driver.                                                        *)
(***************************************************************************)

LEMMA StepLen ==
  ASSUME NEW cfg, NEW pos, NEW seen, NEW k, NEW bar, NEW act
  PROVE  Len(step(cfg, pos, seen, k, bar, act)) \in 0 .. 2
<1> DEFINE todo == step(cfg, pos, seen, k, bar, act)
<1>1. \/ todo = <<>>
      \/ \E a : todo = <<a>>
      \/ \E a, b : todo = <<a, b>>
  BY StepForms
<1> HIDE DEF todo
<1>2. Len(todo) \in 0 .. 2
  BY <1>1
<1> QED
  BY <1>2 DEF todo

LEMMA SettleLegs ==
  ASSUME NEW led, NEW all, NEW pos, NEW k, NEW intent
  PROVE  settle(led, all, pos, k, intent).legs =
            IF intent.action = "open" THEN led.legs
            ELSE Append(led.legs, LegFor(pos, k, intent.price, intent.reason))
BY DEF settle, book, LegFor

\* What bars there are has no part in the trades.
LEMMA ActedAgree ==
  ASSUME NEW all, NEW more, NEW pos, NEW l1, NEW l2, l1.legs = l2.legs, NEW k,
         NEW todo, Len(todo) \in 0 .. 2
  PROVE  LET a == Acted(all, [pos |-> pos, ledger |-> l1], k, todo)
             b == Acted(more, [pos |-> pos, ledger |-> l2], k, todo)
         IN  a.pos = b.pos /\ a.ledger.legs = b.ledger.legs
<1> DEFINE s == [pos |-> pos, ledger |-> l1]
           t == [pos |-> pos, ledger |-> l2]
           a == Acted(all, s, k, todo)
           b == Acted(more, t, k, todo)
           After(x, r, i) == [pos    |-> todo[i].pos,
                              ledger |-> settle(r.ledger, x, r.pos, k, todo[i])]
<1>1. /\ a = IF Len(todo) = 0 THEN s ELSE IF Len(todo) = 1 THEN After(all, s, 1)
             ELSE After(all, After(all, s, 1), 2)
      /\ b = IF Len(todo) = 0 THEN t ELSE IF Len(todo) = 1 THEN After(more, t, 1)
             ELSE After(more, After(more, t, 1), 2)
  BY ActedOver
<1>2. s.pos = t.pos /\ s.ledger.legs = t.ledger.legs
  OBVIOUS
<1> HIDE DEF s, t
<1>3. \A u, v, i : u.pos = v.pos /\ u.ledger.legs = v.ledger.legs =>
         /\ After(all, u, i).pos = After(more, v, i).pos
         /\ After(all, u, i).ledger.legs = After(more, v, i).ledger.legs
  <2> SUFFICES ASSUME NEW u, NEW v, NEW i, u.pos = v.pos, u.ledger.legs = v.ledger.legs
               PROVE  /\ After(all, u, i).pos = After(more, v, i).pos
                      /\ After(all, u, i).ledger.legs = After(more, v, i).ledger.legs
    OBVIOUS
  <2> DEFINE x == settle(u.ledger, all, u.pos, k, todo[i])
             y == settle(v.ledger, more, v.pos, k, todo[i])
  <2>1. x.legs = y.legs
    BY SettleLegs
  <2> HIDE DEF x, y
  <2>2. After(all, u, i) = [pos |-> todo[i].pos, ledger |-> x]
        /\ After(more, v, i) = [pos |-> todo[i].pos, ledger |-> y]
    BY DEF x, y
  <2> HIDE DEF After
  <2> QED BY <2>1, <2>2
<1> HIDE DEF After, a, b
<1>4. a.pos = b.pos /\ a.ledger.legs = b.ledger.legs
  BY <1>1, <1>2, <1>3
<1> QED
  BY <1>4 DEF a, b, s, t

\* The same trades, and the same closes seen.
Alike(s, t) == s.pos = t.pos /\ s.ledger.legs = t.ledger.legs /\ s.seen = t.seen

LEMMA FilledAlike ==
  ASSUME NEW cfg, NEW all, NEW more, NEW k, all[k] = more[k], all[k - 1] = more[k - 1],
         NEW s, NEW t, Alike(s, t)
  PROVE  Alike(Filled(cfg, all, s, k), Filled(cfg, more, t, k))
<1> DEFINE seen == observe_close(cfg, s.seen, all[k - 1].close)
           todo == step(cfg, s.pos, seen, k, all[k], all[k - 1].signal)
           a    == Acted(all, [pos |-> s.pos, ledger |-> s.ledger], k, todo)
           b    == Acted(more, [pos |-> s.pos, ledger |-> t.ledger], k, todo)
           f    == Filled(cfg, all, s, k)
           g    == Filled(cfg, more, t, k)
<1>1. f.pos = a.pos /\ f.ledger = a.ledger /\ f.seen = seen
  BY DEF Filled
<1>2. g.pos = b.pos /\ g.ledger = b.ledger /\ g.seen = seen
  BY DEF Filled, Alike
<1>3. Len(todo) \in 0 .. 2
  BY StepLen
<1> HIDE DEF todo, f, g
<1>4. a.pos = b.pos /\ a.ledger.legs = b.ledger.legs
  BY <1>3, ActedAgree DEF Alike
<1> HIDE DEF a, b
<1> QED
  BY <1>1, <1>2, <1>4 DEF Alike, f, g

\* A backtest over one bar more does the same over the bars before it.
LEMMA OneBarMore ==
  ASSUME NEW cfg, NEW all \in Seq(Bar), Len(all) \in Nat \ {0}, NEW bar \in Bar
  PROVE  LET more == Append(all, bar)
         IN  \E t : Alike(Batch(cfg, all), t) /\ Batch(cfg, more) = Filled(cfg, more, t, Len(all) + 1)
<1> DEFINE more == Append(all, bar)
           n    == Len(all)
<1>1. /\ n \in Nat \ {0} /\ Len(more) = n + 1 /\ \A k \in 1 .. n : more[k] = all[k]
  OBVIOUS
<1> HIDE DEF more
<1>2. PICK f : IsBatch(cfg, all, f) /\ Batch(cfg, all) = f[Len(all)]
  BY BatchExists
<1>3. Len(more) \in Nat \ {0}
  BY <1>1
<1>4. PICK g : IsBatch(cfg, more, g) /\ Batch(cfg, more) = g[Len(more)]
  BY <1>3, BatchExists
<1>5. f[1] = Start(all) /\ \A k \in 2 .. Len(all) : f[k] = Filled(cfg, all, f[k - 1], k)
  <2>1. IsBatch(cfg, all, f)
    BY <1>2
  <2> QED BY <2>1, BatchSteps, Zenon
<1>6. g[1] = Start(more) /\ \A k \in 2 .. Len(more) : g[k] = Filled(cfg, more, g[k - 1], k)
  <2>1. IsBatch(cfg, more, g)
    BY <1>4
  <2> QED BY <1>3, <2>1, BatchSteps, Zenon
<1> DEFINE S == {k \in 1 .. n : Alike(f[k], g[k])}
<1>7. 1 \in S
  <2>1. Alike(Start(all), Start(more))
    BY DEF Alike, Start, Ledger
  <2> QED BY <1>1, <1>5, <1>6, <2>1
<1>8. \A m \in 1 .. n - 1 : m \in S => m + 1 \in S
  <2> SUFFICES ASSUME NEW m \in 1 .. n - 1, m \in S PROVE m + 1 \in S
    OBVIOUS
  <2>1. /\ m + 1 \in 2 .. n /\ m + 1 \in 2 .. Len(more) /\ (m + 1) - 1 = m
        /\ m \in 1 .. n /\ m + 1 \in 1 .. n
    BY <1>1
  <2>2. f[m + 1] = Filled(cfg, all, f[m], m + 1) /\ g[m + 1] = Filled(cfg, more, g[m], m + 1)
    BY <1>5, <1>6, <2>1
  <2>3. all[m + 1] = more[m + 1] /\ all[(m + 1) - 1] = more[(m + 1) - 1] /\ Alike(f[m], g[m])
    BY <1>1, <2>1
  <2>4. Alike(Filled(cfg, all, f[m], m + 1), Filled(cfg, more, g[m], m + 1))
    BY <2>3, FilledAlike
  <2> QED BY <2>1, <2>2, <2>4
<1> HIDE DEF S, n
<1>9. \A m \in 1 .. n : m \in S
  BY <1>1, <1>7, <1>8, UpTo
<1>10. Alike(f[n], g[n])
  BY <1>1, <1>9 DEF S
<1>11. g[n + 1] = Filled(cfg, more, g[n], n + 1)
  <2>1. n + 1 \in 2 .. Len(more) /\ (n + 1) - 1 = n
    BY <1>1
  <2> QED BY <1>6, <2>1
<1> QED
  BY <1>1, <1>2, <1>4, <1>10, <1>11 DEF more, n

\* What the closes seen are for is the weight of an entry.
LEMMA SeenForWeight ==
  ASSUME NEW cfg, NEW pos, NEW a, NEW b, deploy_weight(cfg, a) = deploy_weight(cfg, b),
         NEW k, NEW bar, NEW act
  PROVE  step(cfg, pos, a, k, bar, act) = step(cfg, pos, b, k, bar, act)
<1>1. _entry_intent(cfg, a, k, bar, act) = _entry_intent(cfg, b, k, bar, act)
  BY DEF _entry_intent
<1> QED
  BY <1>1 DEF step

\* The simulated broker holds what the state file says, after every bar.
LEMMA BrokerFollows ==
  ASSUME NEW cfg \in StrategyConfig, NEW pos, NEW seen \in Seq(Nat), NEW k \in Nat,
         NEW bar \in Bar, NEW act, NEW all, NEW led, NEW quantity, Agrees(pos, quantity)
  PROVE  LET todo == step(cfg, pos, seen, k, bar, act)
         IN  Agrees(Acted(all, [pos |-> pos, ledger |-> led], k, todo).pos, Submitted(quantity, todo))
<1> DEFINE E    == _entry_intent(cfg, seen, k, bar, act)
           todo == step(cfg, pos, seen, k, bar, act)
           s    == [pos |-> pos, ledger |-> led]
           r    == Acted(all, s, k, todo)
           q    == Submitted(quantity, todo)
           After(u, i) == [pos |-> todo[i].pos, ledger |-> settle(u.ledger, all, u.pos, k, todo[i])]
<1>1. E.pos # None /\ E.action = "open" /\ E.short = E.pos.short
  BY EntryType
<1>2. \A p, price, reason : /\ _close_at(cfg, p, price, reason).action = "close"
                            /\ _close_at(cfg, p, price, reason).pos = None
  BY DEF _close_at
<1>3. /\ r = IF Len(todo) = 0 THEN s ELSE IF Len(todo) = 1 THEN After(s, 1)
             ELSE After(After(s, 1), 2)
      /\ q = IF Len(todo) = 0 THEN quantity ELSE IF Len(todo) = 1 THEN submit(quantity, todo[1])
             ELSE submit(submit(quantity, todo[1]), todo[2])
  BY StepLen, ActedOver, SubmittedOver
<1>4. s.pos = pos /\ \A u, i : After(u, i).pos = todo[i].pos
  OBVIOUS
<1>5. \/ todo = <<>>
      \/ todo = <<E>>
      \/ \E c : c.action = "close" /\ c.pos = None /\ (todo = <<c>> \/ todo = <<E, c>>)
  <2> DEFINE Close(c) == c.action = "close" /\ c.pos = None
  <2>1. Close(_close_at(cfg, pos, bar.open, "signal"))
    BY <1>2
  <2>2. \A p, hit : Close(AtLevel(cfg, p, hit))
    BY <1>2 DEF AtLevel
  <2> HIDE DEF Close, E, todo
  <2>3. \/ todo = <<>>
        \/ todo = <<E>>
        \/ \E c : Close(c) /\ (todo = <<c>> \/ todo = <<E, c>>)
    BY <2>1, <2>2, StepForms DEF E, todo
  <2> QED BY <2>3 DEF Close
<1> HIDE DEF E, todo, r, s, q, After
<1>6. Agrees(r.pos, q)
  <2>1. CASE todo = <<>>
    BY <1>3, <1>4, <2>1
  <2>2. CASE todo = <<E>>
    <3>1. Len(todo) = 1 /\ todo[1] = E
      BY <2>2
    <3>2. r.pos = E.pos /\ q = submit(quantity, E)
      BY <1>3, <1>4, <3>1
    <3> QED BY <1>1, <3>2 DEF Agrees, submit
  <2>3. ASSUME NEW c, c.action = "close", c.pos = None, todo = <<c>> \/ todo = <<E, c>>
        PROVE  Agrees(r.pos, q)
    <3>1. CASE todo = <<c>>
      <4>1. Len(todo) = 1 /\ todo[1] = c
        BY <3>1
      <4>2. r.pos = None /\ q = submit(quantity, c)
        BY <1>3, <1>4, <2>3, <4>1
      <4> QED BY <2>3, <4>2 DEF Agrees, submit
    <3>2. CASE todo = <<E, c>>
      <4>1. Len(todo) = 2 /\ todo[1] = E /\ todo[2] = c
        BY <3>2
      <4>2. r.pos = None /\ q = submit(submit(quantity, E), c)
        BY <1>3, <1>4, <2>3, <4>1
      <4> QED BY <2>3, <4>2 DEF Agrees, submit
    <3> QED BY <2>3, <3>1, <3>2
  <2> QED BY <1>5, <2>1, <2>2, <2>3
<1> QED
  BY <1>6 DEF r, s, q, todo

\* A replay: the driver is handed the bar that starts, and is either there for
\* every bar or measures nothing on the ones before.
Replayed == Handed /\ (Kept \/ ~uses_stop(Config) \/ ~Config.volatility)

\* At every bar the driver is where a backtest that ends there is.
ParityInv ==
    /\ BarsInv
    /\ closes \in Seq(Nat)
    /\ Agrees(state.pos, held)
    /\ state.pos = Batch(Config, bars).pos
    /\ ledger.legs = Batch(Config, bars).ledger.legs
    /\ Kept => closes = Batch(Config, bars).seen

LEMMA ParityStep ==
  ASSUME Replayed, ParityInv, NEW bar \in Bar, on_bar_closed(bar)
  PROVE  ParityInv'
<1> DEFINE all  == Append(bars, bar)
           n    == Len(bars)
           last == bars[n]
           seen == observe_close(Config, IF Kept THEN closes ELSE <<>>, last.close)
           todo == step(Config, state.pos, seen, n + 1, bar, last.signal)
           done == Acted(<<>>, [pos |-> state.pos, ledger |-> ledger], n + 1, todo)
           s    == Batch(Config, bars)
           b    == Batch(Config, all)
<1>1. /\ bars \in Seq(Bar) /\ n \in Nat \ {0} /\ closes \in Seq(Nat) /\ Agrees(state.pos, held)
      /\ state.pos = s.pos /\ ledger.legs = s.ledger.legs /\ (Kept => closes = s.seen)
  BY DEF ParityInv, BarsInv
<1>2. /\ all \in Seq(Bar) /\ Len(all) = n + 1 /\ all[n + 1] = bar /\ all[n] = last
      /\ last \in Bar /\ (n + 1) - 1 = n /\ n + 1 \in Nat \ {0}
  BY <1>1
<1>3. Config \in StrategyConfig
  BY ReplayAssumption
<1>4. /\ bars' = all /\ closes' = seen
      /\ state' = [pos |-> done.pos, index |-> n + 1] /\ ledger' = done.ledger
      /\ held' = Submitted(held, todo)
  <2> DEFINE signal == IF Handed THEN bars[Len(bars)] ELSE bar
             k      == IF Handed THEN Len(all) ELSE state.index + 1
             se     == observe_close(Config, IF Kept THEN closes ELSE <<>>, signal.close)
             td     == step(Config, state.pos, se, k, bar, signal.signal)
             dn     == Acted(<<>>, [pos |-> state.pos, ledger |-> ledger], k, td)
  <2>1. /\ bars' = all /\ closes' = se
        /\ IF Agrees(state.pos, held)
           THEN /\ state' = [pos |-> dn.pos, index |-> k]
                /\ ledger' = dn.ledger
                /\ held' = Submitted(held, td)
           ELSE UNCHANGED <<state, ledger, held>>
    BY DEF on_bar_closed
  <2>2. signal = last /\ k = n + 1
    BY <1>2 DEF Replayed
  <2> HIDE DEF all, n, last, signal, k
  <2> QED BY <1>1, <2>1, <2>2
<1>5. \E t : Alike(s, t) /\ b = Filled(Config, all, t, n + 1)
  BY <1>1, OneBarMore
<1> HIDE DEF all, n, last, s, b
<1>6. PICK t : Alike(s, t) /\ b = Filled(Config, all, t, n + 1)
  BY <1>5
<1>7. s.pos \in Position \union {None} /\ s.seen \in Seq(Nat)
  <2>1. CurveInv(bars, Batch(Config, bars), Len(bars))
    BY <1>1, <1>3, CurveOfBatch DEF n
  <2> QED BY <2>1 DEF CurveInv, BatchType, s
<1>8. last.close \in Nat
  BY <1>2 DEF Bar
<1>9. seen \in Seq(Nat)
  <2> DEFINE before == IF Kept THEN closes ELSE <<>>
  <2>1. before \in Seq(Nat)
    BY <1>1
  <2> HIDE DEF before
  <2>2. observe_close(Config, before, last.close) \in Seq(Nat)
    BY <1>3, <1>8, <2>1, SeenType
  <2> QED BY <2>2 DEF before
<1> DEFINE shown == observe_close(Config, t.seen, last.close)
           made  == step(Config, t.pos, shown, n + 1, bar, last.signal)
           acted == Acted(all, [pos |-> t.pos, ledger |-> t.ledger], n + 1, made)
<1>10. b.pos = acted.pos /\ b.ledger = acted.ledger /\ b.seen = shown
  BY <1>2, <1>6 DEF Filled
<1>11. t.pos = state.pos /\ t.ledger.legs = ledger.legs /\ (Kept => t.seen = closes)
  BY <1>1, <1>6 DEF Alike
<1>12. Kept => seen = shown
  BY <1>11
<1>13. made = todo
  <2>1. deploy_weight(Config, seen) = deploy_weight(Config, shown)
    <3>1. CASE Kept
      BY <1>12, <3>1
    <3>2. CASE ~Kept
      <4> HIDE DEF seen, shown
      <4> QED BY <3>2 DEF Replayed, deploy_weight
    <3> QED BY <3>1, <3>2
  <2> HIDE DEF seen, shown
  <2>2. step(Config, t.pos, shown, n + 1, bar, last.signal)
          = step(Config, t.pos, seen, n + 1, bar, last.signal)
    BY <2>1, SeenForWeight
  <2> QED BY <1>11, <2>2
<1> HIDE DEF seen, shown
<1>14. Len(todo) \in 0 .. 2
  BY StepLen
<1>15. Agrees(done.pos, Submitted(held, todo))
  BY <1>1, <1>2, <1>3, <1>9, BrokerFollows
<1> HIDE DEF todo, made
<1>16. done.pos = acted.pos /\ done.ledger.legs = acted.ledger.legs
  BY <1>11, <1>13, <1>14, ActedAgree
<1> HIDE DEF done, acted
<1>17. BarsInv'
  BY <1>2, <1>4 DEF BarsInv
<1>18. b = Batch(Config, bars)'
  BY <1>4 DEF b
<1> QED
  BY <1>4, <1>9, <1>10, <1>12, <1>15, <1>16, <1>17, <1>18 DEF ParityInv

\* Over the same bars, however many there are, the live driver has made the
\* trades of the backtest, at its prices, in its sizes and for its reasons; and
\* what the backtest has to close at the end of the data is what it still holds
\* (engine.run, on_bar_closed, settle).
THEOREM BacktestIsReplayed == Replayed => (Spec => []Parity)
<1>1. ASSUME Replayed, Init PROVE ParityInv
  <2>1. BarsInv
    BY <1>1, InitBars
  <2>2. Len(bars) = 1
    <3>1. PICK c \in Candles : \E s \in Signals : bars = <<Decided(c, s)>>
      BY <1>1 DEF Init
    <3> QED BY <3>1
  <2>3. PICK f : IsBatch(Config, bars, f) /\ Batch(Config, bars) = f[Len(bars)]
    BY <2>1, BatchExists DEF BarsInv
  <2>4. Batch(Config, bars) = Start(bars)
    <3>1. IsBatch(Config, bars, f)
      BY <2>3
    <3>2. f[1] = Start(bars)
      BY <2>1, <3>1, BatchSteps DEF BarsInv
    <3> QED BY <2>2, <2>3, <3>2
  <2>5. state.pos = None /\ closes = <<>> /\ ledger.legs = <<>> /\ held = 0
    BY <1>1 DEF Init, Ledger
  <2> QED BY <2>1, <2>4, <2>5 DEF ParityInv, Start, Ledger, Agrees
<1>2. ASSUME Replayed, ParityInv, [Next]_vars PROVE ParityInv'
  <2>1. CASE UNCHANGED vars
    BY <1>2, <2>1 DEF vars, ParityInv, BarsInv, Agrees
  <2>2. CASE Next
    <3>1. PICK c \in Candles : \E s \in Signals : on_bar_closed(Decided(c, s))
      BY <2>2 DEF Next
    <3>2. PICK s \in Signals : on_bar_closed(Decided(c, s))
      BY <3>1
    <3>3. Decided(c, s) \in Bar
      BY DecidedBar
    <3> DEFINE d == Decided(c, s)
    <3> HIDE DEF d
    <3>4. d \in Bar /\ on_bar_closed(d)
      BY <3>2, <3>3 DEF d
    <3> QED BY <1>2, <3>4, ParityStep
  <2> QED BY <1>2, <2>1, <2>2
<1>3. ParityInv => Parity
  <2> SUFFICES ASSUME ParityInv PROVE Parity
    OBVIOUS
  <2> DEFINE s      == Batch(Config, bars)
             n      == Len(bars)
             r      == run(Config, bars)
             legs   == r.legs
             Newest == legs[Len(legs)]
             still  == legs # <<>> /\ Newest.reason = "forced"
  <2>1. /\ bars \in Seq(Bar) /\ n \in Nat \ {0} /\ Config \in StrategyConfig
        /\ state.pos = s.pos /\ ledger.legs = s.ledger.legs
    BY ReplayAssumption DEF ParityInv, BarsInv
  <2>2. CurveInv(bars, s, n)
    BY <2>1, CurveOfBatch
  <2>3. /\ s.pos = None => r = s.ledger
        /\ s.pos # None => \E price \in Int : r = book(s.ledger, bars, s.pos, n - 1, n, price, "forced")
    BY <2>1, RunForms
  <2> HIDE DEF s, n, r
  <2>4. s.ledger.legs \in Seq(Leg) /\ (s.pos # None => s.pos \in Position)
    BY <2>2 DEF CurveInv, BatchType
  <2>5. /\ ledger.legs = IF still THEN SubSeq(legs, 1, Len(legs) - 1) ELSE legs
        /\ still <=> state.pos # None
        /\ still => /\ Newest.entry = state.pos.entry /\ Newest.short = state.pos.short
                    /\ Newest.price = state.pos.price
                    /\ Newest.weight = state.pos.weight
    <3>1. CASE s.pos = None
      <4>1. legs = s.ledger.legs /\ legs \in Seq(Leg)
        BY <2>3, <2>4, <3>1
      <4> HIDE DEF legs
      <4>2. ASSUME legs # <<>> PROVE Newest.reason # "forced"
        <5>1. Newest \in Leg
          BY <4>1, <4>2
        <5> HIDE DEF Newest
        <5>2. Newest.reason \in {"signal", "stop", "take"}
          BY <5>1 DEF Leg, LegOf
        <5> QED BY <5>2
      <4>3. ~still
        BY <4>2
      <4> HIDE DEF still
      <4> QED BY <2>1, <3>1, <4>1, <4>3
    <3>2. CASE s.pos # None
      <4>1. PICK price \in Int : r = book(s.ledger, bars, s.pos, n - 1, n, price, "forced")
        BY <2>3, <3>2
      <4> DEFINE l == LegFor(s.pos, n, price, "forced")
                 m == Len(s.ledger.legs)
      <4>2. s.ledger.legs \in Seq(AnyLeg)
        <5>1. Leg \subseteq AnyLeg
          BY DEF Leg, AnyLeg, LegOf
        <5> QED BY <2>4, <5>1
      <4>3. Booked(s.ledger, bars, s.pos, n - 1, n, price, "forced")
        BY <2>1, <2>4, <3>2, <4>2, BookFacts DEF Reasons
      <4>4. /\ l.entry = s.pos.entry /\ l.reason = "forced" /\ l.short = s.pos.short
            /\ l.price = s.pos.price /\ l.weight = s.pos.weight
            /\ legs = Append(s.ledger.legs, l) /\ Len(legs) = m + 1 /\ m \in Nat /\ legs[m + 1] = l
        BY <4>1, <4>3 DEF Booked
      <4> HIDE DEF l, legs
      <4>5. legs # <<>> /\ Newest = l
        BY <4>4
      <4>6. SubSeq(legs, 1, Len(legs) - 1) = s.ledger.legs
        <5>1. s.ledger.legs \in Seq(AnyLeg \union {l}) /\ l \in AnyLeg \union {l}
          BY <4>2
        <5>2. Len(legs) - 1 = m
          BY <4>4
        <5>3. SubSeq(Append(s.ledger.legs, l), 1, Len(s.ledger.legs)) = s.ledger.legs
          BY <5>1
        <5> QED BY <4>4, <5>2, <5>3
      <4>7. still
        BY <4>4, <4>5
      <4> HIDE DEF still, Newest
      <4> QED BY <2>1, <3>2, <4>4, <4>5, <4>6, <4>7
    <3> QED BY <3>1, <3>2
  <2>6. legs \in {run(Config, bars).legs}
    BY DEF r
  <2> HIDE DEF legs
  <2> QED BY <2>5, <2>6 DEF Parity
<1>4. Replayed => Replayed'
  BY DEF Replayed
<1> QED
  BY <1>1, <1>2, <1>3, <1>4, PTL DEF Spec

=============================================================================
