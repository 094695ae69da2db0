--------------------------- MODULE DailyTick_proofs ---------------------------
(***************************************************************************)
(* What the day's logs are good for, with any number of instruments, lists, *)
(* days and failures: one switch a day and entries halted after so many    *)
(* losses, up to a stated number for every failure; one switch for every   *)
(* list; and no switch under a position but for an entry that was working. *)
(***************************************************************************)
EXTENDS DailyTickProps, FiniteSetTheorems, SequenceTheorems, TLAPS

(***************************************************************************)
(* The inductive invariants.                                               *)
(***************************************************************************)

\* No instrument is on a list twice.
Distinct(rows) == \A j, k \in DOMAIN rows : rows[j].inst = rows[k].inst => j = k

\* A list that some screening has brought.
Screening(l) == l \in List /\ l.rows # <<>> /\ Distinct(l.rows) /\ l.id \in 1 .. screens

\* The cached list is one, and so is that of a tick that is to switch.
ListsAreScreenings ==
    /\ list # None => Screening(list)
    /\ At("apply") => tick.list # None /\ Screening(tick.list) /\ tick.auto \in Automation
    /\ used <= screens

TypeInv == TypeOK /\ ListsAreScreenings

\* While the list that made the last switch is in the cache, the strategy is on
\* its leader; and a tick that is to switch goes by a list that made none.
LeaderIsTaken ==
    /\ list # None /\ list.id = used => inst = list.rows[1].inst
    /\ At("apply") => tick.list.id # used
    /\ At("apply") /\ list # None /\ list.id = tick.list.id => list = tick.list

One(b) == IF b THEN 1 ELSE 0

\* A day's switches, but for two of each failure, are on the log; half a line at
\* its end holds one of the two in reserve.
SwitchedBehind(switches, log, failures) ==
    switches + One(log.torn) <= One(log.switched) + 2 * failures

SwitchesAreLogged ==
    /\ SwitchedBehind(made, ticks, faults)
    /\ ticks.torn => faults > 0
    /\ At("apply") /\ tick.auto.once => ~ticks.switched

\* So are a day's losses in a row, but for three of each failure, until the run
\* on the log has reached the limit.
Behind(count, streak, half, failures) ==
    streak < MaxLosses => count + One(half) <= streak + 3 * failures

LossesAreLogged ==
    /\ Behind(losses, trades, torn, faults)
    /\ torn => faults > 0
    /\ At("drive") /\ ~tick.halt => trades < MaxLosses

\* A tick that may only switch when flat has seen no position, and nothing has
\* opened one since but an entry that was working then.
FlatSinceSeen == At("apply") /\ tick.auto.flat => tick.working \/ position = "none"

DayInv == TypeInv /\ SwitchesAreLogged /\ LossesAreLogged /\ FlatSinceSeen

(***************************************************************************)
(* A ranking has every place once.                                         *)
(***************************************************************************)

\* The places of a finite set that R orders strictly and totally: how many
\* come before, and one.
Place(S, R) == [i \in S |-> 1 + Cardinality({j \in S : <<j, i>> \in R})]

StrictOrder(S, R) ==
    /\ \A i \in S : <<i, i>> \notin R
    /\ \A i, j, k \in S : <<i, j>> \in R /\ <<j, k>> \in R => <<i, k>> \in R
    /\ \A i, j \in S : i # j => <<i, j>> \in R \/ <<j, i>> \in R

\* No place is shared, none is beyond the last, and so none is left out.
LEMMA PlacesAreTaken ==
    ASSUME NEW S, IsFiniteSet(S), NEW R, StrictOrder(S, R)
    PROVE  /\ Place(S, R) \in [S -> 1 .. Cardinality(S)]
           /\ \A i, j \in S : Place(S, R)[i] = Place(S, R)[j] => i = j
           /\ \A k \in 1 .. Cardinality(S) : \E i \in S : Place(S, R)[i] = k
<1> DEFINE Earlier(i) == {j \in S : <<j, i>> \in R}
<1>1. Cardinality(S) \in Nat
  BY FS_CardinalityType
<1>2. \A i \in S : IsFiniteSet(Earlier(i)) /\ Cardinality(Earlier(i)) \in Nat
  <2> SUFFICES ASSUME NEW i \in S
               PROVE  IsFiniteSet(Earlier(i)) /\ Cardinality(Earlier(i)) \in Nat
    OBVIOUS
  <2>1. Earlier(i) \in SUBSET S
    OBVIOUS
  <2> HIDE DEF Earlier
  <2>2. IsFiniteSet(Earlier(i))
    BY <2>1, FS_Subset
  <2> QED BY <2>2, FS_CardinalityType
<1>3. \A i \in S : Cardinality(Earlier(i)) < Cardinality(S)
  <2> SUFFICES ASSUME NEW i \in S PROVE Cardinality(Earlier(i)) < Cardinality(S)
    OBVIOUS
  <2>1. Earlier(i) \in SUBSET S /\ Earlier(i) # S
    BY DEF StrictOrder
  <2> HIDE DEF Earlier
  <2>2. Cardinality(Earlier(i)) <= Cardinality(S) /\ Cardinality(Earlier(i)) # Cardinality(S)
    BY <2>1, FS_Subset
  <2> QED BY <1>1, <1>2, <2>2
<1>4. \A i, j \in S : <<i, j>> \in R => Cardinality(Earlier(i)) < Cardinality(Earlier(j))
  <2> SUFFICES ASSUME NEW i \in S, NEW j \in S, <<i, j>> \in R
               PROVE  Cardinality(Earlier(i)) < Cardinality(Earlier(j))
    OBVIOUS
  <2>1. Earlier(i) \in SUBSET Earlier(j) /\ Earlier(i) # Earlier(j)
    BY DEF StrictOrder
  <2> HIDE DEF Earlier
  <2>2. /\ Cardinality(Earlier(i)) <= Cardinality(Earlier(j))
        /\ Cardinality(Earlier(i)) # Cardinality(Earlier(j))
    BY <1>2, <2>1, FS_Subset
  <2> QED BY <1>2, <2>2
<1>5. \A i \in S : Place(S, R)[i] = 1 + Cardinality(Earlier(i))
  BY DEF Place
<1> HIDE DEF Earlier
<1>6. Place(S, R) \in [S -> 1 .. Cardinality(S)]
  <2>1. \A i \in S : Place(S, R)[i] \in 1 .. Cardinality(S)
    BY <1>1, <1>2, <1>3, <1>5
  <2>2. Place(S, R) = [i \in S |-> Place(S, R)[i]]
    BY DEF Place
  <2> QED BY <2>1, <2>2
<1>7. \A i, j \in S : Place(S, R)[i] = Place(S, R)[j] => i = j
  <2> SUFFICES ASSUME NEW i \in S, NEW j \in S, i # j
               PROVE  Place(S, R)[i] # Place(S, R)[j]
    OBVIOUS
  <2>1. <<i, j>> \in R \/ <<j, i>> \in R
    BY DEF StrictOrder
  <2> QED BY <1>2, <1>4, <1>5, <2>1
<1>8. \A k \in 1 .. Cardinality(S) : \E i \in S : Place(S, R)[i] = k
  <2> DEFINE T == 1 .. Cardinality(S)
             f == Place(S, R)
  <2>1. IsFiniteSet(T) /\ Cardinality(T) = Cardinality(S)
    BY <1>1, FS_Interval
  <2>2. f \in Injection(S, T)
    BY <1>6, <1>7 DEF Injection, IsInjective
  <2> HIDE DEF f, T
  <2>3. f \in Surjection(S, T)
    BY <2>1, <2>2, FS_Injection
  <2> QED BY <2>3 DEF Surjection, f, T
<1> QED BY <1>6, <1>7, <1>8

\* The rank of an instrument is a place among those that were screened, and no
\* two share it: what is equal stays in order, the missing come last.
LEMMA RanksDiffer ==
    ASSUME NEW S \in SUBSET Insts, NEW f \in [S -> Measures \union {None}]
    PROVE  /\ IsFiniteSet(S) /\ Cardinality(S) \in Nat
           /\ \A i \in S : _ranked(f, i) \in 1 .. Cardinality(S)
           /\ \A i, j \in S : _ranked(f, i) = _ranked(f, j) => i = j
<1>0. N \in Nat /\ Measures \subseteq Nat
  BY DailyAssumption
<1>1. IsFiniteSet(S)
  <2>1. IsFiniteSet(1 .. N)
    BY <1>0, FS_Interval
  <2> QED BY <2>1, FS_Subset DEF Insts
<1> DEFINE R == {p \in S \X S : Ahead(f, p[1], p[2])}
<1>2. \A i, j \in S : <<i, j>> \in R <=> Ahead(f, i, j)
  OBVIOUS
<1>3. \A i \in S : i \in Int /\ (f[i] = None \/ f[i] \in Nat)
  <2> SUFFICES ASSUME NEW i \in S PROVE i \in Int /\ (f[i] = None \/ f[i] \in Nat)
    OBVIOUS
  <2>1. i \in 1 .. N
    BY DEF Insts
  <2>2. f[i] \in Measures \union {None}
    OBVIOUS
  <2>3. i \in Int
    BY <1>0, <2>1
  <2>4. f[i] = None \/ f[i] \in Nat
    BY <1>0, <2>2
  <2> QED BY <2>3, <2>4
<1>4. \A i \in S : ~Ahead(f, i, i)
  BY <1>3 DEF Ahead
<1>5. \A i, j, k \in S : Ahead(f, i, j) /\ Ahead(f, j, k) => Ahead(f, i, k)
  BY <1>3 DEF Ahead
<1>6. \A i, j \in S : i # j => Ahead(f, i, j) \/ Ahead(f, j, i)
  BY <1>3 DEF Ahead
<1>7. StrictOrder(S, R)
  <2> HIDE DEF R
  <2> QED BY <1>2, <1>4, <1>5, <1>6 DEF StrictOrder
<1>8. \A i \in S : _ranked(f, i) = Place(S, R)[i]
  <2> SUFFICES ASSUME NEW i \in S PROVE _ranked(f, i) = Place(S, R)[i]
    OBVIOUS
  <2>1. {j \in DOMAIN f : Ahead(f, j, i)} = {j \in S : <<j, i>> \in R}
    OBVIOUS
  <2> HIDE DEF R
  <2> QED BY <2>1 DEF _ranked, Place
<1> HIDE DEF R
<1>9. /\ Place(S, R) \in [S -> 1 .. Cardinality(S)]
      /\ \A i, j \in S : Place(S, R)[i] = Place(S, R)[j] => i = j
  BY <1>1, <1>7, PlacesAreTaken
<1> QED BY <1>1, <1>8, <1>9, FS_CardinalityType

\* What a screening is ranked into is a list, no instrument on it twice.
LEMMA RankedRows ==
    ASSUME NEW frame \in Frames
    PROVE  /\ rank_rows(frame) \in Seq(Row)
           /\ Distinct(rank_rows(frame))
<1> USE DailyAssumption
<1>1. PICK S \in SUBSET Insts :
         frame \in [S -> [change : Measures \union {None}, volume : Measures \union {None}]]
  BY DEF Frames
<1>2. DOMAIN frame = S
  BY <1>1
<1> DEFINE c == change(frame)
           v == volume(frame)
           K == Cardinality(S)
           Before(i, j) == \/ score(frame)[i] < score(frame)[j]
                           \/ /\ score(frame)[i] = score(frame)[j]
                              /\ _ranked(c, i) < _ranked(c, j)
           place(i) == 1 + Cardinality({j \in DOMAIN frame : Before(j, i)})
           kept == IF Cardinality(DOMAIN frame) < Size THEN Cardinality(DOMAIN frame) ELSE Size
           rows == [k \in 1 .. kept |->
                       LET i == CHOOSE i \in DOMAIN frame : place(i) = k
                       IN  [inst |-> i, score |-> score(frame)[i]]]
           R    == {p \in S \X S : Before(p[1], p[2])}
<1>3. c \in [S -> Measures \union {None}] /\ v \in [S -> Measures \union {None}]
  BY <1>1, <1>2 DEF change, volume
<1>4. rank_rows(frame) = rows
  BY DEF rank_rows
<1>5. /\ IsFiniteSet(S) /\ K \in Nat
      /\ \A i \in S : _ranked(c, i) \in 1 .. K /\ _ranked(v, i) \in 1 .. K
      /\ \A i, j \in S : _ranked(c, i) = _ranked(c, j) => i = j
  <2> HIDE DEF c, v
  <2> QED BY <1>3, RanksDiffer
<1>6. \A i \in S : score(frame)[i] \in Nat
  BY <1>2, <1>5 DEF score
<1>7. StrictOrder(S, R)
  <2>1. \A i \in S : _ranked(c, i) \in Nat
    BY <1>5
  <2>2. \A i, j \in S : _ranked(c, i) = _ranked(c, j) => i = j
    BY <1>5
  <2>3. \A i, j \in S : <<i, j>> \in R <=> Before(i, j)
    OBVIOUS
  <2> HIDE DEF c, R
  <2>4. \A i \in S : <<i, i>> \notin R
    BY <1>6, <2>1, <2>3
  <2>5. \A i, j, k \in S : <<i, j>> \in R /\ <<j, k>> \in R => <<i, k>> \in R
    BY <1>6, <2>1, <2>3
  <2>6. \A i, j \in S : i # j => <<i, j>> \in R \/ <<j, i>> \in R
    BY <1>6, <2>1, <2>2, <2>3
  <2> QED BY <2>4, <2>5, <2>6 DEF StrictOrder
<1>8. \A i \in S : place(i) = Place(S, R)[i]
  <2> SUFFICES ASSUME NEW i \in S PROVE place(i) = Place(S, R)[i]
    OBVIOUS
  <2>1. {j \in DOMAIN frame : Before(j, i)} = {j \in S : <<j, i>> \in R}
    BY <1>2
  <2> HIDE DEF R, Before
  <2> QED BY <2>1 DEF Place
<1>9. \A k \in 1 .. K : \E i \in S : place(i) = k
  <2> HIDE DEF R, place
  <2> QED BY <1>5, <1>7, <1>8, PlacesAreTaken
<1>10. kept \in 0 .. K
  BY <1>2, <1>5
<1> HIDE DEF place, kept
<1>11. \A k \in 1 .. kept : /\ rows[k].inst \in S /\ place(rows[k].inst) = k
                            /\ rows[k] \in Row
  <2> SUFFICES ASSUME NEW k \in 1 .. kept
               PROVE  /\ rows[k].inst \in S /\ place(rows[k].inst) = k
                      /\ rows[k] \in Row
    OBVIOUS
  <2> DEFINE i == CHOOSE i \in DOMAIN frame : place(i) = k
  <2>1. i \in S /\ place(i) = k
    BY <1>2, <1>5, <1>9, <1>10
  <2>2. rows[k] = [inst |-> i, score |-> score(frame)[i]]
    OBVIOUS
  <2> HIDE DEF i, rows
  <2> QED BY <1>6, <2>1, <2>2 DEF Row
<1>12. DOMAIN rows = 1 .. kept
  OBVIOUS
<1>13. Distinct(rows)
  <2> HIDE DEF rows
  <2> QED BY <1>11, <1>12 DEF Distinct
<1>14. rows \in Seq(Row)
  <2>1. rows = [k \in 1 .. kept |-> rows[k]]
    OBVIOUS
  <2> HIDE DEF rows
  <2>2. kept \in Nat
    BY <1>5, <1>10
  <2>3. rows \in [1 .. kept -> Row]
    BY <1>11, <2>1
  <2> QED BY <2>2, <2>3
<1> QED BY <1>4, <1>13, <1>14

(***************************************************************************)
(* What one tick writes: its rows, and the losses they come to.            *)
(***************************************************************************)

\* A tick closes two trades at the most.
Legs == {<<>>} \union {<<a>> : a \in Results} \union {<<a, b>> : a \in Results, b \in Results}

Leg(s, r)    == IF r = "loss" THEN (IF s < MaxLosses THEN s + 1 ELSE s) ELSE IF r = "win" THEN 0 ELSE s

LEMMA StepOfStreak ==
    ASSUME NEW s, NEW r \in Results
    PROVE  losing_streak(s, r) = Leg(s, r)
BY DEF losing_streak, Results, Leg

\* The streak over the rows of one tick.
LEMMA StreakOfRows ==
    ASSUME NEW s, NEW rows, Len(rows) \in 0 .. 2
    PROVE  StreakAfter(s, rows) =
              IF Len(rows) = 0 THEN s
              ELSE IF Len(rows) = 1 THEN losing_streak(s, rows[1])
              ELSE losing_streak(losing_streak(s, rows[1]), rows[2])
<1> DEFINE n == Len(rows)
           P(f) == f = [k \in 0 .. n |-> IF k = 0 THEN s ELSE losing_streak(f[k - 1], rows[k])]
           h == CHOOSE f : P(f)
<1>1. StreakAfter(s, rows) = h[n]
  BY DEF StreakAfter
<1>2. n \in 0 .. 2
  OBVIOUS
<1> HIDE DEF n
<1>3. \E f : P(f)
  <2> DEFINE s1 == losing_streak(s, rows[1])
             g  == [k \in 0 .. n |-> IF k = 0 THEN s
                                     ELSE IF k = 1 THEN s1 ELSE losing_streak(s1, rows[2])]
  <2>1. P(g)
    <3> HIDE DEF s1
    <3> SUFFICES ASSUME NEW k \in 0 .. n
                 PROVE  g[k] = IF k = 0 THEN s ELSE losing_streak(g[k - 1], rows[k])
      OBVIOUS
    <3>1. CASE k = 0
      BY <3>1
    <3>2. CASE k = 1
      BY <3>2, <1>2 DEF s1
    <3>3. CASE k = 2
      BY <3>3, <1>2
    <3> QED BY <1>2, <3>1, <3>2, <3>3
  <2> HIDE DEF g, P
  <2> QED BY <2>1
<1>4. P(h)
  BY <1>3
<1> HIDE DEF h
<1>5. h[0] = s
  BY <1>2, <1>4
<1>6. n >= 1 => h[1] = losing_streak(s, rows[1])
  BY <1>2, <1>4, <1>5
<1>7. n = 2 => h[2] = losing_streak(h[1], rows[2])
  BY <1>2, <1>4
<1>8. h[n] = IF n = 0 THEN s
             ELSE IF n = 1 THEN losing_streak(s, rows[1])
             ELSE losing_streak(losing_streak(s, rows[1]), rows[2])
  BY <1>2, <1>5, <1>6, <1>7
<1> QED BY <1>1, <1>8 DEF n

\* The losses in the account's books over the same rows.
LEMMA CountOfRows ==
    ASSUME NEW s, NEW rows, Len(rows) \in 0 .. 2
    PROVE  CountedAfter(s, rows) =
              IF Len(rows) = 0 THEN s
              ELSE IF Len(rows) = 1 THEN Counted(s, rows[1])
              ELSE Counted(Counted(s, rows[1]), rows[2])
<1> DEFINE n == Len(rows)
           P(f) == f = [k \in 0 .. n |-> IF k = 0 THEN s ELSE Counted(f[k - 1], rows[k])]
           h == CHOOSE f : P(f)
<1>1. CountedAfter(s, rows) = h[n]
  BY DEF CountedAfter
<1>2. n \in 0 .. 2
  OBVIOUS
<1> HIDE DEF n
<1>3. \E f : P(f)
  <2> DEFINE s1 == Counted(s, rows[1])
             g  == [k \in 0 .. n |-> IF k = 0 THEN s
                                     ELSE IF k = 1 THEN s1 ELSE Counted(s1, rows[2])]
  <2>1. P(g)
    <3> HIDE DEF s1
    <3> SUFFICES ASSUME NEW k \in 0 .. n
                 PROVE  g[k] = IF k = 0 THEN s ELSE Counted(g[k - 1], rows[k])
      OBVIOUS
    <3>1. CASE k = 0
      BY <3>1
    <3>2. CASE k = 1
      BY <3>2, <1>2 DEF s1
    <3>3. CASE k = 2
      BY <3>3, <1>2
    <3> QED BY <1>2, <3>1, <3>2, <3>3
  <2> HIDE DEF g, P
  <2> QED BY <2>1
<1>4. P(h)
  BY <1>3
<1> HIDE DEF h
<1>5. h[0] = s
  BY <1>2, <1>4
<1>6. n >= 1 => h[1] = Counted(s, rows[1])
  BY <1>2, <1>4, <1>5
<1>7. n = 2 => h[2] = Counted(h[1], rows[2])
  BY <1>2, <1>4
<1>8. h[n] = IF n = 0 THEN s
             ELSE IF n = 1 THEN Counted(s, rows[1])
             ELSE Counted(Counted(s, rows[1]), rows[2])
  BY <1>2, <1>5, <1>6, <1>7
<1> QED BY <1>1, <1>8 DEF n

\* The trades of a tick, in the three forms they have.
LEMMA LegsForms ==
    ASSUME NEW legs \in Legs
    PROVE  \/ legs = <<>> /\ Len(legs) = 0
           \/ \E a \in Results : legs = <<a>> /\ Len(legs) = 1
           \/ \E a \in Results, b \in Results : legs = <<a, b>> /\ Len(legs) = 2
<1>1. CASE legs = <<>>
  BY <1>1
<1>2. CASE \E a \in Results : legs = <<a>>
  BY <1>2
<1>3. CASE \E a \in Results, b \in Results : legs = <<a, b>>
  BY <1>3
<1> QED BY <1>1, <1>2, <1>3 DEF Legs

\* The streak and the count over them, without the functions.
LEMMA OverLegs ==
    ASSUME NEW s
    PROVE  /\ StreakAfter(s, <<>>) = s
           /\ CountedAfter(s, <<>>) = s
           /\ \A a \in Results : /\ StreakAfter(s, <<a>>) = Leg(s, a)
                                 /\ CountedAfter(s, <<a>>) = Counted(s, a)
           /\ \A a, b \in Results :
                 /\ StreakAfter(s, <<a, b>>) = Leg(Leg(s, a), b)
                 /\ CountedAfter(s, <<a, b>>) = Counted(Counted(s, a), b)
<1>1. Len(<<>>) = 0
  OBVIOUS
<1>2. StreakAfter(s, <<>>) = s /\ CountedAfter(s, <<>>) = s
  BY <1>1, StreakOfRows, CountOfRows
<1>3. ASSUME NEW a \in Results
      PROVE  /\ StreakAfter(s, <<a>>) = Leg(s, a)
             /\ CountedAfter(s, <<a>>) = Counted(s, a)
  <2> DEFINE rows == <<a>>
  <2>1. Len(rows) = 1 /\ rows[1] = a
    OBVIOUS
  <2> HIDE DEF rows
  <2>2. StreakAfter(s, rows) = losing_streak(s, a)
    BY <2>1, StreakOfRows
  <2>3. CountedAfter(s, rows) = Counted(s, a)
    BY <2>1, CountOfRows
  <2>4. losing_streak(s, a) = Leg(s, a)
    BY StepOfStreak
  <2> QED BY <2>2, <2>3, <2>4 DEF rows
<1>4. ASSUME NEW a \in Results, NEW b \in Results
      PROVE  /\ StreakAfter(s, <<a, b>>) = Leg(Leg(s, a), b)
             /\ CountedAfter(s, <<a, b>>) = Counted(Counted(s, a), b)
  <2> DEFINE rows == <<a, b>>
  <2>1. Len(rows) = 2 /\ rows[1] = a /\ rows[2] = b
    OBVIOUS
  <2> HIDE DEF rows
  <2>2. StreakAfter(s, rows) = losing_streak(losing_streak(s, a), b)
    BY <2>1, StreakOfRows
  <2>3. CountedAfter(s, rows) = Counted(Counted(s, a), b)
    BY <2>1, CountOfRows
  <2>4. losing_streak(losing_streak(s, a), b) = Leg(Leg(s, a), b)
    BY StepOfStreak
  <2> QED BY <2>2, <2>3, <2>4 DEF rows
<1> QED BY <1>2, <1>3, <1>4

\* The first rows of a tick.
LEMMA FirstRows ==
    /\ \A n \in 0 .. 1 : SubSeq(<<>>, 1, n - 1) = <<>>
    /\ \A a \in Results :
          /\ \A n \in 0 .. 1 : SubSeq(<<a>>, 1, n - 1) = <<>>
          /\ SubSeq(<<a>>, 1, 1) = <<a>>
    /\ \A a, b \in Results :
          /\ \A n \in 0 .. 1 : SubSeq(<<a, b>>, 1, n - 1) = <<>>
          /\ SubSeq(<<a, b>>, 1, 1) = <<a>>
          /\ SubSeq(<<a, b>>, 1, 2) = <<a, b>>
<1>1. \A rows, n \in 0 .. 1 : SubSeq(rows, 1, n - 1) = <<>>
  BY SubSeqEmpty
<1>2. ASSUME NEW rows \in Seq(Results) PROVE SubSeq(rows, 1, Len(rows)) = rows
  BY SubSeqFull
<1>3. \A a \in Results : SubSeq(<<a>>, 1, 1) = <<a>>
  <2> SUFFICES ASSUME NEW a \in Results PROVE SubSeq(<<a>>, 1, 1) = <<a>>
    OBVIOUS
  <2>1. <<a>> \in Seq(Results) /\ Len(<<a>>) = 1
    OBVIOUS
  <2> QED BY <2>1, <1>2
<1>4. \A a, b \in Results : SubSeq(<<a, b>>, 1, 2) = <<a, b>> /\ SubSeq(<<a, b>>, 1, 1) = <<a>>
  <2> SUFFICES ASSUME NEW a \in Results, NEW b \in Results
               PROVE  SubSeq(<<a, b>>, 1, 2) = <<a, b>> /\ SubSeq(<<a, b>>, 1, 1) = <<a>>
    OBVIOUS
  <2>1. <<a, b>> \in Seq(Results) /\ Len(<<a, b>>) = 2
    OBVIOUS
  <2>2. SubSeq(<<a, b>>, 1, 2) = <<a, b>>
    BY <2>1, <1>2
  <2> DEFINE s == SubSeq(<<a, b>>, 1, 1)
  <2>3. s \in Seq(Results) /\ Len(s) = 1 /\ s[1] = a
    <3>1. \A i \in 1 .. 1 : <<a, b>>[i] \in Results
      OBVIOUS
    <3>2. <<a, b>>[1] = a
      OBVIOUS
    <3> DEFINE t == <<a, b>>
    <3> HIDE DEF t
    <3>3. /\ SubSeq(t, 1, 1) \in Seq(Results) /\ Len(SubSeq(t, 1, 1)) = 1
          /\ SubSeq(t, 1, 1)[1] = t[1]
      <4>1. \A i \in 1 .. 1 : t[i] \in Results
        BY <3>1 DEF t
      <4> QED BY <4>1, SubSeqProperties
    <3> QED BY <3>2, <3>3 DEF t
  <2> HIDE DEF s
  <2>4. s = <<a>>
    BY <2>3
  <2> QED BY <2>2, <2>4 DEF s
<1> QED BY <1>1, <1>3, <1>4

\* The same, with what is left of that room as one number.
Gap(count, streak, room) == streak < MaxLosses => count <= streak + room

LEMMA GapIsBehind ==
    ASSUME NEW count \in Nat, NEW streak \in Nat, NEW half \in BOOLEAN, NEW failures \in Nat
    PROVE  Behind(count, streak, half, failures) <=>
               Gap(count, streak, 3 * failures - One(half))
BY DailyAssumption DEF Behind, Gap, One

LEMMA MoreRoom ==
    ASSUME NEW count \in Nat, NEW streak \in Nat, NEW g \in Int, NEW h \in Int, g <= h,
           Gap(count, streak, g)
    PROVE  Gap(count, streak, h)
BY DEF Gap

\* A row that is read moves both; one that is lost takes one of the room.
LEMMA RowIsRead ==
    ASSUME NEW count \in Nat, NEW streak \in 0 .. MaxLosses, NEW g \in Nat,
           Gap(count, streak, g), NEW a \in Results
    PROVE  /\ Counted(count, a) \in Nat /\ Leg(streak, a) \in 0 .. MaxLosses
           /\ Gap(Counted(count, a), Leg(streak, a), g)
<1>1. MaxLosses \in Nat \ {0}
  BY DailyAssumption
<1>2. CASE a = "loss"
  BY <1>1, <1>2 DEF Gap, Counted, Leg
<1>3. CASE a = "win"
  BY <1>1, <1>3 DEF Gap, Counted, Leg
<1>4. CASE a = "skipped"
  BY <1>1, <1>4 DEF Gap, Counted, Leg
<1> QED BY <1>2, <1>3, <1>4 DEF Results

LEMMA RowIsLost ==
    ASSUME NEW count \in Nat, NEW streak \in 0 .. MaxLosses, NEW g \in Nat,
           Gap(count, streak, g), NEW a \in Results
    PROVE  Counted(count, a) \in Nat /\ Gap(Counted(count, a), streak, g + 1)
<1>1. MaxLosses \in Nat \ {0}
  BY DailyAssumption
<1>2. CASE a = "loss"
  BY <1>1, <1>2 DEF Gap, Counted
<1>3. CASE a = "win"
  BY <1>1, <1>3 DEF Gap, Counted
<1>4. CASE a = "skipped"
  BY <1>1, <1>4 DEF Gap, Counted
<1> QED BY <1>2, <1>3, <1>4 DEF Results

\* What a tick that wrote its first n rows leaves of the run on the log: all of
\* them with nothing lost, or one more failure.
LEMMA RowsKeepUp ==
    ASSUME TypeOK, Behind(losses, trades, torn, faults), torn => faults > 0,
           NEW switched \in BOOLEAN, NEW legs \in Legs, NEW n \in 0 .. Len(legs) + 1,
           NEW half \in BOOLEAN, Written(switched, legs, n, half)
    PROVE  /\ trades' \in 0 .. MaxLosses /\ torn' \in BOOLEAN
           /\ CountedAfter(losses, legs) \in Nat
           /\ ~half => (torn' => torn)
           /\ n = Len(legs) + 1 /\ ~half =>
                 Behind(CountedAfter(losses, legs), trades', torn', faults)
           /\ Behind(CountedAfter(losses, legs), trades', torn', faults + 1)
<1>0. MaxLosses \in Nat \ {0}
  BY DailyAssumption
<1>1. /\ trades \in 0 .. MaxLosses /\ losses \in Nat /\ faults \in Nat
      /\ torn \in BOOLEAN
  BY <1>0, DailyAssumption DEF TypeOK
<1> DEFINE rows  == SubSeq(legs, 1, n - 1)
           count == CountedAfter(losses, legs)
           room  == 3 * faults - One(torn)
<1>2. /\ trades' = StreakAfter(trades, Readable(rows))
      /\ torn' = IF n > 0 /\ half THEN TRUE ELSE torn /\ rows = <<>>
  BY DEF Written
<1>3. room \in Nat /\ Gap(losses, trades, room) /\ (~torn => room = 3 * faults)
      /\ (torn => room = 3 * faults - 1)
  <2>1. trades \in Nat
    BY <1>0, <1>1
  <2>2. Gap(losses, trades, room)
    BY <1>1, <2>1, GapIsBehind
  <2>3. (torn => room = 3 * faults - 1) /\ (~torn => room = 3 * faults)
    BY <1>1 DEF One
  <2> HIDE DEF room
  <2>4. room \in Nat
    BY <1>1, <2>3
  <2> QED BY <2>2, <2>3, <2>4
<1>4. \A a \in Results : Tail(<<a>>) = <<>> /\ <<a>> # <<>>
  OBVIOUS
<1>5. \A a, b \in Results : Tail(<<a, b>>) = <<b>> /\ <<a, b>> # <<>>
  OBVIOUS
<1>6. ASSUME trades' \in 0 .. MaxLosses, torn' \in BOOLEAN, count \in Nat,
             NEW h \in Int, Gap(count, trades', h)
      PROVE  /\ h <= 3 * faults + 2 => Behind(count, trades', torn', faults + 1)
             /\ h <= 3 * faults /\ ~torn' => Behind(count, trades', torn', faults)
  <2> HIDE DEF count
  <2>1. trades' \in Nat /\ faults + 1 \in Nat /\ 3 * (faults + 1) = 3 * faults + 3
    BY <1>0, <1>1, <1>6
  <2>2. ASSUME h <= 3 * faults + 2 PROVE Behind(count, trades', torn', faults + 1)
    <3>1. h <= 3 * (faults + 1) - One(torn') /\ 3 * (faults + 1) - One(torn') \in Int
      BY <1>1, <1>6, <2>1, <2>2 DEF One
    <3>2. Gap(count, trades', 3 * (faults + 1) - One(torn'))
      BY <1>6, <2>1, <3>1, MoreRoom
    <3> QED BY <1>6, <2>1, <3>2, GapIsBehind
  <2>3. ASSUME h <= 3 * faults, ~torn' PROVE Behind(count, trades', torn', faults)
    <3>1. h <= 3 * faults - One(torn') /\ 3 * faults - One(torn') \in Int
      BY <1>1, <1>6, <2>3 DEF One
    <3>2. Gap(count, trades', 3 * faults - One(torn'))
      BY <1>6, <2>1, <3>1, MoreRoom
    <3> QED BY <1>1, <1>6, <2>1, <3>2, GapIsBehind
  <2> QED BY <2>2, <2>3
<1>7. ASSUME rows = <<>>
      PROVE  trades' = trades /\ torn' = ((n > 0 /\ half) \/ torn)
  <2>1. Readable(rows) = <<>>
    BY <1>7 DEF Readable
  <2>2. trades' = trades
    BY <1>2, <2>1, OverLegs
  <2> HIDE DEF rows
  <2> QED BY <1>1, <1>2, <1>7, <2>2
<1>8. ASSUME rows # <<>>, n > 0 PROVE torn' = half
  <2> HIDE DEF rows
  <2> QED BY <1>2, <1>8
<1>9. CASE legs = <<>> /\ Len(legs) = 0
  <2>1. rows = <<>>
    BY <1>9, FirstRows
  <2>2. trades' = trades /\ count = losses
    BY <1>7, <1>9, <2>1, OverLegs
  <2>3. torn' = ((n > 0 /\ half) \/ torn)
    BY <1>7, <2>1
  <2> HIDE DEF rows, count
  <2>4. Gap(count, trades', room) /\ room <= 3 * faults + 2
    BY <1>1, <1>3, <2>2
  <2>5. Behind(count, trades', torn', faults + 1)
    <3> HIDE DEF room
    <3> QED BY <1>1, <1>3, <1>6, <2>2, <2>3, <2>4
  <2>6. ~half => Behind(count, trades', torn', faults)
    <3>1. ~half => torn' = torn
      BY <1>1, <2>3
    <3> QED BY <2>2, <3>1
  <2> QED BY <1>1, <2>2, <2>3, <2>5, <2>6 DEF count
<1>10. ASSUME NEW a \in Results, legs = <<a>>, Len(legs) = 1
      PROVE  /\ trades' \in 0 .. MaxLosses /\ torn' \in BOOLEAN /\ count \in Nat
             /\ ~half => (torn' => torn)
             /\ n = Len(legs) + 1 /\ ~half => Behind(count, trades', torn', faults)
             /\ Behind(count, trades', torn', faults + 1)
  <2>1. count = Counted(losses, a)
    BY <1>10, OverLegs
  <2>2. /\ count \in Nat /\ Gap(count, trades, room + 1)
        /\ Leg(trades, a) \in 0 .. MaxLosses /\ Gap(count, Leg(trades, a), room)
    <3> HIDE DEF count, room
    <3> QED BY <1>1, <1>3, <2>1, RowIsRead, RowIsLost
  <2>3. CASE n \in 0 .. 1
    <3>1. rows = <<>>
      BY <1>10, <2>3, FirstRows
    <3>2. trades' = trades /\ torn' = ((n > 0 /\ half) \/ torn)
      BY <1>7, <3>1
    <3>3. room + 1 <= 3 * faults + 2 /\ room + 1 \in Int
      BY <1>1, <1>3
    <3>4. torn' \in BOOLEAN /\ (~half => (torn' => torn))
      BY <1>1, <3>2
    <3>5. Behind(count, trades', torn', faults + 1)
      <4> HIDE DEF rows, count, room
      <4> QED BY <1>1, <1>6, <2>2, <3>2, <3>3, <3>4
    <3>6. n # Len(legs) + 1
      BY <1>10, <2>3
    <3> HIDE DEF rows, count, room
    <3> QED BY <1>1, <2>2, <3>2, <3>4, <3>5, <3>6
  <2>4. CASE n = 2
    <3>1. rows = <<a>>
      BY <1>10, <2>4, FirstRows
    <3>2. torn' = half
      BY <1>4, <1>8, <2>4, <3>1
    <3>3. trades' = IF torn THEN trades ELSE Leg(trades, a)
      BY <1>2, <1>4, <3>1, OverLegs DEF Readable
    <3>4. Gap(count, trades', 3 * faults) /\ trades' \in 0 .. MaxLosses
      <4>1. CASE torn
        <5>1. room + 1 = 3 * faults
          <6> HIDE DEF room
          <6> QED BY <1>1, <1>3, <4>1
        <5> HIDE DEF rows, count, room
        <5> QED BY <1>1, <2>2, <3>3, <4>1, <5>1
      <4>2. CASE ~torn
        <5>1. room = 3 * faults
          BY <1>3, <4>2
        <5> HIDE DEF rows, count, room
        <5> QED BY <1>1, <2>2, <3>3, <4>2, <5>1
      <4> QED BY <4>1, <4>2
    <3>5. 3 * faults \in Int /\ 3 * faults <= 3 * faults + 2
      BY <1>1
    <3> HIDE DEF rows, count, room
    <3>6. Behind(count, trades', torn', faults + 1) /\ (~half => Behind(count, trades', torn', faults))
      BY <1>6, <2>2, <3>2, <3>4, <3>5
    <3> QED BY <2>2, <3>2, <3>4, <3>6
  <2> QED BY <1>10, <2>3, <2>4
<1>11. ASSUME NEW a \in Results, NEW b \in Results, legs = <<a, b>>, Len(legs) = 2
      PROVE  /\ trades' \in 0 .. MaxLosses /\ torn' \in BOOLEAN /\ count \in Nat
             /\ ~half => (torn' => torn)
             /\ n = Len(legs) + 1 /\ ~half => Behind(count, trades', torn', faults)
             /\ Behind(count, trades', torn', faults + 1)
  <2> DEFINE c1 == Counted(losses, a)
             t1 == Leg(trades, a)
  <2>0. count = Counted(c1, b)
    BY <1>11, OverLegs
  <2>1. /\ c1 \in Nat /\ t1 \in 0 .. MaxLosses
        /\ Gap(c1, trades, room + 1) /\ Gap(c1, t1, room)
    <3> HIDE DEF room
    <3> QED BY <1>1, <1>3, RowIsRead, RowIsLost
  <2>2. /\ count \in Nat
        /\ Leg(trades, b) \in 0 .. MaxLosses /\ Leg(t1, b) \in 0 .. MaxLosses
        /\ Gap(count, trades, room + 2) /\ Gap(count, Leg(trades, b), room + 1)
        /\ Gap(count, t1, room + 1) /\ Gap(count, Leg(t1, b), room)
    <3> HIDE DEF c1, t1, count, room
    <3>1. room + 1 \in Nat /\ (room + 1) + 1 = room + 2
      BY <1>3
    <3>2. /\ count \in Nat /\ Leg(trades, b) \in 0 .. MaxLosses
          /\ Gap(count, trades, room + 2) /\ Gap(count, Leg(trades, b), room + 1)
      BY <1>1, <2>0, <2>1, <3>1, RowIsRead, RowIsLost
    <3>3. /\ Leg(t1, b) \in 0 .. MaxLosses
          /\ Gap(count, t1, room + 1) /\ Gap(count, Leg(t1, b), room)
      BY <1>3, <2>0, <2>1, RowIsRead, RowIsLost
    <3> QED BY <3>2, <3>3
  <2>3. CASE n \in 0 .. 1
    <3>1. rows = <<>>
      BY <1>11, <2>3, FirstRows
    <3>2. trades' = trades /\ torn' = ((n > 0 /\ half) \/ torn)
      BY <1>7, <3>1
    <3>3. room + 2 <= 3 * faults + 2 /\ room + 2 \in Int
      BY <1>1, <1>3
    <3>4. torn' \in BOOLEAN /\ (~half => (torn' => torn))
      BY <1>1, <3>2
    <3>5. Behind(count, trades', torn', faults + 1)
      <4> HIDE DEF rows, count, room
      <4> QED BY <1>1, <1>6, <2>2, <3>2, <3>3, <3>4
    <3>6. n # Len(legs) + 1
      BY <1>11, <2>3
    <3> HIDE DEF rows, count, room
    <3> QED BY <1>1, <2>2, <3>2, <3>4, <3>5, <3>6
  <2>4. CASE n = 2
    <3>1. rows = <<a>>
      BY <1>11, <2>4, FirstRows
    <3>2. torn' = half
      BY <1>4, <1>8, <2>4, <3>1
    <3>3. trades' = IF torn THEN trades ELSE t1
      BY <1>2, <1>4, <3>1, OverLegs DEF Readable
    <3>4. Gap(count, trades', 3 * faults + 1) /\ trades' \in 0 .. MaxLosses
      <4>1. CASE torn
        <5>1. room + 2 = 3 * faults + 1
          <6> HIDE DEF room
          <6> QED BY <1>1, <1>3, <4>1
        <5> HIDE DEF rows, count, room, t1
        <5> QED BY <1>1, <2>2, <3>3, <4>1, <5>1
      <4>2. CASE ~torn
        <5>1. room + 1 = 3 * faults + 1
          BY <1>3, <4>2
        <5> HIDE DEF rows, count, room, t1
        <5> QED BY <1>1, <2>1, <2>2, <3>3, <4>2, <5>1
      <4> QED BY <4>1, <4>2
    <3>5. 3 * faults + 1 \in Int /\ 3 * faults + 1 <= 3 * faults + 2
      BY <1>1
    <3>6. n # Len(legs) + 1
      BY <1>11, <2>4
    <3> HIDE DEF rows, count, room
    <3>7. Behind(count, trades', torn', faults + 1)
      BY <1>6, <2>2, <3>2, <3>4, <3>5
    <3> QED BY <2>2, <3>2, <3>4, <3>6, <3>7
  <2>5. CASE n = 3
    <3>1. rows = <<a, b>>
      BY <1>11, <2>5, FirstRows
    <3>2. torn' = half
      BY <1>5, <1>8, <2>5, <3>1
    <3>3. trades' = IF torn THEN Leg(trades, b) ELSE Leg(t1, b)
      <4>1. Readable(rows) = IF torn THEN <<b>> ELSE <<a, b>>
        BY <1>5, <3>1 DEF Readable
      <4>2. /\ StreakAfter(trades, <<b>>) = Leg(trades, b)
            /\ StreakAfter(trades, <<a, b>>) = Leg(t1, b)
        BY OverLegs
      <4> HIDE DEF rows
      <4> QED BY <1>2, <4>1, <4>2
    <3>4. Gap(count, trades', 3 * faults) /\ trades' \in 0 .. MaxLosses
      <4>1. CASE torn
        <5>1. room + 1 = 3 * faults
          <6> HIDE DEF room
          <6> QED BY <1>1, <1>3, <4>1
        <5> HIDE DEF rows, count, room, t1
        <5> QED BY <1>1, <2>2, <3>3, <4>1, <5>1
      <4>2. CASE ~torn
        <5>1. room = 3 * faults
          BY <1>3, <4>2
        <5> HIDE DEF rows, count, room, t1
        <5> QED BY <1>1, <2>2, <3>3, <4>2, <5>1
      <4> QED BY <4>1, <4>2
    <3>5. 3 * faults \in Int /\ 3 * faults <= 3 * faults + 2
      BY <1>1
    <3> HIDE DEF rows, count, room
    <3>6. Behind(count, trades', torn', faults + 1) /\ (~half => Behind(count, trades', torn', faults))
      BY <1>6, <2>2, <3>2, <3>4, <3>5
    <3> QED BY <2>2, <3>2, <3>4, <3>6
  <2> QED BY <1>11, <2>3, <2>4, <2>5
<1> QED BY <1>9, <1>10, <1>11, LegsForms

\* The end of a tick: what it leaves of both logs.
LEMMA FinishKeepsUp ==
    ASSUME TypeOK, Behind(losses, trades, torn, faults), torn => faults > 0,
           NEW switched \in BOOLEAN, NEW legs \in Legs, finish(switched, legs)
    PROVE  /\ tick' = None
           /\ trades' \in 0 .. MaxLosses /\ torn' \in BOOLEAN
           /\ faults' \in 0 .. MaxFaults
           /\ CountedAfter(losses, legs) \in Nat
           /\ Behind(CountedAfter(losses, legs), trades', torn', faults')
           /\ torn' => faults' > 0
<1>1. faults \in Nat /\ MaxFaults \in Nat /\ faults <= MaxFaults
  BY DailyAssumption DEF TypeOK
<1>2. Len(legs) \in Nat
  BY LegsForms
<1>3. tick' = None
  BY DEF finish
<1>4. CASE Written(switched, legs, Len(legs) + 1, FALSE) /\ UNCHANGED faults
  <2> DEFINE n == Len(legs) + 1
  <2>1. n \in 0 .. Len(legs) + 1
    BY <1>2
  <2>3. Written(switched, legs, n, FALSE)
    BY <1>4
  <2>2. /\ trades' \in 0 .. MaxLosses /\ torn' \in BOOLEAN
        /\ CountedAfter(losses, legs) \in Nat
        /\ torn' => torn
        /\ Behind(CountedAfter(losses, legs), trades', torn', faults)
    <3>1. n = Len(legs) + 1
      OBVIOUS
    <3> HIDE DEF n
    <3> QED BY <2>1, <2>3, <3>1, RowsKeepUp
  <2> QED BY <1>1, <1>3, <1>4, <2>2
<1>5. CASE /\ faults < MaxFaults /\ faults' = faults + 1
           /\ \E n \in 0 .. Len(legs), half \in BOOLEAN : Written(switched, legs, n, half)
  <2>1. PICK n \in 0 .. Len(legs), half \in BOOLEAN : Written(switched, legs, n, half)
    BY <1>5
  <2>2. n \in 0 .. Len(legs) + 1
    BY <1>2
  <2> QED BY <1>1, <1>3, <1>5, <2>1, <2>2, RowsKeepUp
<1> QED BY <1>4, <1>5 DEF finish

\* The same of the tick log.
LEMMA FinishLogsSwitch ==
    ASSUME TypeOK, SwitchedBehind(made, ticks, faults), ticks.torn => faults > 0,
           NEW switched \in BOOLEAN, NEW legs \in Legs, finish(switched, legs)
    PROVE  /\ ticks' \in [switched : BOOLEAN, torn : BOOLEAN]
           /\ SwitchedBehind(made, ticks', faults')
           /\ ticks'.torn => faults' > 0
           /\ switched /\ ~ticks.switched /\ legs = <<>> => SwitchedBehind(made + 1, ticks', faults')
<1>1. faults \in Nat /\ made \in Nat
  BY DailyAssumption DEF TypeOK
<1>2. ticks.switched \in BOOLEAN /\ ticks.torn \in BOOLEAN
      /\ ticks \in [switched : BOOLEAN, torn : BOOLEAN]
  BY DEF TypeOK
<1>3. Len(legs) \in Nat /\ (legs = <<>> => Len(legs) = 0)
  BY LegsForms
<1>4. append_tick(switched) \in [switched : BOOLEAN, torn : BOOLEAN]
  BY <1>2 DEF append_tick
<1>5. /\ ~append_tick(switched).torn
      /\ append_tick(switched).switched <=> ticks.switched \/ (switched /\ ~ticks.torn)
  BY DEF append_tick
<1>6. CASE Written(switched, legs, Len(legs) + 1, FALSE) /\ UNCHANGED faults
  <2>1. ticks' = append_tick(switched) /\ faults' = faults
    BY <1>3, <1>6 DEF Written
  <2> QED BY <1>1, <1>2, <1>4, <1>5, <2>1 DEF SwitchedBehind, One
<1>7. CASE /\ faults < MaxFaults /\ faults' = faults + 1
           /\ \E n \in 0 .. Len(legs), half \in BOOLEAN : Written(switched, legs, n, half)
  <2>1. PICK n \in 0 .. Len(legs), half \in BOOLEAN : Written(switched, legs, n, half)
    BY <1>7
  <2>2. CASE n = 0
    <3>1. ticks' = [ticks EXCEPT !.torn = ticks.torn \/ half]
      BY <2>1, <2>2 DEF Written
    <3>2. /\ ticks' \in [switched : BOOLEAN, torn : BOOLEAN]
          /\ ticks'.switched = ticks.switched
      BY <1>2, <3>1
    <3> QED BY <1>1, <1>2, <1>7, <3>2 DEF SwitchedBehind, One
  <2>3. CASE n # 0
    <3>1. ticks' = append_tick(switched)
      BY <2>1, <2>3 DEF Written
    <3>2. legs # <<>>
      BY <1>3, <2>3
    <3> QED BY <1>1, <1>2, <1>4, <1>5, <1>7, <3>1, <3>2 DEF SwitchedBehind, One
  <2> QED BY <2>2, <2>3
<1> QED BY <1>6, <1>7 DEF finish

(***************************************************************************)
(* The steps.                                                              *)
(***************************************************************************)

\* What a tick that judges the list goes by: the cached one, a new one, or none.
LEMMA JudgedLists ==
    ASSUME TypeInv, NEW judged \in cache_and_screen
    PROVE  /\ judged.screens \in 0 .. MaxLists /\ screens <= judged.screens
           /\ \/ judged.list = list /\ judged.screens = screens
              \/ judged.list = None /\ judged.screens = screens + 1
              \/ /\ judged.screens = screens + 1 /\ judged.list.id = screens + 1
                 /\ judged.list \in List /\ judged.list.rows # <<>>
                 /\ Distinct(judged.list.rows)
<1>1. screens \in 0 .. MaxLists /\ MaxLists \in Nat
  BY DailyAssumption DEF TypeInv, TypeOK
<1>2. CASE judged = [list |-> list, screens |-> screens]
  BY <1>1, <1>2
<1>3. ASSUME NEW rows \in Lists, screens < MaxLists,
             judged = [list |-> Screened(rows), screens |-> screens + 1]
      PROVE  /\ judged.screens \in 0 .. MaxLists /\ screens <= judged.screens
             /\ \/ judged.list = None /\ judged.screens = screens + 1
                \/ /\ judged.screens = screens + 1 /\ judged.list.id = screens + 1
                   /\ judged.list \in List /\ judged.list.rows # <<>>
                   /\ Distinct(judged.list.rows)
  <2>1. rows \in Seq(Row) /\ Distinct(rows)
    BY RankedRows DEF Lists
  <2>2. CASE rows = <<>>
    BY <1>1, <1>3, <2>2 DEF Screened
  <2>3. CASE rows # <<>>
    <3>1. judged.list = [id |-> screens + 1, rows |-> rows] /\ judged.screens = screens + 1
      BY <1>3, <2>3 DEF Screened
    <3>2. judged.list \in List
      BY <1>1, <2>1, <3>1 DEF List
    <3> QED BY <1>1, <1>3, <2>1, <2>3, <3>1, <3>2
  <2> QED BY <2>2, <2>3
<1>4. judged = [list |-> list, screens |-> screens] \/
      \E rows \in Lists : /\ screens < MaxLists
                          /\ judged = [list |-> Screened(rows), screens |-> screens + 1]
  BY DEF cache_and_screen
<1> QED BY <1>2, <1>3, <1>4

\* A screening stays one when others follow it.
LEMMA ScreeningStays ==
    ASSUME NEW l, Screening(l), screens \in Nat, screens' \in Nat, screens <= screens'
    PROVE  Screening(l)'
BY DEF Screening

LEMMA InitDay == Init => DayInv
<1> SUFFICES ASSUME Init PROVE DayInv
  OBVIOUS
<1>1. /\ N \in Nat \ {0} /\ MaxTime \in Nat \ {0} /\ MaxLosses \in Nat \ {0}
      /\ MaxLists \in Nat /\ MaxFaults \in Nat /\ Criteria \subseteq Automation
  BY DailyAssumption
<1>2. TypeOK
  <2>1. now \in 0 .. MaxTime /\ inst \in Insts /\ auto \in Automation
    BY <1>1 DEF Init, Insts
  <2>2. ticks \in [switched : BOOLEAN, torn : BOOLEAN] /\ torn \in BOOLEAN
    BY DEF Init
  <2>3. list = None /\ tick = None /\ position = "none"
    BY DEF Init
  <2>4. /\ trades \in 0 .. MaxLosses /\ screens \in 0 .. MaxLists /\ faults \in 0 .. MaxFaults
        /\ made \in Nat /\ losses \in Nat /\ used \in 0 .. MaxLists
    BY <1>1 DEF Init
  <2> QED BY <2>1, <2>2, <2>3, <2>4 DEF TypeOK
<1>3. ListsAreScreenings
  BY DEF Init, ListsAreScreenings, At
<1>4. SwitchesAreLogged
  BY DEF Init, SwitchesAreLogged, SwitchedBehind, One, At
<1>5. LossesAreLogged
  BY DEF Init, LossesAreLogged, Behind, One, At
<1>6. FlatSinceSeen
  BY DEF Init, FlatSinceSeen, At
<1> QED BY <1>2, <1>3, <1>4, <1>5, <1>6 DEF DayInv, TypeInv

LEMMA EvaluateDay ==
    ASSUME DayInv, evaluate
    PROVE  DayInv'
<1>1. TypeInv /\ TypeOK /\ ListsAreScreenings
  BY DEF DayInv, TypeInv
<1>2. tick = None /\ ~(auto.once /\ ticks.switched)
  BY DEF evaluate, Judges, last_switch_today
<1>3. PICK judged \in cache_and_screen, held \in _held_anything :
         /\ list' = judged.list /\ screens' = judged.screens
         /\ tick' = IF Switches(judged.list, held)
                    THEN [Past("apply") EXCEPT !.auto = auto, !.list = judged.list,
                                               !.working = position = "working"]
                    ELSE Past("gates")
  BY DEF evaluate
<1>4. UNCHANGED <<now, inst, auto, position, ticks, trades, torn, made, losses, used, faults>>
  BY DEF evaluate, logVars, historyVars
<1>5. screens' \in 0 .. MaxLists /\ screens <= screens' /\ screens \in Nat
  BY <1>1, <1>3, JudgedLists DEF TypeOK
<1>6. screens' \in Nat /\ used \in Nat
  BY <1>1, <1>5, DailyAssumption DEF TypeOK
<1>7. list' # None => list' \in List /\ list'.rows # <<>> /\ Screening(list)'
  <2>1. CASE judged.list = list
    <3>1. list # None => Screening(list)
      BY <1>1 DEF ListsAreScreenings
    <3>2. list' = list
      BY <1>3, <2>1
    <3> QED BY <1>5, <1>6, <3>1, <3>2 DEF Screening
  <2>2. CASE judged.list = None
    BY <1>3, <2>2
  <2>3. CASE /\ judged.screens = screens + 1 /\ judged.list.id = screens + 1
             /\ judged.list \in List /\ judged.list.rows # <<>> /\ Distinct(judged.list.rows)
    BY <1>3, <1>5, <2>3 DEF Screening
  <2> QED BY <1>1, <2>1, <2>2, <2>3, JudgedLists
<1>8. CASE Switches(judged.list, held)
  <2>1. /\ tick'.pc = "apply" /\ tick'.auto = auto /\ tick'.list = list'
        /\ tick'.working = (position = "working") /\ list' # None
    BY <1>3, <1>8 DEF Past, Switches
  <2>2. auto \in Automation /\ auto.flat \in BOOLEAN
    BY <1>1 DEF TypeOK, Automation
  <2>3. tick' \in Tick
    BY <1>3, <1>7, <1>8, <2>1, <2>2 DEF Past, Tick
  <2>4. auto.flat => position # "held"
    BY <1>8 DEF Switches, _held_anything
  <2>5. TypeOK'
    BY <1>1, <1>4, <1>5, <1>7, <2>3 DEF TypeOK
  <2>6. ListsAreScreenings'
    <3>1. Screening(tick.list)' /\ tick'.list # None
      BY <1>7, <2>1 DEF Screening
    <3>2. used' <= screens'
      BY <1>1, <1>4, <1>5, <1>6 DEF ListsAreScreenings
    <3> QED BY <1>7, <2>1, <2>2, <3>1, <3>2 DEF ListsAreScreenings
  <2>7. SwitchesAreLogged'
    BY <1>2, <1>4, <2>1 DEF DayInv, SwitchesAreLogged
  <2>8. LossesAreLogged'
    BY <1>4, <2>1 DEF DayInv, LossesAreLogged, At
  <2>9. FlatSinceSeen'
    BY <1>1, <1>4, <2>1, <2>4 DEF FlatSinceSeen, TypeOK
  <2> QED BY <2>5, <2>6, <2>7, <2>8, <2>9 DEF DayInv, TypeInv
<1>9. CASE ~Switches(judged.list, held)
  <2>1. tick' = Past("gates")
    BY <1>3, <1>9
  <2>2. tick' \in Tick /\ tick'.pc = "gates"
    BY <2>1 DEF Past, Tick
  <2>3. TypeOK'
    BY <1>1, <1>4, <1>5, <1>7, <2>2 DEF TypeOK
  <2>4. ListsAreScreenings'
    BY <1>1, <1>4, <1>5, <1>6, <1>7, <2>2 DEF ListsAreScreenings, At
  <2>5. SwitchesAreLogged' /\ LossesAreLogged' /\ FlatSinceSeen'
    BY <1>4, <2>2 DEF DayInv, SwitchesAreLogged, LossesAreLogged, FlatSinceSeen, At
  <2> QED BY <2>3, <2>4, <2>5 DEF DayInv, TypeInv
<1> QED BY <1>8, <1>9

LEMMA NothingDay ==
    ASSUME DayInv, NothingToJudge
    PROVE  DayInv'
<1>1. TypeOK /\ ListsAreScreenings
  BY DEF DayInv, TypeInv
<1>2. tick' \in Tick /\ tick'.pc = "gates"
  BY DEF NothingToJudge, Past, Tick
<1>3. UNCHANGED <<now, inst, auto, list, position, ticks, trades, torn, screens,
                  made, losses, used, faults>>
  BY DEF NothingToJudge, logVars, historyVars
<1>4. TypeOK'
  BY <1>1, <1>2, <1>3 DEF TypeOK
<1>5. ListsAreScreenings'
  BY <1>1, <1>2, <1>3 DEF ListsAreScreenings, Screening, At
<1>6. SwitchesAreLogged' /\ LossesAreLogged' /\ FlatSinceSeen'
  BY <1>2, <1>3 DEF DayInv, SwitchesAreLogged, LossesAreLogged, FlatSinceSeen, At
<1> QED BY <1>4, <1>5, <1>6 DEF DayInv, TypeInv

LEMMA ApplyDay ==
    ASSUME DayInv, apply
    PROVE  DayInv'
<1>1. TypeOK /\ ListsAreScreenings
  BY DEF DayInv, TypeInv
<1>2. At("apply") /\ UNCHANGED <<now, auto, list, position, screens, losses>>
  BY DEF apply
<1>3. Screening(tick.list) /\ screens \in 0 .. MaxLists /\ MaxLists \in Nat
  BY <1>1, <1>2, DailyAssumption DEF ListsAreScreenings, TypeOK
<1>4. CASE /\ inst' = tick.list.rows[1].inst
           /\ made' = IF tick.auto.once THEN made + 1 ELSE made
           /\ used' = tick.list.id
           /\ finish(TRUE, <<>>)
  <2>1. <<>> \in Legs /\ CountedAfter(losses, <<>>) = losses
    BY OverLegs DEF Legs
  <2>2. /\ tick' = None /\ trades' \in 0 .. MaxLosses /\ torn' \in BOOLEAN
        /\ faults' \in 0 .. MaxFaults
        /\ Behind(losses, trades', torn', faults') /\ (torn' => faults' > 0)
    <3>1. Behind(losses, trades, torn, faults) /\ (torn => faults > 0)
      BY DEF DayInv, LossesAreLogged
    <3> QED BY <1>1, <1>4, <2>1, <3>1, FinishKeepsUp
  <2>3. /\ ticks' \in [switched : BOOLEAN, torn : BOOLEAN]
        /\ SwitchedBehind(made', ticks', faults') /\ (ticks'.torn => faults' > 0)
    <3>1. SwitchedBehind(made, ticks, faults) /\ (ticks.torn => faults > 0)
      BY DEF DayInv, SwitchesAreLogged
    <3>2. tick.auto.once => ~ticks.switched
      BY <1>2 DEF DayInv, SwitchesAreLogged
    <3>3. /\ ticks' \in [switched : BOOLEAN, torn : BOOLEAN]
          /\ SwitchedBehind(made, ticks', faults') /\ (ticks'.torn => faults' > 0)
          /\ ~ticks.switched => SwitchedBehind(made + 1, ticks', faults')
      BY <1>1, <1>4, <2>1, <3>1, FinishLogsSwitch
    <3> QED BY <1>4, <3>2, <3>3
  <2>4. inst' \in Insts
    <3>1. tick.list.rows \in Seq(Row) /\ tick.list.rows # <<>>
      BY <1>3 DEF Screening, List
    <3>2. tick.list.rows[1] \in Row
      BY <3>1
    <3> QED BY <1>4, <3>2 DEF Row
  <2>5. used' \in 0 .. MaxLists /\ used' <= screens /\ made' \in Nat
    <3>1. tick.list.id \in 1 .. screens
      BY <1>3 DEF Screening
    <3> QED BY <1>1, <1>3, <1>4, <3>1 DEF TypeOK
  <2>6. TypeOK'
    BY <1>1, <1>2, <2>2, <2>3, <2>4, <2>5 DEF TypeOK
  <2>7. ListsAreScreenings'
    BY <1>1, <1>2, <2>2, <2>5 DEF ListsAreScreenings, Screening, At
  <2>8. SwitchesAreLogged' /\ LossesAreLogged' /\ FlatSinceSeen'
    BY <1>2, <2>2, <2>3 DEF SwitchesAreLogged, LossesAreLogged, FlatSinceSeen, At
  <2> QED BY <2>6, <2>7, <2>8 DEF DayInv, TypeInv
<1>5. CASE /\ tick' = Past("gates")
           /\ UNCHANGED <<inst, made, used, faults, logVars>>
  <2>1. tick' \in Tick /\ tick'.pc = "gates" /\ UNCHANGED <<ticks, trades, torn>>
    BY <1>5 DEF Past, Tick, logVars
  <2>2. TypeOK'
    BY <1>1, <1>2, <1>5, <2>1 DEF TypeOK
  <2>3. ListsAreScreenings'
    BY <1>1, <1>2, <1>5, <2>1 DEF ListsAreScreenings, Screening, At
  <2>4. SwitchesAreLogged' /\ LossesAreLogged' /\ FlatSinceSeen'
    BY <1>2, <1>5, <2>1 DEF DayInv, SwitchesAreLogged, LossesAreLogged, FlatSinceSeen, At
  <2> QED BY <2>2, <2>3, <2>4 DEF DayInv, TypeInv
<1> QED BY <1>4, <1>5 DEF apply

\* A tick that ends without a switch, having closed these trades.
LEMMA EndDay ==
    ASSUME DayInv, NEW legs \in Legs, finish(FALSE, legs),
           losses' = CountedAfter(losses, legs), position' \in {"none", "working", "held"},
           UNCHANGED <<now, inst, auto, list, screens, made, used>>
    PROVE  DayInv'
<1>1. TypeOK /\ ListsAreScreenings
  BY DEF DayInv, TypeInv
<1>2. /\ tick' = None /\ trades' \in 0 .. MaxLosses /\ torn' \in BOOLEAN
      /\ faults' \in 0 .. MaxFaults /\ losses' \in Nat
      /\ Behind(losses', trades', torn', faults') /\ (torn' => faults' > 0)
  <2>1. Behind(losses, trades, torn, faults) /\ (torn => faults > 0)
    BY DEF DayInv, LossesAreLogged
  <2> QED BY <1>1, <2>1, FinishKeepsUp
<1>3. /\ ticks' \in [switched : BOOLEAN, torn : BOOLEAN]
      /\ SwitchedBehind(made, ticks', faults') /\ (ticks'.torn => faults' > 0)
  <2>1. SwitchedBehind(made, ticks, faults) /\ (ticks.torn => faults > 0)
    BY DEF DayInv, SwitchesAreLogged
  <2> QED BY <1>1, <2>1, FinishLogsSwitch
<1>4. TypeOK'
  BY <1>1, <1>2, <1>3 DEF TypeOK
<1>5. ListsAreScreenings'
  BY <1>1, <1>2 DEF ListsAreScreenings, Screening, At
<1>6. SwitchesAreLogged' /\ LossesAreLogged' /\ FlatSinceSeen'
  BY <1>2, <1>3 DEF SwitchesAreLogged, LossesAreLogged, FlatSinceSeen, At
<1> QED BY <1>4, <1>5, <1>6 DEF DayInv, TypeInv

\* A step that leaves logs, counts and lists alone, and no tick that may switch.
LEMMA QuietDay ==
    ASSUME DayInv, tick' \in Tick \union {None}, ~At("apply")', At("drive")' /\ ~tick'.halt => trades < MaxLosses,
           UNCHANGED <<now, inst, auto, list, position, ticks, trades, torn, screens,
                       made, losses, used, faults>>
    PROVE  DayInv'
<1>1. TypeOK /\ ListsAreScreenings
  BY DEF DayInv, TypeInv
<1>2. TypeOK'
  BY <1>1 DEF TypeOK
<1>3. ListsAreScreenings'
  BY <1>1 DEF ListsAreScreenings, Screening
<1>4. SwitchesAreLogged' /\ FlatSinceSeen'
  BY DEF DayInv, SwitchesAreLogged, FlatSinceSeen
<1>5. LossesAreLogged'
  BY DEF DayInv, LossesAreLogged
<1> QED BY <1>2, <1>3, <1>4, <1>5 DEF DayInv, TypeInv

LEMMA GatesDay ==
    ASSUME DayInv, Gates
    PROVE  DayInv'
<1>1. UNCHANGED <<now, inst, auto, list, position, screens, made, losses, used>>
  BY DEF Gates
<1>2. TypeOK
  BY DEF DayInv, TypeInv
<1>3. CASE finish(FALSE, <<>>)
  <2>1. <<>> \in Legs /\ CountedAfter(losses, <<>>) = losses
    BY OverLegs DEF Legs
  <2>2. position' \in {"none", "working", "held"}
    BY <1>1, <1>2 DEF TypeOK
  <2> QED BY <1>1, <1>3, <2>1, <2>2, EndDay
<1>4. CASE tick' = None /\ UNCHANGED <<logVars, faults>>
  BY <1>1, <1>4, QuietDay DEF At, logVars
<1>5. CASE /\ \E halt \in _new_entries_blocked : tick' = [Past("drive") EXCEPT !.halt = halt]
           /\ UNCHANGED <<logVars, faults>>
  <2>1. PICK halt \in _new_entries_blocked : tick' = [Past("drive") EXCEPT !.halt = halt]
    BY <1>5
  <2>2. halt \in BOOLEAN
    <3>1. PICK stale \in BOOLEAN, loss \in snapshot, gathered \in BOOLEAN :
             halt = (stale \/ _day_loss_halt(loss, gathered))
      BY DEF _new_entries_blocked
    <3> QED BY <3>1, Zenon DEF _day_loss_halt
  <2>3. ~halt => trades < MaxLosses
    <3>1. PICK stale \in BOOLEAN, loss \in snapshot, gathered \in BOOLEAN :
             halt = (stale \/ _day_loss_halt(loss, gathered))
      BY DEF _new_entries_blocked
    <3>2. ~halt => ~(trades >= MaxLosses)
      BY <3>1 DEF _day_loss_halt, day_halt_reason
    <3>3. trades \in Int /\ MaxLosses \in Int
      BY <1>2, DailyAssumption DEF TypeOK
    <3> QED BY <3>2, <3>3
  <2>4. tick' \in Tick /\ tick'.pc = "drive" /\ tick'.halt = halt
    BY <2>1, <2>2 DEF Past, Tick
  <2> QED BY <1>1, <1>5, <2>3, <2>4, QuietDay DEF At, logVars
<1> QED BY <1>3, <1>4, <1>5 DEF Gates

\* What a bar does is among the trades that a tick can close.
LEMMA BarsTyped ==
    ASSUME NEW held \in {"none", "working", "held"}, NEW halt \in BOOLEAN,
           NEW bar \in Bars(held, halt)
    PROVE  bar.legs \in Legs /\ bar.position \in {"none", "working", "held"}
<1> DEFINE opens == {[legs |-> <<>>, position |-> "held"], [legs |-> <<>>, position |-> "working"]} \union
                    {[legs |-> <<leg>>, position |-> "none"] : leg \in Closes}
           flat  == {[legs |-> <<>>, position |-> "none"]} \union
                    (IF halt THEN {[legs |-> <<"skipped">>, position |-> "none"]} ELSE opens)
<1>1. \A next \in flat : /\ next.legs = <<>> \/ \E a \in Results : next.legs = <<a>>
                         /\ next.position \in {"none", "working", "held"}
  <2>1. \A next \in opens : /\ next.legs = <<>> \/ \E a \in Results : next.legs = <<a>>
                            /\ next.position \in {"none", "working", "held"}
    BY DEF Closes, Results
  <2> HIDE DEF opens
  <2> QED BY <2>1 DEF Results
<1>2. \A l \in Legs : (l = <<>> \/ \E a \in Results : l = <<a>>) =>
         \A leg \in Results : <<leg>> \o l \in Legs
  <2>1. \A leg \in Results : <<leg>> \o <<>> = <<leg>>
    OBVIOUS
  <2>2. \A leg, a \in Results : <<leg>> \o <<a>> = <<leg, a>>
    <3> SUFFICES ASSUME NEW leg \in Results, NEW a \in Results
                 PROVE  <<leg>> \o <<a>> = <<leg, a>>
      OBVIOUS
    <3> DEFINE x == <<leg>>
               y == <<a>>
               t == x \o y
    <3>1. x \in Seq(Results) /\ y \in Seq(Results) /\ Len(x) = 1 /\ Len(y) = 1
          /\ x[1] = leg /\ y[1] = a
      OBVIOUS
    <3> HIDE DEF x, y
    <3>2. t \in Seq(Results) /\ Len(t) = 2 /\ t[1] = leg /\ t[2] = a
      BY <3>1, ConcatProperties
    <3> HIDE DEF t
    <3>3. t = <<leg, a>>
      BY <3>2
    <3> QED BY <3>3 DEF t, x, y
  <2> SUFFICES ASSUME NEW l \in Legs, l = <<>> \/ \E a \in Results : l = <<a>>,
                      NEW leg \in Results
               PROVE  <<leg>> \o l \in Legs
    OBVIOUS
  <2>3. CASE l = <<>>
    BY <2>1, <2>3 DEF Legs
  <2>4. ASSUME NEW a \in Results, l = <<a>> PROVE <<leg>> \o l \in Legs
    <3>1. <<leg>> \o l = <<leg, a>>
      BY <2>2, <2>4
    <3>2. <<leg, a>> \in Legs
      BY DEF Legs
    <3> QED BY <3>1, <3>2
  <2> QED BY <2>3, <2>4
<1>3. \A next \in flat : next.legs \in Legs
  <2>1. <<>> \in Legs /\ \A a \in Results : <<a>> \in Legs
    BY DEF Legs
  <2> HIDE DEF flat
  <2> QED BY <1>1, <2>1
<1>4. CASE held = "none"
  <2>1. bar \in flat
    BY <1>4 DEF Bars
  <2> HIDE DEF flat
  <2> QED BY <1>1, <1>3, <2>1
<1>5. CASE held = "working"
  <2>1. bar \in {[legs |-> <<>>, position |-> "working"], [legs |-> <<>>, position |-> "none"]}
    BY <1>5 DEF Bars
  <2>2. <<>> \in Legs
    BY DEF Legs
  <2> QED BY <2>1, <2>2
<1>6. CASE held = "held"
  <2> DEFINE Record(leg, next) == [legs |-> <<leg>> \o next.legs, position |-> next.position]
             both == {Record(leg, next) : leg \in Closes, next \in flat}
  <2>0. bar = [legs |-> <<>>, position |-> "held"] \/ bar \in both
    <3>1. Bars(held, halt) = {[legs |-> <<>>, position |-> "held"]} \union both
      BY <1>6 DEF Bars
    <3> HIDE DEF both
    <3> QED BY <3>1
  <2> HIDE DEF flat
  <2>3. bar \in both => \E leg \in Closes, next \in flat : bar = Record(leg, next)
    <3> HIDE DEF Record
    <3> QED OBVIOUS
  <2> HIDE DEF both
  <2>1. CASE bar = [legs |-> <<>>, position |-> "held"]
    <3>1. <<>> \in Legs
      BY DEF Legs
    <3> QED BY <2>1, <3>1
  <2>2. ASSUME NEW leg \in Closes, NEW next \in flat,
               bar = [legs |-> <<leg>> \o next.legs, position |-> next.position]
        PROVE  bar.legs \in Legs /\ bar.position \in {"none", "working", "held"}
    <3>1. leg \in Results
      BY DEF Closes, Results
    <3>2. <<leg>> \o next.legs \in Legs
      BY <1>1, <1>2, <1>3, <3>1
    <3> QED BY <1>1, <2>2, <3>2
  <2> QED BY <2>0, <2>1, <2>2, <2>3
<1> QED BY <1>4, <1>5, <1>6

LEMMA DriveDay ==
    ASSUME DayInv, Drive
    PROVE  DayInv'
<1>1. TypeOK /\ At("drive")
  BY DEF DayInv, TypeInv, Drive
<1>2. position \in {"none", "working", "held"} /\ tick.halt \in BOOLEAN
  BY <1>1 DEF TypeOK, At, Tick
<1>3. PICK bar \in Bars(position, tick.halt) :
         /\ position' = bar.position
         /\ losses' = CountedAfter(losses, bar.legs)
         /\ finish(FALSE, bar.legs)
  BY DEF Drive
<1>4. bar.legs \in Legs /\ bar.position \in {"none", "working", "held"}
  BY <1>2, BarsTyped
<1>5. UNCHANGED <<now, inst, auto, list, screens, made, used>>
  BY DEF Drive
<1> QED BY <1>3, <1>4, <1>5, EndDay

LEMMA PanelDay ==
    ASSUME DayInv, (\E a \in Criteria : save(a)) \/ refresh
    PROVE  DayInv'
<1>1. TypeOK /\ ListsAreScreenings
  BY DEF DayInv, TypeInv
<1>2. UNCHANGED <<now, inst, position, ticks, trades, torn, tick, made, losses, used, faults>>
  <2>1. CASE \E a \in Criteria : save(a)
    BY <2>1 DEF save, logVars, historyVars
  <2>2. CASE refresh
    BY <2>2 DEF refresh, logVars, historyVars
  <2> QED BY <2>1, <2>2
<1>3. screens \in Nat /\ MaxLists \in Nat /\ screens <= MaxLists
  BY <1>1, DailyAssumption DEF TypeOK
<1>4. screens' \in 0 .. MaxLists /\ screens <= screens' /\ screens' \in Nat
  <2>1. CASE \E a \in Criteria : save(a)
    BY <1>3, <2>1 DEF save
  <2>2. CASE refresh
    BY <1>3, <2>2 DEF refresh
  <2> QED BY <2>1, <2>2
<1>5. auto' \in Automation
  <2>1. CASE \E a \in Criteria : save(a)
    BY <2>1, DailyAssumption DEF save
  <2>2. CASE refresh
    BY <1>1, <2>2 DEF refresh, TypeOK
  <2> QED BY <2>1, <2>2
<1>6. list' # None => list' \in List /\ list'.rows # <<>> /\ Screening(list)'
  <2>1. CASE list' = list
    BY <1>1, <1>3, <1>4, <2>1 DEF ListsAreScreenings, Screening
  <2>2. CASE list' = None
    BY <2>2
  <2>3. CASE refresh
    <3>1. PICK rows \in Lists : list' = Screened(rows)
      BY <2>3 DEF refresh
    <3>2. rows \in Seq(Row) /\ Distinct(rows)
      BY RankedRows DEF Lists
    <3>3. CASE rows # <<>>
      <4>1. list' = [id |-> screens + 1, rows |-> rows] /\ screens' = screens + 1
        BY <2>3, <3>1, <3>3 DEF Screened, refresh
      <4>2. list' \in List
        BY <1>3, <3>2, <4>1 DEF List
      <4> QED BY <1>3, <3>2, <3>3, <4>1, <4>2 DEF Screening
    <3>4. CASE rows = <<>>
      BY <3>1, <3>4 DEF Screened
    <3> QED BY <3>3, <3>4
  <2> QED BY <2>1, <2>2, <2>3 DEF save
<1>7. TypeOK'
  BY <1>1, <1>2, <1>4, <1>5, <1>6 DEF TypeOK
<1>8. ListsAreScreenings'
  <2>1. At("apply")' => At("apply")
    BY <1>2 DEF At
  <2>2. At("apply")' => Screening(tick.list)'
    BY <1>1, <1>2, <1>3, <1>4, <2>1 DEF ListsAreScreenings, Screening
  <2>3. used \in Nat /\ used <= screens'
    BY <1>1, <1>3, <1>4, DailyAssumption DEF ListsAreScreenings, TypeOK
  <2> QED BY <1>1, <1>2, <1>6, <2>1, <2>2, <2>3 DEF ListsAreScreenings
<1>9. SwitchesAreLogged' /\ LossesAreLogged' /\ FlatSinceSeen'
  BY <1>2 DEF DayInv, SwitchesAreLogged, LossesAreLogged, FlatSinceSeen, At
<1> QED BY <1>7, <1>8, <1>9 DEF DayInv, TypeInv

LEMMA FillDay ==
    ASSUME DayInv, FillEntry
    PROVE  DayInv'
<1>1. TypeOK /\ ListsAreScreenings
  BY DEF DayInv, TypeInv
<1>2. UNCHANGED <<now, inst, auto, list, ticks, trades, torn, tick, screens,
                  made, losses, used, faults>>
  BY DEF FillEntry, logVars, historyVars
<1>3. position = "working" /\ position' = "held"
  BY DEF FillEntry
<1>4. TypeOK'
  BY <1>1, <1>2, <1>3 DEF TypeOK
<1>5. ListsAreScreenings'
  BY <1>1, <1>2 DEF ListsAreScreenings, Screening, At
<1>6. SwitchesAreLogged' /\ LossesAreLogged' /\ FlatSinceSeen'
  BY <1>2, <1>3 DEF DayInv, SwitchesAreLogged, LossesAreLogged, FlatSinceSeen, At
<1> QED BY <1>4, <1>5, <1>6 DEF DayInv, TypeInv

LEMMA AdvanceDay ==
    ASSUME DayInv, Advance
    PROVE  DayInv'
<1>1. TypeOK /\ ListsAreScreenings
  BY DEF DayInv, TypeInv
<1>2. UNCHANGED <<inst, auto, list, position, torn, tick, screens, used, faults>>
  BY DEF Advance
<1>3. now' \in 0 .. MaxTime
  BY <1>1, DailyAssumption DEF Advance, TypeOK
<1>4. CASE Day(now + 1) # Day(now)
  <2>1. /\ tick = None /\ ticks' = [switched |-> FALSE, torn |-> FALSE] /\ trades' = 0
        /\ made' = 0 /\ losses' = 0
    BY <1>4 DEF Advance
  <2>2. MaxLosses \in Nat \ {0} /\ faults \in Nat /\ MaxFaults \in Nat
    BY <1>1, DailyAssumption DEF TypeOK
  <2>3. TypeOK'
    BY <1>1, <1>2, <1>3, <2>1, <2>2 DEF TypeOK
  <2>4. ListsAreScreenings'
    BY <1>1, <1>2 DEF ListsAreScreenings, Screening, At
  <2>5. SwitchesAreLogged'
    BY <1>2, <2>1, <2>2 DEF SwitchesAreLogged, SwitchedBehind, One, At
  <2>6. LossesAreLogged'
    BY <1>2, <2>1, <2>2 DEF DayInv, LossesAreLogged, Behind, One, At
  <2>7. FlatSinceSeen'
    BY <1>2, <2>1 DEF FlatSinceSeen, At
  <2> QED BY <2>3, <2>4, <2>5, <2>6, <2>7 DEF DayInv, TypeInv
<1>5. CASE Day(now + 1) = Day(now)
  <2>1. UNCHANGED <<ticks, trades, made, losses>>
    BY <1>5 DEF Advance
  <2>2. TypeOK'
    BY <1>1, <1>2, <1>3, <2>1 DEF TypeOK
  <2>3. ListsAreScreenings'
    BY <1>1, <1>2 DEF ListsAreScreenings, Screening, At
  <2>4. SwitchesAreLogged' /\ LossesAreLogged' /\ FlatSinceSeen'
    BY <1>2, <2>1 DEF DayInv, SwitchesAreLogged, LossesAreLogged, FlatSinceSeen, At
  <2> QED BY <2>2, <2>3, <2>4 DEF DayInv, TypeInv
<1> QED BY <1>4, <1>5

LEMMA DayStep == DayInv /\ [Next]_vars => DayInv'
<1> SUFFICES ASSUME DayInv, [Next]_vars PROVE DayInv'
  OBVIOUS
<1>1. CASE UNCHANGED vars
  <2>1. UNCHANGED <<now, inst, auto, list, position, ticks, trades, torn, tick, screens,
                    made, losses, used, faults>>
    BY <1>1 DEF vars, logVars, historyVars
  <2> QED BY <2>1 DEF DayInv, TypeInv, TypeOK, ListsAreScreenings, Screening, SwitchesAreLogged,
      LossesAreLogged, FlatSinceSeen, At
<1>2. CASE Gate
  BY <1>2, EvaluateDay, NothingDay, ApplyDay DEF Gate
<1>3. CASE Gates \/ Drive
  BY <1>3, GatesDay, DriveDay
<1>4. CASE (\E a \in Criteria : save(a)) \/ refresh
  BY <1>4, PanelDay
<1>5. CASE FillEntry \/ Advance
  BY <1>5, FillDay, AdvanceDay
<1> QED BY <1>1, <1>2, <1>3, <1>4, <1>5 DEF Next

(***************************************************************************)
(* One switch for every list.                                              *)
(***************************************************************************)

\* Whatever the criteria, the leader of a list is not replaced by itself.
LEMMA LeaderStays ==
    ASSUME Margin # 0, NEW mode \in Modes, NEW rows \in Seq(Row), rows # <<>>, Distinct(rows)
    PROVE  ~decide(mode, rows[1].inst, rows)
<1> DEFINE leader == rows[1].inst
<1>1. 1 \in DOMAIN rows /\ rows[1] \in Row /\ leader \in OnList(rows)
  <2>1. 1 \in DOMAIN rows /\ rows[1] \in Row
    OBVIOUS
  <2> QED BY <2>1 DEF OnList
<1>2. ScoreOf(rows, leader) = rows[1].score
  <2> DEFINE k == CHOOSE k \in DOMAIN rows : rows[k].inst = leader
  <2>1. k \in DOMAIN rows /\ rows[k].inst = rows[1].inst
    BY <1>1
  <2>2. k = 1
    <3> HIDE DEF k
    <3> QED BY <1>1, <2>1 DEF Distinct
  <2> QED BY <2>2 DEF ScoreOf
<1>3. rows[1].score - rows[1].score = 0
  BY <1>1 DEF Row
<1>4. ~(0 >= Margin)
  BY DailyAssumption
<1> HIDE DEF leader
<1>5. CASE mode = "not_first"
  BY <1>5 DEF decide, leader
<1>6. CASE mode = "margin"
  <2>1. ~(ScoreOf(rows, leader) - rows[1].score >= Margin)
    BY <1>2, <1>3, <1>4
  <2>2. decide(mode, leader, rows) <=> \/ leader \notin OnList(rows)
                                       \/ ScoreOf(rows, leader) - rows[1].score >= Margin
    BY <1>6 DEF decide
  <2> QED BY <1>1, <2>1, <2>2 DEF leader
<1>7. CASE mode = "not_in_list"
  <2>1. decide(mode, leader, rows) <=> leader \notin OnList(rows)
    BY <1>7 DEF decide
  <2> QED BY <1>1, <2>1 DEF leader
<1> QED BY <1>5, <1>6, <1>7 DEF Modes

LEMMA LeaderStep == Margin # 0 /\ DayInv /\ LeaderIsTaken /\ [Next]_vars => LeaderIsTaken'
<1> SUFFICES ASSUME Margin # 0, DayInv, LeaderIsTaken, [Next]_vars PROVE LeaderIsTaken'
  OBVIOUS
<1>1. TypeInv /\ TypeOK /\ ListsAreScreenings
  BY DEF DayInv, TypeInv
<1>2. screens \in Nat /\ used \in Nat /\ used <= screens
  BY <1>1, DailyAssumption DEF TypeOK, ListsAreScreenings
<1>3. CASE UNCHANGED <<list, used, inst>> /\ ~At("apply")'
  BY <1>3 DEF LeaderIsTaken
<1>4. CASE UNCHANGED <<list, used, inst, tick>>
  BY <1>4 DEF LeaderIsTaken, At
<1>5. CASE evaluate
  <2>1. PICK judged \in cache_and_screen, held \in _held_anything :
           /\ list' = judged.list /\ screens' = judged.screens
           /\ tick' = IF Switches(judged.list, held)
                      THEN [Past("apply") EXCEPT !.auto = auto, !.list = judged.list,
                                                 !.working = position = "working"]
                      ELSE Past("gates")
    BY <1>5 DEF evaluate
  <2>2. UNCHANGED <<inst, used, auto>>
    BY <1>5 DEF evaluate, historyVars
  <2>3. list' # None /\ list'.id = used => list' = list
    BY <1>1, <1>2, <2>1, JudgedLists
  <2>4. At("apply")' => /\ tick'.list = list' /\ list' # None
                        /\ decide(auto.mode, inst, list'.rows)
    BY <2>1 DEF At, Past, Switches
  <2>5. list' # None /\ list'.id = used => ~decide(auto.mode, inst, list'.rows)
    <3> SUFFICES ASSUME list # None, list' = list, list.id = used
                 PROVE  ~decide(auto.mode, inst, list.rows)
      BY <2>3
    <3>1. inst = list.rows[1].inst
      BY DEF LeaderIsTaken
    <3>2. list.rows \in Seq(Row) /\ list.rows # <<>> /\ Distinct(list.rows)
      BY <1>1 DEF ListsAreScreenings, Screening, List
    <3>3. auto.mode \in Modes
      BY <1>1 DEF TypeOK, Automation
    <3> QED BY <3>1, <3>2, <3>3, LeaderStays
  <2>6. list' # None /\ list'.id = used => inst = list'.rows[1].inst
    BY <2>3 DEF LeaderIsTaken
  <2> QED BY <2>2, <2>4, <2>5, <2>6 DEF LeaderIsTaken
<1>6. CASE apply
  <2>1. At("apply") /\ UNCHANGED list
    BY <1>6 DEF apply
  <2>2. CASE /\ inst' = tick.list.rows[1].inst /\ used' = tick.list.id /\ finish(TRUE, <<>>)
    <3>1. ~At("apply")'
      BY <2>2 DEF finish, At
    <3>2. list # None /\ list.id = used' => inst' = list.rows[1].inst
      BY <2>1, <2>2 DEF LeaderIsTaken
    <3> QED BY <2>1, <3>1, <3>2 DEF LeaderIsTaken
  <2>3. CASE tick' = Past("gates") /\ UNCHANGED <<inst, used>>
    <3>1. ~At("apply")'
      BY <2>3 DEF At, Past
    <3> QED BY <1>3, <2>1, <2>3, <3>1
  <2> QED BY <1>6, <2>2, <2>3 DEF apply
<1>7. CASE (\E a \in Criteria : save(a)) \/ refresh
  <2>1. UNCHANGED <<inst, used, tick>>
    <3>1. CASE \E a \in Criteria : save(a)
      BY <3>1 DEF save, historyVars
    <3>2. CASE refresh
      BY <3>2 DEF refresh, historyVars
    <3> QED BY <1>7, <3>1, <3>2
  <2>2. list' = list \/ list' = None \/ list'.id = screens + 1
    <3>1. CASE \E a \in Criteria : save(a)
      BY <3>1 DEF save
    <3>2. CASE refresh
      BY <3>2 DEF refresh, Screened
    <3> QED BY <1>7, <3>1, <3>2
  <2>3. CASE list' = list
    BY <1>4, <2>1, <2>3
  <2>4. CASE list' = None
    BY <2>1, <2>4 DEF LeaderIsTaken, At
  <2>5. CASE list'.id = screens + 1
    <3>1. used # screens + 1
      BY <1>2
    <3>2. At("apply") => tick.list.id # screens + 1
      BY <1>1, <1>2 DEF ListsAreScreenings, Screening
    <3> QED BY <2>1, <2>5, <3>1, <3>2 DEF LeaderIsTaken, At
  <2> QED BY <2>2, <2>3, <2>4, <2>5
<1>8. CASE NothingToJudge
  BY <1>3, <1>8 DEF NothingToJudge, historyVars, At, Past
<1>9. CASE Gates
  <2>1. UNCHANGED <<list, used, inst>>
    BY <1>9 DEF Gates
  <2>2. ~At("apply")'
    BY <1>9 DEF Gates, finish, At, Past
  <2> QED BY <1>3, <2>1, <2>2
<1>10. CASE Drive
  <2>1. UNCHANGED <<list, used, inst>> /\ tick' = None
    BY <1>10 DEF Drive, finish
  <2> QED BY <1>3, <2>1 DEF At
<1>11. CASE FillEntry \/ Advance \/ UNCHANGED vars
  BY <1>4, <1>11 DEF FillEntry, Advance, vars, historyVars
<1> QED BY <1>5, <1>6, <1>7, <1>8, <1>9, <1>10, <1>11 DEF Next, Gate

(***************************************************************************)
(* The theorems.                                                           *)
(***************************************************************************)

\* The logs, the lists and the tick stay well typed; a list that is cached has
\* rows, and a ranking that the screening brings has every place once.
THEOREM TypeCorrect == Spec => []TypeOK
<1>1. DayInv => TypeOK
  BY DEF DayInv, TypeInv
<1> QED BY <1>1, InitDay, DayStep, PTL DEF Spec

\* Under "once a day" there is one switch, and two more for every failure: the
\* one whose row was lost, and the one whose row was lost behind it.
THEOREM OneSwitchADay == Spec => []SwitchesOncePerDay
<1>1. DayInv => SwitchesOncePerDay
  <2> SUFFICES ASSUME DayInv PROVE made <= 1 + 2 * faults
    BY DEF SwitchesOncePerDay
  <2>1. made \in Nat /\ faults \in Nat
    BY DailyAssumption DEF DayInv, TypeInv, TypeOK
  <2>2. made + One(ticks.torn) <= One(ticks.switched) + 2 * faults
    BY DEF DayInv, SwitchesAreLogged, SwitchedBehind
  <2> QED BY <2>1, <2>2 DEF One
<1> QED BY <1>1, InitDay, DayStep, PTL DEF Spec

\* A tick that may open a position began with fewer losses in a row than the
\* limit, but for three of every failure.
THEOREM LossesStopEntries == Spec => []LossesHaltEntries
<1>1. DayInv => LossesHaltEntries
  <2> SUFFICES ASSUME DayInv, At("drive"), ~tick.halt PROVE losses < MaxLosses + 3 * faults
    BY DEF LossesHaltEntries
  <2>1. /\ losses \in Nat /\ faults \in Nat /\ trades \in Nat /\ MaxLosses \in Nat
    BY DailyAssumption DEF DayInv, TypeInv, TypeOK
  <2>2. trades < MaxLosses
    BY DEF DayInv, LossesAreLogged
  <2>3. losses + One(torn) <= trades + 3 * faults
    BY <2>2 DEF DayInv, LossesAreLogged, Behind
  <2> QED BY <2>1, <2>2, <2>3 DEF One
<1> QED BY <1>1, InitDay, DayStep, PTL DEF Spec

\* With a margin worth the name, one list never moves the strategy twice,
\* however it ages, is refreshed or is saved over while a tick goes by it.
THEOREM OneSwitchForEveryList == Margin # 0 => (Spec => []OneSwitchPerList)
<1>1. LeaderIsTaken => OneSwitchPerList
  BY DEF LeaderIsTaken, OneSwitchPerList
<1>2. Init => LeaderIsTaken
  BY DEF Init, LeaderIsTaken, At
<1>3. Margin # 0 /\ DayInv /\ LeaderIsTaken /\ [Next]_vars => LeaderIsTaken'
  BY LeaderStep
<1>4. Margin # 0 => (Margin # 0)'
  OBVIOUS
<1> QED BY <1>1, <1>2, <1>3, <1>4, InitDay, DayStep, PTL DEF Spec

\* A switch that waits for a flat account leaves no position behind but that of
\* an entry which was working when it looked.
THEOREM FlatWhenSwitching == Spec => []SwitchesWhenFlat
<1>1. DayInv => SwitchesWhenFlat
  BY DEF DayInv, FlatSinceSeen, SwitchesWhenFlat
<1> QED BY <1>1, InitDay, DayStep, PTL DEF Spec

=============================================================================
