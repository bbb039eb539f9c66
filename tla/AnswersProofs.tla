----------------------------- MODULE AnswersProofs -----------------------------
(***************************************************************************)
(* Proofs about ParisDay, CurveDay and Answers, for days and hours of any  *)
(* length, any hour the clocks change at, any readings left out or         *)
(* repeated, any grid and any off-peak ranges.                             *)
(***************************************************************************)
EXTENDS Answers, Induction

\* Where the loop puts the i-th reading of an answer s: on the second occurrence of its
\* time when the answer has shown that time before.
Where(k, s, i) ==
    AtParis(k, Wall(k, s[i]),
            IF \E j \in DOMAIN s : j < i /\ Wall(k, s[j]) = Wall(k, s[i]) THEN 1 ELSE 0)
LandedOn(k, s, u) == {i \in DOMAIN s : Where(k, s, i) = u}

\* The readings are in time order, and a point is the last reading that landed on it.
InOrder(s) == \A i, j \in DOMAIN s : i <= j => s[i] <= s[j]
LastOf(point, landed) ==
    IF landed = {} THEN point = 0
    ELSE point \in landed /\ \A i \in landed : i <= point
Recorded ==
    /\ InOrder(told)
    /\ seen = {Wall(kind, told[i]) : i \in DOMAIN told}
    /\ \A u \in Instants(kind) : LastOf(points[u], LandedOn(kind, told, u))

IInv == TypeOK /\ Recorded

------------------------------------------------------------------------------
(***************************************************************************)
(* The clock of a Paris day.                                               *)
(***************************************************************************)

LEMMA SwitchTypes == Switch \in Nat /\ HourTicks \in Nat /\ HourTicks > 0
  BY ParisDayAssumption DEF Switch

LEMMA InstantTypes ==
    ASSUME NEW k \in Kinds, NEW t \in Instants(k)
    PROVE  t \in Nat
  BY DEF Instants

\* An instant is read back from what the clock shows and from whether it is the
\* second time it shows it: what parse_load_curve does with `fold`.
THEOREM ClockIsReadBack ==
    ASSUME NEW k \in Kinds, NEW t \in Instants(k)
    PROVE  AtParis(k, Wall(k, t), IF Second(k, t) THEN 1 ELSE 0) = t
  <1>1. CASE k = "plain"
    BY <1>1 DEF AtParis, Wall
  <1>2. CASE k = "spring"
    BY <1>2, SwitchTypes, InstantTypes DEF AtParis, Wall, Switched, InSwitch, Second
  <1>3. CASE k = "autumn"
    BY <1>3, SwitchTypes, InstantTypes DEF AtParis, Wall, Switched, InSwitch, Second
  <1>4. QED
    BY <1>1, <1>2, <1>3 DEF Kinds

\* Two instants show the same time only in October, an hour apart, the later one
\* being its second occurrence.
THEOREM NamesakesAreAnHourApart ==
    ASSUME NEW k \in Kinds, NEW t \in Instants(k), NEW u \in Instants(k),
           t < u, Wall(k, t) = Wall(k, u)
    PROVE  k = "autumn" /\ u = t + HourTicks /\ Second(k, u) /\ ~Second(k, t)
  <1>1. CASE k = "plain"
    BY <1>1, InstantTypes DEF Wall
  <1>2. CASE k = "spring"
    BY <1>2, SwitchTypes, InstantTypes DEF Wall
  <1>3. CASE k = "autumn"
    BY <1>3, SwitchTypes, InstantTypes DEF Wall, Second
  <1>4. QED
    BY <1>1, <1>2, <1>3 DEF Kinds

\* A wall-clock time that exists is shown at the instant it is read as: what
\* _parse_ecowatt_hours checks to leave out the hour that March skips, and only it.
THEOREM WhatExistsIsShown ==
    ASSUME NEW k \in Kinds, NEW w \in Walls
    PROVE  Exists(k, w) <=> Wall(k, AtParis(k, w, 0)) = w
  <1>1. w \in Nat
    BY DEF Walls
  <1>2. CASE k = "plain"
    BY <1>2 DEF AtParis, Wall, Exists
  <1>3. CASE k = "spring"
    BY <1>1, <1>3, SwitchTypes DEF AtParis, Wall, Exists, Switched, InSwitch
  <1>4. CASE k = "autumn"
    BY <1>1, <1>4, SwitchTypes DEF AtParis, Wall, Exists, Switched, InSwitch
  <1>5. QED
    BY <1>2, <1>3, <1>4 DEF Kinds

\* The lengths of the three days, and where in them the clocks change.
LEMMA Lengths ==
    /\ Midnight \in Nat /\ HourTicks <= Switch /\ Switch + 2 * HourTicks <= Midnight
    /\ Length("plain") = Midnight
    /\ Length("spring") = Midnight - HourTicks
    /\ Length("autumn") = Midnight + HourTicks
    /\ \A k \in Kinds : Length(k) \in Nat /\ Length(k) > 0
  <1>1. /\ HourTicks \in Nat /\ HourTicks > 0 /\ Hours \in Nat /\ SwitchHour \in Nat
        /\ SwitchHour >= 1 /\ SwitchHour + 2 <= Hours
    BY ParisDayAssumption
  <1>2. \A h, n \in Nat : /\ h * (n + 1) = h * n + h
                          /\ n > 0 => h * (n - 1) = h * n - h
    OBVIOUS
  <1>3. \A h, a, b \in Nat : a <= b => h * a <= h * b
    <2> SUFFICES ASSUME NEW h \in Nat, NEW a \in Nat, NEW b \in Nat, a <= b PROVE h * a <= h * b
      OBVIOUS
    <2>1. PICK d \in Nat : b = a + d
      <3>1. b - a \in Nat /\ b = a + (b - a)
        OBVIOUS
      <3>2. QED
        BY <3>1
    <2>2. h * (a + d) = h * a + h * d /\ h * d \in Nat /\ h * a \in Nat
      OBVIOUS
    <2>3. QED
      BY <2>1, <2>2
  <1>4. HourTicks * 1 <= HourTicks * SwitchHour
    BY <1>1, <1>3
  <1>5. HourTicks * (SwitchHour + 2) <= HourTicks * Hours
    BY <1>1, <1>3
  <1>6. HourTicks * (SwitchHour + 2) = HourTicks * SwitchHour + 2 * HourTicks
    BY <1>1
  <1>7. /\ Midnight \in Nat /\ HourTicks <= Switch /\ Switch + 2 * HourTicks <= Midnight
    BY <1>1, <1>4, <1>5, <1>6 DEF Midnight, Switch
  <1>8. /\ Length("plain") = Midnight
        /\ Length("spring") = Midnight - HourTicks
        /\ Length("autumn") = Midnight + HourTicks
    BY <1>1, <1>2 DEF Length, HoursOf, Midnight
  <1>9. \A m, h \in Nat : h > 0 /\ 2 * h <= m => m - h \in Nat /\ m - h > 0 /\ m + h > 0 /\ m > 0
    OBVIOUS
  <1>10. 2 * HourTicks <= Midnight
    BY <1>1, <1>7 DEF Switch
  <1>11. ASSUME NEW k \in Kinds PROVE Length(k) \in Nat /\ Length(k) > 0
    BY <1>1, <1>7, <1>8, <1>9, <1>10 DEF Kinds
  <1>12. QED
    BY <1>7, <1>8, <1>11

LEMMA WallType ==
    ASSUME NEW k \in Kinds, NEW t \in Instants(k)
    PROVE  Wall(k, t) \in Walls
  <1>1. t \in Nat /\ t <= Length(k)
    BY Lengths DEF Instants
  <1>2. CASE k = "plain"
    BY <1>1, <1>2, Lengths DEF Wall, Walls
  <1>3. CASE k = "spring"
    BY <1>1, <1>3, SwitchTypes, Lengths DEF Wall, Walls
  <1>4. CASE k = "autumn"
    BY <1>1, <1>4, SwitchTypes, Lengths DEF Wall, Walls
  <1>5. QED
    BY <1>2, <1>3, <1>4 DEF Kinds

\* A time the clock shows is read as an instant that shows it, with either fold.
LEMMA LandsOnNamesake ==
    ASSUME NEW k \in Kinds, NEW t \in Instants(k), NEW fold \in {0, 1}
    PROVE  LET u == AtParis(k, Wall(k, t), fold)
           IN  u \in Instants(k) /\ Wall(k, u) = Wall(k, t)
  <1>1. t \in Nat /\ t <= Length(k)
    BY Lengths DEF Instants
  <1>2. CASE k = "plain"
    BY <1>1, <1>2, Lengths DEF Wall, AtParis
  <1>3. CASE k = "spring"
    <2>1. AtParis(k, Wall(k, t), fold) = t
      BY <1>1, <1>3, SwitchTypes DEF Wall, AtParis, Switched, InSwitch
    <2>2. QED
      BY <2>1
  <1>4. CASE k = "autumn"
    <2> DEFINE w == Wall(k, t)
    <2>1. w \in Nat /\ w <= Midnight
      BY WallType, Lengths DEF Walls
    <2>2. w = IF t >= Switch + HourTicks THEN t - HourTicks ELSE t
      BY <1>4 DEF Wall
    <2> HIDE DEF w
    <2>3. AtParis(k, w, fold) = IF Switched(w, fold) THEN w + HourTicks ELSE w
      BY <1>4 DEF AtParis
    <2>4. AtParis(k, w, fold) \in Instants(k)
      BY <1>4, <2>1, <2>3, SwitchTypes, Lengths DEF Instants
    <2>5. Wall(k, AtParis(k, w, fold)) = w
      <3>1. \A u \in Nat : Wall(k, u) = IF u >= Switch + HourTicks THEN u - HourTicks ELSE u
        BY <1>4 DEF Wall
      <3>2. CASE Switched(w, fold)
        <4>1. w >= Switch
          BY <2>1, <3>2, SwitchTypes DEF Switched, InSwitch
        <4>2. QED
          BY <2>1, <2>3, <3>1, <3>2, <4>1, SwitchTypes
      <3>3. CASE ~Switched(w, fold)
        <4>1. w < Switch + HourTicks
          BY <2>1, <3>3, SwitchTypes DEF Switched
        <4>2. QED
          BY <2>1, <2>3, <3>1, <3>3, <4>1, SwitchTypes
      <3>4. QED
        BY <3>2, <3>3
    <2>6. QED
      BY <2>4, <2>5 DEF w
  <1>5. QED
    BY <1>2, <1>3, <1>4 DEF Kinds

------------------------------------------------------------------------------
(***************************************************************************)
(* The loop over the readings.                                             *)
(***************************************************************************)

LEMMA InitTyped == Init => TypeOK
  BY DEF Init, TypeOK

LEMMA ReadTyped ==
    ASSUME TypeOK, NEW t \in Instants(kind), Read(t)
    PROVE  TypeOK'
  <1>1. told' = Append(told, t) /\ told' \in Seq(Instants(kind)) /\ Len(told') = Len(told) + 1
    BY DEF Read, TypeOK
  <1>2. kind' = kind /\ kind \in Kinds
    BY DEF Read, TypeOK
  <1>3. seen' \subseteq Walls
    BY <1>2, WallType DEF Read, TypeOK
  <1>4. points' \in [Instants(kind) -> 0..Len(told')]
    <2>1. PICK u : points' = [points EXCEPT ![u] = Len(told) + 1]
      BY DEF Read
    <2>2. points \in [Instants(kind) -> 0..Len(told)] /\ Len(told) \in Nat
      BY DEF TypeOK
    <2>3. \A x \in 0..Len(told) : x \in 0..(Len(told) + 1)
      BY <2>2
    <2>4. Len(told) + 1 \in 0..(Len(told) + 1)
      BY <2>2
    <2>5. points' \in [Instants(kind) -> 0..(Len(told) + 1)]
      BY <2>1, <2>2, <2>3, <2>4
    <2>6. QED
      BY <1>1, <2>5
  <1>5. QED
    BY <1>1, <1>2, <1>3, <1>4 DEF TypeOK

LEMMA TypedStep == TypeOK /\ [Next]_vars => TypeOK'
  <1>1. ASSUME TypeOK, Next PROVE TypeOK'
    BY <1>1, ReadTyped DEF Next
  <1>2. ASSUME TypeOK, UNCHANGED vars PROVE TypeOK'
    BY <1>2 DEF vars, TypeOK
  <1>3. QED
    BY <1>1, <1>2

LEMMA OneMoreReading ==
    ASSUME NEW k \in Kinds, NEW s \in Seq(Instants(k)), NEW t \in Instants(k)
    PROVE  LET n == Len(s)
               more == Append(s, t)
               fold == IF Wall(k, t) \in {Wall(k, s[i]) : i \in DOMAIN s} THEN 1 ELSE 0
           IN  /\ DOMAIN s = 1..n /\ DOMAIN more = 1..(n + 1) /\ n \in Nat
               /\ more[n + 1] = t /\ \A i \in 1..n : more[i] = s[i]
               /\ \A i \in 1..n : Where(k, more, i) = Where(k, s, i)
               /\ Where(k, more, n + 1) = AtParis(k, Wall(k, t), fold)
  <1> DEFINE n == Len(s)
             more == Append(s, t)
             fold == IF Wall(k, t) \in {Wall(k, s[i]) : i \in DOMAIN s} THEN 1 ELSE 0
  <1>1. /\ DOMAIN s = 1..n /\ DOMAIN more = 1..(n + 1) /\ n \in Nat
        /\ more[n + 1] = t /\ \A i \in 1..n : more[i] = s[i]
    OBVIOUS
  <1> HIDE DEF n, more
  <1>2. ASSUME NEW i \in 1..n PROVE Where(k, more, i) = Where(k, s, i)
    <2>1. (\E j \in DOMAIN more : j < i /\ Wall(k, more[j]) = Wall(k, more[i]))
            <=> (\E j \in DOMAIN s : j < i /\ Wall(k, s[j]) = Wall(k, s[i]))
      <3>1. \A j \in 1..(n + 1) : j < i => j \in 1..n
        BY <1>1
      <3>2. \A j \in 1..n : j \in 1..(n + 1)
        BY <1>1
      <3>3. QED
        BY <1>1, <3>1, <3>2
    <2>2. more[i] = s[i]
      BY <1>1
    <2>3. QED
      BY <2>1, <2>2 DEF Where
  <1>3. Where(k, more, n + 1) = AtParis(k, Wall(k, t), fold)
    <2>1. (\E j \in DOMAIN more : j < n + 1 /\ Wall(k, more[j]) = Wall(k, more[n + 1]))
            <=> Wall(k, t) \in {Wall(k, s[i]) : i \in DOMAIN s}
      <3>1. \A j \in 1..(n + 1) : j < n + 1 <=> j \in 1..n
        BY <1>1
      <3>2. \A j \in 1..n : j \in 1..(n + 1)
        BY <1>1
      <3>3. QED
        BY <1>1, <3>1, <3>2
    <2>2. QED
      BY <1>1, <2>1 DEF Where
  <1>4. QED
    BY <1>1, <1>2, <1>3 DEF n, more

LEMMA InitRecorded == Init => Recorded
  <1>1. ASSUME Init PROVE Recorded
    <2>1. told = <<>> /\ DOMAIN told = {}
      BY <1>1 DEF Init
    <2>2. \A u \in Instants(kind) : points[u] = 0
      BY <1>1 DEF Init
    <2>3. QED
      BY <1>1, <2>1, <2>2 DEF Init, Recorded, InOrder, LastOf, LandedOn
  <1>2. QED
    BY <1>1

LEMMA ReadRecorded ==
    ASSUME IInv, NEW t \in Instants(kind), Read(t)
    PROVE  Recorded'
  <1> DEFINE n == Len(told)
             wall == Wall(kind, t)
             x == AtParis(kind, wall, Fold(wall))
  <1>0. /\ kind \in Kinds /\ told \in Seq(Instants(kind)) /\ kind' = kind
        /\ told' = Append(told, t) /\ seen' = seen \union {wall}
        /\ points' = [points EXCEPT ![x] = n + 1]
    BY DEF IInv, TypeOK, Read
  <1>1. /\ DOMAIN told = 1..n /\ DOMAIN told' = 1..(n + 1) /\ n \in Nat
        /\ told'[n + 1] = t /\ \A i \in 1..n : told'[i] = told[i]
    BY <1>0, OneMoreReading
  <1>2. /\ \A i \in 1..n : Where(kind, told', i) = Where(kind, told, i)
        /\ Where(kind, told', n + 1) = x
    <2>1. seen = {Wall(kind, told[i]) : i \in DOMAIN told}
      BY DEF IInv, Recorded
    <2>2. Fold(wall) = IF wall \in {Wall(kind, told[i]) : i \in DOMAIN told} THEN 1 ELSE 0
      BY <2>1 DEF Fold
    <2>3. QED
      BY <1>0, <2>2, OneMoreReading
  <1>3. \A i \in 1..(n + 1) : i \in 1..n \/ i = n + 1
    BY <1>1
  <1>4. \A i \in 1..n : told[i] \in Nat
    BY <1>0, <1>1, InstantTypes
  <1>5. t \in Nat
    BY <1>0, InstantTypes
  <1> HIDE DEF x, wall, n
  <1>6. InOrder(told')
    <2>1. \A i \in 1..n : told[i] <= t
      <3> SUFFICES ASSUME NEW i \in 1..n PROVE told[i] <= t
        OBVIOUS
      <3>1. n \in 1..n /\ i <= n /\ told # <<>>
        BY <1>1
      <3>2. told[i] <= told[n]
        BY <1>1, <3>1 DEF IInv, Recorded, InOrder
      <3>3. Last(told) = told[n]
        BY DEF Last, n
      <3>4. t >= told[n] + 0 \/ t >= told[n] + 1
        BY <3>1, <3>3 DEF Read, After
      <3>5. told[n] \in Nat /\ told[i] \in Nat
        BY <1>4, <3>1
      <3>6. QED
        BY <1>5, <3>2, <3>4, <3>5
    <2>2. ASSUME NEW i \in 1..(n + 1), NEW j \in 1..(n + 1), i <= j PROVE told'[i] <= told'[j]
      <3>1. CASE i \in 1..n /\ j \in 1..n
        BY <1>1, <2>2, <3>1 DEF IInv, Recorded, InOrder
      <3>2. CASE i \in 1..n /\ j = n + 1
        BY <1>1, <2>1, <3>2
      <3>3. CASE i = n + 1
        <4>1. j = n + 1
          BY <1>1, <2>2, <3>3
        <4>2. QED
          BY <1>1, <1>5, <3>3, <4>1
      <3>4. QED
        BY <1>3, <3>1, <3>2, <3>3
    <2>3. QED
      BY <1>1, <2>2 DEF InOrder
  <1>7. seen' = {Wall(kind', told'[i]) : i \in DOMAIN told'}
    <2>1. seen = {Wall(kind, told[i]) : i \in 1..n}
      BY <1>1 DEF IInv, Recorded
    <2>2. \A i \in 1..n : i \in 1..(n + 1)
      BY <1>1
    <2>3. n + 1 \in 1..(n + 1)
      BY <1>1
    <2>4. {Wall(kind, told'[i]) : i \in 1..(n + 1)}
            = {Wall(kind, told[i]) : i \in 1..n} \union {Wall(kind, t)}
      BY <1>1, <1>3, <2>2, <2>3
    <2>5. QED
      BY <1>0, <1>1, <2>1, <2>4 DEF wall
  <1>8. ASSUME NEW u \in Instants(kind)
        PROVE  LastOf(points'[u], LandedOn(kind, told', u))
    <2> DEFINE old == LandedOn(kind, told, u)
               new == LandedOn(kind, told', u)
    <2>1. LastOf(points[u], old) /\ old \subseteq 1..n
      BY <1>1 DEF IInv, Recorded, LandedOn
    <2>2. points' \in [Instants(kind) -> 0..Len(told')] /\ points \in [Instants(kind) -> 0..Len(told)]
      BY <1>0, ReadTyped DEF IInv, TypeOK
    <2>3. \A i \in 1..n : i \in 1..(n + 1)
      BY <1>1
    <2>4. CASE u = x
      <3>1. points'[u] = n + 1
        BY <1>0, <2>2, <2>4
      <3>2. n + 1 \in 1..(n + 1) /\ \A i \in 1..(n + 1) : i <= n + 1
        BY <1>1
      <3>3. n + 1 \in new /\ new \subseteq 1..(n + 1)
        BY <1>1, <1>2, <2>4, <3>2 DEF LandedOn
      <3>4. QED
        BY <3>1, <3>2, <3>3 DEF LastOf
    <2>5. CASE u # x
      <3>1. points'[u] = points[u]
        BY <1>0, <2>2, <2>5
      <3>2. new = old
        BY <1>1, <1>2, <1>3, <2>3, <2>5 DEF LandedOn
      <3>3. QED
        BY <2>1, <3>1, <3>2
    <2>6. QED
      BY <2>4, <2>5
  <1>9. QED
    BY <1>0, <1>6, <1>7, <1>8 DEF Recorded

LEMMA InvStep == IInv /\ [Next]_vars => IInv'
  <1>1. ASSUME IInv, Next PROVE IInv'
    <2>1. PICK t \in Instants(kind) : Read(t)
      BY <1>1 DEF Next
    <2>2. TypeOK' /\ Recorded'
      BY <1>1, <2>1, ReadTyped, ReadRecorded DEF IInv
    <2>3. QED
      BY <2>2 DEF IInv
  <1>2. ASSUME IInv, UNCHANGED vars PROVE IInv'
    <2>1. TypeOK'
      BY <1>2 DEF vars, TypeOK, IInv
    <2>2. Recorded'
      BY <1>2 DEF vars, Recorded, IInv
    <2>3. QED
      BY <2>1, <2>2 DEF IInv
  <1>3. QED
    BY <1>1, <1>2

\* The loop's collections keep their types whatever the answer holds: a reading is one of
\* an instant of the day, and so is the point it makes (gateway.py, parse_load_curve).
THEOREM TypeIsInvariant == Spec => []TypeOK
  <1>1. QED
    BY InitTyped, TypedStep, PTL DEF Spec

------------------------------------------------------------------------------
(***************************************************************************)
(* Readings put back on their instants.                                    *)
(***************************************************************************)

\* Instants of one time are one or two, and reading it lands on one of them.
LEMMA TwoNamesakes ==
    ASSUME NEW k \in Kinds, NEW a \in Instants(k), NEW b \in Instants(k), a < b,
           Wall(k, a) = Wall(k, b)
    PROVE  /\ AtParis(k, Wall(k, a), 0) = a /\ AtParis(k, Wall(k, a), 1) = b
           /\ \A u \in Instants(k) : Wall(k, u) = Wall(k, a) => u = a \/ u = b
  <1>1. Second(k, b) /\ ~Second(k, a) /\ b = a + HourTicks
    BY NamesakesAreAnHourApart
  <1>2. AtParis(k, Wall(k, a), 0) = a /\ AtParis(k, Wall(k, a), 1) = b
    BY <1>1, ClockIsReadBack
  <1>3. ASSUME NEW u \in Instants(k), Wall(k, u) = Wall(k, a) PROVE u = a \/ u = b
    <2>1. a \in Nat /\ b \in Nat /\ u \in Nat /\ HourTicks \in Nat /\ HourTicks > 0
      BY InstantTypes, SwitchTypes
    <2>2. u < a => a = u + HourTicks /\ b = u + HourTicks
      BY <1>3, <2>1, NamesakesAreAnHourApart
    <2>3. u > a => u = a + HourTicks
      BY <1>3, <2>1, NamesakesAreAnHourApart
    <2>4. QED
      BY <1>1, <2>1, <2>2, <2>3
  <1>4. QED
    BY <1>2, <1>3

LEMMA WhereShows ==
    ASSUME NEW k \in Kinds, NEW s \in Seq(Instants(k)), NEW i \in DOMAIN s
    PROVE  Where(k, s, i) \in Instants(k) /\ Wall(k, Where(k, s, i)) = Wall(k, s[i])
  <1>1. s[i] \in Instants(k)
    OBVIOUS
  <1>2. QED
    BY <1>1, LandsOnNamesake DEF Where

\* A time the clock shows once that day lands on its instant alone.
LEMMA OnceLands ==
    ASSUME NEW k \in Kinds, NEW s \in Seq(Instants(k)), NEW t \in Instants(k),
           \A u \in Instants(k) : Wall(k, u) = Wall(k, t) => u = t
    PROVE  LandedOn(k, s, t) = {i \in DOMAIN s : s[i] = t}
  <1>1. ASSUME NEW i \in DOMAIN s PROVE Where(k, s, i) = t <=> s[i] = t
    <2>1. s[i] \in Instants(k)
      OBVIOUS
    <2>2. QED
      BY <2>1, WhereShows
  <1>2. QED
    BY <1>1 DEF LandedOn

\* Of two instants of one time, told once at most, the first one told: each reading lands
\* on its own.
LEMMA TwiceLands ==
    ASSUME NEW k \in Kinds, NEW s \in Seq(Instants(k)), InOrder(s),
           NEW a \in Instants(k), NEW b \in Instants(k), a < b, Wall(k, a) = Wall(k, b),
           \A i, j \in DOMAIN s : s[i] = a /\ s[j] = a => i = j,
           \A i, j \in DOMAIN s : s[i] = b /\ s[j] = b => i = j,
           NEW first \in DOMAIN s, s[first] = a
    PROVE  /\ LandedOn(k, s, a) = {i \in DOMAIN s : s[i] = a}
           /\ LandedOn(k, s, b) = {i \in DOMAIN s : s[i] = b}
  <1> DEFINE w == Wall(k, a)
  <1>1. /\ AtParis(k, w, 0) = a /\ AtParis(k, w, 1) = b
        /\ \A u \in Instants(k) : Wall(k, u) = w => u = a \/ u = b
    BY TwoNamesakes
  <1>2. a \in Nat /\ b \in Nat /\ Wall(k, b) = w
    BY InstantTypes
  <1>3. \A i \in DOMAIN s : i \in Nat /\ s[i] \in Instants(k)
    OBVIOUS
  <1> HIDE DEF w
  <1>4. Where(k, s, first) = a
    <2>1. ASSUME NEW j \in DOMAIN s, j < first, Wall(k, s[j]) = w PROVE FALSE
      <3>1. s[j] = a \/ s[j] = b
        BY <1>1, <1>3, <2>1
      <3>2. s[j] # a
        BY <1>3, <2>1
      <3>3. s[j] <= a
        BY <1>3, <2>1 DEF InOrder
      <3>4. QED
        BY <1>2, <3>1, <3>2, <3>3
    <2>2. ~ \E j \in DOMAIN s : j < first /\ Wall(k, s[j]) = Wall(k, s[first])
      BY <2>1 DEF w
    <2>3. QED
      BY <1>1, <2>2 DEF Where, w
  <1>5. ASSUME NEW i \in DOMAIN s, s[i] = b PROVE Where(k, s, i) = b
    <2>1. first < i
      <3>1. i <= first => b <= a
        BY <1>5 DEF InOrder
      <3>2. QED
        BY <1>2, <1>3, <3>1
    <2>2. \E j \in DOMAIN s : j < i /\ Wall(k, s[j]) = Wall(k, s[i])
      BY <1>2, <1>5, <2>1 DEF w
    <2>3. QED
      BY <1>1, <1>2, <1>5, <2>2 DEF Where
  <1>6. ASSUME NEW i \in DOMAIN s
        PROVE  (Where(k, s, i) = a <=> s[i] = a) /\ (Where(k, s, i) = b <=> s[i] = b)
    <2>1. s[i] = a => i = first
      BY <1>6
    <2>2. Wall(k, Where(k, s, i)) = Wall(k, s[i])
      BY WhereShows
    <2>3. Where(k, s, i) \in {a, b} => s[i] = a \/ s[i] = b
      BY <1>1, <1>2, <1>3, <2>2 DEF w
    <2>4. QED
      BY <1>2, <1>4, <1>5, <2>1, <2>3
  <1>7. QED
    BY <1>6 DEF LandedOn

LEMMA AtMostOnce ==
    ASSUME NEW S, IsFiniteSet(S), Cardinality(S) <= 1, NEW x \in S, NEW y \in S
    PROVE  x = y
  <1>1. SUFFICES ASSUME x # y PROVE FALSE
    OBVIOUS
  <1>2. Cardinality(S \ {x}) = Cardinality(S) - 1 /\ IsFiniteSet(S \ {x})
    BY FS_RemoveElement
  <1>3. Cardinality((S \ {x}) \ {y}) = Cardinality(S \ {x}) - 1
    BY <1>1, <1>2, FS_RemoveElement
  <1>4. Cardinality(S) \in Nat /\ Cardinality(S \ {x}) \in Nat
    BY <1>2, FS_CardinalityType
  <1>5. Cardinality((S \ {x}) \ {y}) \in Nat
    <2>1. IsFiniteSet((S \ {x}) \ {y})
      BY <1>1, <1>2, FS_RemoveElement
    <2>2. QED
      BY <2>1, FS_CardinalityType
  <1>6. QED
    BY <1>2, <1>3, <1>4, <1>5

LEMMA ToldIsFinite == ASSUME TypeOK, NEW t PROVE IsFiniteSet(Told(t)) /\ Told(t) \in SUBSET Nat
  <1>1. DOMAIN told = 1..Len(told) /\ Len(told) \in Nat
    BY DEF TypeOK
  <1>2. Told(t) \in SUBSET (1..Len(told))
    BY <1>1 DEF Told
  <1>3. IsFiniteSet(Told(t))
    BY <1>1, <1>2, UptoCount, FS_Subset
  <1>4. QED
    BY <1>1, <1>2, <1>3

LEMMA LandsWhenUnambiguous ==
    ASSUME IInv, NEW t \in Range(told), Unambiguous(t)
    PROVE  t \in Instants(kind) /\ LandedOn(kind, told, t) = Told(t) /\ Told(t) # {}
  <1>1. kind \in Kinds /\ told \in Seq(Instants(kind)) /\ InOrder(told)
    BY DEF IInv, TypeOK, Recorded
  <1>2. PICK i \in DOMAIN told : told[i] = t
    BY DEF Range
  <1>3. t \in Instants(kind) /\ Told(t) # {}
    BY <1>1, <1>2 DEF Told
  <1>4. CASE Namesakes(t) = {t}
    <2>1. \A u \in Instants(kind) : Wall(kind, u) = Wall(kind, t) => u = t
      BY <1>4 DEF Namesakes
    <2>2. QED
      BY <1>1, <1>3, <2>1, OnceLands DEF Told
  <1>5. CASE Namesakes(t) # {t}
    <2>1. PICK u \in Instants(kind) : u # t /\ Wall(kind, u) = Wall(kind, t)
      BY <1>3, <1>5 DEF Namesakes
    <2>2. t \in Nat /\ u \in Nat
      BY <1>1, <1>3, <2>1, InstantTypes
    <2>3. u \in Namesakes(t) /\ t \in Namesakes(t)
      BY <1>3, <2>1 DEF Namesakes
    <2>4. /\ Cardinality(Told(u)) <= 1 /\ Cardinality(Told(t)) <= 1
          /\ u < t => Told(u) # {}
      BY <1>5, <2>3 DEF Unambiguous
    <2>5. ASSUME NEW v \in {t, u}
          PROVE  \A m, n \in DOMAIN told : told[m] = v /\ told[n] = v => m = n
      <3>1. IsFiniteSet(Told(v)) /\ Cardinality(Told(v)) <= 1
        BY <2>4, ToldIsFinite DEF IInv
      <3>2. \A m, n \in Told(v) : m = n
        BY <3>1, AtMostOnce
      <3>3. QED
        BY <3>2 DEF Told
    <2>6. CASE t < u
      BY <1>1, <1>2, <1>3, <2>1, <2>5, <2>6, TwiceLands DEF Told
    <2>7. CASE u < t
      <3>1. PICK j \in DOMAIN told : told[j] = u
        BY <2>4, <2>7 DEF Told
      <3>2. QED
        BY <1>1, <1>3, <2>1, <2>5, <2>7, <3>1, TwiceLands DEF Told
    <2>8. QED
      BY <2>1, <2>2, <2>6, <2>7
  <1>6. QED
    BY <1>4, <1>5

LEMMA InvariantRecovers == IInv => InstantsRecovered
  <1> SUFFICES ASSUME IInv PROVE InstantsRecovered
    OBVIOUS
  <1>1. ASSUME NEW t \in Range(told), Unambiguous(t) PROVE points[t] = Max(Told(t))
    <2>1. t \in Instants(kind) /\ LandedOn(kind, told, t) = Told(t) /\ Told(t) # {}
      BY <1>1, LandsWhenUnambiguous
    <2>2. points[t] \in Told(t) /\ \A i \in Told(t) : i <= points[t]
      BY <2>1 DEF IInv, Recorded, LastOf
    <2>3. Told(t) \in SUBSET Nat
      BY ToldIsFinite DEF IInv
    <2>4. points[t] \in Nat
      BY <2>2, <2>3
    <2>5. Max(Told(t)) \in Told(t) /\ \A i \in Told(t) : i <= Max(Told(t))
      BY <2>1, <2>2, <2>3, <2>4, GreatestExists
    <2>6. QED
      BY <2>2, <2>3, <2>5
  <1>2. ASSUME NEW u \in Instants(kind), points[u] # 0
        PROVE  told[points[u]] \in Namesakes(u)
    <2>1. points[u] \in DOMAIN told /\ Where(kind, told, points[u]) = u
      BY <1>2 DEF IInv, Recorded, LastOf, LandedOn
    <2>2. kind \in Kinds /\ told \in Seq(Instants(kind))
      BY DEF IInv, TypeOK
    <2>3. told[points[u]] \in Instants(kind)
      BY <2>1, <2>2
    <2>4. Wall(kind, u) = Wall(kind, told[points[u]])
      BY <2>1, <2>2, WhereShows
    <2>5. QED
      BY <2>3, <2>4 DEF Namesakes
  <1>3. QED
    BY <1>1, <1>2 DEF InstantsRecovered

\* A reading lands on the instant it is of, whatever the day, the readings left out and
\* those repeated, as far as the order of an answer can tell; and none ever lands on an
\* instant of another time (gateway.py, parse_load_curve).
THEOREM ReadingsAreRecovered == Spec => []InstantsRecovered
  <1>1. Init => IInv
    BY InitTyped, InitRecorded DEF IInv
  <1>2. QED
    BY <1>1, InvStep, InvariantRecovers, PTL DEF Spec

------------------------------------------------------------------------------
(***************************************************************************)
(* Ecowatt hours.                                                          *)
(***************************************************************************)

LEMMA ShownBeforeMidnight ==
    ASSUME NEW k \in Kinds, NEW w \in Walls, w < Midnight, Wall(k, AtParis(k, w, 0)) = w
    PROVE  AtParis(k, w, 0) \in Nat /\ AtParis(k, w, 0) < Length(k)
  <1>1. w \in Nat /\ Exists(k, w)
    BY Lengths, WhatExistsIsShown DEF Walls
  <1>2. CASE k = "plain"
    BY <1>1, <1>2, Lengths DEF AtParis
  <1>3. CASE k = "spring"
    BY <1>1, <1>3, SwitchTypes, Lengths DEF AtParis, Switched, InSwitch, Exists
  <1>4. CASE k = "autumn"
    BY <1>1, <1>4, SwitchTypes, Lengths DEF AtParis, Switched, InSwitch
  <1>5. QED
    BY <1>2, <1>3, <1>4 DEF Kinds

LEMMA InvariantLevels == TypeOK => LevelsInPlace
  <1> SUFFICES ASSUME TypeOK PROVE LevelsInPlace
    OBVIOUS
  <1> DEFINE naive(w) == [stamp |-> w, at |-> AtParis(kind, w, 0)]
             zoned(t) == [stamp |-> Wall(kind, t), at |-> t]
             kept == {w \in Stamps : Shown(w)}
  <1>1. /\ kind \in Kinds /\ seen \subseteq Walls /\ Stamps \subseteq Walls
        /\ \A t \in Zoned : t \in Nat /\ t < Length(kind)
    BY DEF TypeOK, Stamps, Zoned, Range, Instants
  <1>2. /\ EcowattHours(Stamps, {}) = {naive(w) : w \in kept}
        /\ EcowattHours({}, Zoned) = {zoned(t) : t \in Zoned}
        /\ EcowattHours(Stamps, Zoned) = {naive(w) : w \in kept} \union {zoned(t) : t \in Zoned}
    BY DEF EcowattHours
  <1>3. \A w : naive(w).stamp = w /\ naive(w).at = AtParis(kind, w, 0)
    OBVIOUS
  <1>4. \A t : zoned(t).stamp = Wall(kind, t) /\ zoned(t).at = t
    OBVIOUS
  <1>5. kept = {w \in Stamps : Exists(kind, w)}
    BY <1>1, WhatExistsIsShown DEF Shown
  <1>6. \A w \in kept : Wall(kind, naive(w).at) = w
    BY <1>3 DEF Shown
  <1> HIDE DEF naive, zoned
  <1>7. {h.stamp : h \in EcowattHours(Stamps, {})} = {w \in Stamps : Exists(kind, w)}
    BY <1>2, <1>3, <1>5
  <1>8. \A h, g \in EcowattHours(Stamps, {}) : h.at = g.at => h = g
    BY <1>2, <1>3, <1>6
  <1>9. {h.at : h \in EcowattHours({}, Zoned)} = Zoned
    BY <1>2, <1>4
  <1>10. \A h \in EcowattHours(Stamps, Zoned) : Wall(kind, h.at) = h.stamp
    BY <1>2, <1>3, <1>4, <1>6
  <1>11. ASSUME NEW h \in EcowattHours(Stamps, Zoned)
         PROVE  h.at \in Nat /\ h.at < Length(kind)
    <2>1. ASSUME NEW w \in kept, h = naive(w)
          PROVE  h.at \in Nat /\ h.at < Length(kind)
      <3>1. w \in Walls /\ w \in Nat /\ Exists(kind, w)
        BY <1>1, <1>5, Lengths DEF Walls
      <3>2. w < Midnight
        BY <3>1 DEF Stamps
      <3>3. QED
        BY <1>1, <1>3, <1>6, <2>1, <3>1, <3>2, ShownBeforeMidnight
    <2>2. ASSUME NEW t \in Zoned, h = zoned(t)
          PROVE  h.at \in Nat /\ h.at < Length(kind)
      BY <1>1, <1>4, <2>2
    <2>3. QED
      BY <1>2, <2>1, <2>2
  <1>12. SignalDay(Stamps, Zoned, -1) = 0
    <2> DEFINE hours == EcowattHours(Stamps, Zoned)
               ats == {h.at : h \in hours}
    <2>1. CASE hours = {}
      BY <2>1 DEF SignalDay
    <2>2. CASE hours # {}
      <3>1. ats \in SUBSET Nat /\ ats # {} /\ \A x \in ats : x < Length(kind)
        BY <1>11, <2>2
      <3> HIDE DEF ats
      <3>2. Min(ats) \in ats
        BY <3>1, LeastExists
      <3>3. Min(ats) < Length(kind)
        BY <3>1, <3>2
      <3>4. QED
        BY <2>2, <3>3 DEF SignalDay, ats
    <2>3. QED
      BY <2>1, <2>2
  <1>13. QED
    BY <1>7, <1>8, <1>9, <1>10, <1>12 DEF LevelsInPlace

\* The hours the day has are kept, the one March skips is left out, no two levels share
\* an hour unless their stamps' offsets say so, and a signal keyed one day early is dated
\* by the day of its hours (gateway.py, _parse_ecowatt_hours).
THEOREM LevelsArePlaced == Spec => []LevelsInPlace
  <1>1. QED
    BY TypeIsInvariant, InvariantLevels, PTL

------------------------------------------------------------------------------
(***************************************************************************)
(* Grids.                                                                  *)
(***************************************************************************)

LEMMA ProductsInOrder ==
    ASSUME NEW n \in Nat \ {0}, NEW a \in Nat, NEW b \in Nat
    PROVE  n * a <= n * b <=> a <= b
  <1>1. ASSUME NEW c \in Nat, NEW d \in Nat, c <= d PROVE n * c <= n * d
    <2>1. PICK e \in Nat : d = c + e
      <3>1. d - c \in Nat /\ d = c + (d - c)
        BY <1>1
      <3>2. QED
        BY <3>1
    <2>2. n * (c + e) = n * c + n * e /\ n * e \in Nat /\ n * c \in Nat
      OBVIOUS
    <2>3. QED
      BY <2>1, <2>2
  <1>2. ASSUME NEW c \in Nat, NEW d \in Nat, c < d PROVE n * c < n * d
    <2>1. n * (c + 1) <= n * d
      BY <1>1, <1>2
    <2>2. n * (c + 1) = n * c + n /\ n * c \in Nat /\ n * d \in Nat
      OBVIOUS
    <2>3. QED
      BY <2>1, <2>2
  <1>3. CASE a <= b
    BY <1>1, <1>3
  <1>4. CASE b < a
    <2>1. n * b < n * a
      BY <1>2, <1>4
    <2>2. QED
      BY <1>4, <2>1
  <1>5. QED
    BY <1>3, <1>4

LEMMA Multiple ==
    ASSUME NEW n \in Nat \ {0}, NEW a \in Nat
    PROVE  /\ a \div n \in Nat /\ a % n \in Nat /\ a % n < n
           /\ a = n * (a \div n) + (a % n)
  OBVIOUS

LEMMA Quotient ==
    ASSUME NEW n \in Nat \ {0}, NEW q \in Nat, NEW r \in Nat, r < n
    PROVE  (n * q + r) \div n = q /\ (n * q + r) % n = r
  <1> DEFINE a == n * q + r
             p == a \div n
             s == a % n
  <1>1. a \in Nat /\ p \in Nat /\ s \in Nat /\ s < n /\ a = n * p + s /\ a = n * q + r
    BY Multiple
  <1> HIDE DEF a, p, s
  <1>2. ~ p < q
    <2>1. SUFFICES ASSUME p + 1 <= q PROVE FALSE
      BY <1>1
    <2>2. n * (p + 1) <= n * q
      BY <1>1, <2>1, ProductsInOrder
    <2>3. n * (p + 1) = n * p + n
      BY <1>1
    <2>4. n * p \in Nat /\ n * q \in Nat
      BY <1>1
    <2>5. QED
      BY <1>1, <2>2, <2>3, <2>4
  <1>3. ~ q < p
    <2>1. SUFFICES ASSUME q + 1 <= p PROVE FALSE
      BY <1>1
    <2>2. n * (q + 1) <= n * p
      BY <1>1, <2>1, ProductsInOrder
    <2>3. n * (q + 1) = n * q + n
      BY <1>1
    <2>4. n * p \in Nat /\ n * q \in Nat
      BY <1>1
    <2>5. QED
      BY <1>1, <2>2, <2>3, <2>4
  <1>4. p = q
    BY <1>1, <1>2, <1>3
  <1>5. s = r
    <2>1. n * q \in Nat
      OBVIOUS
    <2>2. QED
      BY <1>1, <1>4, <2>1
  <1>6. QED
    BY <1>4, <1>5 DEF a, p, s

\* The grid of n steps of k ticks is the multiples of k up to its end.
LEMMA StepsAreMultiples ==
    ASSUME NEW n \in Nat, NEW k \in Nat \ {0}
    PROVE  /\ {k * i : i \in 1..n} = {t \in 1..(k * n) : t % k = 0}
           /\ IsFiniteSet({k * i : i \in 1..n}) /\ Cardinality({k * i : i \in 1..n}) = n
  <1> DEFINE S == {k * i : i \in 1..n}
  <1>1. ASSUME NEW i \in 1..n PROVE k * i \in 1..(k * n) /\ (k * i) % k = 0
    <2>1. i \in Nat /\ i >= 1 /\ i <= n /\ k * i \in Nat /\ k * n \in Nat
      OBVIOUS
    <2>2. k * 1 <= k * i /\ k * i <= k * n
      BY <2>1, ProductsInOrder
    <2>3. k * 1 = k /\ k * i + 0 = k * i
      BY <2>1
    <2>4. (k * i + 0) % k = 0
      BY <2>1, Quotient
    <2>5. QED
      BY <2>1, <2>2, <2>3, <2>4
  <1>2. ASSUME NEW t \in 1..(k * n), t % k = 0 PROVE t \in S
    <2> DEFINE q == t \div k
    <2>1. k * n \in Nat /\ t \in Nat /\ t >= 1 /\ t <= k * n
      OBVIOUS
    <2>2. q \in Nat /\ t = k * q + (t % k)
      BY <2>1, Multiple
    <2> HIDE DEF q
    <2>3. t = k * q /\ k * 0 = 0
      BY <1>2, <2>2
    <2>4. q # 0
      BY <2>1, <2>3
    <2>5. q <= n
      BY <2>1, <2>2, <2>3, ProductsInOrder
    <2>6. q \in 1..n
      BY <2>2, <2>4, <2>5
    <2>7. QED
      BY <2>3, <2>6
  <1>3. IsFiniteSet(S) /\ Cardinality(S) = n
    <2> DEFINE f == [i \in 1..n |-> k * i]
    <2>1. IsFiniteSet(1..n) /\ Cardinality(1..n) = n
      BY UptoCount
    <2>2. \A i, j \in 1..n : k * i = k * j => i = j
      <3> SUFFICES ASSUME NEW i \in 1..n, NEW j \in 1..n, k * i = k * j PROVE i = j
        OBVIOUS
      <3>1. i \in Nat /\ j \in Nat /\ k * i \in Nat
        OBVIOUS
      <3>2. k * i <= k * j /\ k * j <= k * i
        BY <3>1
      <3>3. i <= j /\ j <= i
        BY <3>1, <3>2, ProductsInOrder
      <3>4. QED
        BY <3>1, <3>3
    <2>3. f \in Bijection(1..n, S)
      <3>1. f \in [1..n -> S] /\ \A i \in 1..n : f[i] = k * i
        OBVIOUS
      <3>2. \A x \in S : \E i \in 1..n : f[i] = x
        BY <3>1
      <3>3. \A i, j \in 1..n : f[i] = f[j] => i = j
        BY <2>2, <3>1
      <3> HIDE DEF f, S
      <3>4. QED
        BY <3>1, <3>2, <3>3 DEF Bijection, Injection, Surjection, IsInjective
    <2> HIDE DEF f, S
    <2>4. ExistsBijection(1..n, S)
      BY <2>3 DEF ExistsBijection
    <2>5. QED
      BY <2>1, <2>4, FS_Bijection
  <1>4. QED
    BY <1>1, <1>2, <1>3

LEMMA HoursDivide ==
    ASSUME NEW k \in Kinds
    PROVE  HoursOf(k) \in Nat \ {0} /\ Length(k) = HourTicks * HoursOf(k)
  BY ParisDayAssumption DEF HoursOf, Length, Kinds

\* CurveDay counts as this module does.
LEMMA SameCount == ASSUME NEW L, NEW S PROVE Grid(L)!Cardinality(S) = Cardinality(S)
  BY Zenon DEF Grid!Cardinality, Cardinality

LEMMA StepFound ==
    ASSUME NEW k \in Kinds, NEW S, NEW step \in 1..Length(k), HourTicks % step = 0,
           S = {t \in 1..Length(k) : t % step = 0}
    PROVE  Grid(Length(k))!GridStep(S) = step
  <1> DEFINE L == Length(k)
             n == L \div step
  <1>1. L \in Nat /\ L > 0 /\ step \in Nat \ {0} /\ step <= L
    BY Lengths
  <1>2. L = step * n /\ n \in Nat
    <2> DEFINE m == HourTicks \div step
    <2>1. HourTicks = step * m /\ m \in Nat
      <3>1. HourTicks = step * m + (HourTicks % step) /\ m \in Nat
        BY <1>1, SwitchTypes, Multiple
      <3> HIDE DEF m
      <3>2. QED
        BY <1>1, <3>1
    <2> HIDE DEF m
    <2>2. L = step * (m * HoursOf(k))
      <3>1. L = HourTicks * HoursOf(k) /\ HoursOf(k) \in Nat
        BY HoursDivide
      <3> HIDE DEF L
      <3>2. \A x, y, z \in Nat : (x * y) * z = x * (y * z)
        OBVIOUS
      <3>3. QED
        BY <1>1, <2>1, <3>1, <3>2
    <2>3. PICK q \in Nat : L = step * q
      <3>1. m * HoursOf(k) \in Nat
        BY <2>1, HoursDivide
      <3>2. QED
        BY <2>2, <3>1
    <2> HIDE DEF L
    <2>4. (step * q + 0) \div step = q /\ step * q + 0 = L
      BY <1>1, <2>3, Quotient
    <2>5. n = q
      BY <2>4
    <2>6. QED
      BY <2>3, <2>5
  <1> HIDE DEF L
  <1>3. n >= 1
    <2>1. n = 0 => step * n = 0
      BY <1>1
    <2>2. QED
      BY <1>1, <1>2, <2>1
  <1> HIDE DEF n
  <1>4. S = {step * i : i \in 1..n} /\ Cardinality(S) = n
    <2>1. S = {t \in 1..(step * n) : t % step = 0}
      BY <1>2 DEF L
    <2>2. /\ {step * i : i \in 1..n} = {t \in 1..(step * n) : t % step = 0}
          /\ Cardinality({step * i : i \in 1..n}) = n
      BY <1>1, <1>2, StepsAreMultiples
    <2>3. QED
      BY <2>1, <2>2
  <1>5. S # {}
    <2>1. 1 \in 1..n
      BY <1>2, <1>3
    <2>2. QED
      BY <1>4, <2>1
  <1>6. L % n = 0 /\ L \div n = step
    <2>1. n * step + 0 = L
      BY <1>1, <1>2
    <2>2. (n * step + 0) \div n = step /\ (n * step + 0) % n = 0
      BY <1>1, <1>2, <1>3, Quotient
    <2>3. QED
      BY <2>1, <2>2
  <1>7. Grid(L)!Cardinality(S) = n
    BY <1>4, SameCount
  <1>8. QED
    BY <1>4, <1>5, <1>6, <1>7 DEF Grid!GridStep, L

LEMMA StepOfGrid ==
    ASSUME NEW k \in Kinds, NEW S \in SUBSET (1..Length(k)), NEW step,
           Grid(Length(k))!GridStep(S) = step, step # 0
    PROVE  /\ step \in 1..Length(k) /\ HourTicks % step = 0
           /\ S = {t \in 1..Length(k) : t % step = 0}
  <1> DEFINE L == Length(k)
             n == Cardinality(S)
  <1>1. /\ S # {} /\ L % n = 0 /\ HourTicks % step = 0
        /\ S = {step * i : i \in 1..n} /\ step = L \div n
    <2>1. Grid(L)!Cardinality(S) = n
      BY SameCount
    <2>2. QED
      BY <2>1 DEF Grid!GridStep
  <1>2. L \in Nat /\ L > 0
    BY Lengths
  <1>3. n \in Nat \ {0}
    <2>1. IsFiniteSet(S)
      BY <1>2, UptoCount, FS_Subset
    <2>2. QED
      BY <1>1, <2>1, FS_CardinalityType, FS_EmptySet
  <1> HIDE DEF L, n
  <1>4. step \in Nat /\ L = n * step
    BY <1>1, <1>2, <1>3, Multiple
  <1>5. step \in Nat \ {0} /\ L = step * n
    BY <1>3, <1>4
  <1>6. step <= L
    <2>1. step * 1 <= step * n /\ step * 1 = step
      BY <1>3, <1>5, ProductsInOrder
    <2>2. QED
      BY <1>5, <2>1
  <1>7. S = {t \in 1..(step * n) : t % step = 0}
    BY <1>1, <1>3, <1>5, StepsAreMultiples
  <1>8. QED
    BY <1>1, <1>2, <1>5, <1>6, <1>7 DEF L

LEMMA InvariantGrid == TypeOK => GridStepIsRight
  <1> SUFFICES ASSUME TypeOK, NEW step \in 1..Length(kind)
               PROVE  Step = step <=>
                        /\ HourTicks % step = 0
                        /\ Curve = {t \in Instants(kind) : t > 0 /\ t % step = 0}
    BY DEF GridStepIsRight
  <1>1. kind \in Kinds /\ Length(kind) \in Nat
    BY Lengths DEF TypeOK
  <1>2. \A t : t \in Instants(kind) /\ t > 0 <=> t \in 1..Length(kind)
    BY <1>1 DEF Instants
  <1>3. {t \in Instants(kind) : t > 0 /\ t % step = 0} = {t \in 1..Length(kind) : t % step = 0}
    BY <1>2
  <1>4. Curve \in SUBSET (1..Length(kind))
    BY <1>2 DEF Curve
  <1>5. step # 0
    BY <1>1
  <1>6. CASE Step = step
    BY <1>1, <1>3, <1>4, <1>5, <1>6, StepOfGrid DEF Step
  <1>7. CASE /\ HourTicks % step = 0
             /\ Curve = {t \in 1..Length(kind) : t % step = 0}
    BY <1>1, <1>3, <1>7, StepFound DEF Step
  <1>8. QED
    BY <1>3, <1>6, <1>7

\* grid_step finds the step of every grid, and of grids only, for days and hours of any
\* length (curve.py, grid_step).
THEOREM GridIsFound == Spec => []GridStepIsRight
  <1>1. QED
    BY TypeIsInvariant, InvariantGrid, PTL

------------------------------------------------------------------------------
(***************************************************************************)
(* Energy.                                                                 *)
(***************************************************************************)

\* The end of the interval a tick is in: the next multiple of the step.
EndOf(tick) == Step * (tick \div Step) + Step
Ends == [tick \in Ticks |-> EndOf(tick)]
Power == [tick \in Ticks |-> During(tick)]
Energy == [t \in Curve |-> points[t] * Step]

LEMMA CompleteDay ==
    ASSUME TypeOK, Complete
    PROVE  /\ kind \in Kinds /\ Length(kind) \in Nat /\ Step \in Nat \ {0}
           /\ HourTicks % Step = 0 /\ Length(kind) % Step = 0
           /\ Curve = {t \in 1..Length(kind) : t % Step = 0}
           /\ IsFiniteSet(Curve) /\ IsFiniteSet(Ticks) /\ Ticks \subseteq Nat
           /\ \A t \in Curve : points[t] \in Nat
  <1>1. kind \in Kinds /\ Length(kind) \in Nat /\ Length(kind) > 0
    BY Lengths DEF TypeOK
  <1>2. Curve \in SUBSET (1..Length(kind))
    BY <1>1 DEF Curve, Instants
  <1>3. /\ Step \in 1..Length(kind) /\ HourTicks % Step = 0
        /\ Curve = {t \in 1..Length(kind) : t % Step = 0}
    BY <1>1, <1>2, StepOfGrid DEF Complete, Step
  <1>4. Length(kind) % Step = 0
    <2> DEFINE m == HourTicks \div Step
               o == HoursOf(kind)
    <2>1. HourTicks = Step * m + (HourTicks % Step) /\ m \in Nat
      BY <1>1, <1>3, SwitchTypes, Multiple
    <2>2. Length(kind) = HourTicks * o /\ o \in Nat
      BY <1>1, HoursDivide
    <2> HIDE DEF m, o
    <2>3. HourTicks = Step * m
      BY <1>1, <1>3, <2>1
    <2>4. \A x, y, z \in Nat : (x * y) * z = x * (y * z) + 0 /\ y * z \in Nat
      OBVIOUS
    <2>5. Length(kind) = Step * (m * o) + 0 /\ m * o \in Nat
      BY <1>1, <1>3, <2>1, <2>2, <2>3, <2>4
    <2>6. Step \in Nat \ {0} /\ 0 < Step
      BY <1>1, <1>3
    <2>7. (Step * (m * o) + 0) % Step = 0
      BY <2>5, <2>6, Quotient
    <2>8. QED
      BY <2>5, <2>7
  <1>5. IsFiniteSet(Curve)
    BY <1>1, <1>2, UptoCount, FS_Subset
  <1>6. Ticks \subseteq Nat /\ IsFiniteSet(Ticks)
    BY <1>1, FS_Interval DEF Ticks
  <1>7. \A t \in Curve : points[t] \in Nat
    BY <1>1 DEF Curve, TypeOK
  <1>8. QED
    BY <1>1, <1>3, <1>4, <1>5, <1>6, <1>7

\* A tick is in the interval its end closes.
LEMMA IntervalOf ==
    ASSUME TypeOK, Complete, NEW tick \in Ticks
    PROVE  /\ EndOf(tick) \in Curve /\ EndOf(tick) \in Nat
           /\ Start(EndOf(tick)) = Step * (tick \div Step)
           /\ Start(EndOf(tick)) <= tick /\ tick < EndOf(tick)
           /\ EndOf(tick) = Start(EndOf(tick)) + Step /\ Start(EndOf(tick)) \in Nat
           /\ tick \div Step \in Nat
           /\ \A t \in Curve : t > tick => EndOf(tick) <= t
           /\ Min({t \in Curve : t > tick}) = EndOf(tick)
  <1> DEFINE q == tick \div Step
             n == Length(kind) \div Step
             s == Step
             L == Length(kind)
  <1>1. /\ s \in Nat \ {0} /\ tick \in Nat /\ L \in Nat /\ tick < L
        /\ L % s = 0 /\ Curve = {t \in 1..L : t % s = 0}
    BY CompleteDay DEF Ticks
  <1>2. q \in Nat /\ tick % s \in Nat /\ tick % s < s /\ tick = s * q + (tick % s)
    BY <1>1, Multiple
  <1>3. n \in Nat /\ L = s * n
    <2>1. L = s * n + (L % s) /\ n \in Nat
      BY <1>1, Multiple
    <2> HIDE DEF n, L, s
    <2>2. s * n \in Nat
      BY <1>1, <2>1
    <2>3. QED
      BY <1>1, <2>1, <2>2
  <1>4. EndOf(tick) = s * q + s /\ Start(EndOf(tick)) = (s * q + s) - s
    BY DEF EndOf, Start
  <1> HIDE DEF q, n, L, s
  <1>5. s * q \in Nat /\ s * (q + 1) = s * q + s
    BY <1>1, <1>2
  <1>6. q + 1 <= n
    <2>1. SUFFICES ASSUME n <= q PROVE FALSE
      BY <1>2, <1>3
    <2>2. s * n <= s * q
      BY <1>1, <1>2, <1>3, <2>1, ProductsInOrder
    <2>3. QED
      BY <1>1, <1>2, <1>3, <1>5, <2>2
  <1>7. EndOf(tick) \in Curve
    <2>1. s * (q + 1) <= s * n
      BY <1>1, <1>2, <1>3, <1>6, ProductsInOrder
    <2>2. (s * q + s) % s = 0
      <3>1. q + 1 \in Nat /\ 0 < s
        BY <1>1, <1>2
      <3>2. (s * (q + 1) + 0) % s = 0
        BY <1>1, <3>1, Quotient
      <3>3. s * (q + 1) + 0 = s * q + s
        BY <1>1, <1>5
      <3>4. QED
        BY <3>2, <3>3
    <2>3. s * q + s \in 1..L
      <3>1. s * q + s <= L
        BY <1>3, <1>5, <2>1
      <3>2. QED
        BY <1>1, <1>5, <3>1
    <2>4. QED
      BY <1>1, <1>4, <2>2, <2>3
  <1>8. /\ EndOf(tick) \in Nat /\ Start(EndOf(tick)) = s * q
        /\ s * q <= tick /\ tick < EndOf(tick) /\ EndOf(tick) = s * q + s
    BY <1>1, <1>2, <1>4, <1>5
  <1>9. ASSUME NEW t \in Curve, t > tick PROVE EndOf(tick) <= t
    <2> DEFINE p == t \div s
    <2>1. t \in Nat /\ t % s = 0
      BY <1>1
    <2>2. t = s * p + (t % s) /\ p \in Nat
      BY <1>1, <2>1, Multiple
    <2> HIDE DEF p
    <2>3. t = s * p /\ s * p \in Nat
      BY <1>1, <2>1, <2>2
    <2>4. q < p
      <3>1. SUFFICES ASSUME p <= q PROVE FALSE
        BY <1>2, <2>2
      <3>2. s * p <= s * q
        BY <1>1, <1>2, <2>2, <3>1, ProductsInOrder
      <3>3. QED
        BY <1>1, <1>5, <1>8, <1>9, <2>3, <3>2
    <2>5. s * (q + 1) <= s * p
      <3>1. q + 1 \in Nat /\ q + 1 <= p
        BY <1>2, <2>2, <2>4
      <3>2. QED
        BY <1>1, <2>2, <3>1, ProductsInOrder
    <2>6. QED
      BY <1>5, <1>8, <2>3, <2>5
  <1>10. Min({t \in Curve : t > tick}) = EndOf(tick)
    <2> DEFINE later == {t \in Curve : t > tick}
    <2>1. later \in SUBSET Nat /\ EndOf(tick) \in later
      BY <1>1, <1>7, <1>8
    <2>2. \A t \in later : EndOf(tick) <= t
      BY <1>9
    <2> HIDE DEF later
    <2>3. Min(later) \in later /\ \A t \in later : Min(later) <= t
      BY <2>1, LeastExists
    <2>4. Min(later) \in Nat /\ EndOf(tick) \in Nat
      BY <2>1, <2>3
    <2>5. Min(later) <= EndOf(tick) /\ EndOf(tick) <= Min(later)
      BY <2>1, <2>2, <2>3
    <2>6. Min(later) = EndOf(tick)
      BY <2>4, <2>5
    <2>7. QED
      BY <2>6 DEF later
  <1>11. QED
    BY <1>2, <1>5, <1>7, <1>8, <1>9, <1>10 DEF q, s

\* The ticks of the interval t ends.
LEMMA TicksOf ==
    ASSUME TypeOK, Complete, NEW t \in Curve
    PROVE  /\ {tick \in Ticks : Ends[tick] = t} = (t - Step)..(t - 1)
           /\ Cardinality((t - Step)..(t - 1)) = Step
           /\ (t - Step)..(t - 1) \subseteq Ticks
  <1> DEFINE s == Step
             p == t \div s
  <1>1. /\ s \in Nat \ {0} /\ Length(kind) \in Nat /\ t \in 1..Length(kind) /\ t % s = 0
    BY CompleteDay
  <1>2. t = s * p + (t % s) /\ p \in Nat
    BY <1>1, Multiple
  <1> HIDE DEF s, p
  <1>3. t \in Nat /\ t >= 1 /\ t = s * p /\ s * p \in Nat
    BY <1>1, <1>2
  <1>4. p >= 1
    <2>1. p = 0 => s * p = 0
      BY <1>1
    <2>2. QED
      BY <1>2, <1>3, <2>1
  <1>5. t - s \in Nat
    <2>1. s * 1 <= s * p
      BY <1>1, <1>2, <1>4, ProductsInOrder
    <2>2. QED
      BY <1>1, <1>3, <2>1
  <1>6. (t - s)..(t - 1) \subseteq Ticks
    BY <1>1, <1>3, <1>5 DEF Ticks
  <1>7. ASSUME NEW tick \in Ticks PROVE EndOf(tick) = t <=> tick \in (t - s)..(t - 1)
    <2>1. /\ EndOf(tick) \in Nat /\ tick < EndOf(tick) /\ EndOf(tick) <= tick + s
          /\ \A u \in Curve : u > tick => EndOf(tick) <= u
          /\ tick \in Nat /\ EndOf(tick) \in Curve
      <3>1. tick \in Nat
        BY CompleteDay
      <3>2. QED
        <4>1. /\ EndOf(tick) \in Nat /\ tick < EndOf(tick) /\ EndOf(tick) \in Curve
              /\ EndOf(tick) = Start(EndOf(tick)) + s /\ Start(EndOf(tick)) \in Nat
              /\ Start(EndOf(tick)) <= tick
              /\ \A u \in Curve : u > tick => EndOf(tick) <= u
          BY IntervalOf DEF s
        <4>2. EndOf(tick) <= tick + s
          BY <1>1, <3>1, <4>1
        <4>3. QED
          BY <3>1, <4>1, <4>2
    <2>2. EndOf(tick) = t => tick \in (t - s)..(t - 1)
      BY <1>1, <1>3, <1>5, <2>1
    <2>3. ASSUME tick \in (t - s)..(t - 1) PROVE EndOf(tick) = t
      <3>1. t > tick /\ t <= tick + s
        BY <1>1, <1>3, <1>5, <2>1, <2>3
      <3>2. EndOf(tick) <= t
        BY <2>1, <3>1
      <3> DEFINE e == EndOf(tick) \div s
      <3>3. EndOf(tick) % s = 0
        BY <2>1, CompleteDay DEF s
      <3>4. EndOf(tick) = s * e + (EndOf(tick) % s) /\ e \in Nat
        BY <1>1, <2>1, Multiple
      <3> HIDE DEF e
      <3>5. EndOf(tick) = s * e /\ s * e \in Nat
        BY <1>1, <2>1, <3>3, <3>4
      <3>6. ~ e < p
        <4>1. SUFFICES ASSUME e + 1 <= p PROVE FALSE
          BY <1>2, <3>4
        <4>2. s * (e + 1) <= s * p /\ s * (e + 1) = s * e + s
          BY <1>1, <1>2, <3>4, <4>1, ProductsInOrder
        <4>3. EndOf(tick) + s <= t
          BY <1>3, <3>5, <4>2
        <4>4. QED
          BY <1>1, <1>3, <2>1, <3>1, <4>3
      <3>7. s * p <= s * e
        BY <1>1, <1>2, <3>4, <3>6, ProductsInOrder
      <3>8. QED
        BY <1>3, <2>1, <3>2, <3>5, <3>7
    <2>4. QED
      BY <2>2, <2>3
  <1>8. {tick \in Ticks : Ends[tick] = t} = (t - s)..(t - 1)
    BY <1>6, <1>7 DEF Ends
  <1>9. Cardinality((t - s)..(t - 1)) = s
    <2>1. t - s \in Int /\ t - 1 \in Int
      BY <1>1, <1>3
    <2>2. Cardinality((t - s)..(t - 1)) = IF t - s > t - 1 THEN 0 ELSE (t - 1) - (t - s) + 1
      BY <2>1, FS_Interval, Zenon
    <2>3. QED
      BY <1>1, <1>3, <2>2
  <1>10. QED
    BY <1>6, <1>8, <1>9 DEF s

LEMMA PowerOfInterval ==
    ASSUME TypeOK, Complete
    PROVE  /\ Energy \in [Curve -> Nat] /\ Power \in [Ticks -> Nat] /\ Ends \in [Ticks -> Curve]
           /\ \A t \in Curve : SumFunctionOnSet(Power, {tick \in Ticks : Ends[tick] = t}) = Energy[t]
  <1>1. Step \in Nat \ {0} /\ IsFiniteSet(Ticks) /\ \A t \in Curve : points[t] \in Nat
    BY CompleteDay
  <1>2. \A tick \in Ticks : EndOf(tick) \in Curve /\ During(tick) = points[EndOf(tick)]
    BY IntervalOf DEF During
  <1>3. Energy \in [Curve -> Nat]
    <2>1. \A t \in Curve : points[t] * Step \in Nat
      BY <1>1
    <2>2. QED
      BY <2>1 DEF Energy
  <1>4. Power \in [Ticks -> Nat]
    BY <1>1, <1>2 DEF Power
  <1>5. Ends \in [Ticks -> Curve]
    BY <1>2 DEF Ends
  <1>6. ASSUME NEW t \in Curve
        PROVE  SumFunctionOnSet(Power, {tick \in Ticks : Ends[tick] = t}) = Energy[t]
    <2> DEFINE part == {tick \in Ticks : Ends[tick] = t}
    <2>1. part \in SUBSET Ticks /\ Cardinality(part) = Step
      BY TicksOf
    <2>2. \A tick \in part : Power[tick] = points[t]
      BY <1>2 DEF Power, Ends
    <2>3. points[t] \in Nat
      BY <1>1
    <2> HIDE DEF part
    <2>4. SumFunctionOnSet(Power, part) = Cardinality(part) * points[t]
      BY <1>1, <1>4, <2>1, <2>2, <2>3, SumConstant
    <2>5. Energy[t] = points[t] * Step
      BY DEF Energy
    <2>6. Step * points[t] = points[t] * Step
      BY <1>1, <2>3
    <2>7. QED
      BY <2>1, <2>4, <2>5, <2>6 DEF part
  <1>7. QED
    BY <1>3, <1>4, <1>5, <1>6

\* The energy of some intervals is the power over their ticks.
LEMMA EnergyIsIntegral ==
    ASSUME TypeOK, Complete, NEW ends \in SUBSET Curve, NEW ticks \in SUBSET Ticks,
           \A tick \in Ticks : tick \in ticks <=> EndOf(tick) \in ends
    PROVE  EnergyOf(ends) = Integral(ticks)
  <1>1. IsFiniteSet(Curve) /\ IsFiniteSet(Ticks)
    BY CompleteDay
  <1>2. SumFunctionOnSet(Power, {tick \in Ticks : Ends[tick] \in ends})
           = SumFunctionOnSet(Energy, ends)
    BY <1>1, PowerOfInterval, SumParts
  <1>3. {tick \in Ticks : Ends[tick] \in ends} = ticks
    BY DEF Ends
  <1>4. Integral(ticks) = SumFunctionOnSet(Power, ticks)
    BY DEF Integral, Power
  <1>5. EnergyOf(ends) = SumFunctionOnSet(Energy, ends)
    BY DEF EnergyOf, Energy
  <1>6. QED
    BY <1>2, <1>3, <1>4, <1>5

\* A tick is in the hour its interval starts in.
LEMMA SameHour ==
    ASSUME TypeOK, Complete, NEW tick \in Ticks
    PROVE  Start(EndOf(tick)) \div HourTicks = tick \div HourTicks
  <1> DEFINE s == Step
             m == HourTicks \div s
             q == tick \div s
             r == tick % s
             a == q \div m
             b == q % m
  <1>1. s \in Nat \ {0} /\ HourTicks % s = 0 /\ tick \in Nat /\ HourTicks \in Nat /\ HourTicks > 0
    BY CompleteDay, SwitchTypes
  <1>2. HourTicks = s * m + (HourTicks % s) /\ m \in Nat
    BY <1>1, Multiple
  <1>3. q \in Nat /\ r \in Nat /\ r < s /\ tick = s * q + r
    BY <1>1, Multiple
  <1>4. Start(EndOf(tick)) = s * q
    BY IntervalOf
  <1> HIDE DEF s, m, q, r
  <1>5. HourTicks = s * m /\ m \in Nat \ {0}
    <2>1. s * m \in Nat /\ s * 0 = 0
      BY <1>1, <1>2
    <2>2. HourTicks = s * m
      BY <1>1, <1>2, <2>1
    <2>3. QED
      BY <1>1, <1>2, <2>1, <2>2
  <1>6. a \in Nat /\ b \in Nat /\ b < m /\ q = m * a + b
    BY <1>3, <1>5, Multiple
  <1> HIDE DEF a, b
  <1>7. s * q = HourTicks * a + s * b
    <2>1. \A x, y, z, w \in Nat : x * (y * z + w) = (x * y) * z + x * w
      OBVIOUS
    <2>2. QED
      BY <1>1, <1>5, <1>6, <2>1
  <1>8. s * b \in Nat /\ s * b + r < HourTicks /\ s * b < HourTicks
    <2>1. s * (b + 1) <= s * m
      BY <1>1, <1>5, <1>6, ProductsInOrder
    <2>2. s * (b + 1) = s * b + s /\ s * b \in Nat
      BY <1>1, <1>6
    <2>3. QED
      BY <1>1, <1>3, <1>5, <2>1, <2>2
  <1>9. (HourTicks * a + s * b) \div HourTicks = a
    BY <1>1, <1>6, <1>8, Quotient
  <1>10. (HourTicks * a + (s * b + r)) \div HourTicks = a
    <2>1. s * b + r \in Nat
      BY <1>3, <1>8
    <2>2. QED
      BY <1>1, <1>6, <1>8, <2>1, Quotient
  <1>11. tick = HourTicks * a + (s * b + r)
    <2>1. HourTicks * a \in Nat
      BY <1>1, <1>6
    <2>2. QED
      BY <1>3, <1>7, <1>8, <2>1
  <1>12. QED
    BY <1>4, <1>7, <1>9, <1>10, <1>11

LEMMA HoursAddUp ==
    ASSUME TypeOK, Complete, NEW h
    PROVE  EnergyOf({t \in Curve : Start(t) \div HourTicks = h})
              = Integral({t \in Ticks : t \div HourTicks = h})
  <1> DEFINE ends == {t \in Curve : Start(t) \div HourTicks = h}
             ticks == {t \in Ticks : t \div HourTicks = h}
  <1>1. \A tick \in Ticks : tick \in ticks <=> EndOf(tick) \in ends
    BY IntervalOf, SameHour
  <1>2. ends \in SUBSET Curve /\ ticks \in SUBSET Ticks
    OBVIOUS
  <1> HIDE DEF ends, ticks
  <1>3. EnergyOf(ends) = Integral(ticks)
    BY <1>1, <1>2, EnergyIsIntegral
  <1>4. QED
    BY <1>3 DEF ends, ticks

LEMMA PeriodsAddUp ==
    ASSUME TypeOK, Complete, NEW ranges
    PROVE  OffpeakEnergy(ranges) + PeakEnergy(ranges) = Integral(Ticks)
  <1> DEFINE off == {t \in Curve : Offpeak(ranges, Start(t))}
             peak == {t \in Curve : ~Offpeak(ranges, Start(t))}
  <1>1. off \in SUBSET Curve /\ peak \in SUBSET Curve /\ off \cap peak = {} /\ off \union peak = Curve
    OBVIOUS
  <1>2. OffpeakEnergy(ranges) = EnergyOf(off) /\ PeakEnergy(ranges) = EnergyOf(peak)
    BY DEF OffpeakEnergy, PeakEnergy
  <1> HIDE DEF off, peak
  <1>3. IsFiniteSet(Curve) /\ Energy \in [Curve -> Nat]
    BY CompleteDay, PowerOfInterval
  <1>4. SumFunctionOnSet(Energy, off \union peak)
           = SumFunctionOnSet(Energy, off) + SumFunctionOnSet(Energy, peak)
    BY <1>1, <1>3, SumUnion
  <1>5. EnergyOf(Curve) = EnergyOf(off) + EnergyOf(peak)
    BY <1>1, <1>4 DEF EnergyOf, Energy
  <1>6. EnergyOf(Curve) = Integral(Ticks)
    BY IntervalOf, EnergyIsIntegral
  <1>7. QED
    BY <1>2, <1>5, <1>6

\* Within an interval no multiple of the step is passed.
LEMMA NoneBetween ==
    ASSUME NEW s \in Nat \ {0}, NEW q \in Nat, NEW r \in Nat, r < s, NEW x \in Nat, x % s = 0
    PROVE  x <= s * q <=> x <= s * q + r
  <1> DEFINE p == x \div s
  <1>1. x = s * p + (x % s) /\ p \in Nat
    BY Multiple
  <1> HIDE DEF p
  <1>2. x = s * p /\ s * p \in Nat /\ s * q \in Nat
    BY <1>1
  <1>3. ASSUME q + 1 <= p PROVE s * q + r < x
    <2>1. s * (q + 1) <= s * p /\ s * (q + 1) = s * q + s
      BY <1>1, <1>3, ProductsInOrder
    <2>2. QED
      BY <1>2, <2>1
  <1>4. ASSUME p <= q PROVE x <= s * q
    BY <1>1, <1>2, <1>4, ProductsInOrder
  <1>5. p <= q \/ q + 1 <= p
    BY <1>1
  <1>6. QED
    BY <1>2, <1>3, <1>4, <1>5

LEMMA BelowMidnight ==
    ASSUME NEW k \in Kinds, NEW t \in Nat, t < Length(k)
    PROVE  Wall(k, t) \in Nat /\ Wall(k, t) % Midnight = Wall(k, t)
  <1>1. Wall(k, t) \in Nat /\ Wall(k, t) < Midnight
    <2>1. CASE k = "plain"
      BY <2>1, Lengths DEF Wall
    <2>2. CASE k = "spring"
      BY <2>2, SwitchTypes, Lengths DEF Wall
    <2>3. CASE k = "autumn"
      BY <2>3, SwitchTypes, Lengths DEF Wall
    <2>4. QED
      BY <2>1, <2>2, <2>3 DEF Kinds
  <1>2. Midnight \in Nat \ {0} /\ Midnight * 0 + Wall(k, t) = Wall(k, t)
    BY <1>1, Lengths
  <1>3. (Midnight * 0 + Wall(k, t)) % Midnight = Wall(k, t)
    BY <1>1, <1>2, Quotient
  <1>4. QED
    BY <1>1, <1>2, <1>3

\* The clock shows the start of an interval and a tick of it in the same step of the clock:
\* the clocks change between two intervals.
LEMMA WallInStep ==
    ASSUME TypeOK, Complete, NEW tick \in Ticks
    PROVE  \E q \in Nat, r \in Nat :
              /\ r < Step
              /\ Wall(kind, Start(EndOf(tick))) % Midnight = Step * q
              /\ Wall(kind, tick) % Midnight = Step * q + r
  <1> DEFINE s == Step
             m == HourTicks \div s
             q == tick \div s
             r == tick % s
             start == Start(EndOf(tick))
  <1>1. /\ s \in Nat \ {0} /\ HourTicks % s = 0 /\ tick \in Nat /\ HourTicks \in Nat
        /\ kind \in Kinds /\ Length(kind) \in Nat /\ tick < Length(kind)
    BY CompleteDay, SwitchTypes DEF Ticks
  <1>2. HourTicks = s * m + (HourTicks % s) /\ m \in Nat
    BY <1>1, Multiple
  <1>3. q \in Nat /\ r \in Nat /\ r < s /\ tick = s * q + r
    BY <1>1, Multiple
  <1>4. start = s * q /\ start <= tick /\ start \in Nat
    BY IntervalOf
  <1> HIDE DEF s, m, q, r, start
  <1>5. HourTicks = s * m /\ s * m \in Nat /\ s * q \in Nat
    BY <1>1, <1>2, <1>3
  <1>6. /\ Wall(kind, start) % Midnight = Wall(kind, start)
        /\ Wall(kind, tick) % Midnight = Wall(kind, tick)
    BY <1>1, <1>4, BelowMidnight
  <1>7. Switch \in Nat /\ Switch % s = 0 /\ (Switch + HourTicks) % s = 0
    <2>1. SwitchHour \in Nat /\ Switch = HourTicks * SwitchHour
      BY ParisDayAssumption DEF Switch
    <2>2. \A x, y, z \in Nat : /\ (x * y) * z = x * (y * z) + 0 /\ y * z \in Nat
                               /\ (x * y) * z + x * y = x * (y * z + y) + 0
      OBVIOUS
    <2>3. /\ Switch = s * (m * SwitchHour) + 0 /\ m * SwitchHour \in Nat
          /\ Switch + HourTicks = s * (m * SwitchHour + m) + 0 /\ m * SwitchHour + m \in Nat
      BY <1>1, <1>2, <1>5, <2>1, <2>2
    <2>4. ASSUME NEW x \in Nat PROVE (s * x + 0) % s = 0
      BY <1>1, Quotient
    <2>5. QED
      BY <2>3, <2>4, SwitchTypes
  <1>8. /\ Switch <= start <=> Switch <= tick
        /\ Switch + HourTicks <= start <=> Switch + HourTicks <= tick
    <2>1. Switch + HourTicks \in Nat
      BY <1>1, <1>7
    <2>2. Switch <= s * q <=> Switch <= s * q + r
      BY <1>1, <1>3, <1>7, NoneBetween
    <2>3. Switch + HourTicks <= s * q <=> Switch + HourTicks <= s * q + r
      BY <1>1, <1>3, <1>7, <2>1, NoneBetween
    <2>4. QED
      BY <1>3, <1>4, <2>2, <2>3
  <1>9. ASSUME Wall(kind, start) = start, Wall(kind, tick) = tick
        PROVE  Wall(kind, start) = s * q /\ Wall(kind, tick) = s * q + r
    BY <1>3, <1>4, <1>9
  <1>10. ASSUME kind = "spring", Switch <= start
         PROVE  /\ Wall(kind, start) = s * (q + m) /\ Wall(kind, tick) = s * (q + m) + r
                /\ q + m \in Nat
    <2>1. Wall(kind, start) = start + HourTicks /\ Wall(kind, tick) = tick + HourTicks
      BY <1>1, <1>4, <1>7, <1>8, <1>10 DEF Wall
    <2>2. s * (q + m) = s * q + s * m /\ q + m \in Nat
      BY <1>1, <1>2, <1>3
    <2>3. QED
      BY <1>3, <1>4, <1>5, <2>1, <2>2
  <1>11. ASSUME kind = "autumn", Switch + HourTicks <= start
         PROVE  /\ Wall(kind, start) = s * (q - m) /\ Wall(kind, tick) = s * (q - m) + r
                /\ q - m \in Nat
    <2>1. Wall(kind, start) = start - HourTicks /\ Wall(kind, tick) = tick - HourTicks
      BY <1>1, <1>4, <1>7, <1>8, <1>11 DEF Wall
    <2>2. s * m <= s * q
      BY <1>1, <1>4, <1>5, <1>7, <1>11
    <2>3. m <= q /\ q - m \in Nat
      <3>1. m <= q
        BY <1>1, <1>2, <1>3, <2>2, ProductsInOrder
      <3>2. QED
        BY <1>2, <1>3, <3>1
    <2>4. s * (q - m) + s * m = s * q /\ s * (q - m) \in Nat
      <3>1. \A x, y, z \in Nat : x * y + x * z = x * (y + z) /\ x * y \in Nat
        OBVIOUS
      <3>2. s * (q - m) + s * m = s * ((q - m) + m) /\ s * (q - m) \in Nat
        BY <1>1, <1>2, <2>3, <3>1
      <3>3. (q - m) + m = q
        BY <1>2, <1>3
      <3>4. QED
        BY <3>2, <3>3
    <2>5. QED
      BY <1>3, <1>4, <1>5, <2>1, <2>3, <2>4
  <1>12. CASE /\ kind = "spring" => ~ Switch <= start
              /\ kind = "autumn" => ~ Switch + HourTicks <= start
    <2>1. Wall(kind, start) = start /\ Wall(kind, tick) = tick
      BY <1>1, <1>4, <1>7, <1>8, <1>12 DEF Wall, Kinds
    <2>2. QED
      BY <1>3, <1>6, <1>9, <2>1 DEF s, start
  <1>13. QED
    <2>1. CASE kind = "spring" /\ Switch <= start
      BY <1>3, <1>6, <1>10, <2>1 DEF s, start
    <2>2. CASE kind = "autumn" /\ Switch + HourTicks <= start
      BY <1>3, <1>6, <1>11, <2>2 DEF s, start
    <2>3. QED
      BY <1>12, <2>1, <2>2

LEMMA RangeTypes ==
    ASSUME NEW text \in Tariffs, ParseOffpeak(text) # None, NEW r \in ParseOffpeak(text)
    PROVE  r[1] \in Nat /\ r[2] \in Nat
  <1>1. ParseOffpeak(text) = {<<Time(raw.from), Time(raw.to)>> : raw \in text}
    BY DEF ParseOffpeak
  <1>2. PICK raw \in text : r = <<Time(raw.from), Time(raw.to)>>
    BY <1>1
  <1>3. raw \in [from : Nat \X Nat, to : Nat \X Nat]
    BY AnswersAssumption
  <1>4. ASSUME NEW x \in Nat \X Nat PROVE Time(x) \in Nat
    <2>1. Hours \in Nat \ {0} /\ HourTicks \in Nat
      BY ParisDayAssumption
    <2>2. x[1] \in Nat /\ x[2] \in Nat
      OBVIOUS
    <2>3. x[1] % Hours \in Nat
      BY <2>1, <2>2
    <2>4. (x[1] % Hours) * HourTicks \in Nat
      BY <2>1, <2>3
    <2>5. QED
      BY <2>2, <2>4 DEF Time
  <1>5. Time(raw.from) \in Nat /\ Time(raw.to) \in Nat
    BY <1>3, <1>4
  <1>6. QED
    BY <1>2, <1>5

LEMMA SamePeriod ==
    ASSUME TypeOK, Complete, NEW text \in Tariffs, ParseOffpeak(text) # None,
           OnGrid(ParseOffpeak(text)), NEW tick \in Ticks
    PROVE  Offpeak(ParseOffpeak(text), Start(EndOf(tick))) <=> Offpeak(ParseOffpeak(text), tick)
  <1> DEFINE ranges == ParseOffpeak(text)
  <1>1. PICK q \in Nat, r \in Nat :
              /\ r < Step
              /\ Wall(kind, Start(EndOf(tick))) % Midnight = Step * q
              /\ Wall(kind, tick) % Midnight = Step * q + r
    BY WallInStep
  <1>2. Step \in Nat \ {0}
    BY CompleteDay
  <1> DEFINE v == Step * q
             w == Step * q + r
  <1>3. v \in Nat /\ w \in Nat
    BY <1>2
  <1>4. ASSUME NEW p \in ranges
        PROVE  /\ p[1] \in Nat /\ p[2] \in Nat
               /\ p[1] <= v <=> p[1] <= w
               /\ p[2] <= v <=> p[2] <= w
    <2>1. p[1] \in Nat /\ p[2] \in Nat
      BY RangeTypes
    <2>2. p[1] % Step = 0 /\ p[2] % Step = 0
      BY DEF OnGrid
    <2>3. QED
      BY <1>1, <1>2, <2>1, <2>2, NoneBetween
  <1> HIDE DEF v, w, ranges
  <1>5. ASSUME NEW p \in ranges
        PROVE  (v >= p[1] <=> w >= p[1]) /\ (v < p[2] <=> w < p[2])
               /\ (p[1] <= v <=> p[1] <= w)
    BY <1>3, <1>4
  <1>6. InRange(ranges, v) <=> InRange(ranges, w)
    BY <1>5 DEF InRange
  <1>7. QED
    BY <1>1, <1>6 DEF Offpeak, v, w, ranges

LEMMA OffpeakAddsUp ==
    ASSUME TypeOK, Complete, NEW text \in Tariffs, ParseOffpeak(text) # None,
           OnGrid(ParseOffpeak(text))
    PROVE  OffpeakEnergy(ParseOffpeak(text))
              = Integral({t \in Ticks : Offpeak(ParseOffpeak(text), t)})
  <1> DEFINE ends == {t \in Curve : Offpeak(ParseOffpeak(text), Start(t))}
             ticks == {t \in Ticks : Offpeak(ParseOffpeak(text), t)}
  <1>1. \A tick \in Ticks : tick \in ticks <=> EndOf(tick) \in ends
    BY IntervalOf, SamePeriod
  <1>2. ends \in SUBSET Curve /\ ticks \in SUBSET Ticks
    OBVIOUS
  <1> HIDE DEF ends, ticks
  <1>3. EnergyOf(ends) = Integral(ticks)
    BY <1>1, <1>2, EnergyIsIntegral
  <1>4. QED
    BY <1>3 DEF ends, ticks, OffpeakEnergy

LEMMA InvariantEnergy == TypeOK => EnergyKept
  <1> SUFFICES ASSUME TypeOK, Complete
               PROVE  /\ \A h \in DayHours :
                            HourlyEnergy[h] = Integral({t \in Ticks : t \div HourTicks = h})
                      /\ \A text \in Tariffs :
                            LET ranges == ParseOffpeak(text)
                            IN  ranges # None =>
                                  /\ OffpeakEnergy(ranges) + PeakEnergy(ranges) = Integral(Ticks)
                                  /\ OnGrid(ranges) =>
                                        OffpeakEnergy(ranges)
                                          = Integral({t \in Ticks : Offpeak(ranges, t)})
    BY DEF EnergyKept
  <1>1. ASSUME NEW h \in DayHours
        PROVE  HourlyEnergy[h] = Integral({t \in Ticks : t \div HourTicks = h})
    BY HoursAddUp DEF HourlyEnergy
  <1>2. ASSUME NEW text \in Tariffs, ParseOffpeak(text) # None
        PROVE  /\ OffpeakEnergy(ParseOffpeak(text)) + PeakEnergy(ParseOffpeak(text)) = Integral(Ticks)
               /\ OnGrid(ParseOffpeak(text)) =>
                     OffpeakEnergy(ParseOffpeak(text))
                       = Integral({t \in Ticks : Offpeak(ParseOffpeak(text), t)})
    BY <1>2, PeriodsAddUp, OffpeakAddsUp
  <1>3. QED
    BY <1>1, <1>2

\* No energy of a complete day is lost or counted twice: each hour holds the power of its
\* ticks, the two periods add up to the day, and the off-peak one holds the power of its
\* ticks when its ranges are whole intervals, on days of any length with clocks that change
\* (curve.py, hourly_energy; tariffs.py and state.py, the energy by period).
THEOREM NoEnergyIsLost == Spec => []EnergyKept
  <1>1. QED
    BY TypeIsInvariant, InvariantEnergy, PTL
===============================================================================
