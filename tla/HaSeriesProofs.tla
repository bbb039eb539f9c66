---------------------------- MODULE HaSeriesProofs ----------------------------
(***************************************************************************)
(* Proofs about HaSeries, for any history, days of any number of hours,    *)
(* usage points, imports and earlier rows.                                 *)
(*                                                                         *)
(* What the rows of a series are is said first of the two tables of one    *)
(* usage point, T its totals and C its curves, so that the same lemmas     *)
(* speak of the tables before and after a step.                            *)
(***************************************************************************)
EXTENDS HaSeries, Induction

OwnedOf(T, C, b) == {d \in Days : d > b.day /\ (T[d] # None \/ C[d] # None)}
\* The hours between two owned days: Span, without its extremes.
ReachOf(T, C, b) ==
    {t \in Slots : \E d, e \in OwnedOf(T, C, b) : d <= DayOf(t) /\ DayOf(t) <= e}
EnergyOf(T, C, t) ==
    LET d == DayOf(t)
    IN  IF C[d] \in Grids THEN C[d][HourOf(t)]
        ELSE IF T[d] # None /\ HourOf(t) = DayHours THEN T[d] ELSE 0
EnergiesTo(T, C, b, t) == [e \in {e \in ReachOf(T, C, b) : e <= t} |-> EnergyOf(T, C, e)]
SumOf(T, C, b, t) == b.sum + SumFunction(EnergiesTo(T, C, b, t))

\* A row as the cache makes it; a day without data may have none.
RightRow(T, C, b, row, t) ==
    \/ row = SumOf(T, C, b, t)
    \/ row = None /\ T[DayOf(t)] = None /\ C[DayOf(t)] = None

------------------------------------------------------------------------------
(***************************************************************************)
(* The invariant, from what holds of every system to what Continues needs. *)
(***************************************************************************)

Rows == [slot : Slots, sum : Nat]
Passes ==
    {Idle, Fetching}
      \union [at : {"exporting"}, todo : SUBSET Jobs]
      \union [at : {"pinning"}, todo : SUBSET Jobs, up : UsagePoints, new : Boundaries,
              from : Days \union {0}]
      \union [at : {"importing"}, todo : SUBSET Jobs, up : UsagePoints, rows : SUBSET Rows]

Typed ==
    /\ lastRun \in 0..MaxRun
    /\ config \in Configs
    /\ total \in [UsagePoints -> [Days -> Totals \union {None}]]
    /\ curve \in [UsagePoints -> [Days -> Grids \union {None, Partial}]]
    /\ stamp \in [UsagePoints -> [Days -> 0..MaxRun]]
    /\ cursor \in 0..MaxRun
    /\ boundary \in [AllSeries -> Boundaries \union {None}]
    /\ ha \in [AllSeries -> [Slots -> Sums]]
    /\ pass \in Passes

\* The boundary about to be pinned replaces none, or the user's.
Unowned ==
    pass.at = "pinning" =>
        \/ ~Pinned(SeriesOf[pass.up])
        \/ boundary[SeriesOf[pass.up]].owner = None

\* A pass pins a boundary for the usage point it exports, and imports into its series only
\* while the boundary is this usage point's, or the user's.
Exports ==
    /\ pass.at = "pinning" => pass.new.owner = pass.up
    /\ pass.at = "importing" =>
          Pinned(SeriesOf[pass.up]) /\ boundary[SeriesOf[pass.up]].owner \in {pass.up, None}

\* Where no user pins a boundary, the exporter finds each by itself and gives it to the
\* usage point it writes.
Found ==
    /\ \A s \in AllSeries : Pinned(s) =>
          boundary[s].owner \in UsagePoints /\ SeriesOf[boundary[s].owner] = s
    /\ pass.at = "pinning" =>
          /\ ~Pinned(SeriesOf[pass.up])
          /\ pass.new = Discovered(SeriesOf[pass.up], pass.up)
          /\ pass.from = 0
    /\ pass.at = "importing" =>
          LET b == boundary[SeriesOf[pass.up]]
          IN  /\ b # None /\ b.owner = pass.up
              /\ \A r \in pass.rows :
                    /\ r.slot \in ReachOf(total[pass.up], curve[pass.up], b)
                    /\ r.sum = SumOf(total[pass.up], curve[pass.up], b, r.slot)

------------------------------------------------------------------------------

\* The cursor is behind the pass, and a day is stamped when it has data.
Stamped ==
    /\ cursor <= lastRun
    /\ pass # Idle => cursor < lastRun
    /\ \A u \in UsagePoints, d \in Days :
          stamp[u][d] <= lastRun /\ (stamp[u][d] > 0 <=> HasData(u, d))

\* The owners are configured; what a configured usage point has and no series holds is
\* still to be delivered.
Owners ==
    /\ \A s \in AllSeries : Pinned(s) => boundary[s].owner \in config
    /\ \A u \in config : ~Pinned(SeriesOf[u]) =>
          \A d \in Days : HasData(u, d) => d \in ChangedDays(u)

\* Home Assistant holds no row past the boundary but between the days owned, and every
\* row older than all that changed is right.
ReachedOf(T, C, changed, b, rows) ==
    /\ \A t \in Slots : rows[t] # None /\ DayOf(t) > b.day => t \in ReachOf(T, C, b)
    /\ \A t \in ReachOf(T, C, b) :
          (\A d \in changed : DayOf(t) < d) => RightRow(T, C, b, rows[t], t)
Reached ==
    \A s \in AllSeries : Pinned(s) =>
        LET u == boundary[s].owner
        IN  ReachedOf(total[u], curve[u], ChangedDays(u), boundary[s], ha[s])

\* What a delivery has left behind it.
Whole(u) ==
    LET b == boundary[SeriesOf[u]]
    IN  IF b = None THEN \A d \in Days : ~HasData(u, d)
        ELSE \A t \in ReachOf(total[u], curve[u], b) :
                RightRow(total[u], curve[u], b, RowOf(u, t), t)
Current(u) == pass.at \in {"pinning", "importing"} /\ pass.up = u
Delivering == pass.at \in {"exporting", "pinning", "importing"}
Underway ==
    /\ Delivering =>
          /\ pass.todo \subseteq Pending
          /\ \A u \in config : Current(u) \/ (\E job \in pass.todo : job.up = u) \/ Whole(u)
    /\ pass.at \in {"pinning", "importing"} => pass.up \in config
    /\ pass.at = "importing" =>
          LET u == pass.up
              b == boundary[SeriesOf[u]]
          IN  \A t \in ReachOf(total[u], curve[u], b) :
                \/ \E r \in pass.rows : r.slot = t
                \/ RightRow(total[u], curve[u], b, RowOf(u, t), t)

Safe == Typed /\ Unowned /\ Exports
Alone == Safe /\ Found
Steady == Alone /\ Stamped /\ Owners /\ Reached /\ Underway

------------------------------------------------------------------------------
(***************************************************************************)
(* Hours and days.                                                         *)
(***************************************************************************)

LEMMA Division ==
    ASSUME NEW a \in Nat, NEW h \in Nat \ {0}
    PROVE  a \div h \in Nat /\ a % h \in 0..(h - 1)
  OBVIOUS

LEMMA DivisionInOrder ==
    ASSUME NEW a \in Nat, NEW b \in Nat, NEW h \in Nat \ {0}, a <= b
    PROVE  a \div h <= b \div h
  OBVIOUS

LEMMA DivisionBound ==
    ASSUME NEW a \in Nat, NEW n \in Nat, NEW h \in Nat \ {0}, a < n * h
    PROVE  a \div h < n
  OBVIOUS

LEMMA Hours ==
    ASSUME NEW t \in Slots
    PROVE  t \in Nat /\ DayOf(t) \in Days /\ DayOf(t) \in Nat /\ HourOf(t) \in 1..DayHours
  <1> DEFINE a == t - 1
  <1>1. LastDay \in Nat /\ DayHours \in Nat \ {0} /\ LastDay * DayHours \in Nat
    BY HaSeriesAssumption
  <1>2. t \in Nat /\ a \in Nat /\ a < LastDay * DayHours
    BY <1>1 DEF Slots
  <1> HIDE DEF a
  <1>3. a \div DayHours \in Nat /\ a % DayHours \in 0..(DayHours - 1)
    BY <1>1, <1>2, Division
  <1>4. a \div DayHours < LastDay
    BY <1>1, <1>2, DivisionBound
  <1>5. DayOf(t) = (a \div DayHours) + 1 /\ HourOf(t) = (a % DayHours) + 1
    BY DEF DayOf, HourOf, a
  <1>6. QED
    BY <1>1, <1>2, <1>3, <1>4, <1>5 DEF Days

LEMMA DaysInOrder ==
    ASSUME NEW e \in Slots, NEW t \in Slots, e <= t
    PROVE  DayOf(e) <= DayOf(t)
  <1> DEFINE a == e - 1
             b == t - 1
  <1>1. DayHours \in Nat \ {0} /\ a \in Nat /\ b \in Nat /\ a <= b
    <2>1. e \in 1..(LastDay * DayHours) /\ t \in 1..(LastDay * DayHours)
      BY DEF Slots
    <2>2. DayHours \in Nat \ {0} /\ LastDay \in Nat
      BY HaSeriesAssumption
    <2>3. QED
      BY <2>1, <2>2
  <1> HIDE DEF a, b
  <1>2. a \div DayHours <= b \div DayHours
    BY <1>1, DivisionInOrder
  <1>3. a \div DayHours \in Nat /\ b \div DayHours \in Nat
    BY <1>1, Division
  <1>4. DayOf(e) = (a \div DayHours) + 1 /\ DayOf(t) = (b \div DayHours) + 1
    BY DEF DayOf, a, b
  <1>5. QED
    BY <1>2, <1>3, <1>4

LEMMA Upto ==
    /\ IsFiniteSet(Slots) /\ Slots \subseteq Nat
    /\ Days \subseteq Nat
  <1>1. LastDay * DayHours \in Nat /\ LastDay \in Nat
    BY HaSeriesAssumption
  <1>2. IsFiniteSet(Slots)
    BY <1>1, UptoCount DEF Slots
  <1>3. QED
    BY <1>1, <1>2 DEF Slots, Days

------------------------------------------------------------------------------
(***************************************************************************)
(* Sums and rows.                                                          *)
(***************************************************************************)

LEMMA SumIsNatural ==
    ASSUME NEW S, IsFiniteSet(S), NEW f \in [S -> Nat]
    PROVE  SumFunction(f) \in Nat
  <1>1. DOMAIN f = S
    OBVIOUS
  <1>2. SumFunctionOnSet(f, S) \in Nat
    BY SumTakes
  <1>3. QED
    BY <1>1, <1>2 DEF SumFunction

LEMMA EnergyIsNatural ==
    ASSUME NEW T \in [Days -> Totals \union {None}],
           NEW C \in [Days -> Grids \union {None, Partial}], NEW t \in Slots
    PROVE  EnergyOf(T, C, t) \in Nat
  <1>1. DayOf(t) \in Days /\ HourOf(t) \in 1..DayHours
    BY Hours
  <1>2. \A g \in Grids : g \in [1..DayHours -> Nat]
    BY HaSeriesAssumption
  <1>3. Totals \subseteq Nat
    BY HaSeriesAssumption
  <1>4. T[DayOf(t)] \in Totals \union {None}
    BY <1>1
  <1>5. QED
    BY <1>1, <1>2, <1>3, <1>4 DEF EnergyOf

LEMMA SumType ==
    ASSUME NEW T \in [Days -> Totals \union {None}],
           NEW C \in [Days -> Grids \union {None, Partial}],
           NEW b, b.sum \in Nat, NEW t
    PROVE  SumOf(T, C, b, t) \in Nat
  <1> DEFINE S == {e \in ReachOf(T, C, b) : e <= t}
             f == EnergiesTo(T, C, b, t)
  <1>1. S \subseteq Slots
    BY DEF ReachOf
  <1>2. IsFiniteSet(S)
    BY <1>1, Upto, FS_Subset
  <1>3. f \in [S -> Nat]
    <2>1. \A e \in S : EnergyOf(T, C, e) \in Nat
      BY <1>1, EnergyIsNatural
    <2>2. f = [e \in S |-> EnergyOf(T, C, e)]
      BY DEF EnergiesTo
    <2> HIDE DEF S, f
    <2>3. QED
      BY <2>1, <2>2
  <1> HIDE DEF S, f
  <1>4. SumFunction(f) \in Nat
    BY <1>2, <1>3, SumIsNatural
  <1>5. SumOf(T, C, b, t) = b.sum + SumFunction(f)
    BY DEF SumOf, f
  <1>6. QED
    BY <1>4, <1>5

LEMMA SpanIs ==
    ASSUME NEW days \in SUBSET Days, days # {}
    PROVE  Span(days) = {t \in Slots : \E d, e \in days : d <= DayOf(t) /\ DayOf(t) <= e}
  <1>1. days \in SUBSET Nat /\ LastDay \in Nat /\ \A d \in days : d <= LastDay
    BY HaSeriesAssumption, Upto DEF Days
  <1>2. Min(days) \in days /\ \A d \in days : Min(days) <= d
    BY <1>1, LeastExists
  <1>3. Max(days) \in days /\ \A d \in days : d <= Max(days)
    BY <1>1, GreatestExists
  <1>4. \A t \in Slots : DayOf(t) \in Nat
    BY Hours
  <1>5. ASSUME NEW t \in Slots
        PROVE  (DayOf(t) >= Min(days) /\ DayOf(t) <= Max(days))
                  <=> \E d, e \in days : d <= DayOf(t) /\ DayOf(t) <= e
    <2>1. DayOf(t) \in Nat
      BY <1>4
    <2>2. \A d \in days : d \in Nat
      BY <1>1
    <2>3. QED
      BY <1>2, <1>3, <2>1, <2>2
  <1>6. QED
    BY <1>5 DEF Span

LEMMA SeriesRowsAre ==
    ASSUME NEW u, NEW b
    PROVE  SeriesRows(u, b) = {[slot |-> t, sum |-> SumOf(total[u], curve[u], b, t)] :
                                   t \in ReachOf(total[u], curve[u], b)}
  <1> DEFINE T == total[u]
             C == curve[u]
             R == ReachOf(T, C, b)
  <1>1. Owned(u, b) = OwnedOf(T, C, b)
    BY DEF Owned, OwnedOf, HasData
  <1>2. OwnedOf(T, C, b) \in SUBSET Days
    BY DEF OwnedOf
  <1>3. CASE Owned(u, b) = {}
    <2>1. R = {}
      BY <1>1, <1>3 DEF ReachOf
    <2>2. SeriesRows(u, b) = {}
      BY <1>3 DEF SeriesRows
    <2> HIDE DEF R
    <2>3. QED
      BY <2>1, <2>2 DEF R
  <1>4. CASE Owned(u, b) # {}
    <2>1. Span(Owned(u, b)) = R
      BY <1>1, <1>2, <1>4, SpanIs DEF ReachOf
    <2>2. ASSUME NEW t PROVE SumAt(u, b, t) = SumOf(T, C, b, t)
      <3> DEFINE f == [e \in {e \in Span(Owned(u, b)) : e <= t} |-> Energy(u, e)]
      <3>1. \A e : Energy(u, e) = EnergyOf(T, C, e)
        BY DEF Energy, EnergyOf
      <3>2. f = EnergiesTo(T, C, b, t)
        BY <2>1, <3>1 DEF EnergiesTo
      <3>3. SumAt(u, b, t) = b.sum + SumFunction(f)
        BY DEF SumAt
      <3> HIDE DEF f
      <3>4. QED
        BY <3>2, <3>3 DEF SumOf
    <2>3. SeriesRows(u, b) =
              {[slot |-> t, sum |-> SumAt(u, b, t)] : t \in Span(Owned(u, b))}
      BY <1>4 DEF SeriesRows
    <2>4. QED
      BY <2>1, <2>2, <2>3
  <1>5. QED
    BY <1>3, <1>4

------------------------------------------------------------------------------
(***************************************************************************)
(* Types: a step of anyone.                                                *)
(***************************************************************************)

LEMMA Where ==
    ASSUME pass \in Passes
    PROVE  /\ pass = Idle => pass.at = "idle"
           /\ pass = Fetching => pass.at = "fetching"
           /\ pass.at \in {"idle", "fetching", "exporting", "pinning", "importing"}
           /\ pass.at = "exporting" => pass.todo \in SUBSET Jobs
           /\ pass.at = "pinning" =>
                /\ pass.todo \in SUBSET Jobs /\ pass.up \in UsagePoints
                /\ pass.new \in Boundaries /\ pass.from \in Days \union {0}
           /\ pass.at = "importing" =>
                /\ pass.todo \in SUBSET Jobs /\ pass.up \in UsagePoints
                /\ pass.rows \in SUBSET Rows
                /\ pass \in [at : {"importing"}, todo : SUBSET Jobs, up : UsagePoints,
                             rows : SUBSET Rows]
  BY DEF Passes, Idle, Fetching

LEMMA SeriesType == \A u \in UsagePoints : SeriesOf[u] \in AllSeries
  BY DEF AllSeries

LEMMA BoundaryType ==
    /\ None \notin Boundaries
    /\ \A b \in Boundaries : /\ b.day \in Days \union {0} /\ b.day \in Nat /\ b.sum \in Nat
                             /\ b.owner \in UsagePoints \union {None}
    /\ \A day \in Days \union {0}, sum \in Nat, owner \in UsagePoints \union {None} :
          Boundary(day, sum, owner) \in Boundaries
  <1>1. Days \union {0} \subseteq Nat
    BY Upto
  <1>2. Boundaries \subseteq [day : Nat, sum : Nat, owner : UsagePoints \union {None}]
    BY <1>1 DEF Boundaries
  <1>3. None \notin [day : Nat, sum : Nat, owner : UsagePoints \union {None}]
    BY HaSeriesAssumption
  <1>4. \A b \in Boundaries : /\ b.day \in Days \union {0} /\ b.sum \in Nat
                              /\ b.owner \in UsagePoints \union {None}
    BY DEF Boundaries
  <1>5. \A day \in Days \union {0}, sum \in Nat, owner \in UsagePoints \union {None} :
            Boundary(day, sum, owner) \in Boundaries
    BY DEF Boundaries, Boundary
  <1>6. QED
    BY <1>1, <1>2, <1>3, <1>4, <1>5

LEMMA RewriteType ==
    ASSUME Typed, NEW u \in UsagePoints, NEW b \in Boundaries, NEW from
    PROVE  Rewrite(u, b, from) \in SUBSET Rows
  <1>1. /\ total[u] \in [Days -> Totals \union {None}]
        /\ curve[u] \in [Days -> Grids \union {None, Partial}]
        /\ b.sum \in Nat
    BY BoundaryType DEF Typed
  <1>2. \A t : SumOf(total[u], curve[u], b, t) \in Nat
    BY <1>1, SumType
  <1>3. \A t \in ReachOf(total[u], curve[u], b) :
            [slot |-> t, sum |-> SumOf(total[u], curve[u], b, t)] \in Rows
    BY <1>2 DEF Rows, ReachOf
  <1>4. SeriesRows(u, b) \subseteq Rows
    BY <1>3, SeriesRowsAre
  <1>5. QED
    BY <1>4 DEF Rewrite

\* The boundary an exporter finds leaves to others every day that holds a row.
LEMMA DiscoveredIs ==
    ASSUME Typed, NEW s \in AllSeries, NEW u \in UsagePoints
    PROVE  /\ Discovered(s, u) \in Boundaries /\ Discovered(s, u).owner = u
           /\ \A t \in Held(s) : DayOf(t) <= Discovered(s, u).day
  <1>1. Held(s) \in SUBSET Nat /\ Held(s) \subseteq Slots
        /\ \E n \in Nat : \A x \in Held(s) : x <= n
    <2>1. LastDay * DayHours \in Nat
      BY HaSeriesAssumption
    <2>2. QED
      BY <2>1 DEF Held, Slots
  <1>2. CASE Held(s) = {}
    <2>1. Discovered(s, u) = Boundary(0, 0, u)
      BY <1>2 DEF Discovered
    <2>2. QED
      BY <1>2, <2>1, BoundaryType DEF Boundary
  <1>3. CASE Held(s) # {}
    <2> DEFINE m == Max(Held(s))
    <2>1. m \in Held(s) /\ \A t \in Held(s) : t <= m
      BY <1>1, <1>3, GreatestExists
    <2>2. Discovered(s, u) = Boundary(DayOf(m), ha[s][m], u)
      BY <1>3 DEF Discovered
    <2> HIDE DEF m
    <2>3. m \in Slots /\ ha[s][m] # None
      BY <2>1 DEF Held
    <2>4. ha[s][m] \in Nat /\ DayOf(m) \in Days
      BY <2>3, Hours DEF Typed, Sums
    <2>5. \A t \in Held(s) : DayOf(t) <= DayOf(m)
      BY <1>1, <2>1, <2>3, DaysInOrder
    <2>6. QED
      BY <2>2, <2>4, <2>5, BoundaryType DEF Boundary
  <1>4. QED
    BY <1>2, <1>3

\* What the exporter begins with a job.
LEMMA ImportingType ==
    ASSUME NEW todo \in SUBSET Jobs, Typed, NEW u \in UsagePoints, NEW b \in Boundaries, NEW from
    PROVE  Importing(todo, u, b, from) \in Passes
  <1>1. Rewrite(u, b, from) \in SUBSET Rows
    BY RewriteType
  <1>2. QED
    BY <1>1 DEF Importing, Passes

LEMMA PinningType ==
    ASSUME pass.todo \in SUBSET Jobs, NEW job \in Jobs, NEW b \in Boundaries,
           NEW from \in Days \union {0}
    PROVE  Pinning(job, b, from) \in Passes
  BY DEF Pinning, Passes, Jobs

LEMMA InitTyped == Init => Typed
  <1> SUFFICES ASSUME Init PROVE Typed
    OBVIOUS
  <1>1. Earlier \subseteq [Slots -> Sums] /\ MaxRun \in Nat
    BY HaSeriesAssumption DEF Slots, Sums
  <1>2. ha \in [AllSeries -> [Slots -> Sums]]
    BY <1>1 DEF Init
  <1>3. pass \in Passes
    BY DEF Init, Passes
  <1>4. QED
    BY <1>1, <1>2, <1>3 DEF Init, Typed

LEMMA TypedFetch ==
    ASSUME Typed,
           \/ Start
           \/ \E u \in UsagePoints, d \in Days :
                \/ \E wh \in Totals : CacheTotal(u, d, wh)
                \/ \E c \in Grids \union {Partial} : CacheCurve(u, d, c)
    PROVE  Typed'
  <1>1. MaxRun \in Nat
    BY HaSeriesAssumption
  <1>2. CASE Start
    <2>1. lastRun' \in 0..MaxRun
      BY <1>1, <1>2 DEF Start, Typed
    <2>2. pass' \in Passes
      BY <1>2 DEF Start, Passes
    <2>3. QED
      BY <1>2, <2>1, <2>2 DEF Start, Typed, cache
  <1>3. ASSUME NEW u \in UsagePoints, NEW d \in Days, NEW wh \in Totals, CacheTotal(u, d, wh)
        PROVE  Typed'
    <2>1. total' \in [UsagePoints -> [Days -> Totals \union {None}]]
      BY <1>3 DEF CacheTotal, Typed
    <2>2. stamp' \in [UsagePoints -> [Days -> 0..MaxRun]]
      BY <1>3 DEF CacheTotal, Typed
    <2>3. QED
      BY <1>3, <2>1, <2>2 DEF CacheTotal, Typed
  <1>4. ASSUME NEW u \in UsagePoints, NEW d \in Days, NEW c \in Grids \union {Partial},
               CacheCurve(u, d, c)
        PROVE  Typed'
    <2>1. curve' \in [UsagePoints -> [Days -> Grids \union {None, Partial}]]
      BY <1>4 DEF CacheCurve, Typed
    <2>2. stamp' \in [UsagePoints -> [Days -> 0..MaxRun]]
      BY <1>4 DEF CacheCurve, Typed
    <2>3. QED
      BY <1>4, <2>1, <2>2 DEF CacheCurve, Typed
  <1>5. QED
    BY <1>2, <1>3, <1>4

LEMMA PendingType == Typed => Pending \in SUBSET Jobs
  <1> SUFFICES ASSUME Typed, NEW u \in config, ChangedDays(u) # {}
               PROVE  [up |-> u, from |-> Min(ChangedDays(u))] \in Jobs
    BY DEF Pending
  <1>1. ChangedDays(u) \in SUBSET Nat /\ ChangedDays(u) \subseteq Days
    BY Upto DEF ChangedDays
  <1>2. Min(ChangedDays(u)) \in Days
    BY <1>1, LeastExists
  <1>3. u \in UsagePoints
    BY HaSeriesAssumption DEF Typed
  <1>4. QED
    BY <1>2, <1>3 DEF Jobs

LEMMA TypedJob ==
    ASSUME Typed, NEW job \in Jobs,
           Continue(job) \/ Adopt(job) \/ RefuseOwner(job) \/ Discover(job)
    PROVE  /\ pass' \in Passes
           /\ UNCHANGED <<lastRun, config, total, curve, stamp, cursor, boundary, ha>>
  <1> DEFINE s == SeriesOf[job.up]
             b == boundary[s]
  <1>1. job.up \in UsagePoints /\ job.from \in Days /\ s \in AllSeries
    BY SeriesType DEF Jobs
  <1>2. b # None => b \in Boundaries
    BY <1>1 DEF Typed
  <1>3. pass.todo \in SUBSET Jobs /\ pass.todo \ {job} \in SUBSET Jobs
    <2>1. pass.at = "exporting"
      BY DEF Continue, Adopt, RefuseOwner, Discover
    <2>2. pass.todo \in SUBSET Jobs
      BY <2>1, Where DEF Typed
    <2>3. QED
      BY <2>2
  <1>4. CASE Continue(job)
    <2>1. pass' = Importing(pass.todo \ {job}, job.up, b, job.from) /\ b # None
      BY <1>4 DEF Continue
    <2>2. QED
      BY <1>1, <1>2, <1>3, <1>4, <2>1, ImportingType DEF Continue, cache
  <1>5. CASE Adopt(job)
    <2>1. pass' = Pinning(job, [b EXCEPT !.owner = job.up], job.from) /\ b # None
      BY <1>5 DEF Adopt
    <2>2. [b EXCEPT !.owner = job.up] \in Boundaries
      BY <1>1, <1>2, <2>1 DEF Boundaries
    <2>3. QED
      BY <1>1, <1>3, <1>5, <2>1, <2>2, PinningType DEF Adopt, cache
  <1>6. CASE RefuseOwner(job)
    BY <1>6 DEF RefuseOwner, Passes, cache
  <1>7. CASE Discover(job)
    <2>1. pass' = Pinning(job, Discovered(s, job.up), 0)
      BY <1>7 DEF Discover
    <2>2. Discovered(s, job.up) \in Boundaries
      BY <1>1, DiscoveredIs
    <2>3. QED
      BY <1>1, <1>3, <1>7, <2>1, <2>2, PinningType DEF Discover, cache
  <1>8. QED
    BY <1>4, <1>5, <1>6, <1>7

LEMMA ImportShape ==
    ASSUME Typed, NEW answered \in BOOLEAN, Import(answered)
    PROVE  /\ pass.at = "importing" /\ pass.rows # {}
           /\ ha' = [ha EXCEPT ![SeriesOf[pass.up]] =
                [t \in Slots |-> IF \E r \in Chunk(pass.rows) : r.slot = t
                                 THEN (CHOOSE r \in Chunk(pass.rows) : r.slot = t).sum
                                 ELSE ha[SeriesOf[pass.up]][t]]]
           /\ \/ pass' = Idle
              \/ pass' = [at |-> "importing", todo |-> pass.todo, up |-> pass.up,
                          rows |-> pass.rows \ Chunk(pass.rows)]
           /\ UNCHANGED <<lastRun, config, total, curve, stamp, cursor, boundary>>
  <1>1. pass.at = "importing" /\ pass.rows # {}
    BY DEF Import
  <1>2. pass \in [at : {"importing"}, todo : SUBSET Jobs, up : UsagePoints, rows : SUBSET Rows]
    BY <1>1, Where DEF Typed
  <1>3. ha' = [ha EXCEPT ![SeriesOf[pass.up]] =
                [t \in Slots |-> IF \E r \in Chunk(pass.rows) : r.slot = t
                                 THEN (CHOOSE r \in Chunk(pass.rows) : r.slot = t).sum
                                 ELSE ha[SeriesOf[pass.up]][t]]]
    BY <1>2, SeriesType DEF Import, Typed
  <1>4. pass' = Idle \/ pass' = [pass EXCEPT !.rows = pass.rows \ Chunk(pass.rows)]
    BY DEF Import
  <1>5. [pass EXCEPT !.rows = pass.rows \ Chunk(pass.rows)] =
            [at |-> "importing", todo |-> pass.todo, up |-> pass.up,
             rows |-> pass.rows \ Chunk(pass.rows)]
    BY <1>2
  <1>6. UNCHANGED <<lastRun, config, total, curve, stamp, cursor, boundary>>
    BY DEF Import, cache
  <1>7. QED
    BY <1>1, <1>3, <1>4, <1>5, <1>6

LEMMA TypedDeliver ==
    ASSUME Typed,
           \/ ReadFeed
           \/ Pin
           \/ \E answered \in BOOLEAN : Import(answered)
           \/ SeriesDone
           \/ AdvanceCursor
           \/ Fail
           \/ \E s \in AllSeries, pin \in Pins : SetBoundary(s, pin)
           \/ \E ups \in Configs : Configure(ups)
    PROVE  Typed'
  <1>1. CASE ReadFeed
    <2>1. pass' \in Passes
      BY <1>1, PendingType DEF ReadFeed, Exporting, Passes
    <2>2. QED
      BY <1>1, <2>1 DEF ReadFeed, Typed, cache
  <1>2. CASE Pin
    <2>1. pass.todo \in SUBSET Jobs /\ pass.up \in UsagePoints /\ pass.new \in Boundaries
      BY <1>2, Where DEF Pin, Typed
    <2>2. pass' \in Passes
      BY <1>2, <2>1, ImportingType DEF Pin
    <2>3. boundary' \in [AllSeries -> Boundaries \union {None}]
      BY <1>2, <2>1, SeriesType DEF Pin, Typed
    <2>4. QED
      BY <1>2, <2>2, <2>3 DEF Pin, Typed, cache
  <1>3. ASSUME NEW answered \in BOOLEAN, Import(answered)
        PROVE  Typed'
    <2> DEFINE chunk == Chunk(pass.rows)
               s == SeriesOf[pass.up]
               row(t) == IF \E r \in chunk : r.slot = t
                         THEN (CHOOSE r \in chunk : r.slot = t).sum ELSE ha[s][t]
    <2>1. pass.todo \in SUBSET Jobs /\ pass.up \in UsagePoints /\ pass.rows \in SUBSET Rows
      BY <1>3, ImportShape, Where DEF Typed
    <2>2. chunk \in SUBSET Rows /\ s \in AllSeries
      BY <2>1, SeriesType DEF Chunk
    <2>3. pass' \in Passes
      <3>1. pass.rows \ chunk \in SUBSET Rows
        BY <2>1
      <3> HIDE DEF chunk
      <3>2. pass' = Idle \/ pass' = [at |-> "importing", todo |-> pass.todo, up |-> pass.up,
                                     rows |-> pass.rows \ chunk]
        BY <1>3, ImportShape DEF chunk
      <3>3. QED
        BY <2>1, <3>1, <3>2 DEF Passes
    <2>4. ha' \in [AllSeries -> [Slots -> Sums]]
      <3>1. \A t \in Slots : row(t) \in Sums
        <4>1. \A r \in chunk : r.sum \in Sums
          BY <2>2 DEF Rows, Sums
        <4>2. \A t \in Slots : ha[s][t] \in Sums
          BY <2>2 DEF Typed
        <4> HIDE DEF chunk, s
        <4>3. QED
          BY <4>1, <4>2
      <3>2. ha' = [ha EXCEPT ![s] = [t \in Slots |-> row(t)]]
        BY <1>3, ImportShape
      <3> HIDE DEF row, s, chunk
      <3>3. QED
        BY <2>2, <3>1, <3>2 DEF Typed
    <2>5. QED
      BY <1>3, <2>3, <2>4, ImportShape DEF Typed
  <1>4. CASE SeriesDone
    <2>1. pass' \in Passes
      BY <1>4, Where DEF SeriesDone, Exporting, Passes, Typed
    <2>2. QED
      BY <1>4, <2>1 DEF SeriesDone, Typed, cache
  <1>5. CASE AdvanceCursor
    <2>1. pass' \in Passes
      BY <1>5 DEF AdvanceCursor, Passes
    <2>2. QED
      BY <1>5, <2>1 DEF AdvanceCursor, Typed, cache
  <1>6. CASE Fail
    <2>1. pass' \in Passes
      BY <1>6 DEF Fail, Passes
    <2>2. QED
      BY <1>6, <2>1 DEF Fail, Typed, cache
  <1>7. ASSUME NEW s \in AllSeries, NEW pin \in Pins, SetBoundary(s, pin)
        PROVE  Typed'
    <2>1. pin.day \in Days \union {0} /\ pin.sum \in Nat
      BY HaSeriesAssumption DEF Days
    <2>2. Boundary(pin.day, pin.sum, None) \in Boundaries
      BY <2>1, BoundaryType
    <2>3. boundary' \in [AllSeries -> Boundaries \union {None}]
      BY <1>7, <2>2 DEF SetBoundary, Typed
    <2>4. cursor' \in 0..MaxRun
      BY <1>7, HaSeriesAssumption DEF SetBoundary
    <2>5. QED
      BY <1>7, <2>3, <2>4 DEF SetBoundary, Typed, cache
  <1>8. ASSUME NEW ups \in Configs, Configure(ups)
        PROVE  Typed'
    BY <1>8 DEF Configure, Typed, cache
  <1>9. QED
    BY <1>1, <1>2, <1>3, <1>4, <1>5, <1>6, <1>7, <1>8

LEMMA TypedStep == Typed /\ [Next]_vars => Typed'
  <1> SUFFICES ASSUME Typed, [Next]_vars PROVE Typed'
    OBVIOUS
  <1>1. CASE \E job \in Jobs : Continue(job) \/ Adopt(job) \/ RefuseOwner(job) \/ Discover(job)
    <2>1. /\ pass' \in Passes
          /\ UNCHANGED <<lastRun, config, total, curve, stamp, cursor, boundary, ha>>
      BY <1>1, TypedJob
    <2>2. QED
      BY <2>1 DEF Typed
  <1>2. CASE UNCHANGED vars
    BY <1>2 DEF vars, cache, Typed
  <1>3. QED
    BY <1>1, <1>2, TypedFetch, TypedDeliver DEF Next, Deliver, Jobs

LEMMA InvariantTypeOK == Typed => TypeOK
  <1> SUFFICES ASSUME Typed PROVE TypeOK
    OBVIOUS
  <1>1. pass \in Passes
    BY DEF Typed
  <1>2. \/ pass \in {Idle, Fetching}
        \/ /\ pass.at \in {"exporting", "pinning", "importing"}
           /\ pass.todo \subseteq Jobs
           /\ pass.at \in {"pinning", "importing"} => pass.up \in UsagePoints
           /\ pass.at = "pinning" => pass.new \in Boundaries /\ pass.from \in Days \union {0}
           /\ pass.at = "importing" => pass.rows \subseteq [slot : Slots, sum : Nat]
    BY <1>1 DEF Passes, Idle, Fetching, Rows
  <1>3. QED
    BY <1>2 DEF Typed, TypeOK

\* Whatever the history, the days' hours, the earlier rows and the imports, the tables,
\* the boundaries and the sums of every series keep their types, and the exporter never
\* pins a day or writes an hour that is not one (exporters/home_assistant.py, export).
THEOREM TypeIsInvariant == Spec => []TypeOK
  <1>1. QED
    BY InitTyped, TypedStep, InvariantTypeOK, PTL DEF Spec

------------------------------------------------------------------------------
(***************************************************************************)
(* Once pinned.                                                            *)
(***************************************************************************)

\* Where a pass may be pinning from.
LEMMA PinningFrom ==
    ASSUME Typed, [Next]_vars, pass'.at = "pinning"
    PROVE  \/ \E job \in Jobs : Adopt(job) \/ Discover(job)
           \/ \E s \in AllSeries, pin \in Pins : SetBoundary(s, pin)
           \/ UNCHANGED vars
  <1>1. CASE \E job \in Jobs : Continue(job) \/ RefuseOwner(job)
    BY <1>1 DEF Continue, RefuseOwner, Importing, Idle
  <1>2. ASSUME NEW answered \in BOOLEAN, Import(answered)
        PROVE  FALSE
    <2>1. \/ pass' = Idle
          \/ pass' = [at |-> "importing", todo |-> pass.todo, up |-> pass.up,
                      rows |-> pass.rows \ Chunk(pass.rows)]
      BY <1>2, ImportShape
    <2>2. QED
      BY <2>1 DEF Idle
  <1>3. CASE \/ Start \/ ReadFeed \/ Pin \/ SeriesDone \/ AdvanceCursor \/ Fail
    BY <1>3 DEF Start, ReadFeed, Pin, SeriesDone, AdvanceCursor, Fail, Fetching, Exporting,
       Importing, Idle
  <1>4. CASE \E u \in UsagePoints, d \in Days :
                \/ \E wh \in Totals : CacheTotal(u, d, wh)
                \/ \E c \in Grids \union {Partial} : CacheCurve(u, d, c)
    BY <1>4 DEF CacheTotal, CacheCurve, Fetching
  <1>5. CASE \E ups \in Configs : Configure(ups)
    BY <1>5 DEF Configure, Idle
  <1>6. QED
    BY <1>1, <1>2, <1>3, <1>4, <1>5 DEF Next, Deliver, Jobs

\* Only Pin and the user change a boundary.
LEMMA BoundaryFrom ==
    ASSUME Typed, [Next]_vars, boundary' # boundary
    PROVE  Pin \/ \E s \in AllSeries, pin \in Pins : SetBoundary(s, pin)
  <1>1. CASE \E job \in Jobs : Continue(job) \/ Adopt(job) \/ RefuseOwner(job) \/ Discover(job)
    BY <1>1, TypedJob
  <1>2. CASE \E answered \in BOOLEAN : Import(answered)
    BY <1>2, ImportShape
  <1>3. QED
    BY <1>1, <1>2 DEF Next, Deliver, Jobs, vars, Start, CacheTotal, CacheCurve, ReadFeed,
       SeriesDone, AdvanceCursor, Fail, Configure

\* Where a pass may be importing from: a series continued, pinned, or further imported.
LEMMA ImportingFrom ==
    ASSUME Typed, [Next]_vars, pass'.at = "importing"
    PROVE  /\ \/ \E job \in Jobs : Continue(job)
              \/ Pin
              \/ \E answered \in BOOLEAN : Import(answered)
              \/ \E s \in AllSeries, pin \in Pins : SetBoundary(s, pin)
              \/ UNCHANGED vars
           /\ UNCHANGED <<config, total, curve, stamp>>
  <1>1. CASE \E job \in Jobs : Adopt(job) \/ RefuseOwner(job) \/ Discover(job)
    BY <1>1 DEF Adopt, Discover, RefuseOwner, Pinning, Idle
  <1>2. CASE \/ Start \/ ReadFeed \/ SeriesDone \/ AdvanceCursor \/ Fail
    BY <1>2 DEF Start, ReadFeed, SeriesDone, AdvanceCursor, Fail, Fetching, Exporting, Idle
  <1>3. CASE \E u \in UsagePoints, d \in Days :
                \/ \E wh \in Totals : CacheTotal(u, d, wh)
                \/ \E c \in Grids \union {Partial} : CacheCurve(u, d, c)
    BY <1>3 DEF CacheTotal, CacheCurve, Fetching
  <1>4. CASE \E ups \in Configs : Configure(ups)
    BY <1>4 DEF Configure, Idle
  <1>5. ASSUME NEW answered \in BOOLEAN, Import(answered)
        PROVE  UNCHANGED <<config, total, curve, stamp>>
    BY <1>5, ImportShape
  <1>6. CASE \/ \E job \in Jobs : Continue(job)
             \/ Pin
             \/ \E answered \in BOOLEAN : Import(answered)
             \/ \E s \in AllSeries, pin \in Pins : SetBoundary(s, pin)
             \/ UNCHANGED vars
    BY <1>5, <1>6 DEF Continue, Pin, SetBoundary, vars, cache
  <1>7. QED
    BY <1>1, <1>2, <1>3, <1>4, <1>6 DEF Next, Deliver, Jobs

\* An import writes the rows of its request, and nothing else.
LEMMA ImportWrites ==
    ASSUME Typed, NEW answered \in BOOLEAN, Import(answered), NEW t \in Slots
    PROVE  /\ \A s \in AllSeries : s # SeriesOf[pass.up] => ha'[s] = ha[s]
           /\ \/ /\ ha'[SeriesOf[pass.up]][t] = ha[SeriesOf[pass.up]][t]
                 /\ ~ \E r \in Chunk(pass.rows) : r.slot = t
              \/ \E r \in Chunk(pass.rows) : r.slot = t /\ ha'[SeriesOf[pass.up]][t] = r.sum
  <1> DEFINE chunk == Chunk(pass.rows)
             o == SeriesOf[pass.up]
             row(e) == IF \E r \in chunk : r.slot = e
                       THEN (CHOOSE r \in chunk : r.slot = e).sum ELSE ha[o][e]
  <1>1. ha' = [ha EXCEPT ![o] = [e \in Slots |-> row(e)]] /\ pass.at = "importing"
    BY ImportShape
  <1>2. o \in AllSeries
    BY <1>1, Where, SeriesType DEF Typed
  <1>3. \/ row(t) = ha[o][t] /\ (~ \E r \in chunk : r.slot = t)
        \/ \E r \in chunk : r.slot = t /\ row(t) = r.sum
    <2> HIDE DEF chunk, o
    <2>1. QED
      OBVIOUS
  <1> HIDE DEF row, chunk, o
  <1>4. ha'[o][t] = row(t) /\ \A s \in AllSeries : s # o => ha'[s] = ha[s]
    BY <1>1, <1>2 DEF Typed
  <1>5. QED
    BY <1>3, <1>4 DEF chunk, o

LEMMA HaFrom ==
    ASSUME Typed, [Next]_vars, ha' # ha
    PROVE  \E answered \in BOOLEAN : Import(answered)
  <1>1. CASE \E job \in Jobs : Continue(job) \/ Adopt(job) \/ RefuseOwner(job) \/ Discover(job)
    BY <1>1, TypedJob
  <1>2. QED
    BY <1>1 DEF Next, Deliver, Jobs, vars, Start, CacheTotal, CacheCurve, ReadFeed, Pin,
       SeriesDone, AdvanceCursor, Fail, SetBoundary, Configure

LEMMA UnownedStep == Safe /\ [Next]_vars => Unowned'
  <1> SUFFICES ASSUME Typed, Unowned, [Next]_vars, pass'.at = "pinning"
               PROVE  \/ boundary'[SeriesOf[pass'.up]] = None
                      \/ boundary'[SeriesOf[pass'.up]].owner = None
    BY DEF Safe, Unowned, Pinned
  <1>1. ASSUME NEW job \in Jobs, Adopt(job) \/ Discover(job)
        PROVE  \/ boundary'[SeriesOf[pass'.up]] = None
               \/ boundary'[SeriesOf[pass'.up]].owner = None
    <2>1. pass'.up = job.up /\ boundary' = boundary
      BY <1>1 DEF Adopt, Discover, Pinning
    <2>2. QED
      BY <1>1, <2>1 DEF Adopt, Discover, Pinned
  <1>2. ASSUME NEW s \in AllSeries, NEW pin \in Pins, SetBoundary(s, pin)
        PROVE  \/ boundary'[SeriesOf[pass'.up]] = None
               \/ boundary'[SeriesOf[pass'.up]].owner = None
    <2> DEFINE o == SeriesOf[pass.up]
    <2>1. pass' = pass /\ pass.at = "pinning"
      BY <1>2 DEF SetBoundary
    <2>2. boundary' = [boundary EXCEPT ![s] = Boundary(pin.day, pin.sum, None)]
      BY <1>2 DEF SetBoundary
    <2>3. o \in AllSeries
      BY <2>1, Where, SeriesType DEF Typed
    <2>4. boundary'[o] = boundary[o] \/ boundary'[o] = Boundary(pin.day, pin.sum, None)
      BY <2>2, <2>3 DEF Typed
    <2>5. boundary[o] = None \/ boundary[o].owner = None
      BY <2>1 DEF Unowned, Pinned
    <2>6. QED
      BY <2>1, <2>4, <2>5 DEF Boundary
  <1>3. CASE UNCHANGED vars
    BY <1>3 DEF vars, Unowned, Pinned
  <1>4. QED
    BY <1>1, <1>2, <1>3, PinningFrom

LEMMA ExportsPinning ==
    ASSUME Safe, [Next]_vars, pass'.at = "pinning"
    PROVE  pass'.new.owner = pass'.up
  <1>1. ASSUME NEW job \in Jobs, Adopt(job)
        PROVE  pass'.new.owner = pass'.up
    <2> DEFINE b == boundary[SeriesOf[job.up]]
    <2>1. b \in Boundaries
      BY <1>1, SeriesType DEF Adopt, Jobs, Safe, Typed
    <2>2. pass'.new = [b EXCEPT !.owner = job.up] /\ pass'.up = job.up
      BY <1>1 DEF Adopt, Pinning
    <2> HIDE DEF b
    <2>3. QED
      BY <2>1, <2>2 DEF Boundaries
  <1>2. ASSUME NEW job \in Jobs, Discover(job)
        PROVE  pass'.new.owner = pass'.up
    <2>1. job.up \in UsagePoints /\ SeriesOf[job.up] \in AllSeries
      BY SeriesType DEF Jobs
    <2>2. pass'.new = Discovered(SeriesOf[job.up], job.up) /\ pass'.up = job.up
      BY <1>2 DEF Discover, Pinning
    <2>3. QED
      BY <2>1, <2>2, DiscoveredIs DEF Safe
  <1>3. CASE \/ \E s \in AllSeries, pin \in Pins : SetBoundary(s, pin)
             \/ UNCHANGED vars
    <2>1. pass' = pass
      BY <1>3 DEF SetBoundary, vars
    <2>2. QED
      BY <2>1 DEF Safe, Exports
  <1>4. QED
    BY <1>1, <1>2, <1>3, PinningFrom DEF Safe

LEMMA ExportsImporting ==
    ASSUME Safe, [Next]_vars, pass'.at = "importing"
    PROVE  Pinned(SeriesOf[pass.up])' /\ boundary'[SeriesOf[pass'.up]].owner \in {pass'.up, None}
  <1>1. ASSUME NEW job \in Jobs, Continue(job)
        PROVE  Pinned(SeriesOf[pass.up])'
               /\ boundary'[SeriesOf[pass'.up]].owner \in {pass'.up, None}
    <2>1. pass'.up = job.up /\ boundary' = boundary
      BY <1>1 DEF Continue, Importing
    <2>2. QED
      BY <1>1, <2>1 DEF Continue, Pinned
  <1>2. CASE Pin
    <2>1. /\ pass.at = "pinning" /\ pass'.up = pass.up
          /\ boundary' = [boundary EXCEPT ![SeriesOf[pass.up]] = pass.new]
      BY <1>2 DEF Pin, Importing
    <2>2. pass.up \in UsagePoints /\ SeriesOf[pass.up] \in AllSeries /\ pass.new \in Boundaries
      BY <2>1, Where, SeriesType DEF Safe, Typed
    <2>3. boundary'[SeriesOf[pass'.up]] = pass.new /\ pass.new # None
      BY <2>1, <2>2, BoundaryType DEF Safe, Typed
    <2>4. QED
      BY <2>1, <2>3 DEF Safe, Exports, Pinned
  <1>3. ASSUME NEW answered \in BOOLEAN, Import(answered)
        PROVE  Pinned(SeriesOf[pass.up])'
               /\ boundary'[SeriesOf[pass'.up]].owner \in {pass'.up, None}
    <2>1. /\ pass.at = "importing" /\ boundary' = boundary
          /\ \/ pass' = Idle
             \/ pass' = [at |-> "importing", todo |-> pass.todo, up |-> pass.up,
                         rows |-> pass.rows \ Chunk(pass.rows)]
      BY <1>3, ImportShape DEF Safe
    <2>2. pass'.up = pass.up
      BY <2>1 DEF Idle
    <2>3. QED
      BY <2>1, <2>2 DEF Safe, Exports, Pinned
  <1>4. ASSUME NEW z \in AllSeries, NEW pin \in Pins, SetBoundary(z, pin)
        PROVE  Pinned(SeriesOf[pass.up])'
               /\ boundary'[SeriesOf[pass'.up]].owner \in {pass'.up, None}
    <2> DEFINE o == SeriesOf[pass.up]
               b == Boundary(pin.day, pin.sum, None)
    <2>1. pass' = pass /\ boundary' = [boundary EXCEPT ![z] = b]
      BY <1>4 DEF SetBoundary
    <2>2. o \in AllSeries /\ Pinned(o) /\ boundary[o].owner \in {pass.up, None}
      BY <2>1, Where, SeriesType DEF Safe, Typed, Exports
    <2>3. boundary'[o] = boundary[o] \/ boundary'[o] = b
      BY <2>1, <2>2 DEF Safe, Typed
    <2>4. b # None /\ b.owner = None
      <3>1. pin.day \in Nat /\ pin.sum \in Nat
        BY HaSeriesAssumption
      <3>2. b \in [day : Nat, sum : Nat, owner : UsagePoints \union {None}]
        BY <3>1 DEF Boundary
      <3>3. QED
        BY <3>2, HaSeriesAssumption DEF Boundary
    <2> HIDE DEF o, b
    <2>5. boundary'[o] # None /\ boundary'[o].owner \in {pass.up, None}
      BY <2>2, <2>3, <2>4 DEF Pinned
    <2>6. QED
      BY <2>1, <2>5 DEF o, Pinned
  <1>5. CASE UNCHANGED vars
    BY <1>5 DEF vars, Safe, Exports, Pinned
  <1>6. QED
    BY <1>1, <1>2, <1>3, <1>4, <1>5, ImportingFrom DEF Safe

LEMMA InitSafe == Init => Safe
  <1>1. Init => Unowned /\ Exports
    BY DEF Init, Unowned, Exports, Idle
  <1>2. QED
    BY <1>1, InitTyped DEF Safe

LEMMA SafeStep == Safe /\ [Next]_vars => Safe'
  <1>1. Safe /\ [Next]_vars => Exports'
    BY ExportsPinning, ExportsImporting DEF Exports
  <1>2. QED
    BY <1>1, TypedStep, UnownedStep DEF Safe

LEMMA OwnerStays ==
    ASSUME Safe, [Next]_vars, NEW s \in AllSeries,
           Pinned(s), boundary[s].owner # None, boundary'[s] # boundary[s]
    PROVE  boundary'[s].owner = None
  <1>1. CASE Pin
    <2>1. /\ boundary' = [boundary EXCEPT ![SeriesOf[pass.up]] = pass.new]
          /\ pass.at = "pinning"
      BY <1>1 DEF Pin
    <2>2. s = SeriesOf[pass.up]
      BY <2>1 DEF Safe, Typed
    <2>3. QED
      BY <2>1, <2>2 DEF Safe, Unowned, Pinned
  <1>2. ASSUME NEW z \in AllSeries, NEW pin \in Pins, SetBoundary(z, pin)
        PROVE  boundary'[s].owner = None
    <2>1. boundary' = [boundary EXCEPT ![z] = Boundary(pin.day, pin.sum, None)]
      BY <1>2 DEF SetBoundary
    <2>2. boundary'[s] = Boundary(pin.day, pin.sum, None)
      BY <2>1 DEF Safe, Typed
    <2>3. QED
      BY <2>2 DEF Boundary
  <1>3. boundary' # boundary
    OBVIOUS
  <1>4. QED
    BY <1>1, <1>2, <1>3, BoundaryFrom DEF Safe

LEMMA OwnerWrites ==
    ASSUME Safe, [Next]_vars, NEW s \in AllSeries, ha'[s] # ha[s]
    PROVE  Pinned(s) /\ boundary[s].owner \in {pass.up, None}
  <1>1. PICK answered \in BOOLEAN : Import(answered)
    BY HaFrom DEF Safe
  <1>2. pass.at = "importing" /\ s = SeriesOf[pass.up]
    <2>1. 1 \in Slots
      BY HaSeriesAssumption DEF Slots
    <2>2. QED
      BY <1>1, <2>1, ImportShape, ImportWrites DEF Safe
  <1>3. QED
    BY <1>2 DEF Safe, Exports

\* Once a usage point owns a series, only the user changes the series' boundary, and no
\* other usage point imports a row into it: no pass, crash or change of configuration
\* between reading and pinning a boundary gives the series to another
\* (home_assistant.py, _boundary; store.py, set_ha_boundary).
THEOREM OwnersStay == Spec => PinnedOnce
  <1>1. Safe /\ [Next]_vars =>
            [\A s \in AllSeries :
                /\ Pinned(s) /\ boundary[s].owner # None /\ boundary'[s] # boundary[s]
                      => boundary'[s].owner = None
                /\ ha'[s] # ha[s] => Pinned(s) /\ boundary[s].owner \in {pass.up, None}]_vars
    BY OwnerStays, OwnerWrites
  <1>2. QED
    BY <1>1, InitSafe, SafeStep, PTL DEF Spec, PinnedOnce

------------------------------------------------------------------------------
(***************************************************************************)
(* Where no user pins a boundary: what is found, and what is written.      *)
(***************************************************************************)

LEMMA RewriteIs ==
    ASSUME NEW u, NEW b, NEW from
    PROVE  /\ \A r \in Rewrite(u, b, from) :
                /\ r.slot \in ReachOf(total[u], curve[u], b)
                /\ r.sum = SumOf(total[u], curve[u], b, r.slot)
           /\ \A t \in ReachOf(total[u], curve[u], b) :
                DayOf(t) >= from => \E r \in Rewrite(u, b, from) : r.slot = t
  <1> DEFINE R == ReachOf(total[u], curve[u], b)
             row(t) == [slot |-> t, sum |-> SumOf(total[u], curve[u], b, t)]
  <1>1. SeriesRows(u, b) = {row(t) : t \in R}
    BY SeriesRowsAre
  <1>2. \A t : row(t).slot = t /\ row(t).sum = SumOf(total[u], curve[u], b, t)
    OBVIOUS
  <1> HIDE DEF R, row
  <1>3. Rewrite(u, b, from) = {r \in {row(t) : t \in R} : DayOf(r.slot) >= from}
    BY <1>1 DEF Rewrite
  <1>4. QED
    BY <1>2, <1>3 DEF R

LEMMA FoundOwners ==
    ASSUME Pins = {}, Alone, [Next]_vars, NEW s \in AllSeries, boundary'[s] # None
    PROVE  boundary'[s].owner \in UsagePoints /\ SeriesOf[boundary'[s].owner] = s
  <1>1. CASE boundary'[s] = boundary[s]
    BY <1>1 DEF Alone, Found, Pinned
  <1>2. CASE boundary'[s] # boundary[s]
    <2>1. Pin
      BY <1>2, BoundaryFrom DEF Alone, Safe
    <2>2. /\ pass.at = "pinning"
          /\ boundary' = [boundary EXCEPT ![SeriesOf[pass.up]] = pass.new]
      BY <2>1 DEF Pin
    <2>3. s = SeriesOf[pass.up] /\ boundary'[s] = pass.new
      BY <1>2, <2>2 DEF Alone, Safe, Typed
    <2>4. pass.up \in UsagePoints /\ SeriesOf[pass.up] \in AllSeries
      BY <2>2, Where, SeriesType DEF Alone, Safe, Typed
    <2>5. pass.new.owner = pass.up
      BY <2>2, <2>4, DiscoveredIs DEF Alone, Safe, Found
    <2>6. QED
      BY <2>3, <2>4, <2>5
  <1>3. QED
    BY <1>1, <1>2

LEMMA FoundPinning ==
    ASSUME Pins = {}, Alone, [Next]_vars, pass'.at = "pinning"
    PROVE  /\ ~Pinned(SeriesOf[pass.up])'
           /\ pass'.new = Discovered(SeriesOf[pass.up], pass.up)'
           /\ pass'.from = 0
  <1>1. ASSUME NEW job \in Jobs, Adopt(job)
        PROVE  FALSE
    <2>1. SeriesOf[job.up] \in AllSeries /\ Pinned(SeriesOf[job.up])
          /\ boundary[SeriesOf[job.up]].owner = None
      BY <1>1, SeriesType DEF Adopt, Pinned, Jobs
    <2>2. QED
      BY <2>1, HaSeriesAssumption DEF Alone, Found
  <1>2. ASSUME NEW job \in Jobs, Discover(job)
        PROVE  /\ ~Pinned(SeriesOf[pass.up])'
               /\ pass'.new = Discovered(SeriesOf[pass.up], pass.up)'
               /\ pass'.from = 0
    <2>1. /\ pass'.up = job.up /\ pass'.from = 0
          /\ pass'.new = Discovered(SeriesOf[job.up], job.up)
          /\ ~Pinned(SeriesOf[job.up]) /\ boundary' = boundary /\ ha' = ha
      BY <1>2 DEF Discover, Pinning
    <2>2. QED
      BY <2>1 DEF Discovered, Held, Pinned
  <1>3. CASE UNCHANGED vars
    <2>1. pass' = pass /\ boundary' = boundary /\ ha' = ha
      BY <1>3 DEF vars
    <2>2. /\ ~Pinned(SeriesOf[pass.up])
          /\ pass.new = Discovered(SeriesOf[pass.up], pass.up)
          /\ pass.from = 0
      BY <2>1 DEF Alone, Found
    <2>3. QED
      BY <2>1, <2>2 DEF Discovered, Held, Pinned
  <1>4. QED
    BY <1>1, <1>2, <1>3, PinningFrom DEF Alone, Safe

LEMMA FoundImporting ==
    ASSUME Pins = {}, Alone, [Next]_vars, pass'.at = "importing"
    PROVE  /\ boundary'[SeriesOf[pass'.up]] # None
           /\ boundary'[SeriesOf[pass'.up]].owner = pass'.up
           /\ \A r \in pass'.rows :
                /\ r.slot \in ReachOf(total[pass'.up], curve[pass'.up],
                                      boundary'[SeriesOf[pass'.up]])
                /\ r.sum = SumOf(total[pass'.up], curve[pass'.up],
                                 boundary'[SeriesOf[pass'.up]], r.slot)
  <1>1. ASSUME NEW job \in Jobs, Continue(job)
        PROVE  /\ boundary'[SeriesOf[pass'.up]] # None
               /\ boundary'[SeriesOf[pass'.up]].owner = pass'.up
               /\ \A r \in pass'.rows :
                    /\ r.slot \in ReachOf(total[pass'.up], curve[pass'.up],
                                          boundary'[SeriesOf[pass'.up]])
                    /\ r.sum = SumOf(total[pass'.up], curve[pass'.up],
                                     boundary'[SeriesOf[pass'.up]], r.slot)
    <2> DEFINE b == boundary[SeriesOf[job.up]]
    <2>1. /\ pass'.up = job.up /\ boundary' = boundary
          /\ pass'.rows = Rewrite(job.up, b, job.from)
          /\ b # None /\ b.owner = job.up
      BY <1>1 DEF Continue, Importing
    <2> HIDE DEF b
    <2>2. QED
      BY <2>1, RewriteIs DEF b
  <1>2. CASE Pin
    <2> DEFINE b == pass.new
    <2>1. /\ pass.at = "pinning" /\ pass'.up = pass.up
          /\ boundary' = [boundary EXCEPT ![SeriesOf[pass.up]] = b]
          /\ pass'.rows = Rewrite(pass.up, b, pass.from)
      BY <1>2 DEF Pin, Importing
    <2>2. pass.up \in UsagePoints /\ SeriesOf[pass.up] \in AllSeries
      BY <2>1, Where, SeriesType DEF Alone, Safe, Typed
    <2>3. b # None /\ b.owner = pass.up
      BY <2>1, <2>2, DiscoveredIs, BoundaryType DEF Alone, Safe, Found
    <2>4. boundary'[SeriesOf[pass'.up]] = b
      BY <2>1, <2>2 DEF Alone, Safe, Typed
    <2> HIDE DEF b
    <2>5. QED
      BY <2>1, <2>3, <2>4, RewriteIs
  <1>3. ASSUME NEW answered \in BOOLEAN, Import(answered)
        PROVE  /\ boundary'[SeriesOf[pass'.up]] # None
               /\ boundary'[SeriesOf[pass'.up]].owner = pass'.up
               /\ \A r \in pass'.rows :
                    /\ r.slot \in ReachOf(total[pass'.up], curve[pass'.up],
                                          boundary'[SeriesOf[pass'.up]])
                    /\ r.sum = SumOf(total[pass'.up], curve[pass'.up],
                                     boundary'[SeriesOf[pass'.up]], r.slot)
    <2>1. /\ pass.at = "importing" /\ boundary' = boundary
          /\ \/ pass' = Idle
             \/ pass' = [at |-> "importing", todo |-> pass.todo, up |-> pass.up,
                         rows |-> pass.rows \ Chunk(pass.rows)]
      BY <1>3, ImportShape DEF Alone, Safe
    <2>2. pass'.up = pass.up /\ pass'.rows \subseteq pass.rows
      BY <2>1 DEF Idle
    <2>3. QED
      BY <2>1, <2>2 DEF Alone, Found
  <1>4. CASE UNCHANGED vars
    BY <1>4 DEF vars, Alone, Found
  <1>5. QED
    BY <1>1, <1>2, <1>3, <1>4, ImportingFrom DEF Alone, Safe

LEMMA InitAlone == Init => Alone
  <1>1. Init => Found
    BY DEF Init, Found, Idle, Pinned
  <1>2. QED
    BY <1>1, InitSafe DEF Alone

LEMMA AloneStep ==
    ASSUME Pins = {}
    PROVE  Alone /\ [Next]_vars => Alone'
  <1> SUFFICES ASSUME Alone, [Next]_vars PROVE Alone'
    OBVIOUS
  <1>1. Safe'
    BY SafeStep DEF Alone
  <1>2. \A s \in AllSeries : Pinned(s)' =>
            boundary'[s].owner \in UsagePoints /\ SeriesOf[boundary'[s].owner] = s
    BY FoundOwners DEF Pinned
  <1>3. pass'.at = "importing" => UNCHANGED <<total, curve>>
    BY ImportingFrom DEF Alone, Safe
  <1>4. Found'
    BY <1>2, <1>3, FoundPinning, FoundImporting DEF Found
  <1>5. QED
    BY <1>1, <1>4 DEF Alone

LEMMA PinLeaves ==
    ASSUME Pins = {}, Alone, [Next]_vars, NEW s \in AllSeries, ~Pinned(s), boundary'[s] # None,
           NEW t \in Held(s)
    PROVE  DayOf(t) <= boundary'[s].day
  <1>1. boundary' # boundary
    BY DEF Pinned
  <1>2. Pin
    BY <1>1, BoundaryFrom DEF Alone, Safe
  <1>3. /\ pass.at = "pinning"
        /\ boundary' = [boundary EXCEPT ![SeriesOf[pass.up]] = pass.new]
    BY <1>2 DEF Pin
  <1>4. s = SeriesOf[pass.up] /\ boundary'[s] = pass.new
    BY <1>3 DEF Alone, Safe, Typed, Pinned
  <1>5. pass.new = Discovered(s, pass.up) /\ pass.up \in UsagePoints
    BY <1>3, <1>4, Where DEF Alone, Safe, Typed, Found
  <1>6. QED
    BY <1>4, <1>5, DiscoveredIs DEF Alone, Safe

LEMMA ImportKeepsBefore ==
    ASSUME Alone, [Next]_vars, NEW s \in AllSeries, NEW t \in Slots, ha'[s][t] # ha[s][t]
    PROVE  Pinned(s) /\ DayOf(t) > boundary[s].day
  <1>1. PICK answered \in BOOLEAN : Import(answered)
    BY HaFrom DEF Alone, Safe
  <1>2. s = SeriesOf[pass.up] /\ \E r \in Chunk(pass.rows) : r.slot = t
    BY <1>1, ImportWrites DEF Alone, Safe
  <1>3. PICK r \in pass.rows : r.slot = t
    BY <1>2 DEF Chunk
  <1>4. /\ pass.at = "importing" /\ boundary[s] # None
        /\ t \in ReachOf(total[pass.up], curve[pass.up], boundary[s])
    BY <1>1, <1>2, <1>3, ImportShape DEF Alone, Safe, Found
  <1>5. PICK d \in Days : d > boundary[s].day /\ d <= DayOf(t)
    BY <1>4 DEF ReachOf, OwnedOf
  <1>6. d \in Nat /\ DayOf(t) \in Nat /\ boundary[s].day \in Nat
    BY <1>4, Upto, Hours, BoundaryType DEF Alone, Safe, Typed
  <1>7. QED
    BY <1>4, <1>5, <1>6 DEF Pinned

\* Where no user pins a boundary, the one an export finds leaves to others every day that
\* holds a row by then, and no import writes a day the boundary leaves to others, whatever
\* the configurations, the earlier rows and the passes that fail (home_assistant.py, export).
THEOREM OthersDaysAreKept ==
    ASSUME Pins = {}
    PROVE  Spec => NeverBefore
  <1>1. Alone /\ [Next]_vars =>
            [\A s \in AllSeries :
                /\ ~Pinned(s) /\ Pinned(s)' /\ boundary'[s].owner # None
                      => \A t \in Held(s) : DayOf(t) <= boundary'[s].day
                /\ \A t \in Slots :
                      ha'[s][t] # ha[s][t] => Pinned(s) /\ DayOf(t) > boundary[s].day]_vars
    BY PinLeaves, ImportKeepsBefore DEF Pinned
  <1>2. QED
    BY <1>1, InitAlone, AloneStep, PTL DEF Spec, NeverBefore

------------------------------------------------------------------------------
(***************************************************************************)
(* One configuration, no pin: the rows of every series continue.           *)
(*                                                                         *)
(* First what a change of one day does to the rows of its usage point:     *)
(* those of older days keep their sums.                                    *)
(***************************************************************************)

\* The tables T and C, but for day d, which has data in T2 and C2.
Changes(T, C, T2, C2, d) ==
    /\ \A e \in Days \ {d} : T2[e] = T[e] /\ C2[e] = C[e]
    /\ T2[d] # None \/ C2[d] # None

LEMMA ReachGrows ==
    ASSUME NEW T, NEW C, NEW T2, NEW C2, NEW d \in Days, NEW b, Changes(T, C, T2, C2, d)
    PROVE  ReachOf(T, C, b) \subseteq ReachOf(T2, C2, b)
  <1>1. OwnedOf(T, C, b) \subseteq OwnedOf(T2, C2, b)
    BY DEF OwnedOf, Changes
  <1>2. QED
    BY <1>1 DEF ReachOf

LEMMA SumsBefore ==
    ASSUME NEW T, NEW C, NEW T2, NEW C2, NEW d \in Days, NEW b, Changes(T, C, T2, C2, d),
           NEW t \in ReachOf(T, C, b), DayOf(t) < d
    PROVE  SumOf(T2, C2, b, t) = SumOf(T, C, b, t)
  <1> DEFINE S == {e \in ReachOf(T, C, b) : e <= t}
             S2 == {e \in ReachOf(T2, C2, b) : e <= t}
  <1>1. d \in Nat /\ \A e \in Days : e \in Nat
    BY Upto
  <1>2. t \in Slots /\ \E hi \in OwnedOf(T, C, b) : DayOf(t) <= hi
    BY DEF ReachOf
  <1>3. \A e \in Slots : DayOf(e) \in Days /\ DayOf(e) \in Nat
    BY Hours
  <1>4. \A e \in Slots : e <= t => DayOf(e) <= DayOf(t) /\ DayOf(e) < d
    BY <1>1, <1>2, <1>3, DaysInOrder
  <1>5. ASSUME NEW e \in S2 PROVE e \in S
    <2>1. e \in Slots /\ e <= t /\ DayOf(e) < d /\ DayOf(e) <= DayOf(t)
      BY <1>4 DEF ReachOf
    <2>2. PICK lo \in OwnedOf(T2, C2, b) : lo <= DayOf(e)
      BY DEF ReachOf
    <2>3. lo \in Days /\ lo # d
      BY <1>1, <1>3, <2>1, <2>2 DEF OwnedOf
    <2>4. lo \in OwnedOf(T, C, b)
      BY <2>2, <2>3 DEF OwnedOf, Changes
    <2>5. PICK hi \in OwnedOf(T, C, b) : DayOf(t) <= hi
      BY <1>2
    <2>6. DayOf(e) <= hi
      <3>1. hi \in Nat
        BY <1>1, <2>5 DEF OwnedOf
      <3>2. QED
        BY <1>2, <1>3, <2>1, <2>5, <3>1
    <2>7. QED
      BY <2>1, <2>2, <2>4, <2>6 DEF ReachOf
  <1>6. S2 = S
    <2>1. S \subseteq S2
      BY ReachGrows
    <2>2. QED
      BY <1>5, <2>1
  <1>7. ASSUME NEW e \in S PROVE EnergyOf(T2, C2, e) = EnergyOf(T, C, e)
    <2>1. DayOf(e) \in Days \ {d}
      BY <1>1, <1>3, <1>4 DEF ReachOf
    <2>2. QED
      BY <2>1 DEF EnergyOf, Changes
  <1>8. EnergiesTo(T2, C2, b, t) = EnergiesTo(T, C, b, t)
    <2>1. /\ EnergiesTo(T2, C2, b, t) = [e \in S2 |-> EnergyOf(T2, C2, e)]
          /\ EnergiesTo(T, C, b, t) = [e \in S |-> EnergyOf(T, C, e)]
      BY DEF EnergiesTo
    <2> HIDE DEF S, S2
    <2>2. QED
      BY <1>6, <1>7, <2>1
  <1>9. QED
    BY <1>8 DEF SumOf

\* A right row older than the change stays right; an hour the series did not reach has
\* no data.
LEMMA RowsBefore ==
    ASSUME NEW T, NEW C, NEW T2, NEW C2, NEW d \in Days, NEW b, b.day \in Nat,
           Changes(T, C, T2, C2, d),
           NEW t \in ReachOf(T2, C2, b), DayOf(t) < d, NEW row,
           IF t \in ReachOf(T, C, b) THEN RightRow(T, C, b, row, t) ELSE row = None
    PROVE  RightRow(T2, C2, b, row, t)
  <1>1. t \in Slots /\ DayOf(t) \in Days /\ DayOf(t) \in Nat /\ DayOf(t) # d
    BY Hours, Upto DEF ReachOf
  <1>2. T2[DayOf(t)] = T[DayOf(t)] /\ C2[DayOf(t)] = C[DayOf(t)]
    BY <1>1 DEF Changes
  <1>3. CASE t \in ReachOf(T, C, b)
    BY <1>2, <1>3, SumsBefore DEF RightRow
  <1>4. CASE t \notin ReachOf(T, C, b)
    <2>1. DayOf(t) \notin OwnedOf(T, C, b)
      <3>1. DayOf(t) <= DayOf(t)
        BY <1>1
      <3>2. QED
        BY <1>1, <1>4, <3>1 DEF ReachOf
    <2>2. DayOf(t) > b.day
      <3>1. PICK lo \in OwnedOf(T2, C2, b) : lo <= DayOf(t)
        BY DEF ReachOf
      <3>2. lo \in Nat /\ DayOf(t) \in Nat /\ lo > b.day
        BY <1>1, <3>1, Upto DEF OwnedOf
      <3>3. QED
        BY <3>1, <3>2
    <2>3. QED
      BY <1>1, <1>2, <1>4, <2>1, <2>2 DEF OwnedOf, RightRow
  <1>5. QED
    BY <1>3, <1>4

\* One day of one usage point changes, and is stamped.
DataStep(u, d) ==
    /\ pass = Fetching /\ u \in config
    /\ stamp' = [stamp EXCEPT ![u][d] = lastRun]
    /\ Changes(total[u], curve[u], total'[u], curve'[u], d)
    /\ \A w \in UsagePoints \ {u} : total'[w] = total[w] /\ curve'[w] = curve[w]
    /\ UNCHANGED <<lastRun, config, cursor, boundary, ha, pass>>

LEMMA DataIs ==
    ASSUME Typed, NEW u \in UsagePoints, NEW d \in Days,
           \/ \E wh \in Totals : CacheTotal(u, d, wh)
           \/ \E c \in Grids \union {Partial} : CacheCurve(u, d, c)
    PROVE  DataStep(u, d)
  <1>1. ASSUME NEW wh \in Totals, CacheTotal(u, d, wh) PROVE DataStep(u, d)
    <2>1. total' = [total EXCEPT ![u][d] = wh] /\ curve' = curve
      BY <1>1 DEF CacheTotal
    <2>2. wh # None
      BY HaSeriesAssumption
    <2>3. /\ total'[u][d] = wh
          /\ \A e \in Days \ {d} : total'[u][e] = total[u][e]
          /\ \A w \in UsagePoints \ {u} : total'[w] = total[w]
      BY <2>1 DEF Typed
    <2>4. Changes(total[u], curve[u], total'[u], curve'[u], d)
      BY <2>1, <2>2, <2>3 DEF Changes
    <2>5. QED
      BY <1>1, <2>1, <2>3, <2>4 DEF CacheTotal, DataStep
  <1>2. ASSUME NEW c \in Grids \union {Partial}, CacheCurve(u, d, c) PROVE DataStep(u, d)
    <2>1. curve' = [curve EXCEPT ![u][d] = c] /\ total' = total
      BY <1>2 DEF CacheCurve
    <2>2. c # None
      BY HaSeriesAssumption
    <2>3. /\ curve'[u][d] = c
          /\ \A e \in Days \ {d} : curve'[u][e] = curve[u][e]
          /\ \A w \in UsagePoints \ {u} : curve'[w] = curve[w]
      BY <2>1 DEF Typed
    <2>4. Changes(total[u], curve[u], total'[u], curve'[u], d)
      BY <2>1, <2>2, <2>3 DEF Changes
    <2>5. QED
      BY <1>2, <2>1, <2>3, <2>4 DEF CacheCurve, DataStep
  <1>3. QED
    BY <1>1, <1>2

LEMMA DataStamps ==
    ASSUME Typed, Stamped, NEW u \in UsagePoints, NEW d \in Days, DataStep(u, d)
    PROVE  /\ lastRun \in Nat /\ cursor \in Nat /\ cursor < lastRun /\ stamp'[u][d] = lastRun
           /\ \A e \in Days \ {d} : stamp'[u][e] = stamp[u][e]
           /\ \A w \in UsagePoints \ {u} : stamp'[w] = stamp[w]
  <1>1. lastRun \in Nat /\ cursor \in Nat
    BY HaSeriesAssumption DEF Typed
  <1>2. pass # Idle
    BY DEF DataStep, Fetching, Idle
  <1>3. stamp' = [stamp EXCEPT ![u][d] = lastRun]
    BY DEF DataStep
  <1>4. QED
    BY <1>1, <1>2, <1>3 DEF Stamped, Typed

LEMMA StampedStep == Typed /\ Stamped /\ [Next]_vars => Stamped'
  <1> SUFFICES ASSUME Typed, Stamped, [Next]_vars PROVE Stamped'
    OBVIOUS
  <1>1. /\ lastRun \in Nat /\ cursor \in Nat
        /\ \A u \in UsagePoints, d \in Days : stamp[u][d] \in Nat
    BY HaSeriesAssumption DEF Typed
  <1>2. ASSUME UNCHANGED <<lastRun, total, curve, stamp, cursor>>, pass' # Idle => pass # Idle
        PROVE  Stamped'
    BY <1>2 DEF Stamped, HasData
  <1>3. CASE Start
    <2>1. lastRun' = lastRun + 1 /\ cursor' = cursor /\ UNCHANGED <<total, curve, stamp>>
      BY <1>3 DEF Start, cache
    <2>2. cursor' <= lastRun' /\ cursor' < lastRun'
      BY <1>1, <2>1 DEF Stamped
    <2>3. \A u \in UsagePoints, d \in Days : stamp'[u][d] <= lastRun'
      BY <1>1, <2>1 DEF Stamped
    <2>4. QED
      BY <2>1, <2>2, <2>3 DEF Stamped, HasData
  <1>4. ASSUME NEW u \in UsagePoints, NEW d \in Days, DataStep(u, d) PROVE Stamped'
    <2>1. /\ cursor < lastRun /\ stamp'[u][d] = lastRun
          /\ \A e \in Days \ {d} : stamp'[u][e] = stamp[u][e]
          /\ \A w \in UsagePoints \ {u} : stamp'[w] = stamp[w]
      BY <1>4, DataStamps
    <2>2. UNCHANGED <<lastRun, cursor, pass>>
      BY <1>4 DEF DataStep
    <2>3. \A w \in UsagePoints, e \in Days : w # u \/ e # d => HasData(w, e)' = HasData(w, e)
      BY <1>4 DEF DataStep, Changes, HasData
    <2>4. HasData(u, d)'
      BY <1>4 DEF DataStep, Changes, HasData
    <2>5. \A w \in UsagePoints, e \in Days :
              stamp'[w][e] <= lastRun /\ (stamp'[w][e] > 0 <=> HasData(w, e)')
      <3>1. ASSUME NEW w \in UsagePoints, NEW e \in Days
            PROVE  stamp'[w][e] <= lastRun /\ (stamp'[w][e] > 0 <=> HasData(w, e)')
        <4>1. CASE w = u /\ e = d
          BY <1>1, <2>1, <2>4, <4>1
        <4>2. CASE w # u \/ e # d
          <5>1. stamp'[w][e] = stamp[w][e] /\ HasData(w, e)' = HasData(w, e)
            BY <2>1, <2>3, <4>2
          <5>2. QED
            BY <5>1 DEF Stamped
        <4>3. QED
          BY <4>1, <4>2
      <3>2. QED
        BY <3>1
    <2>6. QED
      BY <2>2, <2>5 DEF Stamped
  <1>5. CASE AdvanceCursor
    <2>1. cursor' = lastRun /\ pass' = Idle /\ UNCHANGED <<lastRun, total, curve, stamp>>
      BY <1>5 DEF AdvanceCursor, cache
    <2>2. QED
      BY <1>1, <2>1 DEF Stamped, HasData
  <1>6. CASE \E s \in AllSeries, pin \in Pins : SetBoundary(s, pin)
    <2>1. cursor' = 0 /\ UNCHANGED <<lastRun, total, curve, stamp, pass>>
      BY <1>6 DEF SetBoundary, cache
    <2>2. QED
      BY <1>1, <2>1 DEF Stamped, HasData
  <1>7. CASE \E job \in Jobs : Continue(job) \/ Adopt(job) \/ RefuseOwner(job) \/ Discover(job)
    <2>1. pass.at = "exporting"
      BY <1>7 DEF Continue, Adopt, RefuseOwner, Discover
    <2>2. pass # Idle
      BY <2>1 DEF Idle
    <2>3. QED
      BY <1>2, <1>7, <2>2, TypedJob
  <1>8. ASSUME NEW answered \in BOOLEAN, Import(answered) PROVE Stamped'
    <2>1. pass.at = "importing" /\ UNCHANGED <<lastRun, total, curve, stamp, cursor>>
      BY <1>8, ImportShape
    <2>2. pass # Idle
      BY <2>1 DEF Idle
    <2>3. QED
      BY <1>2, <2>1, <2>2
  <1>9. CASE ReadFeed \/ Pin \/ SeriesDone \/ Fail \/ UNCHANGED vars
             \/ \E ups \in Configs : Configure(ups)
    <2>1. pass' # Idle => pass # Idle
      BY <1>9 DEF ReadFeed, Pin, SeriesDone, Fail, vars, Configure, Fetching, Idle
    <2>2. UNCHANGED <<lastRun, total, curve, stamp, cursor>>
      BY <1>9 DEF ReadFeed, Pin, SeriesDone, Fail, vars, Configure, cache
    <2>3. QED
      BY <1>2, <2>1, <2>2
  <1>10. QED
    BY <1>3, <1>4, <1>5, <1>6, <1>7, <1>8, <1>9, DataIs DEF Next, Deliver, Jobs

------------------------------------------------------------------------------
(***************************************************************************)
(* Owners and Reached: what the cache, the boundaries and Home Assistant   *)
(* hold of one another.                                                    *)
(***************************************************************************)

OneConfig == \A a, b \in Configs : a = b

LEMMA PastBoundary ==
    ASSUME NEW T, NEW C, NEW b, b.day \in Nat, NEW t \in ReachOf(T, C, b)
    PROVE  t \in Slots /\ DayOf(t) > b.day
  <1>1. PICK d \in Days : d > b.day /\ d <= DayOf(t)
    BY DEF ReachOf, OwnedOf
  <1>2. t \in Slots
    BY DEF ReachOf
  <1>3. d \in Nat /\ DayOf(t) \in Nat
    BY <1>2, Upto, Hours
  <1>4. QED
    BY <1>1, <1>2, <1>3

\* What moves the tables, the boundaries, the cursor or Home Assistant.
LEMMA CoreFrom ==
    ASSUME Pins = {}, OneConfig, Typed, [Next]_vars
    PROVE  \/ UNCHANGED <<config, total, curve, stamp, cursor, boundary, ha>>
           \/ \E u \in UsagePoints, d \in Days : DataStep(u, d)
           \/ Pin
           \/ \E answered \in BOOLEAN : Import(answered)
           \/ AdvanceCursor
  <1>1. CASE \E job \in Jobs : Continue(job) \/ Adopt(job) \/ RefuseOwner(job) \/ Discover(job)
    BY <1>1, TypedJob
  <1>2. CASE \E u \in UsagePoints, d \in Days :
                \/ \E wh \in Totals : CacheTotal(u, d, wh)
                \/ \E c \in Grids \union {Partial} : CacheCurve(u, d, c)
    BY <1>2, DataIs
  <1>3. ASSUME NEW ups \in Configs, Configure(ups)
        PROVE  UNCHANGED <<config, total, curve, stamp, cursor, boundary, ha>>
    BY <1>3 DEF OneConfig, Typed, Configure, cache
  <1>4. CASE Start \/ ReadFeed \/ SeriesDone \/ Fail \/ UNCHANGED vars
    BY <1>4 DEF Start, ReadFeed, SeriesDone, Fail, vars, cache
  <1>5. QED
    BY <1>1, <1>2, <1>3, <1>4 DEF Next, Deliver, Jobs

LEMMA CoreQuiet ==
    ASSUME Owners, Reached, UNCHANGED <<config, total, curve, stamp, cursor, boundary, ha>>
    PROVE  Owners' /\ Reached'
  BY DEF Owners, Reached, Pinned, HasData, ChangedDays

LEMMA CoreData ==
    ASSUME Steady, NEW u \in UsagePoints, NEW d \in Days, DataStep(u, d)
    PROVE  Owners' /\ Reached'
  <1> USE DEF Steady, Alone, Safe
  <1>1. /\ cursor < lastRun /\ stamp'[u][d] = lastRun
        /\ \A e \in Days \ {d} : stamp'[u][e] = stamp[u][e]
        /\ \A w \in UsagePoints \ {u} : stamp'[w] = stamp[w]
    BY DataStamps
  <1>2. /\ UNCHANGED <<config, cursor, boundary, ha>>
        /\ Changes(total[u], curve[u], total'[u], curve'[u], d)
        /\ \A w \in UsagePoints \ {u} : total'[w] = total[w] /\ curve'[w] = curve[w]
    BY DEF DataStep
  <1>3. lastRun > cursor
    BY <1>1, HaSeriesAssumption DEF Typed
  <1>4. /\ d \in ChangedDays(u)' /\ ChangedDays(u) \subseteq ChangedDays(u)'
        /\ \A w \in UsagePoints \ {u} : ChangedDays(w)' = ChangedDays(w)
    BY <1>1, <1>2, <1>3 DEF ChangedDays
  <1>5. \A w \in UsagePoints, e \in Days : w # u \/ e # d => HasData(w, e)' = HasData(w, e)
    BY <1>2 DEF Changes, HasData
  <1>6. config \subseteq UsagePoints
    BY HaSeriesAssumption DEF Typed
  <1>7. Owners'
    <2>1. \A s \in AllSeries : Pinned(s)' => boundary'[s].owner \in config'
      BY <1>2 DEF Owners, Pinned
    <2>2. ASSUME NEW w \in config', ~Pinned(SeriesOf[w])', NEW e \in Days, HasData(w, e)'
          PROVE  e \in ChangedDays(w)'
      <3>1. w \in config /\ w \in UsagePoints /\ ~Pinned(SeriesOf[w])
        BY <1>2, <1>6, <2>2 DEF Pinned
      <3>2. CASE w = u /\ e = d
        BY <1>4, <3>2
      <3>3. CASE w # u \/ e # d
        <4>1. e \in ChangedDays(w)
          BY <1>5, <2>2, <3>1, <3>3 DEF Owners
        <4>2. QED
          BY <1>4, <3>1, <4>1
      <3>4. QED
        BY <3>2, <3>3
    <2>3. QED
      BY <2>1, <2>2 DEF Owners
  <1>8. Reached'
    <2> SUFFICES ASSUME NEW s \in AllSeries, Pinned(s)'
                 PROVE  ReachedOf(total[boundary[s].owner], curve[boundary[s].owner],
                                  ChangedDays(boundary[s].owner), boundary[s], ha[s])'
      BY DEF Reached
    <2> DEFINE b == boundary[s]
               w == b.owner
               T2 == total'[w]
               C2 == curve'[w]
    <2>1. boundary' = boundary /\ b # None /\ ha' = ha
      BY <1>2 DEF Pinned
    <2>2. w \in UsagePoints /\ b.day \in Nat
      BY <2>1, BoundaryType DEF Found, Pinned, Typed
    <2>3. ReachedOf(total[w], curve[w], ChangedDays(w), b, ha[s])
      BY <2>1 DEF Reached, Pinned
    <2>4. ReachedOf(T2, C2, ChangedDays(w)', b, ha[s])
      <3>1. CASE w # u
        <4>1. ChangedDays(w)' = ChangedDays(w) /\ T2 = total[w] /\ C2 = curve[w]
          BY <1>2, <1>4, <2>2, <3>1
        <4>2. QED
          BY <2>3, <4>1
      <3>2. CASE w = u
        <4>0. Changes(total[u], curve[u], T2, C2, d)
          BY <1>2, <3>2
        <4>1. ReachOf(total[u], curve[u], b) \subseteq ReachOf(T2, C2, b)
          BY <4>0, ReachGrows
        <4>2. ASSUME NEW t \in ReachOf(T2, C2, b), \A e \in ChangedDays(u)' : DayOf(t) < e
              PROVE  RightRow(T2, C2, b, ha[s][t], t)
          <5>1. t \in Slots /\ DayOf(t) > b.day
            BY <2>2, PastBoundary
          <5>2. DayOf(t) < d /\ \A e \in ChangedDays(u) : DayOf(t) < e
            BY <1>4, <4>2
          <5>3. IF t \in ReachOf(total[u], curve[u], b)
                THEN RightRow(total[u], curve[u], b, ha[s][t], t) ELSE ha[s][t] = None
            BY <2>3, <3>2, <5>1, <5>2 DEF ReachedOf
          <5> HIDE DEF T2, C2, b
          <5>4. QED
            BY <2>2, <4>0, <5>2, <5>3, RowsBefore
        <4>3. ChangedDays(w)' = ChangedDays(u)'
          BY <3>2, <2>1 DEF ChangedDays
        <4>4. \A t \in Slots : ha[s][t] # None /\ DayOf(t) > b.day => t \in ReachOf(T2, C2, b)
          BY <2>3, <3>2, <4>1 DEF ReachedOf
        <4> HIDE DEF T2, C2, b
        <4>5. QED
          BY <4>2, <4>3, <4>4 DEF ReachedOf
      <3>3. QED
        BY <3>1, <3>2
    <2>5. ChangedDays(boundary[s].owner)' = ChangedDays(w)'
      BY <2>1
    <2>6. QED
      BY <2>1, <2>4, <2>5
  <1>9. QED
    BY <1>7, <1>8

\* Before its boundary is pinned, all a usage point has is still to be delivered; and what
\* Home Assistant holds then is the others'.
LEMMA CorePin ==
    ASSUME Pins = {}, Steady, Pin
    PROVE  Owners' /\ Reached'
  <1> USE DEF Steady, Alone, Safe
  <1> DEFINE u == pass.up
             o == SeriesOf[u]
             b == pass.new
  <1>1. /\ pass.at = "pinning" /\ boundary' = [boundary EXCEPT ![o] = b]
        /\ UNCHANGED <<config, total, curve, stamp, cursor, ha>>
    BY DEF Pin, cache
  <1>2. u \in UsagePoints /\ o \in AllSeries /\ u \in config
    BY <1>1, Where, SeriesType DEF Typed, Underway
  <1>3. ~Pinned(o) /\ b = Discovered(o, u)
    BY <1>1 DEF Found
  <1>4. /\ b \in Boundaries /\ b.owner = u /\ b.day \in Nat
        /\ \A t \in Held(o) : DayOf(t) <= b.day
    BY <1>2, <1>3, DiscoveredIs, BoundaryType
  <1>5. boundary'[o] = b /\ \A s \in AllSeries \ {o} : boundary'[s] = boundary[s]
    BY <1>1, <1>2 DEF Typed
  <1>6. b # None
    BY <1>4, BoundaryType
  <1>7. \A w : ChangedDays(w)' = ChangedDays(w)
    BY <1>1 DEF ChangedDays
  <1> HIDE DEF o, b
  <1>8. Owners'
    <2>1. ASSUME NEW s \in AllSeries, Pinned(s)' PROVE boundary'[s].owner \in config'
      <3>1. CASE s = o
        BY <1>1, <1>2, <1>4, <1>5, <3>1
      <3>2. CASE s # o
        BY <1>1, <1>5, <2>1, <3>2 DEF Owners, Pinned
      <3>3. QED
        BY <3>1, <3>2
    <2>2. ASSUME NEW w \in config', ~Pinned(SeriesOf[w])', NEW e \in Days, HasData(w, e)'
          PROVE  e \in ChangedDays(w)'
      <3>1. w \in config /\ w \in UsagePoints /\ SeriesOf[w] \in AllSeries
        BY <1>1, HaSeriesAssumption, SeriesType DEF Typed
      <3>2. ~Pinned(SeriesOf[w])
        BY <1>3, <1>5, <2>2, <3>1 DEF Pinned
      <3>3. HasData(w, e)
        BY <1>1, <2>2 DEF HasData
      <3>4. QED
        BY <1>7, <3>1, <3>2, <3>3 DEF Owners
    <2>3. QED
      BY <2>1, <2>2 DEF Owners
  <1>9. ReachedOf(total[u], curve[u], ChangedDays(u), b, ha[o])
    <2>1. ASSUME NEW t \in Slots, ha[o][t] # None, DayOf(t) > b.day PROVE FALSE
      <3>1. t \in Held(o)
        BY <2>1 DEF Held
      <3>2. DayOf(t) <= b.day /\ DayOf(t) \in Nat
        BY <1>4, <3>1, Hours
      <3>3. QED
        BY <1>4, <2>1, <3>2
    <2>2. ASSUME NEW t \in ReachOf(total[u], curve[u], b), \A d \in ChangedDays(u) : DayOf(t) < d
          PROVE  FALSE
      <3>1. PICK d \in OwnedOf(total[u], curve[u], b) : d <= DayOf(t)
        BY DEF ReachOf
      <3>2. d \in Days /\ HasData(u, d)
        BY <3>1 DEF OwnedOf, HasData
      <3>3. d \in ChangedDays(u)
        BY <1>2, <1>3, <3>2 DEF Owners, o
      <3>4. d \in Nat /\ DayOf(t) \in Nat /\ DayOf(t) < d
        BY <2>2, <3>2, <3>3, Upto, Hours DEF ReachOf
      <3>5. QED
        BY <3>1, <3>4
    <2>3. QED
      BY <2>1, <2>2 DEF ReachedOf
  <1>10. Reached'
    <2> SUFFICES ASSUME NEW s \in AllSeries, Pinned(s)'
                 PROVE  ReachedOf(total[boundary[s].owner], curve[boundary[s].owner],
                                  ChangedDays(boundary[s].owner), boundary[s], ha[s])'
      BY DEF Reached
    <2>1. CASE s = o
      <3>1. ChangedDays(boundary[s].owner)' = ChangedDays(u)
        BY <1>1, <1>4, <1>5, <2>1 DEF ChangedDays
      <3>2. QED
        BY <1>1, <1>4, <1>5, <1>9, <2>1, <3>1
    <2>2. CASE s # o
      <3>1. boundary'[s] = boundary[s] /\ Pinned(s)
        BY <1>5, <2>2 DEF Pinned
      <3>2. ChangedDays(boundary[s].owner)' = ChangedDays(boundary[s].owner)
        BY <1>1, <3>1 DEF ChangedDays
      <3>3. QED
        BY <1>1, <3>1, <3>2 DEF Reached
    <2>3. QED
      BY <2>1, <2>2
  <1>11. QED
    BY <1>8, <1>10

LEMMA CoreImport ==
    ASSUME Steady, NEW answered \in BOOLEAN, Import(answered)
    PROVE  Owners' /\ Reached'
  <1> USE DEF Steady, Alone, Safe
  <1> DEFINE u == pass.up
             o == SeriesOf[u]
             b == boundary[o]
  <1>1. /\ pass.at = "importing"
        /\ UNCHANGED <<config, total, curve, stamp, cursor, boundary>>
    BY ImportShape
  <1>2. Owners'
    BY <1>1 DEF Owners, Pinned, HasData, ChangedDays
  <1>3. /\ u \in UsagePoints /\ o \in AllSeries /\ b # None /\ b.owner = u
        /\ \A r \in pass.rows : /\ r.slot \in ReachOf(total[u], curve[u], b)
                                /\ r.sum = SumOf(total[u], curve[u], b, r.slot)
    BY <1>1, Where, SeriesType DEF Typed, Found
  <1>4. ASSUME NEW t \in Slots
        PROVE  \/ ha'[o][t] = ha[o][t]
               \/ /\ ha'[o][t] = SumOf(total[u], curve[u], b, t)
                  /\ t \in ReachOf(total[u], curve[u], b)
    <2>1. \/ ha'[o][t] = ha[o][t]
          \/ \E r \in Chunk(pass.rows) : r.slot = t /\ ha'[o][t] = r.sum
      BY ImportWrites
    <2>2. Chunk(pass.rows) \subseteq pass.rows
      BY DEF Chunk
    <2>3. QED
      BY <1>3, <2>1, <2>2
  <1>5. ReachedOf(total[u], curve[u], ChangedDays(u), b, ha[o])
    BY <1>3 DEF Reached, Pinned
  <1>6. ReachedOf(total[u], curve[u], ChangedDays(u), b, ha'[o])
    <2> HIDE DEF u, o, b
    <2>1. ASSUME NEW t \in Slots, ha'[o][t] # None, DayOf(t) > b.day
          PROVE  t \in ReachOf(total[u], curve[u], b)
      BY <1>4, <1>5, <2>1 DEF ReachedOf
    <2>2. ASSUME NEW t \in ReachOf(total[u], curve[u], b), \A d \in ChangedDays(u) : DayOf(t) < d
          PROVE  RightRow(total[u], curve[u], b, ha'[o][t], t)
      <3>1. t \in Slots
        BY DEF ReachOf
      <3>2. RightRow(total[u], curve[u], b, ha[o][t], t)
        BY <1>5, <2>2 DEF ReachedOf
      <3>3. QED
        BY <1>4, <3>1, <3>2 DEF RightRow
    <2>3. QED
      BY <2>1, <2>2 DEF ReachedOf
  <1>7. \A s \in AllSeries : s # o => ha'[s] = ha[s]
    <2>1. 1 \in Slots
      <3>1. LastDay * DayHours \in Nat \ {0}
        BY HaSeriesAssumption
      <3>2. QED
        BY <3>1 DEF Slots
    <2>2. QED
      BY <2>1, ImportWrites
  <1>8. Reached'
    <2> SUFFICES ASSUME NEW s \in AllSeries, Pinned(s)'
                 PROVE  ReachedOf(total[boundary[s].owner], curve[boundary[s].owner],
                                  ChangedDays(boundary[s].owner), boundary[s], ha[s])'
      BY DEF Reached
    <2>1. ChangedDays(boundary[s].owner)' = ChangedDays(boundary[s].owner) /\ Pinned(s)
      BY <1>1 DEF ChangedDays, Pinned
    <2>2. ReachedOf(total[boundary[s].owner], curve[boundary[s].owner],
                    ChangedDays(boundary[s].owner), boundary[s], ha'[s])
      <3>1. CASE s = o
        BY <1>3, <1>6, <3>1
      <3>2. CASE s # o
        BY <1>7, <2>1, <3>2 DEF Reached
      <3>3. QED
        BY <3>1, <3>2
    <2>3. QED
      BY <1>1, <2>1, <2>2
  <1>9. QED
    BY <1>2, <1>8

\* The cursor advances only when every series is whole.
LEMMA CoreAdvance ==
    ASSUME Steady, AdvanceCursor
    PROVE  Owners' /\ Reached'
  <1> USE DEF Steady, Alone, Safe
  <1>1. /\ pass.at = "exporting" /\ pass.todo = {}
        /\ UNCHANGED <<config, total, curve, stamp, boundary, ha>>
    BY DEF AdvanceCursor, cache
  <1>2. \A u \in config : Whole(u)
    BY <1>1 DEF Underway, Delivering, Current
  <1>3. config \subseteq UsagePoints
    BY HaSeriesAssumption DEF Typed
  <1>4. Owners'
    <2>1. \A s \in AllSeries : Pinned(s)' => boundary'[s].owner \in config'
      BY <1>1 DEF Owners, Pinned
    <2>2. ASSUME NEW w \in config', ~Pinned(SeriesOf[w])', NEW e \in Days, HasData(w, e)'
          PROVE  FALSE
      <3>1. w \in config /\ boundary[SeriesOf[w]] = None /\ HasData(w, e)
        BY <1>1, <2>2 DEF Pinned, HasData
      <3>2. QED
        BY <1>2, <3>1 DEF Whole
    <2>3. QED
      BY <2>1, <2>2 DEF Owners
  <1>5. Reached'
    <2> SUFFICES ASSUME NEW s \in AllSeries, Pinned(s)'
                 PROVE  ReachedOf(total[boundary[s].owner], curve[boundary[s].owner],
                                  ChangedDays(boundary[s].owner), boundary[s], ha[s])'
      BY DEF Reached
    <2> DEFINE b == boundary[s]
               u == b.owner
    <2>1. Pinned(s) /\ b # None /\ u \in config /\ SeriesOf[u] = s
      BY <1>1 DEF Found, Owners, Pinned
    <2>2. \A t \in ReachOf(total[u], curve[u], b) : RightRow(total[u], curve[u], b, ha[s][t], t)
      BY <1>2, <2>1 DEF Whole, RowOf
    <2>3. ReachedOf(total[u], curve[u], ChangedDays(u), b, ha[s])
      BY <2>1 DEF Reached
    <2> DEFINE changed == ChangedDays(boundary[s].owner)'
    <2> HIDE DEF b, u, changed
    <2>4. ReachedOf(total[u], curve[u], changed, b, ha[s])
      BY <2>2, <2>3 DEF ReachedOf
    <2>5. QED
      BY <1>1, <2>4 DEF b, u, changed
  <1>6. QED
    BY <1>4, <1>5

LEMMA CoreStep ==
    ASSUME Pins = {}, OneConfig, Steady, [Next]_vars
    PROVE  Owners' /\ Reached'
  <1>1. CASE UNCHANGED <<config, total, curve, stamp, cursor, boundary, ha>>
    BY <1>1, CoreQuiet DEF Steady
  <1>2. QED
    BY <1>1, CoreFrom, CoreData, CorePin, CoreImport, CoreAdvance DEF Steady, Alone, Safe

------------------------------------------------------------------------------
(***************************************************************************)
(* Underway: what a delivery has done so far.                              *)
(***************************************************************************)

LEMMA PendingIs ==
    ASSUME Typed, NEW job \in Pending
    PROVE  job.up \in config /\ \A d \in ChangedDays(job.up) : job.from <= d
  <1>1. PICK u \in config : /\ ChangedDays(u) # {}
                            /\ job = [up |-> u, from |-> Min(ChangedDays(u))]
    BY DEF Pending
  <1>2. ChangedDays(u) \in SUBSET Nat
    BY Upto DEF ChangedDays
  <1>3. \A d \in ChangedDays(u) : Min(ChangedDays(u)) <= d
    BY <1>1, <1>2, LeastExists
  <1>4. job.up = u /\ job.from = Min(ChangedDays(u))
    BY <1>1
  <1>5. QED
    BY <1>3, <1>4

LEMMA OneSeriesEach ==
    ASSUME Typed, NEW u \in config, NEW w \in config, SeriesOf[u] = SeriesOf[w]
    PROVE  u = w
  BY HaSeriesAssumption DEF Typed

\* A usage point without changes needs no delivery.
LEMMA WholeWithoutChanges ==
    ASSUME Steady, NEW u \in config, ChangedDays(u) = {}
    PROVE  Whole(u)
  <1> USE DEF Steady, Alone, Safe
  <1> DEFINE s == SeriesOf[u]
             b == boundary[s]
  <1>1. u \in UsagePoints /\ s \in AllSeries
    BY HaSeriesAssumption, SeriesType DEF Typed
  <1>2. CASE b = None
    BY <1>2 DEF Whole, Owners, Pinned
  <1>3. CASE b # None
    <2>1. b.owner \in config /\ SeriesOf[b.owner] = s
      BY <1>1, <1>3 DEF Owners, Found, Pinned
    <2>2. b.owner = u
      BY <2>1, OneSeriesEach
    <2>3. ReachedOf(total[u], curve[u], ChangedDays(u), b, ha[s])
      BY <1>1, <1>3, <2>2 DEF Reached, Pinned
    <2>4. \A t \in ReachOf(total[u], curve[u], b) : RightRow(total[u], curve[u], b, ha[s][t], t)
      BY <2>3 DEF ReachedOf
    <2>5. QED
      BY <1>3, <2>4 DEF Whole, RowOf
  <1>4. QED
    BY <1>2, <1>3

\* What is whole stays so while its series and its tables do.
LEMMA WholeKept ==
    ASSUME NEW u, Whole(u), UNCHANGED <<total, curve>>,
           boundary'[SeriesOf[u]] = boundary[SeriesOf[u]], ha'[SeriesOf[u]] = ha[SeriesOf[u]]
    PROVE  Whole(u)'
  BY DEF Whole, HasData, RowOf

\* The obligation of a step that leaves a delivery under way.
Follows ==
    /\ pass.todo \subseteq Pending
    /\ \A u \in config : Current(u) \/ (\E job \in pass.todo : job.up = u) \/ Whole(u)
    /\ pass.at \in {"pinning", "importing"} => pass.up \in config
Written ==
    LET u == pass.up
        b == boundary[SeriesOf[u]]
    IN  \A t \in ReachOf(total[u], curve[u], b) :
          \/ \E r \in pass.rows : r.slot = t
          \/ RightRow(total[u], curve[u], b, RowOf(u, t), t)

LEMMA UnderwayHas ==
    ASSUME Underway
    PROVE  (Delivering => Follows) /\ (pass.at = "importing" => Written)
  BY DEF Underway, Follows, Written

LEMMA PendingKept ==
    ASSUME UNCHANGED <<config, stamp, cursor>>
    PROVE  Pending' = Pending
  BY DEF Pending, ChangedDays

LEMMA UnderwayFeed ==
    ASSUME Steady, ReadFeed
    PROVE  Follows' /\ pass'.at = "exporting"
  <1>1. /\ pass'.at = "exporting" /\ pass'.todo = Pending
        /\ UNCHANGED <<config, total, curve, stamp, cursor, boundary, ha>>
    BY DEF ReadFeed, Exporting, cache
  <1>2. pass'.todo \subseteq Pending'
    BY <1>1, PendingKept
  <1>3. ASSUME NEW u \in config
        PROVE  (\E job \in pass'.todo : job.up = u) \/ Whole(u)'
    <2>1. CASE ChangedDays(u) = {}
      BY <1>1, <2>1, WholeWithoutChanges, WholeKept
    <2>2. CASE ChangedDays(u) # {}
      <3>1. [up |-> u, from |-> Min(ChangedDays(u))] \in Pending
        BY <2>2 DEF Pending
      <3>2. [up |-> u, from |-> Min(ChangedDays(u))].up = u
        OBVIOUS
      <3>3. QED
        BY <1>1, <3>1, <3>2
    <2>3. QED
      BY <2>1, <2>2
  <1>4. QED
    BY <1>1, <1>2, <1>3 DEF Follows

LEMMA UnderwayJob ==
    ASSUME Pins = {}, Steady, NEW job \in Jobs, Continue(job) \/ Discover(job)
    PROVE  Follows' /\ (pass'.at = "importing" => Written')
  <1> USE DEF Steady, Alone, Safe
  <1>1. /\ pass.at = "exporting" /\ job \in pass.todo
        /\ pass'.at \in {"pinning", "importing"} /\ pass'.up = job.up
        /\ pass'.todo = pass.todo \ {job}
    BY DEF Continue, Discover, Importing, Pinning
  <1>2. UNCHANGED <<config, total, curve, stamp, cursor, boundary, ha>>
    BY TypedJob
  <1>3. Follows
    BY <1>1, UnderwayHas DEF Delivering
  <1>4. pass'.todo \subseteq Pending' /\ job \in Pending
    BY <1>1, <1>2, <1>3, PendingKept DEF Follows
  <1>5. job.up \in config /\ \A d \in ChangedDays(job.up) : job.from <= d
    BY <1>4, PendingIs
  <1>6. ASSUME NEW u \in config
        PROVE  Current(u)' \/ (\E j \in pass'.todo : j.up = u) \/ Whole(u)'
    <2>1. ~Current(u)
      BY <1>1 DEF Current
    <2>2. CASE Whole(u)
      BY <1>2, <2>2, WholeKept
    <2>3. CASE \E j \in pass.todo : j.up = u
      <3>1. PICK j \in pass.todo : j.up = u
        BY <2>3
      <3>2. CASE j = job
        BY <1>1, <3>1, <3>2 DEF Current
      <3>3. CASE j # job
        BY <1>1, <3>1, <3>3
      <3>4. QED
        BY <3>2, <3>3
    <2>4. QED
      BY <1>3, <2>1, <2>2, <2>3 DEF Follows
  <1>7. Follows'
    BY <1>1, <1>2, <1>4, <1>5, <1>6 DEF Follows
  <1>8. ASSUME pass'.at = "importing" PROVE Written'
    <2> DEFINE u == job.up
               b == boundary[SeriesOf[u]]
    <2>1. Continue(job)
      BY <1>8 DEF Discover, Pinning
    <2>2. /\ pass'.rows = Rewrite(u, b, job.from) /\ b # None /\ b.owner = u
      BY <2>1 DEF Continue, Importing
    <2>3. u \in UsagePoints /\ SeriesOf[u] \in AllSeries /\ job.from \in Nat
      BY Upto, SeriesType DEF Jobs
    <2>4. ReachedOf(total[u], curve[u], ChangedDays(u), b, ha[SeriesOf[u]])
      BY <2>2, <2>3 DEF Reached, Pinned
    <2>5. ASSUME NEW t \in ReachOf(total[u], curve[u], b)
          PROVE  \/ \E r \in pass'.rows : r.slot = t
                 \/ RightRow(total[u], curve[u], b, RowOf(u, t), t)
      <3>1. DayOf(t) \in Nat
        BY Hours DEF ReachOf
      <3>2. CASE DayOf(t) >= job.from
        BY <2>2, <3>2, RewriteIs
      <3>3. CASE DayOf(t) < job.from
        <4>1. \A d \in ChangedDays(u) : d \in Nat
          BY Upto DEF ChangedDays
        <4>2. \A d \in ChangedDays(u) : DayOf(t) < d
          BY <1>5, <2>3, <3>1, <3>3, <4>1
        <4>3. QED
          BY <2>4, <4>2 DEF ReachedOf, RowOf
      <3>4. QED
        BY <2>3, <3>1, <3>2, <3>3
    <2>6. QED
      BY <1>1, <1>2, <2>5 DEF Written, RowOf
  <1>9. QED
    BY <1>7, <1>8

LEMMA UnderwayPin ==
    ASSUME Pins = {}, Steady, Pin
    PROVE  Follows' /\ Written'
  <1> USE DEF Steady, Alone, Safe
  <1> DEFINE u == pass.up
             o == SeriesOf[u]
             b == pass.new
  <1>1. /\ pass.at = "pinning" /\ boundary' = [boundary EXCEPT ![o] = b]
        /\ pass'.at = "importing" /\ pass'.up = u /\ pass'.todo = pass.todo
        /\ pass'.rows = Rewrite(u, b, pass.from)
        /\ UNCHANGED <<config, total, curve, stamp, cursor, ha>>
    BY DEF Pin, Importing, cache
  <1>2. u \in config /\ u \in UsagePoints /\ o \in AllSeries /\ pass.from = 0
    BY <1>1, Where, SeriesType DEF Typed, Underway, Found
  <1>3. Follows /\ Pending' = Pending
    BY <1>1, UnderwayHas, PendingKept DEF Delivering
  <1>4. boundary'[o] = b /\ \A s \in AllSeries \ {o} : boundary'[s] = boundary[s]
    BY <1>1, <1>2 DEF Typed
  <1>5. ASSUME NEW w \in config
        PROVE  Current(w)' \/ (\E job \in pass'.todo : job.up = w) \/ Whole(w)'
    <2>1. CASE w = u
      BY <1>1, <2>1 DEF Current
    <2>2. CASE w # u
      <3>1. w \in UsagePoints /\ SeriesOf[w] \in AllSeries /\ SeriesOf[w] # o
        BY <1>2, <2>2, HaSeriesAssumption, OneSeriesEach, SeriesType DEF Typed
      <3>2. Whole(w) => Whole(w)'
        BY <1>1, <1>4, <3>1, WholeKept
      <3>3. QED
        BY <1>1, <1>3, <2>2, <3>2 DEF Follows, Current
    <2>3. QED
      BY <2>1, <2>2
  <1>6. Follows'
    BY <1>1, <1>2, <1>3, <1>5 DEF Follows
  <1>7. Written'
    <2>1. ASSUME NEW t \in ReachOf(total[u], curve[u], b)
          PROVE  \E r \in pass'.rows : r.slot = t
      <3>1. DayOf(t) \in Nat
        BY Hours DEF ReachOf
      <3>2. DayOf(t) >= pass.from
        BY <1>2, <3>1
      <3>3. QED
        BY <1>1, <3>2, RewriteIs
    <2> HIDE DEF o, b
    <2>2. QED
      BY <1>1, <1>4, <2>1 DEF Written, o
  <1>8. QED
    BY <1>6, <1>7

LEMMA UnderwayImport ==
    ASSUME Steady, NEW answered \in BOOLEAN, Import(answered), pass'.at = "importing"
    PROVE  Follows' /\ Written'
  <1> USE DEF Steady, Alone, Safe
  <1> DEFINE u == pass.up
             o == SeriesOf[u]
             b == boundary[o]
             chunk == Chunk(pass.rows)
  <1>1. /\ pass.at = "importing"
        /\ UNCHANGED <<config, total, curve, stamp, cursor, boundary>>
    BY ImportShape
  <1>2. pass'.up = u /\ pass'.todo = pass.todo /\ pass'.rows = pass.rows \ chunk
    <2>1. pass' # Idle
      BY DEF Idle
    <2>2. pass' = [at |-> "importing", todo |-> pass.todo, up |-> pass.up,
                   rows |-> pass.rows \ Chunk(pass.rows)]
      BY <2>1, ImportShape
    <2>3. QED
      BY <2>2
  <1>3. u \in config /\ u \in UsagePoints /\ o \in AllSeries
    BY <1>1, Where, SeriesType DEF Typed, Underway
  <1>4. Follows /\ Written /\ Pending' = Pending
    BY <1>1, UnderwayHas, PendingKept DEF Delivering
  <1>5. \A s \in AllSeries : s # o => ha'[s] = ha[s]
    <2>1. 1 \in Slots
      <3>1. LastDay * DayHours \in Nat \ {0}
        BY HaSeriesAssumption
      <3>2. QED
        BY <3>1 DEF Slots
    <2>2. QED
      BY <2>1, ImportWrites
  <1>6. ASSUME NEW w \in config
        PROVE  Current(w)' \/ (\E job \in pass'.todo : job.up = w) \/ Whole(w)'
    <2>1. CASE w = u
      BY <1>2, <2>1 DEF Current
    <2>2. CASE w # u
      <3>1. w \in UsagePoints /\ SeriesOf[w] \in AllSeries /\ SeriesOf[w] # o
        BY <1>3, <2>2, HaSeriesAssumption, OneSeriesEach, SeriesType DEF Typed
      <3>2. Whole(w) => Whole(w)'
        BY <1>1, <1>5, <3>1, WholeKept
      <3>3. QED
        BY <1>2, <1>4, <2>2, <3>2 DEF Follows, Current
    <2>3. QED
      BY <2>1, <2>2
  <1>7. Follows'
    BY <1>1, <1>2, <1>3, <1>4, <1>6 DEF Follows
  <1>8. ASSUME NEW t \in ReachOf(total[u], curve[u], b)
        PROVE  \/ \E r \in pass.rows \ chunk : r.slot = t
               \/ RightRow(total[u], curve[u], b, ha'[o][t], t)
    <2>1. t \in Slots
      BY DEF ReachOf
    <2>2. \/ ha'[o][t] = ha[o][t] /\ (~ \E r \in chunk : r.slot = t)
          \/ \E r \in chunk : r.slot = t /\ ha'[o][t] = r.sum
      BY <2>1, ImportWrites
    <2>3. ASSUME NEW r \in chunk, r.slot = t, ha'[o][t] = r.sum
          PROVE  RightRow(total[u], curve[u], b, ha'[o][t], t)
      <3>1. r \in pass.rows
        BY DEF Chunk
      <3>2. r.sum = SumOf(total[u], curve[u], b, t)
        BY <1>1, <2>3, <3>1 DEF Found
      <3>3. QED
        BY <2>3, <3>2 DEF RightRow
    <2>4. (\E r \in pass.rows : r.slot = t) \/ RightRow(total[u], curve[u], b, ha[o][t], t)
      BY <1>4 DEF Written, RowOf
    <2> HIDE DEF chunk, o, b, u
    <2>5. QED
      BY <2>2, <2>3, <2>4
  <1>9. Written'
    <2> HIDE DEF chunk
    <2>1. QED
      BY <1>1, <1>2, <1>8 DEF Written, RowOf
  <1>10. QED
    BY <1>7, <1>9

LEMMA UnderwayDone ==
    ASSUME Steady, SeriesDone
    PROVE  Follows' /\ pass'.at = "exporting"
  <1> USE DEF Steady, Alone, Safe
  <1>1. /\ pass.at = "importing" /\ pass.rows = {}
        /\ pass'.at = "exporting" /\ pass'.todo = pass.todo
        /\ UNCHANGED <<config, total, curve, stamp, cursor, boundary, ha>>
    BY DEF SeriesDone, Exporting, cache
  <1>2. Follows /\ Written /\ Pending' = Pending
    BY <1>1, UnderwayHas, PendingKept DEF Delivering
  <1>3. Whole(pass.up)
    BY <1>1, <1>2 DEF Written, Whole, Found
  <1>4. ASSUME NEW w \in config
        PROVE  (\E job \in pass'.todo : job.up = w) \/ Whole(w)'
    <2>1. (\E job \in pass'.todo : job.up = w) \/ Whole(w)
      BY <1>1, <1>2, <1>3 DEF Follows, Current
    <2>2. QED
      BY <1>1, <2>1, WholeKept
  <1>5. QED
    BY <1>1, <1>2, <1>4 DEF Follows

LEMMA UnderwayStep ==
    ASSUME Pins = {}, Steady, [Next]_vars
    PROVE  Underway'
  <1> USE DEF Steady, Alone, Safe
  <1>1. ASSUME pass'.at \notin {"exporting", "pinning", "importing"} PROVE Underway'
    BY <1>1 DEF Underway, Delivering
  <1>2. ASSUME Delivering' => Follows', pass'.at = "importing" => Written' PROVE Underway'
    BY <1>2 DEF Underway, Follows, Written, Delivering
  <1>3. CASE Start \/ AdvanceCursor \/ Fail
    BY <1>1, <1>3 DEF Start, AdvanceCursor, Fail, Fetching, Idle
  <1>4. CASE \E u \in UsagePoints, d \in Days :
                \/ \E wh \in Totals : CacheTotal(u, d, wh)
                \/ \E c \in Grids \union {Partial} : CacheCurve(u, d, c)
    BY <1>1, <1>4 DEF CacheTotal, CacheCurve, Fetching
  <1>5. CASE ReadFeed
    <2>1. Follows' /\ pass'.at = "exporting"
      BY <1>5, UnderwayFeed
    <2>2. QED
      BY <1>2, <2>1
  <1>6. ASSUME NEW job \in Jobs, Continue(job) \/ Discover(job) PROVE Underway'
    <2>1. Follows' /\ (pass'.at = "importing" => Written')
      BY <1>6, UnderwayJob
    <2>2. QED
      BY <1>2, <2>1
  <1>7. ASSUME NEW job \in Jobs, Adopt(job) PROVE FALSE
    <2>1. SeriesOf[job.up] \in AllSeries /\ Pinned(SeriesOf[job.up])
          /\ boundary[SeriesOf[job.up]].owner = None
      BY <1>7, SeriesType DEF Adopt, Pinned, Jobs
    <2>2. QED
      BY <2>1, HaSeriesAssumption DEF Found
  <1>8. ASSUME NEW job \in Jobs, RefuseOwner(job) PROVE Underway'
    BY <1>1, <1>8 DEF RefuseOwner, Idle
  <1>9. CASE Pin
    <2>1. Follows' /\ Written'
      BY <1>9, UnderwayPin
    <2>2. QED
      BY <1>2, <2>1
  <1>10. ASSUME NEW answered \in BOOLEAN, Import(answered) PROVE Underway'
    <2>1. CASE pass'.at = "importing"
      <3>1. Follows' /\ Written'
        BY <1>10, <2>1, UnderwayImport
      <3>2. QED
        BY <1>2, <3>1
    <2>2. CASE pass'.at # "importing"
      <3>1. \/ pass' = Idle
            \/ pass' = [at |-> "importing", todo |-> pass.todo, up |-> pass.up,
                        rows |-> pass.rows \ Chunk(pass.rows)]
        BY <1>10, ImportShape
      <3>2. pass' = Idle
        BY <2>2, <3>1
      <3>3. QED
        BY <1>1, <3>2 DEF Idle
    <2>3. QED
      BY <2>1, <2>2
  <1>11. CASE SeriesDone
    <2>1. Follows' /\ pass'.at = "exporting"
      BY <1>11, UnderwayDone
    <2>2. QED
      BY <1>2, <2>1
  <1>12. CASE \E ups \in Configs : Configure(ups)
    BY <1>1, <1>12 DEF Configure, Idle
  <1>13. CASE UNCHANGED vars
    <2>1. UNCHANGED <<config, total, curve, stamp, cursor, boundary, ha, pass>>
      BY <1>13 DEF vars, cache
    <2>2. Pending' = Pending
      BY <2>1, PendingKept
    <2>3. \A u : Whole(u) => Whole(u)'
      BY <2>1, WholeKept
    <2>4. Delivering => Follows'
      <3>1. Delivering => Follows
        BY UnderwayHas
      <3>2. QED
        BY <2>1, <2>2, <2>3, <3>1 DEF Follows, Current
    <2>5. pass.at = "importing" => Written'
      <3>1. pass.at = "importing" => Written
        BY UnderwayHas
      <3>2. QED
        BY <2>1, <3>1 DEF Written, RowOf
    <2>6. QED
      BY <1>2, <2>1, <2>4, <2>5 DEF Delivering
  <1>14. QED
    BY <1>3, <1>4, <1>5, <1>6, <1>7, <1>8, <1>9, <1>10, <1>11, <1>12, <1>13
       DEF Next, Deliver, Jobs

------------------------------------------------------------------------------

LEMMA InitSteady == Init => Steady
  <1> SUFFICES ASSUME Init PROVE Steady
    OBVIOUS
  <1>1. Alone
    BY InitAlone
  <1>2. Stamped
    BY DEF Init, Stamped, HasData
  <1>3. Owners /\ Reached /\ Underway
    <2>1. \A s \in AllSeries : ~Pinned(s)
      BY DEF Init, Pinned
    <2>2. config \subseteq UsagePoints
      BY HaSeriesAssumption DEF Init
    <2>3. \A u \in UsagePoints, d \in Days : ~HasData(u, d)
      BY DEF Init, HasData
    <2>4. Owners
      BY <2>1, <2>2, <2>3 DEF Owners
    <2>5. Reached
      BY <2>1 DEF Reached
    <2>6. Underway
      BY DEF Init, Underway, Delivering, Idle
    <2>7. QED
      BY <2>4, <2>5, <2>6
  <1>4. QED
    BY <1>1, <1>2, <1>3 DEF Steady

LEMMA SteadyStep ==
    ASSUME Pins = {}, OneConfig
    PROVE  Steady /\ [Next]_vars => Steady'
  <1> SUFFICES ASSUME Steady, [Next]_vars PROVE Steady'
    OBVIOUS
  <1>1. Alone' /\ Stamped'
    BY AloneStep, StampedStep DEF Steady, Alone, Safe
  <1>2. Owners' /\ Reached' /\ Underway'
    BY CoreStep, UnderwayStep
  <1>3. QED
    BY <1>1, <1>2 DEF Steady

LEMMA InvariantContinues == Steady => Continues
  <1> SUFFICES ASSUME Steady, NEW u \in config, Delivered(u),
                      NEW r \in SeriesRows(u, boundary[SeriesOf[u]])
               PROVE  \/ RowOf(u, r.slot) = r.sum
                      \/ RowOf(u, r.slot) = None /\ ~HasData(u, DayOf(r.slot))
    BY DEF Continues
  <1> DEFINE b == boundary[SeriesOf[u]]
  <1>1. Whole(u) /\ b # None
    BY WholeWithoutChanges DEF Delivered, Pinned
  <1>2. PICK t \in ReachOf(total[u], curve[u], b) :
            r = [slot |-> t, sum |-> SumOf(total[u], curve[u], b, t)]
    BY SeriesRowsAre
  <1>3. RightRow(total[u], curve[u], b, RowOf(u, t), t)
    BY <1>1 DEF Whole
  <1>4. r.slot = t /\ r.sum = SumOf(total[u], curve[u], b, t)
    BY <1>2
  <1>5. QED
    BY <1>3, <1>4 DEF RightRow, HasData

\* Whatever the history, the earlier rows, the totals and curves that come and change, the
\* passes that fail and the requests that are lost, once the cursor has passed all that
\* changed Home Assistant holds the series as the cache makes it: each sum continues the
\* boundary's (home_assistant.py, export and build_statistics).  The two hypotheses are
\* needed: a pin over an export under way, and a usage point that comes back to the
\* configuration, each break it.
THEOREM SeriesContinue ==
    ASSUME Pins = {}, \A a, b \in Configs : a = b
    PROVE  Spec => []Continues
  <1>1. OneConfig
    BY DEF OneConfig
  <1>2. QED
    BY <1>1, InitSteady, SteadyStep, InvariantContinues, PTL DEF Spec
==============================================================================
