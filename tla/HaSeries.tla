------------------------------- MODULE HaSeries -------------------------------
(***************************************************************************)
(* The Home Assistant exporter (exporters/home_assistant.py): one          *)
(* statistics series per usage point and direction, made of hourly rows    *)
(* that hold a cumulative sum.  A series starts at a pinned boundary, the  *)
(* last (day, sum) Home Assistant held before the first import; a delivery *)
(* rewrites it from the earliest day that changed since the cursor.        *)
(*                                                                         *)
(* The pass is alone (ChangeFeed shows what its lock is for), but          *)
(* `releve ha-boundary --set` takes no lock and runs between any two of    *)
(* its steps.  A usage point stands for one of its directions.             *)
(***************************************************************************)
EXTENDS Integers, FiniteSets, FiniteSetsExt, Functions

CONSTANTS
    UsagePoints,
    SeriesOf,       \* the statistic id the configured template gives each usage point
    Configs,        \* the sets of usage points a configuration may name
    Earlier,        \* what an earlier integration may have left in a series
    LastDay,        \* days are 1..LastDay
    DayHours,       \* hours in a day
    Totals,         \* the daily totals, in the unit of the sums
    Grids,          \* the hours a complete curve may measure: functions on 1..DayHours
    Pins,           \* the [day, sum] a user may pin with `ha-boundary --set`
    RowsPerImport,  \* rows in one import request
    None,           \* no value, no row, no usage point
    Partial,        \* a curve that is not a complete grid
    MaxRun          \* bound: the number of passes

ASSUME HaSeriesAssumption ==
    /\ Configs \subseteq SUBSET UsagePoints
    \* config.py: two usage points never share a series.
    /\ \A config \in Configs : \A u, w \in config : SeriesOf[u] = SeriesOf[w] => u = w
    /\ LastDay \in Nat \ {0} /\ DayHours \in Nat \ {0} /\ RowsPerImport \in Nat \ {0}
    /\ Totals \subseteq Nat
    /\ Grids \subseteq [1..DayHours -> Nat]
    /\ Earlier \subseteq [1..(LastDay * DayHours) -> Nat \union {None}]
    /\ Pins \subseteq [day : 0..LastDay, sum : Nat]
    /\ MaxRun \in Nat
    /\ None \notin Nat /\ None \notin UsagePoints /\ None \notin Grids /\ Partial \notin Grids
    /\ None # Partial
    /\ None \notin [day : Nat, sum : Nat, owner : UsagePoints \union {None}]

VARIABLES
    lastRun,    \* the id of the last pass
    config,     \* the usage points of the running configuration
    total,      \* table daily_energy
    curve,      \* table load_curve, one series day at a time
    stamp,      \* the last run that changed anything of a day; 0 when it has no data
    cursor,     \* table export_cursor, its row for this sink; 0 when there is none
    boundary,   \* table ha_boundary
    ha,         \* what Home Assistant holds: the sum of each hour's row
    pass        \* where the pass is

cache == <<total, curve, stamp>>
vars  == <<lastRun, config, cache, cursor, boundary, ha, pass>>

Days == 1..LastDay
Slots == 1..(LastDay * DayHours)        \* the hours, numbered from the first day
DayOf(t) == ((t - 1) \div DayHours) + 1
HourOf(t) == ((t - 1) % DayHours) + 1
AllSeries == {SeriesOf[u] : u \in UsagePoints}

\* base_day None is day 0; an unpinned series has no boundary.
Boundary(day, sum, owner) == [day |-> day, sum |-> sum, owner |-> owner]
Pinned(s) == boundary[s] # None

Idle == [at |-> "idle"]
Fetching == [at |-> "fetching"]
Exporting(todo) == [at |-> "exporting", todo |-> todo]

Init ==
    /\ lastRun = 0
    /\ config \in Configs
    /\ total = [u \in UsagePoints |-> [d \in Days |-> None]]
    /\ curve = [u \in UsagePoints |-> [d \in Days |-> None]]
    /\ stamp = [u \in UsagePoints |-> [d \in Days |-> 0]]
    /\ cursor = 0
    /\ boundary = [s \in AllSeries |-> None]
    /\ ha \in [AllSeries -> Earlier]
    /\ pass = Idle

------------------------------------------------------------------------------
(***************************************************************************)
(* The rows of a series.                                                   *)
(***************************************************************************)

\* The days with data after the boundary.
HasData(u, d) == total[u][d] # None \/ curve[u][d] # None
Owned(u, b) == {d \in Days : d > b.day /\ HasData(u, d)}

\* A complete curve gives its hours; any other day's total lands on the last hour.
Energy(u, t) ==
    LET d == DayOf(t)
    IN  IF curve[u][d] \in Grids THEN curve[u][d][HourOf(t)]
        ELSE IF total[u][d] # None /\ HourOf(t) = DayHours THEN total[u][d] ELSE 0

\* Every hour from the first owned day to the last, summed from the boundary.
Span(days) == {t \in Slots : DayOf(t) >= Min(days) /\ DayOf(t) <= Max(days)}
SumAt(u, b, t) ==
    b.sum + SumFunction([e \in {e \in Span(Owned(u, b)) : e <= t} |-> Energy(u, e)])
SeriesRows(u, b) ==
    IF Owned(u, b) = {} THEN {}
    ELSE {[slot |-> t, sum |-> SumAt(u, b, t)] : t \in Span(Owned(u, b))}

\* Mutant: the rewrite keeps to the day that changed.
RewriteDayOnly(u, b, from) == {r \in SeriesRows(u, b) : from = 0 \/ DayOf(r.slot) = from}

\* What one delivery rewrites: everything (`from` = 0), or the rows from a day on.
Rewrite(u, b, from) == {r \in SeriesRows(u, b) : DayOf(r.slot) >= from}

------------------------------------------------------------------------------
(***************************************************************************)
(* The pass: fetching.                                                     *)
(***************************************************************************)

Start ==
    /\ pass = Idle
    /\ lastRun < MaxRun
    /\ lastRun' = lastRun + 1
    /\ pass' = Fetching
    /\ UNCHANGED <<config, cache, cursor, boundary, ha>>

\* Only a row that changes is stamped.
CacheTotal(u, d, wh) ==
    /\ pass = Fetching
    /\ u \in config
    /\ total[u][d] # wh
    /\ total' = [total EXCEPT ![u][d] = wh]
    /\ stamp' = [stamp EXCEPT ![u][d] = lastRun]
    /\ UNCHANGED <<lastRun, config, curve, cursor, boundary, ha, pass>>

\* A complete day only changes for another grid; the points a grid replaces are
\* journaled under the run, a change of their day too.
CacheCurve(u, d, c) ==
    /\ pass = Fetching
    /\ u \in config
    /\ curve[u][d] # c
    /\ curve[u][d] \in Grids => c \in Grids
    /\ curve' = [curve EXCEPT ![u][d] = c]
    /\ stamp' = [stamp EXCEPT ![u][d] = lastRun]
    /\ UNCHANGED <<lastRun, config, total, cursor, boundary, ha, pass>>

------------------------------------------------------------------------------
(***************************************************************************)
(* The pass: delivering.                                                   *)
(***************************************************************************)

\* earliest_changed_day, of what the cursor has not passed.
ChangedDays(u) == {d \in Days : stamp[u][d] > cursor}
Pending == {[up |-> u, from |-> Min(ChangedDays(u))] : u \in {u \in config : ChangedDays(u) # {}}}

ReadFeed ==
    /\ pass = Fetching
    /\ pass' = Exporting(Pending)
    /\ UNCHANGED <<lastRun, config, cache, cursor, boundary, ha>>

Pinning(job, b, from) ==
    [at |-> "pinning", todo |-> pass.todo \ {job}, up |-> job.up, new |-> b, from |-> from]
Importing(todo, u, b, from) ==
    [at |-> "importing", todo |-> todo, up |-> u, rows |-> Rewrite(u, b, from)]

\* The series has a boundary, and it is this usage point's.
Continue(job) ==
    LET b == boundary[SeriesOf[job.up]]
    IN  /\ pass.at = "exporting" /\ job \in pass.todo
        /\ b # None /\ b.owner = job.up
        /\ pass' = Importing(pass.todo \ {job}, job.up, b, job.from)
        /\ UNCHANGED <<lastRun, config, cache, cursor, boundary, ha>>

\* A boundary the user pinned belongs to the first usage point that exports to it.
Adopt(job) ==
    LET b == boundary[SeriesOf[job.up]]
    IN  /\ pass.at = "exporting" /\ job \in pass.todo
        /\ b # None /\ b.owner = None
        /\ pass' = Pinning(job, [b EXCEPT !.owner = job.up], job.from)
        /\ UNCHANGED <<lastRun, config, cache, cursor, boundary, ha>>

\* Mutant: another usage point goes on with the series as it is.
RefuseOwnerNever(job) ==
    LET b == boundary[SeriesOf[job.up]]
    IN  /\ pass.at = "exporting" /\ job \in pass.todo
        /\ b # None /\ b.owner \notin {job.up, None}
        /\ pass' = Importing(pass.todo \ {job}, job.up, b, job.from)
        /\ UNCHANGED <<lastRun, config, cache, cursor, boundary, ha>>

\* A series pinned for another usage point: ExportError.
RefuseOwner(job) ==
    LET b == boundary[SeriesOf[job.up]]
    IN  /\ pass.at = "exporting" /\ job \in pass.todo
        /\ b # None /\ b.owner \notin {job.up, None}
        /\ pass' = Idle
        /\ UNCHANGED <<lastRun, config, cache, cursor, boundary, ha>>

\* The last row Home Assistant holds of the series; a series without rows starts
\* at 0, before every day.  (Mutants: the day of that row is ours too; the boundary
\* is given to the series instead of the usage point.)
Held(s) == {t \in Slots : ha[s][t] # None}
DiscoveredEarly(s, u) ==
    IF Held(s) = {} THEN Boundary(0, 0, u)
    ELSE Boundary(DayOf(Max(Held(s))) - 1, ha[s][Max(Held(s))], u)
DiscoveredForSeries(s, u) ==
    IF Held(s) = {} THEN Boundary(0, 0, s)
    ELSE Boundary(DayOf(Max(Held(s))), ha[s][Max(Held(s))], s)
Discovered(s, u) ==
    IF Held(s) = {} THEN Boundary(0, 0, u)
    ELSE Boundary(DayOf(Max(Held(s))), ha[s][Max(Held(s))], u)

\* A new boundary: everything it owns is written.
Discover(job) ==
    /\ pass.at = "exporting" /\ job \in pass.todo
    /\ ~Pinned(SeriesOf[job.up])
    /\ pass' = Pinning(job, Discovered(SeriesOf[job.up], job.up), 0)
    /\ UNCHANGED <<lastRun, config, cache, cursor, boundary, ha>>

Pin ==
    /\ pass.at = "pinning"
    /\ boundary' = [boundary EXCEPT ![SeriesOf[pass.up]] = pass.new]
    /\ pass' = Importing(pass.todo, pass.up, pass.new, pass.from)
    /\ UNCHANGED <<lastRun, config, cache, cursor, ha>>

\* One import request, of the oldest rows left; the answer may be lost.
Chunk(rows) ==
    {r \in rows : Cardinality({e \in rows : e.slot < r.slot}) < RowsPerImport}

Import(answered) ==
    LET chunk == Chunk(pass.rows)
    IN  /\ pass.at = "importing" /\ pass.rows # {}
        /\ ha' = [ha EXCEPT ![SeriesOf[pass.up]] =
                [t \in Slots |-> IF \E r \in chunk : r.slot = t
                                 THEN (CHOOSE r \in chunk : r.slot = t).sum ELSE @[t]]]
        /\ pass' = IF answered THEN [pass EXCEPT !.rows = @ \ chunk] ELSE Idle
        /\ UNCHANGED <<lastRun, config, cache, cursor, boundary>>

SeriesDone ==
    /\ pass.at = "importing" /\ pass.rows = {}
    /\ pass' = Exporting(pass.todo)
    /\ UNCHANGED <<lastRun, config, cache, cursor, boundary, ha>>

AdvanceCursor ==
    /\ pass.at = "exporting" /\ pass.todo = {}
    /\ cursor' = lastRun
    /\ pass' = Idle
    /\ UNCHANGED <<lastRun, config, cache, boundary, ha>>

\* The exchange fails (ExportError), or the process dies.
Fail ==
    /\ pass # Idle
    /\ pass' = Idle
    /\ UNCHANGED <<lastRun, config, cache, cursor, boundary, ha>>

------------------------------------------------------------------------------
(***************************************************************************)
(* The user.                                                               *)
(***************************************************************************)

\* `releve ha-boundary --set`: the boundary and the cursor in one transaction.
SetBoundary(s, pin) ==
    /\ boundary' = [boundary EXCEPT ![s] = Boundary(pin.day, pin.sum, None)]
    /\ cursor' = 0
    /\ UNCHANGED <<lastRun, config, cache, ha, pass>>

\* The configuration changes, and the program restarts.
Configure(ups) ==
    /\ pass = Idle
    /\ config' = ups
    /\ UNCHANGED <<lastRun, cache, cursor, boundary, ha, pass>>

------------------------------------------------------------------------------

Deliver ==
    \/ ReadFeed
    \/ \E job \in [up : UsagePoints, from : Days] :
          Continue(job) \/ Adopt(job) \/ RefuseOwner(job) \/ Discover(job)
    \/ Pin
    \/ \E answered \in BOOLEAN : Import(answered)
    \/ SeriesDone
    \/ AdvanceCursor

Next ==
    \/ Start
    \/ \E u \in UsagePoints, d \in Days :
          \/ \E wh \in Totals : CacheTotal(u, d, wh)
          \/ \E c \in Grids \union {Partial} : CacheCurve(u, d, c)
    \/ Deliver
    \/ Fail
    \/ \E s \in AllSeries, pin \in Pins : SetBoundary(s, pin)
    \/ \E ups \in Configs : Configure(ups)

Spec == Init /\ [][Next]_vars

------------------------------------------------------------------------------

Jobs == [up : UsagePoints, from : Days]
Sums == Nat \union {None}
Boundaries == [day : Days \union {0}, sum : Nat, owner : UsagePoints \union {None}]

TypeOK ==
    /\ lastRun \in 0..MaxRun
    /\ config \in Configs
    /\ total \in [UsagePoints -> [Days -> Totals \union {None}]]
    /\ curve \in [UsagePoints -> [Days -> Grids \union {None, Partial}]]
    /\ stamp \in [UsagePoints -> [Days -> 0..MaxRun]]
    /\ cursor \in 0..MaxRun
    /\ boundary \in [AllSeries -> Boundaries \union {None}]
    /\ ha \in [AllSeries -> [Slots -> Sums]]
    /\ \/ pass \in {Idle, Fetching}
       \/ /\ pass.at \in {"exporting", "pinning", "importing"}
          /\ pass.todo \subseteq Jobs
          /\ pass.at \in {"pinning", "importing"} => pass.up \in UsagePoints
          /\ pass.at = "pinning" => pass.new \in Boundaries /\ pass.from \in Days \union {0}
          /\ pass.at = "importing" => pass.rows \subseteq [slot : Slots, sum : Nat]

\* Whatever the cursor has passed, Home Assistant holds the series as the cache makes
\* it, each sum continuing the boundary's: a delivery that rewrites from the earliest
\* change on leaves no sum behind that an older day has shifted, and a failed one is
\* made up for ("whatever failed is delivered next time", exporters/__init__.py).
\* A day without data may have no row.
Delivered(u) ==
    /\ Pinned(SeriesOf[u]) /\ boundary[SeriesOf[u]].owner = u
    /\ ChangedDays(u) = {}
RowOf(u, t) == ha[SeriesOf[u]][t]

Continues ==
    \A u \in config : Delivered(u) =>
        \A r \in SeriesRows(u, boundary[SeriesOf[u]]) :
            \/ RowOf(u, r.slot) = r.sum
            \/ RowOf(u, r.slot) = None /\ ~HasData(u, DayOf(r.slot))

\* "It owns every day after the boundary, never touches anything before it": the
\* boundary an export pins leaves to others every day Home Assistant holds rows of by
\* then, and no import ever writes a day the boundary in force leaves to others.
NeverBefore ==
    [][\A s \in AllSeries :
        /\ ~Pinned(s) /\ Pinned(s)' /\ boundary'[s].owner # None
              => \A t \in Held(s) : DayOf(t) <= boundary'[s].day
        /\ \A t \in Slots : ha'[s][t] # ha[s][t] => Pinned(s) /\ DayOf(t) > boundary[s].day]_vars

\* "PINS that (day, sum) ... for this usage point": once a usage point owns a series
\* only the user changes its boundary, whatever usage points come and go; and the rows of
\* a series are written by its owner alone, or by the exporter whose series the user pins
\* while it imports.
PinnedOnce ==
    [][\A s \in AllSeries :
        /\ Pinned(s) /\ boundary[s].owner # None /\ boundary'[s] # boundary[s]
              => boundary'[s].owner = None
        /\ ha'[s] # ha[s] => Pinned(s) /\ boundary[s].owner \in {pass.up, None}]_vars
==============================================================================
