----------------------------- MODULE ChangeFeed ------------------------------
(***************************************************************************)
(* How what a pass fetches reaches the sinks: the metering tables of the   *)
(* store with the run that last changed each row (upsert_daily,            *)
(* upsert_peaks, upsert_curve), the journal of dropped load-curve points,  *)
(* the export cursors, and the passes that write and deliver, one at a     *)
(* time under the pass lock (sync.py, run_pass and export).  The sink is   *)
(* the one that takes deltas, InfluxDB (exporters/influxdb.py).            *)
(*                                                                         *)
(* The curve is that of one series day: days share nothing but the run and *)
(* the cursor.  Rows stand for the tables a row never leaves, daily energy *)
(* and power peaks.                                                        *)
(***************************************************************************)
EXTENDS CurveDay

CONSTANTS
    Procs,      \* the processes that may run a pass: the daemon, `releve sync`
    Sinks,      \* the destinations
    Refusing,   \* those that refuse every deletion (VictoriaMetrics)
    Rows,       \* keys of daily_energy and power_peak
    Values,     \* what a row or a point may hold
    Watts,      \* what a point may hold
    Absent,     \* no such row
    MaxRun      \* bound: the number of passes

ASSUME ChangeFeedAssumption ==
    /\ Refusing \subseteq Sinks
    /\ Rows \cap Points = {}
    /\ Watts \subseteq Values
    /\ Absent \notin Values
    /\ MaxRun \in Nat

VARIABLES
    lastRun,    \* the last id of table run (AUTOINCREMENT: never reused)
    value,      \* the metering tables: Absent, or the value of the row
    stamp,      \* their column run_id; 0 when there is no row
    removed,    \* table load_curve_removed: its run_id; 0 when there is no row
    cursor,     \* table export_cursor; 0 when there is no row
    held,       \* what each sink holds
    pass        \* what each process is doing

store == <<lastRun, value, stamp, removed>>
vars  == <<store, cursor, held, pass>>

Keys == Rows \union Points
Runs == 0..MaxRun
Deltas == Keys \X Values
Idle == [at |-> "idle"]

\* A pass fetches, then delivers to the exporters its configuration has left, one
\* after the other: the deletions first, then the writes.
Deliveries == [at : {"delivering"}, run : Runs, left : SUBSET Sinks, sink : Sinks,
               dels : SUBSET Points, writes : SUBSET Deltas]
Passes ==
    {Idle}
    \union [at : {"fetching"}, run : Runs]
    \union [at : {"exporting"}, run : Runs, left : SUBSET Sinks]
    \union Deliveries

Init ==
    /\ lastRun = 0
    /\ value = [k \in Keys |-> Absent]
    /\ stamp = [k \in Keys |-> 0]
    /\ removed = [k \in Points |-> 0]
    /\ cursor = [s \in Sinks |-> 0]
    /\ held = [s \in Sinks |-> [k \in Keys |-> Absent]]
    /\ pass = [p \in Procs |-> Idle]

------------------------------------------------------------------------------
(***************************************************************************)
(* The pass and its lock.                                                  *)
(***************************************************************************)

\* Mutant: every process takes its own lock.
OwnPassOver(p) == pass[p] = Idle

\* The lock is free when no process is in a pass; it dies with its holder.
LockFree(p) == \A q \in Procs : pass[q] = Idle

Start(p) ==
    /\ LockFree(p)
    /\ lastRun < MaxRun
    /\ lastRun' = lastRun + 1
    /\ pass' = [pass EXCEPT ![p] = [at |-> "fetching", run |-> lastRun + 1]]
    /\ UNCHANGED <<value, stamp, removed, cursor, held>>

Finish(p) ==
    /\ pass[p].at = "exporting"
    /\ pass[p].left = {}
    /\ pass' = [pass EXCEPT ![p] = Idle]
    /\ UNCHANGED <<store, cursor, held>>

Crash(p) ==
    /\ pass[p] # Idle
    /\ pass' = [pass EXCEPT ![p] = Idle]
    /\ UNCHANGED <<store, cursor, held>>

------------------------------------------------------------------------------
(***************************************************************************)
(* Caching an answer.                                                      *)
(***************************************************************************)

\* Mutant: the run is taken one ahead.
StampedAhead(k, v, run) == IF value[k] = v THEN stamp[k] ELSE run + 1

\* Only a row whose value changes is stamped with the run.
Stamped(k, v, run) == IF value[k] = v THEN stamp[k] ELSE run

UpsertRow(p, k, v) ==
    /\ pass[p].at = "fetching"
    /\ value' = [value EXCEPT ![k] = v]
    /\ stamp' = [stamp EXCEPT ![k] = Stamped(k, v, pass[p].run)]
    /\ UNCHANGED <<lastRun, removed, cursor, held, pass>>

Cached == {k \in Points : value[k] # Absent}

\* Mutant: a complete answer always replaces the day.
CachesAnyGrid(S) == Complete(Cached) => Complete(S)

\* A complete day only changes for a grid at least as fine.
Caches(S) == Complete(Cached) => Complete(S) /\ GridStep(S) <= GridStep(Cached)

\* A complete answer drops the points that are not on its grid.
Dropped(S) == IF Complete(S) THEN Cached \ S ELSE {}

\* The dropped points are journaled under the run.
Journal(S, run) == [k \in Points |-> IF k \in Dropped(S) THEN run ELSE removed[k]]

UpsertCurve(p, answer) ==
    LET S == DOMAIN answer
        run == pass[p].run
    IN  /\ pass[p].at = "fetching"
        /\ Caches(S)
        /\ value' = [k \in Keys |-> IF k \in S THEN answer[k]
                                    ELSE IF k \in Dropped(S) THEN Absent ELSE value[k]]
        /\ stamp' = [k \in Keys |-> IF k \in S THEN Stamped(k, answer[k], run)
                                    ELSE IF k \in Dropped(S) THEN 0 ELSE stamp[k]]
        /\ removed' = Journal(S, run)
        /\ UNCHANGED <<lastRun, cursor, held, pass>>

\* The fetching is over; `left` is what the configuration of the process enables.
FetchingDone(p, left) ==
    /\ pass[p].at = "fetching"
    /\ pass' = [pass EXCEPT ![p] = [at |-> "exporting", run |-> pass[p].run, left |-> left]]
    /\ UNCHANGED <<store, cursor, held>>

------------------------------------------------------------------------------
(***************************************************************************)
(* Delivering.                                                             *)
(***************************************************************************)

\* The change feed: changed_* and removed_curve of (after_run, up_to_run].
Since(run, after, upTo) == after < run /\ run <= upTo
RemovedCurve(after, upTo) == {k \in Points : Since(removed[k], after, upTo)}
Changed(after, upTo) ==
    {d \in Deltas : Since(stamp[d[1]], after, upTo) /\ d[2] = value[d[1]]}

\* The cursor is read, then what changed since.
Export(p, s) ==
    /\ pass[p].at = "exporting"
    /\ s \in pass[p].left
    /\ pass' = [pass EXCEPT ![p] =
            [at |-> "delivering", run |-> @.run, left |-> @.left \ {s}, sink |-> s,
             dels |-> RemovedCurve(cursor[s], @.run),
             writes |-> Changed(cursor[s], @.run)]]
    /\ UNCHANGED <<store, cursor, held>>

\* A request the sink took may still fail for the pass, its answer lost: then
\* ExportError ends the delivery and the cursor stays.
Exporting(run, left) == [at |-> "exporting", run |-> run, left |-> left]
Without(d, dels, writes) ==
    [at |-> "delivering", run |-> d.run, left |-> d.left, sink |-> d.sink,
     dels |-> d.dels \ dels, writes |-> d.writes \ writes]
After(answered, d, next) == IF answered THEN next ELSE Exporting(d.run, d.left)

Delete(p, k, answered) ==
    /\ pass[p].at = "delivering"
    /\ pass[p].sink \notin Refusing
    /\ k \in pass[p].dels
    /\ held' = [held EXCEPT ![pass[p].sink][k] = Absent]
    /\ pass' = [pass EXCEPT ![p] = After(answered, @, Without(@, {k}, {}))]
    /\ UNCHANGED <<store, cursor>>

\* HTTP 4xx, or no delete endpoint: final, and the delivery goes on.
RefuseDeletes(p) ==
    /\ pass[p].at = "delivering"
    /\ pass[p].sink \in Refusing
    /\ pass[p].dels # {}
    /\ pass' = [pass EXCEPT ![p] = Without(@, @.dels, {})]
    /\ UNCHANGED <<store, cursor, held>>

\* The writes wait for the deletions.  A batch, or as much of it as the sink took
\* before the request failed.
Write(p, batch, answered) ==
    /\ pass[p].at = "delivering"
    /\ pass[p].dels = {}
    /\ batch # {} /\ batch \subseteq pass[p].writes
    /\ held' = [held EXCEPT ![pass[p].sink] =
            [k \in Keys |-> IF \E v \in Values : <<k, v>> \in batch
                            THEN CHOOSE v \in Values : <<k, v>> \in batch ELSE @[k]]]
    /\ pass' = [pass EXCEPT ![p] = After(answered, @, Without(@, {}, batch))]
    /\ UNCHANGED <<store, cursor>>

\* The sink is unreachable, or refuses: nothing was taken.
Fail(p) ==
    /\ pass[p].at = "delivering"
    /\ pass[p].dels # {} \/ pass[p].writes # {}
    /\ pass' = [pass EXCEPT ![p] = Exporting(@.run, @.left)]
    /\ UNCHANGED <<store, cursor, held>>

\* Everything is delivered: the cursor advances to the run.
AdvanceCursor(p) ==
    /\ pass[p].at = "delivering"
    /\ pass[p].dels = {} /\ pass[p].writes = {}
    /\ cursor' = [cursor EXCEPT ![pass[p].sink] = pass[p].run]
    /\ pass' = [pass EXCEPT ![p] = Exporting(@.run, @.left)]
    /\ UNCHANGED <<store, held>>

------------------------------------------------------------------------------

Answer == UNION {[S -> Watts] : S \in (SUBSET Points) \ {{}}}

Next ==
    \E p \in Procs :
        \/ Start(p)
        \/ \E k \in Rows, v \in Values : UpsertRow(p, k, v)
        \/ \E answer \in Answer : UpsertCurve(p, answer)
        \/ \E left \in SUBSET Sinks : FetchingDone(p, left)
        \/ \E s \in Sinks : Export(p, s)
        \/ \E k \in Points, answered \in BOOLEAN : Delete(p, k, answered)
        \/ RefuseDeletes(p)
        \/ \E batch \in SUBSET Deltas, answered \in BOOLEAN : Write(p, batch, answered)
        \/ Fail(p)
        \/ AdvanceCursor(p)
        \/ Finish(p)
        \/ Crash(p)

Spec == Init /\ [][Next]_vars

------------------------------------------------------------------------------

TypeOK ==
    /\ lastRun \in Runs
    /\ value \in [Keys -> Values \union {Absent}]
    /\ stamp \in [Keys -> Runs]
    /\ removed \in [Points -> Runs]
    /\ cursor \in [Sinks -> Runs]
    /\ held \in [Sinks -> [Keys -> Values \union {Absent}]]
    /\ pass \in [Procs -> Passes]

\* A sink holds what the cache holds of every row and point without a change past
\* its cursor; a point the cache dropped stays only in a sink that refuses
\* deletions.  "Whatever failed is delivered next time" (exporters/__init__.py):
\* no crash, no failed or half-applied delivery, no restart of a pass and no
\* other process ever makes a cursor skip a change.
Settled(s, k) ==
    /\ stamp[k] <= cursor[s]
    /\ k \in Points => removed[k] <= cursor[s]

Agrees(s, k) ==
    \/ held[s][k] = value[k]
    \/ s \in Refusing /\ value[k] = Absent

Mirror == \A s \in Sinks, k \in Keys : Settled(s, k) => Agrees(s, k)

\* "A day's curve only ever gets better" (store.py upsert_curve): whatever is
\* answered, in whatever order, a complete day stays complete, at a step at least
\* as fine.
OnlyGetsBetter ==
    [][Complete(Cached) => Complete(Cached') /\ GridStep(Cached') <= GridStep(Cached)]_vars
==============================================================================
