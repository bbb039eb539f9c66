------------------------------ MODULE Scheduler -------------------------------
(***************************************************************************)
(* The daemon's thread (scheduler.py): a job every interval, health, and   *)
(* the end of the process.  The first delay, five seconds, is less than a  *)
(* tick, and so are the fifteen minutes is_healthy adds to two intervals.  *)
(***************************************************************************)
EXTENDS Ages

CONSTANTS
    Interval,       \* ticks from the end of a pass to the next one
    MaxPass         \* bound: ticks a pass may take

ASSUME SchedulerAssumption == Interval \in Nat \ {0} /\ MaxPass \in Nat \ {0}

VARIABLES
    thread,         \* waiting, running the job, or ended, the process with it
    stop,           \* event _stop
    delay,          \* ticks the thread still waits
    since,          \* age of last_pass_started, or of the time the first pass was due
    crashed,        \* last_pass_crashed
    took            \* history: ticks the last pass took, or has been taking

schedulerVars == <<thread, stop, delay, since, crashed, took>>

MaxSince == MaxPass + Interval

Start ==
    /\ thread' = "waiting" /\ stop' = FALSE
    /\ delay' = 0 /\ since' = 0
    /\ crashed' = FALSE /\ took' = 0

Up == thread # "ended"

\* The wait is over.
Begin ==
    /\ thread = "waiting" /\ delay = 0 /\ ~stop
    /\ thread' = "running" /\ since' = 0 /\ took' = 0
    /\ UNCHANGED <<stop, delay, crashed>>

JobEnds(crash) ==
    /\ thread = "running"
    /\ thread' = "waiting" /\ delay' = Interval /\ crashed' = crash
    /\ UNCHANGED <<stop, since, took>>

\* The server is told to end: the thread leaves its wait, or its loop when the job
\* is done; a job that outlasts the ten seconds of the join dies with the process.
Stop ==
    /\ Up /\ ~stop
    /\ stop' = TRUE
    /\ UNCHANGED <<thread, delay, since, crashed, took>>
EndThread ==
    /\ thread' = "ended"
    /\ stop' = FALSE /\ delay' = 0 /\ since' = 0 /\ crashed' = FALSE /\ took' = 0
\* (Mutant: the loop is left before the job is done.)
LeaveEarly == Up /\ stop /\ EndThread
Leave == thread = "waiting" /\ stop /\ EndThread
Die == Up /\ EndThread

\* A wait that is over, or a stop, is acted on within the tick.
SchedulerTick ==
    /\ Up => ~stop /\ (thread = "waiting" => delay > 0)
    /\ delay' = IF thread = "waiting" THEN delay - 1 ELSE delay
    /\ since' = IF Up THEN Older(since, MaxSince) ELSE since
    /\ took' = IF thread = "running" THEN Older(took, MaxPass) ELSE took
    /\ UNCHANGED <<thread, stop, crashed>>

\* Alive, the last pass did not crash, and none is overdue or stuck.  (Mutant: a
\* pass is overdue after one interval.)
IsHealthyTight == Up /\ ~crashed /\ since <= Interval
IsHealthy == Up /\ ~crashed /\ since <= 2 * Interval

SchedulerTypeOK ==
    /\ thread \in {"waiting", "running", "ended"}
    /\ stop \in BOOLEAN /\ crashed \in BOOLEAN
    /\ delay \in 0..Interval /\ since \in 0..MaxSince /\ took \in 0..MaxPass

\* The health check raises no false alarm: without a crash, the daemon is reported
\* unhealthy only when a pass takes longer than the interval (is_healthy compares
\* with the start of the last pass, whatever the length of that pass).
NoFalseAlarm == Up /\ ~crashed /\ ~IsHealthy => took > Interval
===============================================================================
