------------------------------ MODULE SyncPass -------------------------------
(***************************************************************************)
(* What a pass asks the gateway for (sync.py, run_pass, sync_usage_point   *)
(* and sync_dataset): each usage point's backlog, read once when its turn  *)
(* comes; consent first; then, one dataset after the other, the windows of *)
(* Planning, each answered, empty, refused, or the end of the turn.  The   *)
(* Paris calendar advances at any moment, but a pass keeps the day it      *)
(* started on.                                                             *)
(*                                                                         *)
(* The pass is alone (ChangeFeed shows what its lock is for).  The customer*)
(* resources are kept to what they do to the turn.                         *)
(***************************************************************************)
EXTENDS Planning

CONSTANTS
    UsagePoints,
    Datasets,
    Curves,         \* the datasets whose days may be published partially
    WindowDays,     \* by dataset, the widest window of one call
    HistoryDays,    \* by dataset, how far back a pass looks
    StartDay,       \* the calendar starts here
    LastDay         \* bound: and stops here

ASSUME SyncPassAssumption ==
    /\ Curves \subseteq Datasets
    /\ StartDay \in Nat /\ LastDay \in Nat /\ StartDay <= LastDay
    /\ WindowDays \in [Datasets -> Nat \ {0}]
    /\ HistoryDays \in [Datasets -> 1..(StartDay - 1)]

VARIABLES
    day,    \* the Paris day, by the clock
    got,    \* the metering tables: what they hold of each day
    gaps,   \* table confirmed_gap
    pass    \* where the pass is

vars == <<day, got, gaps, pass>>

Days == 1..(LastDay - 1)
Holding == {"nothing", "part", "whole"}

Idle == [at |-> "idle"]
Points(today, left) == [at |-> "points", today |-> today, left |-> left]
Turn(at, u, todo) == [at |-> at, today |-> pass.today, left |-> pass.left, up |-> u, todo |-> todo]

Init ==
    /\ day = StartDay
    /\ got = [u \in UsagePoints |-> [ds \in Datasets |-> [d \in Days |-> "nothing"]]]
    /\ gaps = [u \in UsagePoints |-> [ds \in Datasets |-> {}]]
    /\ pass = Idle

Tomorrow ==
    /\ day < LastDay
    /\ day' = day + 1
    /\ UNCHANGED <<got, gaps, pass>>

------------------------------------------------------------------------------

HistoryStart(ds, today) == today - HistoryDays[ds]
UnsettledFrom(today) == today - (SettleDays - 1)

WithData(u, ds) == {d \in Days : got[u][ds][d] # "nothing"}
Backlog(u, ds, today) ==
    MissingDays(HistoryStart(ds, today), today, WithData(u, ds) \union gaps[u][ds])

\* The unsettled days of a curve that hold part of a grid.
\* (Mutant: the oldest of them is taken for settled.)
PartialDaysShort(u, ds, today) ==
    {d \in (UnsettledFrom(today) + 1)..(today - 1) :
        ds \in Curves /\ d >= HistoryStart(ds, today) /\ got[u][ds][d] = "part"}
PartialDays(u, ds, today) ==
    {d \in UnsettledFrom(today)..(today - 1) :
        ds \in Curves /\ d >= HistoryStart(ds, today) /\ got[u][ds][d] = "part"}

StartPass ==
    /\ pass = Idle
    /\ pass' = Points(day, UsagePoints)
    /\ UNCHANGED <<day, got, gaps>>

\* A usage point's turn: consent is asked for when something is to be fetched, a
\* customer resource (`due`) or a day of its backlog.
Todo(u) == [ds \in Datasets |-> Backlog(u, ds, pass.today)]

TakeTurn(u, due) ==
    /\ pass.at = "points" /\ u \in pass.left
    /\ pass' =
        IF ~due /\ \A ds \in Datasets : Todo(u)[ds] = {}
        THEN Points(pass.today, pass.left \ {u})
        ELSE [Turn("consent", u, Todo(u)) EXCEPT !.left = @ \ {u}]
    /\ UNCHANGED <<day, got, gaps>>

\* Consent granted, and the customer resources done with: the datasets.
Consent ==
    /\ pass.at = "consent"
    /\ pass' = [pass EXCEPT !.at = "datasets"]
    /\ UNCHANGED <<day, got, gaps>>

\* Consent refused or not obtained; or a quota, token or transport failure on a
\* customer resource or a window: the turn is over.
EndTurn ==
    /\ pass.at \in {"consent", "fetching"}
    /\ pass' = Points(pass.today, pass.left)
    /\ UNCHANGED <<day, got, gaps>>

TurnDone ==
    /\ pass.at = "datasets" /\ DOMAIN pass.todo = {}
    /\ pass' = Points(pass.today, pass.left)
    /\ UNCHANGED <<day, got, gaps>>

EndPass ==
    /\ pass.at = "points" /\ pass.left = {}
    /\ pass' = Idle
    /\ UNCHANGED <<day, got, gaps>>

\* The process dies; what it cached stays.
Crash ==
    /\ pass # Idle
    /\ pass' = Idle
    /\ UNCHANGED <<day, got, gaps>>

------------------------------------------------------------------------------
(***************************************************************************)
(* One dataset.                                                            *)
(***************************************************************************)

Others(ds) == [e \in DOMAIN pass.todo \ {ds} |-> pass.todo[e]]

\* Datasets are taken in any order, which only matters to what a refusal leaves.
\* Nothing missing plans no window, whatever is partial.
PlanDataset(ds) ==
    /\ pass.at = "datasets" /\ ds \in DOMAIN pass.todo
    /\ LET missing == pass.todo[ds]
           partial == IF missing = {} THEN {} ELSE PartialDays(pass.up, ds, pass.today)
       IN  pass' = [at |-> "fetching", today |-> pass.today, left |-> pass.left,
                    up |-> pass.up, todo |-> Others(ds), ds |-> ds,
                    missing |-> missing, partial |-> partial,
                    windows |-> PlanWindows(missing, WindowDays[ds], partial)]
    /\ UNCHANGED <<day, got, gaps>>

Asked(w) == {d \in pass.missing : Holds(w, d)}

\* The gateway's cache is not for a window with a partial day or an unsettled one
\* to fetch.  (Mutant: partial days are forgotten.)
UseCacheForPartial(w) == \A d \in Asked(w) : d < UnsettledFrom(pass.today)
UseCache(w) ==
    /\ \A d \in pass.partial : ~Holds(w, d)
    /\ \A d \in Asked(w) : d < UnsettledFrom(pass.today)

Fetching == pass.at = "fetching" /\ pass.windows # <<>>
NextWindow == [pass EXCEPT !.windows = Tail(@)]

\* An answer holds all or part of some days, and of the day after the window too.
Answers(w, ds) ==
    LET kinds == IF ds \in Curves THEN {"part", "whole"} ELSE {"whole"}
    IN  UNION {[S -> kinds] : S \in SUBSET {d \in Days : w.start <= d /\ d <= w.end}}
Clamp(w, answer) == {d \in DOMAIN answer : Holds(w, d)}

\* A complete day stays complete; parts may add up to a complete day (`completed`).
Cached(w, answer, completed) ==
    [d \in Days |->
        IF d \notin Clamp(w, answer) THEN got[pass.up][pass.ds][d]
        ELSE IF d \in completed \/ answer[d] = "whole" THEN "whole"
        ELSE IF got[pass.up][pass.ds][d] = "whole" THEN "whole" ELSE "part"]
MayComplete(w, answer) ==
    {d \in Clamp(w, answer) : answer[d] = "part" /\ got[pass.up][pass.ds][d] = "part"}

\* An answer is cached, then the asked-for days it left out become gaps if they
\* are settled: two transactions, and the process may die in between.
FetchAnswer(answer, confirmed) ==
    LET w == Head(pass.windows)
    IN  /\ Fetching
        /\ answer \in Answers(w, pass.ds)
        /\ \E completed \in SUBSET MayComplete(w, answer) :
              got' = [got EXCEPT ![pass.up][pass.ds] = Cached(w, answer, completed)]
        /\ IF confirmed
           THEN /\ gaps' = [gaps EXCEPT ![pass.up][pass.ds] =
                        @ \union SettledGaps(Asked(w), Clamp(w, answer), pass.today)]
                /\ pass' = NextWindow
           ELSE /\ gaps' = gaps
                /\ pass' = Idle
        /\ UNCHANGED day

\* The gateway holds nothing for the window (404) or refuses it (400): gaps when
\* all its missing days are settled, otherwise asked for again by the next pass.
Settled(w) == \A d \in Asked(w) : d <= pass.today - SettleDays

FetchNothing ==
    LET w == Head(pass.windows)
    IN  /\ Fetching
        /\ gaps' = IF Settled(w)
                   THEN [gaps EXCEPT ![pass.up][pass.ds] =
                            @ \union SettledGaps(Asked(w), {}, pass.today)]
                   ELSE gaps
        /\ pass' = NextWindow
        /\ UNCHANGED <<day, got>>

\* No window left, or another GatewayError: the next dataset.
DatasetDone ==
    /\ pass.at = "fetching"
    /\ pass' = Turn("datasets", pass.up, pass.todo)
    /\ UNCHANGED <<day, got, gaps>>

------------------------------------------------------------------------------

AnswerFor(u, ds, d) ==
    /\ Fetching /\ pass.up = u /\ pass.ds = ds /\ Holds(Head(pass.windows), d)
    /\ \E answer \in Answers(Head(pass.windows), ds) : FetchAnswer(answer, TRUE)

Next ==
    \/ Tomorrow
    \/ StartPass
    \/ \E u \in UsagePoints, due \in BOOLEAN : TakeTurn(u, due)
    \/ Consent
    \/ EndTurn
    \/ TurnDone
    \/ EndPass
    \/ Crash
    \/ \E ds \in Datasets : PlanDataset(ds)
    \/ /\ Fetching
       /\ \E answer \in Answers(Head(pass.windows), pass.ds), confirmed \in BOOLEAN :
             FetchAnswer(answer, confirmed)
    \/ FetchNothing
    \/ DatasetDone

Spec == Init /\ [][Next]_vars

\* The days go by and the scheduler starts a pass after the other.  Consent is
\* given, a turn goes on, and a window is answered, again and again: no crash,
\* refusal or empty answer comes every time at the same place.
FairSpec ==
    /\ Spec
    /\ WF_vars(Tomorrow) /\ WF_vars(StartPass) /\ SF_vars(EndPass)
    /\ SF_vars(Consent) /\ SF_vars(TurnDone)
    /\ SF_vars(pass.at = "fetching" /\ pass.windows = <<>> /\ DatasetDone)
    /\ \A u \in UsagePoints :
        /\ SF_vars(\E due \in BOOLEAN : TakeTurn(u, due))
        /\ \A ds \in Datasets :
            /\ SF_vars(pass.at = "datasets" /\ pass.up = u /\ PlanDataset(ds))
            /\ \A d \in Days : SF_vars(AnswerFor(u, ds, d))

------------------------------------------------------------------------------

Windows == [start : Days, end : 2..LastDay]
TypeOK ==
    /\ day \in StartDay..LastDay
    /\ got \in [UsagePoints -> [Datasets -> [Days -> Holding]]]
    /\ gaps \in [UsagePoints -> [Datasets -> SUBSET Days]]
    /\ pass.at \in {"idle", "points", "consent", "datasets", "fetching"}
    /\ pass # Idle => pass.today \in StartDay..day /\ pass.left \subseteq UsagePoints
    /\ pass.at \in {"consent", "datasets", "fetching"} =>
        /\ pass.up \in UsagePoints \ pass.left
        /\ DOMAIN pass.todo \subseteq Datasets
        /\ \A ds \in DOMAIN pass.todo : pass.todo[ds] \subseteq Days
    /\ pass.at = "fetching" =>
        /\ pass.ds \in Datasets \ DOMAIN pass.todo
        /\ pass.missing \subseteq Days /\ pass.partial \subseteq Days
        /\ Range(pass.windows) \subseteq Windows

\* The windows of a dataset ask for every missing day once, in as few calls as
\* possible; a partial day never costs a call, and stretching a window to it never
\* makes it too long or reach into another one (planning.py, plan_windows and
\* _stretch_to).
PlanIsRight ==
    pass.at = "fetching" =>
        LET max == WindowDays[pass.ds]
            plan == PlanWindows(pass.missing, max, pass.partial)
        IN  /\ Len(plan) = Fewest(pass.missing, max)
            /\ \A d \in pass.missing : Cardinality({i \in DOMAIN plan : Holds(plan[i], d)}) = 1
            /\ \A i \in DOMAIN plan : Length(plan[i]) <= max
            /\ \A i, j \in DOMAIN plan : i < j => plan[j].end <= plan[i].start

\* "It rides along in the windows of the missing days - and each new day brings one,
\* yesterday" (sync.py, partial_days): when yesterday is missing, no unsettled day
\* that holds part of a curve is left out of the plan.
RidesAlong ==
    pass.at = "fetching" /\ pass.today - 1 \in pass.missing =>
        LET plan == PlanWindows(pass.missing, WindowDays[pass.ds], pass.partial)
        IN  \A d \in UnsettledFrom(pass.today)..(pass.today - 1) :
                /\ d >= HistoryStart(pass.ds, pass.today)
                /\ got[pass.up][pass.ds][d] = "part" /\ pass.ds \in Curves
                /\ WindowDays[pass.ds] >= SettleDays - 1
                => \E i \in DOMAIN plan : Holds(plan[i], d)

\* A window asked from the gateway's cache, whose copy may be a partial answer,
\* holds no unsettled day but those the local cache has whole (sync_dataset).
FreshAnswers ==
    Fetching /\ UseCache(Head(pass.windows)) =>
        \A d \in UnsettledFrom(pass.today)..(pass.today - 1) :
            Holds(Head(pass.windows), d) => got[pass.up][pass.ds][d] = "whole"

\* "Only an empty answer obtained this long after the day is taken as final"
\* (planning.py): a day is given up when it is settled by the clock, though the pass
\* may have started days before, and never a day the cache has data of.
GivenUpWhenSettled ==
    [][\A u \in UsagePoints, ds \in Datasets : \A d \in gaps'[u][ds] \ gaps[u][ds] :
          d <= day - SettleDays /\ got'[u][ds][d] = "nothing"]_vars

\* "A usage point's history window is kept COMPLETE ... until the gateway has either
\* delivered it or confirmed ... that it has nothing for that day" (planning.py):
\* every day old enough to be settled, and in the history, ends delivered or
\* confirmed, whatever is refused, empty or interrupted on the way.
HistoryCompletes ==
    \A u \in UsagePoints, ds \in Datasets :
        \A d \in HistoryStart(ds, LastDay)..(LastDay - SettleDays) :
            <>(d \in WithData(u, ds) \union gaps[u][ds])
==============================================================================
