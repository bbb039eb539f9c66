------------------------------ MODULE Planning -------------------------------
(***************************************************************************)
(* What to ask the gateway for (planning.py): the windows that cover the   *)
(* days still to fetch, newest first, stretched to the days worth asking   *)
(* for again; and the days that are given up.  Days are integers, a window *)
(* is [start, end).                                                        *)
(***************************************************************************)
EXTENDS Integers, FiniteSets, SequencesExt

CONSTANT SettleDays     \* an empty answer this long after the day is final

ASSUME PlanningAssumption == SettleDays \in Nat \ {0}

Window(start, end) == [start |-> start, end |-> end]
Holds(w, d) == w.start <= d /\ d < w.end
Length(w) == w.end - w.start

\* Mutant: the day that has not ended is asked for too.
MissingDaysOfToday(start, end, known) == (start..end) \ known
MissingDays(start, end, known) == (start..(end - 1)) \ known

\* A missing day joins the last window if its span allows, or starts the next.
\* Mutant: a window one day too long.
CoverLonger(windows, d, max) ==
    IF windows # <<>> /\ d >= Last(windows).end - max - 1
    THEN [windows EXCEPT ![Len(windows)].start = d]
    ELSE Append(windows, Window(d, d + 1))
Cover(windows, d, max) ==
    IF windows # <<>> /\ d >= Last(windows).end - max
    THEN [windows EXCEPT ![Len(windows)].start = d]
    ELSE Append(windows, Window(d, d + 1))

\* The newest window that can take in the day without spanning more than `max`.
Stretched(w, d) ==
    Window(IF d < w.start THEN d ELSE w.start, IF d >= w.end THEN d + 1 ELSE w.end)
StretchTo(windows, d, max) ==
    LET fits == {i \in DOMAIN windows : Length(Stretched(windows[i], d)) <= max}
    IN  IF fits = {} THEN windows
        ELSE [windows EXCEPT ![Min(fits)] = Stretched(@, d)]

Refresh(windows, d, max) ==
    IF \E i \in DOMAIN windows : Holds(windows[i], d) THEN windows
    ELSE StretchTo(windows, d, max)

\* Both folds take the newest day first: the oldest one is what the last step adds.
Covering(missing, max) ==
    MapThenFoldSet(LAMBDA d, ws : Cover(ws, d, max), <<>>, LAMBDA d : d, Min, missing)
PlanWindows(missing, max, refresh) ==
    MapThenFoldSet(LAMBDA d, ws : Refresh(ws, d, max), Covering(missing, max),
                   LAMBDA d : d, Min, refresh)

\* Mutants: a day too early, a day too late.
SettledGapsEarly(asked, delivered, today) ==
    {d \in asked \ delivered : d <= today - SettleDays + 1}
SettledGapsLate(asked, delivered, today) ==
    {d \in asked \ delivered : d < today - SettleDays}
SettledGaps(asked, delivered, today) ==
    {d \in asked \ delivered : d <= today - SettleDays}

\* What a plan is for, without the greedy order: the fewest windows of `max` days,
\* each ending at a missing day, that hold every missing day.
Fewest(missing, max) ==
    LET covers(ends) ==
            \A d \in missing : \E e \in ends : Holds(Window(e - max + 1, e + 1), d)
    IN  CHOOSE n \in 0..Cardinality(missing) :
            /\ \E ends \in SUBSET missing : Cardinality(ends) = n /\ covers(ends)
            /\ \A ends \in SUBSET missing : covers(ends) => n <= Cardinality(ends)
==============================================================================
