------------------------------ MODULE CurveDay -------------------------------
(***************************************************************************)
(* The arithmetic of one series day of a load curve (curve.py): when its   *)
(* points are a complete grid, and of which step.  A point is the end of   *)
(* its interval, in ticks from the start of the Paris day, so the points   *)
(* of a day are in 1..DayLength.  A day is a whole number of hours (23, 24 *)
(* or 25 of them when the clocks change).                                  *)
(***************************************************************************)
EXTENDS Integers, FiniteSets

CONSTANTS DayLength, HourTicks

ASSUME CurveDayAssumption ==
    /\ HourTicks \in Nat \ {0}
    /\ DayLength \in Nat \ {0}
    /\ DayLength % HourTicks = 0

Points == 1..DayLength

\* Mutant: the number of points is not required to divide the day.
GridStepRounded(S) ==
    LET n == Cardinality(S)
        step == DayLength \div n
    IN  IF S # {} /\ HourTicks % step = 0 /\ S = {step * k : k \in 1..n} THEN step ELSE 0

\* The step of the grid the points S make, or 0 (None) when they make none: they
\* are as many as the steps of the day, at the end of every step, and the step
\* divides an hour.
GridStep(S) ==
    LET n == Cardinality(S)
        step == DayLength \div n
    IN  IF /\ S # {}
           /\ DayLength % n = 0
           /\ HourTicks % step = 0
           /\ S = {step * k : k \in 1..n}
        THEN step ELSE 0

Complete(S) == GridStep(S) # 0
==============================================================================
