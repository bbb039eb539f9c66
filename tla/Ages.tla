--------------------------------- MODULE Ages ---------------------------------
(***************************************************************************)
(* Instants, as the program compares them.  It only ever asks how long ago *)
(* an instant was or how many Paris days ago (clock.py, paris_today), so   *)
(* an instant is kept as its age, up to the age from which nothing tells   *)
(* it from an older one, and the clock runs for ever.                      *)
(***************************************************************************)
EXTENDS Integers

CONSTANT DayTicks       \* ticks of a Paris day

ASSUME AgesAssumption == DayTicks \in Nat \ {0}

VARIABLE tickOfDay

TicksOfDay == 0..(DayTicks - 1)

\* The age of what never happened.
Never == -1
Aged(cap) == {Never} \union 0..cap

Older(age, cap) == IF age = Never THEN Never ELSE IF age < cap THEN age + 1 ELSE cap

\* A Paris day, as days ago, gets older at midnight.
AtMidnight == tickOfDay = DayTicks - 1
OlderDay(day, cap) == IF AtMidnight THEN Older(day, cap) ELSE day

AdvanceClock == tickOfDay' = (tickOfDay + 1) % DayTicks
===============================================================================
