------------------------------- MODULE ParisDay -------------------------------
(***************************************************************************)
(* A Paris civil day and its wall clock (clock.py, and datetime with the   *)
(* zone Europe/Paris): plain, or 23 or 25 hours long when the clocks       *)
(* change.  An instant of the day is in ticks from its start; a wall-clock *)
(* time is in ticks too.                                                   *)
(***************************************************************************)
EXTENDS Integers

CONSTANTS
    HourTicks,      \* ticks in an hour
    Hours,          \* hours in a plain day
    SwitchHour      \* the wall-clock hour that is skipped in March, repeated in October

ASSUME ParisDayAssumption ==
    /\ HourTicks \in Nat \ {0}
    /\ Hours \in Nat
    /\ SwitchHour \in Nat \ {0}
    /\ SwitchHour + 1 < Hours

Kinds == {"plain", "spring", "autumn"}
HoursOf(kind) ==
    CASE kind = "spring" -> Hours - 1
      [] kind = "autumn" -> Hours + 1
      [] OTHER -> Hours
Length(kind) == HourTicks * HoursOf(kind)
Switch == HourTicks * SwitchHour
Midnight == HourTicks * Hours

\* From the midnight that starts the day to the one that ends it, both on the clock.
Instants(kind) == 0..Length(kind)
Walls == 0..Midnight

\* What the clock shows.  (Mutant: the clocks do not change.)
WallUnswitched(kind, t) == t
Wall(kind, t) ==
    CASE kind = "spring" /\ t >= Switch -> t + HourTicks
      [] kind = "autumn" /\ t >= Switch + HourTicks -> t - HourTicks
      [] OTHER -> t

InSwitch(w) == Switch <= w /\ w < Switch + HourTicks
Exists(kind, w) == kind = "spring" => ~InSwitch(w)

\* The instant of a wall-clock time: the second one of a repeated time when `fold` is
\* 1.  A time that does not exist is read with the offset before the switch, or, when
\* `fold` is 1, the one after it.
Switched(w, fold) == w >= Switch + HourTicks \/ (InSwitch(w) /\ fold = 1)
AtParis(kind, w, fold) ==
    CASE kind = "spring" /\ Switched(w, fold) -> w - HourTicks
      [] kind = "autumn" /\ Switched(w, fold) -> w + HourTicks
      [] OTHER -> w

\* An instant is the second occurrence of its wall-clock time.
Second(kind, t) == kind = "autumn" /\ Switch + HourTicks <= t /\ t < Switch + 2 * HourTicks
===============================================================================
