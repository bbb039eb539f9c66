------------------------------- MODULE Answers --------------------------------
(***************************************************************************)
(* What the program makes of the numbers the gateway answers: the readings *)
(* of a load curve put back on exact instants (gateway.py,                 *)
(* parse_load_curve), the day judged as a grid (curve.py), its energy      *)
(* split by hour (hourly_energy) and by tariff period (tariffs.py), and    *)
(* the hours of an Ecowatt signal (parse_ecowatt).                         *)
(*                                                                         *)
(* The state is that of parse_load_curve's loop over the readings of one   *)
(* Paris day; the rest is a function of the points it has made.  The       *)
(* answer is in time order, may leave readings out and may repeat some.    *)
(***************************************************************************)
EXTENDS ParisDay, SequencesExt

CONSTANTS
    Tariffs,        \* texts of off-peak hours: sets of [from, to], each <<hour, tick>>
    None,           \* no usable range
    MaxRepeats      \* bound: readings the answer repeats

ASSUME AnswersAssumption ==
    /\ Tariffs \subseteq SUBSET [from : Nat \X Nat, to : Nat \X Nat]
    /\ MaxRepeats \in Nat

VARIABLES
    kind,       \* the kind of day
    told,       \* history: the instants the readings are of, in the answer's order
    seen,       \* the wall-clock times read so far
    points      \* the watts by instant of the interval's end; 0 for none

vars == <<kind, told, seen, points>>

Grid(length) == INSTANCE CurveDay WITH DayLength <- length

\* A reading's watts: which reading of the answer it is.
Repeats == Len(told) - Cardinality(Range(told))

Init ==
    /\ kind \in Kinds
    /\ told = <<>>
    /\ seen = {}
    /\ points = [t \in Instants(kind) |-> 0]

\* The answer is in time order, but for the repeats.
After(answer) == Last(answer) + (IF Repeats < MaxRepeats THEN 0 ELSE 1)

\* Mutant: the hour repeated in October is read as its first occurrence.
FoldFirst(wall) == 0

\* The second time a wall-clock time is read, it is the later instant.
Fold(wall) == IF wall \in seen THEN 1 ELSE 0

\* One turn of the loop; of two readings of one instant the last one wins.
Read(t) ==
    LET wall == Wall(kind, t)
    IN  /\ told # <<>> => t >= After(told)
        /\ told' = Append(told, t)
        /\ seen' = seen \union {wall}
        /\ points' = [points EXCEPT ![AtParis(kind, wall, Fold(wall))] = Len(told) + 1]
        /\ UNCHANGED kind

Next == \E t \in Instants(kind) : Read(t)

Spec == Init /\ [][Next]_vars

------------------------------------------------------------------------------
(***************************************************************************)
(* The curve of the day.                                                   *)
(***************************************************************************)

\* The points of the day: a midnight end closes the day before.
Curve == {t \in Instants(kind) : t > 0 /\ points[t] # 0}
Step == Grid(Length(kind))!GridStep(Curve)
Complete == Step # 0

\* An interval starts a step before its end.  (Mutant: it is taken at its end.)
StartAtEnd(t) == t
Start(t) == t - Step
EnergyOf(ends) == SumFunctionOnSet([t \in Curve |-> points[t] * Step], ends)

\* The energy of each hour, in watts times ticks.
DayHours == 0..(HoursOf(kind) - 1)
HourlyEnergy == [h \in DayHours |-> EnergyOf({t \in Curve : Start(t) \div HourTicks = h})]

------------------------------------------------------------------------------
(***************************************************************************)
(* Tariff periods.                                                         *)
(***************************************************************************)

Time(raw) == (raw[1] % Hours) * HourTicks + raw[2]
Usable(raw) ==
    /\ raw.from[2] < HourTicks /\ raw.to[2] < HourTicks
    /\ Time(raw.from) # Time(raw.to)
ParseOffpeak(text) ==
    IF text = {} \/ \E raw \in text : ~Usable(raw) THEN None
    ELSE {<<Time(raw.from), Time(raw.to)>> : raw \in text}

\* Ranges of wall-clock time; one may cross midnight.
InRange(ranges, w) ==
    \E r \in ranges : \/ r[1] < r[2] /\ r[1] <= w /\ w < r[2]
                      \/ r[1] > r[2] /\ (w >= r[1] \/ w < r[2])
Offpeak(ranges, t) == InRange(ranges, Wall(kind, t) % Midnight)

\* The energy of the off-peak period, and of the other.
OffpeakEnergy(ranges) == EnergyOf({t \in Curve : Offpeak(ranges, Start(t))})
PeakEnergy(ranges) == EnergyOf({t \in Curve : ~Offpeak(ranges, Start(t))})

------------------------------------------------------------------------------
(***************************************************************************)
(* Ecowatt hours.                                                          *)
(***************************************************************************)

\* Mutant: the hour March skips is taken all the same.
ShownAlways(w) == TRUE

\* A level stamped at an hour that does not exist is left out.
Shown(w) == Wall(kind, AtParis(kind, w, 0)) = w

\* Levels keyed by wall-clock time, where the repeated hour is there once, or by a
\* stamp that carries its offset and names its instant.
EcowattHours(walls, instants) ==
    {[stamp |-> w, at |-> AtParis(kind, w, 0)] : w \in {w \in walls : Shown(w)}}
      \union {[stamp |-> Wall(kind, t), at |-> t] : t \in instants}

\* The day of a signal: the one its hours fall in, or the day after its key.
SignalDay(walls, instants, keyDay) ==
    LET hours == EcowattHours(walls, instants)
    IN  IF hours = {} THEN keyDay + 1
        ELSE IF Min({h.at : h \in hours}) < Length(kind) THEN 0 ELSE 1

------------------------------------------------------------------------------

TypeOK ==
    /\ kind \in Kinds
    /\ told \in Seq(Instants(kind))
    /\ seen \subseteq Walls
    /\ points \in [Instants(kind) -> 0..Len(told)]

Told(t) == {i \in DOMAIN told : told[i] = t}
Namesakes(t) == {u \in Instants(kind) : Wall(kind, u) = Wall(kind, t)}
Unambiguous(t) ==
    Namesakes(t) # {t} => \A u \in Namesakes(t) :
        /\ Cardinality(Told(u)) <= 1
        /\ u < t => Told(u) # {}

\* "Load-curve points with their interval ENDS made unambiguous" (parse_load_curve): a
\* reading lands on the instant it is of, whatever the kind of day and whatever the
\* answer leaves out, and of two readings of one instant the last one wins.  Nothing
\* but the order tells the two occurrences of a repeated time apart, so this is said
\* of one whose first occurrence is in the answer, neither being repeated; and no
\* reading ever lands on an instant of another wall-clock time.
InstantsRecovered ==
    /\ \A t \in Range(told) : Unambiguous(t) => points[t] = Max(Told(t))
    /\ \A u \in Instants(kind) : points[u] # 0 => told[points[u]] \in Namesakes(u)

\* grid_step finds the step of every grid of points, and only of grids, whether the
\* day has its usual length, an hour less or an hour more.
GridStepIsRight ==
    \A step \in 1..Length(kind) : Step = step <=>
        /\ HourTicks % step = 0
        /\ Curve = {t \in Instants(kind) : t > 0 /\ t % step = 0}

\* The watts during a tick are those of the interval it is in.
During(tick) == points[Min({t \in Curve : t > tick})]
Ticks == 0..(Length(kind) - 1)
Integral(ticks) == SumFunctionOnSet([tick \in Ticks |-> During(tick)], ticks)
OnGrid(ranges) == \A r \in ranges : r[1] % Step = 0 /\ r[2] % Step = 0

\* The energy of a complete day is its power summed over time, hour by hour
\* (hourly_energy), and by period when the periods start and end between intervals
\* (daily_energy_by_period): no hour skipped or repeated by the clocks, and no range
\* that crosses midnight, loses energy or counts it twice.
EnergyKept ==
    Complete =>
        /\ \A h \in DayHours : HourlyEnergy[h] = Integral({t \in Ticks : t \div HourTicks = h})
        /\ \A text \in Tariffs :
              LET ranges == ParseOffpeak(text)
              IN  ranges # None =>
                    /\ OffpeakEnergy(ranges) + PeakEnergy(ranges) = Integral(Ticks)
                    /\ OnGrid(ranges) =>
                          OffpeakEnergy(ranges) = Integral({t \in Ticks : Offpeak(ranges, t)})

\* The hours the gateway may stamp: of those read, and the one March skips, which it
\* stamps all the same; or the instants read.
Stamps == {w \in seen : w % HourTicks = 0 /\ w < Midnight} \union
          {w \in Walls : ~Exists(kind, w) /\ w % HourTicks = 0}
Zoned == {t \in Range(told) : t % HourTicks = 0 /\ t < Length(kind)}

\* The levels kept are those of the hours the day has, every one of them, each at the
\* hour its stamp names, so two never share an hour; both occurrences of the repeated
\* hour are kept when the stamps tell them apart; and the signal keyed one day early is
\* dated by the day of its hours.
LevelsInPlace ==
    /\ {h.stamp : h \in EcowattHours(Stamps, {})} = {w \in Stamps : Exists(kind, w)}
    /\ \A h, g \in EcowattHours(Stamps, {}) : h.at = g.at => h = g
    /\ {h.at : h \in EcowattHours({}, Zoned)} = Zoned
    /\ \A h \in EcowattHours(Stamps, Zoned) : Wall(kind, h.at) = h.stamp
    /\ SignalDay(Stamps, Zoned, -1) = 0
===============================================================================
