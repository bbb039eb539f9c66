------------------------------ MODULE Publication -----------------------------
(***************************************************************************)
(* The published state of a usage point (state.py), and the retained MQTT  *)
(* topics it goes to (exporters/mqtt.py): a delivery composes every message*)
(* from the cache as it is, whatever was delivered before, and the broker  *)
(* may end up with some of them only.  The state of the grid, published    *)
(* the same way, is left out.                                              *)
(*                                                                         *)
(* The daily totals are one watt-hour a day, so a total says how many days *)
(* it counts.  A day is named by how many days ago it is.                  *)
(***************************************************************************)
EXTENDS Ages, FiniteSetsExt

CONSTANT Window     \* days of the longest total published

ASSUME PublicationAssumption == Window \in Nat \ {0}

VARIABLES
    have,           \* the days of daily_energy
    broker,         \* the retained topics
    shown           \* history: a delivery was complete under this configuration

publicationVars == <<have, broker, shown>>

Topics == {"sensor", "state"}

\* Days ago from which a delivery is as good as an older one.
Stale == 1

\* No such day, or no such total.
Unknown == -1
Blank == [day |-> Never, yesterday |-> Unknown, window |-> Unknown, latest |-> Unknown]
Absent == [sensor |-> FALSE, state |-> Blank]

PublicationInit ==
    /\ have = {} /\ shown = FALSE
    /\ broker = Absent

\* Mutant: the days that are there are summed.
TotalOfSome(days) == Cardinality(days \intersect have)

\* A total, or nothing when a day of it is missing.
Total(days) == IF days \subseteq have THEN Cardinality(days) ELSE Unknown

State(consumption) ==
    IF ~consumption THEN [Blank EXCEPT !.day = 0]
    ELSE [day |-> 0,
          yesterday |-> Total({1}),
          window |-> Total(1..Window),
          latest |-> IF have = {} THEN Unknown ELSE Min(have)]

\* Mutant: the sensor of a dataset that is not wanted is left out.
TopicsOfWanted(consumption) == IF consumption THEN Topics ELSE {"state"}

\* What a delivery publishes; an empty discovery message removes the sensor.
TopicsOf(consumption) == Topics
Message(topic, consumption) ==
    CASE topic = "sensor" -> consumption
      [] topic = "state" -> State(consumption)

Deliver(consumption, acked) ==
    /\ broker' = [t \in Topics |-> IF t \in acked THEN Message(t, consumption) ELSE broker[t]]
    /\ shown' = (shown \/ acked = TopicsOf(consumption))
    /\ UNCHANGED have

\* The daily readings of the window still to fetch by a pass of the day `today`.
Missing(today) == {d \in (today + 1)..Window : d \notin have}
UpsertDaily(days) ==
    /\ have' = have \union days
    /\ UNCHANGED <<broker, shown>>

PublicationTick ==
    /\ have' = IF AtMidnight THEN {d + 1 : d \in have \ {Window}} ELSE have
    /\ broker' = [broker EXCEPT !.state.day = OlderDay(@, Stale)]
    /\ UNCHANGED shown

PublicationTypeOK ==
    /\ have \subseteq 1..Window
    /\ broker \in [sensor : BOOLEAN,
                   state : [day : Aged(Stale), yesterday : {Unknown} \union 0..Window,
                            window : {Unknown} \union 0..Window,
                            latest : {Unknown} \union 1..Window]]
    /\ shown \in BOOLEAN

\* "A value the cache cannot state truthfully - yesterday not published yet, a week
\* with a missing day - is None, never a misleading zero" (state.py): the retained
\* totals, whichever deliveries were cut short, count all the days they claim, and
\* the day they call the latest goes with them.
NeverMisleading ==
    LET s == broker.state
    IN  /\ s.window \in {Unknown, Window} /\ s.yesterday \in {Unknown, 1}
        /\ s.window # Unknown => s.yesterday = 1
        /\ s.latest = 1 <=> s.yesterday = 1
===============================================================================
