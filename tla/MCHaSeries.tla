------------------------------ MODULE MCHaSeries ------------------------------
(***************************************************************************)
(* HaSeries for TLC.                                                       *)
(***************************************************************************)
EXTENDS HaSeries, TLC

CONSTANTS up1, up2, s1, s2

\* The curve has all of a day's energy in the first of two hours, where the total
\* puts it in the last.
MCGrids == {<<1, 0>>}

\* An earlier integration left nothing, or the first hour of the first day.
NothingEarlier == [t \in Slots |-> None]
OneHourEarlier == [t \in Slots |-> IF t = 1 THEN 3 ELSE None]
MCEarlier == {NothingEarlier, OneHourEarlier}
MCNothingEarlier == {NothingEarlier}

MCPins == {[day |-> 0, sum |-> 5], [day |-> 1, sum |-> 5]}
NoPins == {}

OneSeriesEach == (up1 :> s1) @@ (up2 :> s2)
OneSeries == (up1 :> s1)
SharedSeries == (up1 :> s1) @@ (up2 :> s1)

One == {{up1}}
ComesAndGoes == {{up1, up2}, {up2}}
Replaced == {{up1}, {up2}}
==============================================================================
