------------------------------ MODULE GridSignals -----------------------------
(***************************************************************************)
(* Tempo, Ecowatt, and the Tempo season and prices (sync.py, sync_rte, and *)
(* their tables in store.py).  Each answer is cached by a transaction of   *)
(* its own, and the first failure ends the turn.  An answer may hold any of*)
(* the days or prices asked for, or none: nothing checks that it is whole. *)
(* (The season's answer is: parse_tempo_season wants every colour.)  The   *)
(* hours of Ecowatt, cached after its days, are left out.                  *)
(***************************************************************************)
EXTENDS Ages, FiniteSetsExt

CONSTANTS
    TempoAhead,     \* days from the present one to the last asked for: tomorrow's colour
    EcowattAhead,   \* and signal; the code: 1 and 3
    Prices          \* the prices RTE may list: a colour and a period

ASSUME SignalsAssumption == TempoAhead \in Nat /\ EcowattAhead \in Nat

VARIABLES
    tempo,          \* the days whose colour is known, from today on, as days from today
    ecowatt,        \* the days whose signal is known, likewise
    season,         \* the Paris day of the season's fetched_at, as days ago
    prices,         \* and of each price's
    listed          \* history: the prices of the last answer

signalVars == <<tempo, ecowatt, season, prices, listed>>

\* Days past these are all the same to the comparisons below.
LongAgo == 2

SignalsInit ==
    /\ tempo = {} /\ ecowatt = {}
    /\ season = Never
    /\ prices = [p \in Prices |-> Never] /\ listed = Prices

\* Of the days a pass of the day `today` asks for, those that are not over.  (Mutant: the
\* present day is left out.)
AskedAhead(today, ahead) == 1..(ahead - today)
Asked(today, ahead) == 0..(ahead - today)

UpsertTempo(days) ==
    /\ tempo' = tempo \union days
    /\ UNCHANGED <<ecowatt, season, prices, listed>>
UpsertEcowatt(days) ==
    /\ ecowatt' = ecowatt \union days
    /\ UNCHANGED <<tempo, season, prices, listed>>
UpsertSeason(at) == season' = at /\ UNCHANGED <<tempo, ecowatt, prices, listed>>

\* A price the answer does not list keeps its row.
UpsertPrices(at, answer) ==
    /\ prices' = [p \in Prices |-> IF p \in answer THEN at ELSE prices[p]]
    /\ listed' = answer
    /\ UNCHANGED <<tempo, ecowatt, season>>

\* When all of them were last cached: the earliest of the dates.  (Mutant: the latest.)
Dates == {season} \union {prices[p] : p \in {q \in Prices : prices[q] # Never}}
NothingCached == season = Never \/ \A p \in Prices : prices[p] = Never
ExtrasLatest == IF NothingCached THEN Never ELSE Min(Dates)
ExtrasFetched == IF NothingCached THEN Never ELSE Max(Dates)

ExtrasDue(today) == ExtrasFetched = Never \/ ExtrasFetched > today

SignalsTick ==
    /\ tempo' = IF AtMidnight THEN {d - 1 : d \in tempo \ {0}} ELSE tempo
    /\ ecowatt' = IF AtMidnight THEN {d - 1 : d \in ecowatt \ {0}} ELSE ecowatt
    /\ season' = OlderDay(season, LongAgo)
    /\ prices' = [p \in Prices |-> OlderDay(prices[p], LongAgo)]
    /\ UNCHANGED listed

SignalsTypeOK ==
    /\ tempo \subseteq 0..TempoAhead /\ ecowatt \subseteq 0..EcowattAhead
    /\ season \in Aged(LongAgo) /\ prices \in [Prices -> Aged(LongAgo)]
    /\ listed \subseteq Prices

\* The season, and all the prices RTE last gave, are of the day `today` or a later one.
ExtrasOf(today) ==
    /\ season \in 0..today
    /\ \A p \in listed : prices[p] \in 0..today

\* The colour and the signal of the present day are known.
SignalsKnown == 0 \in tempo /\ 0 \in ecowatt
===============================================================================
