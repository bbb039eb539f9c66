-------------------------------- MODULE Service -------------------------------
(***************************************************************************)
(* The program as it is run: the daemon's thread (Scheduler) and passes    *)
(* started by hand, each alone under the pass lock (sync.py, run_pass), ask*)
(* for the grid signals, then for a usage point's consent, customer data   *)
(* and daily readings, then publish; faults of the gateway, the broker and *)
(* the processes; and the calendar going on.                               *)
(*                                                                         *)
(* The configuration says which parts there are.  The planning of requests *)
(* is in SyncPass, the other exporters are in ChangeFeed and HaSeries.     *)
(***************************************************************************)
EXTENDS Scheduler, CustomerData, GridSignals, Publication

CONSTANT Configurations     \* what may be configured

ASSUME ServiceAssumption ==
    /\ Configurations \subseteq [rte : BOOLEAN, resources : SUBSET Resources,
                                 consumption : BOOLEAN, mqtt : BOOLEAN]
    /\ MaxPass <= MaxLate /\ MaxPass <= DayTicks

VARIABLES
    conf,       \* the configuration
    calm,       \* nothing fails: gateway, broker, processes
    pass        \* the pass that holds the lock

vars == <<tickOfDay, schedulerVars, customerVars, signalVars, publicationVars, conf, calm, pass>>

\* A pass: its step and its process, the age of its start and the Paris day it keeps
\* (`today`), the age and the day of the last clock reading it goes by (`now`, `asked`),
\* and what it has found out.
Idle == [at |-> "idle", by |-> "nobody", began |-> 0, today |-> 0, now |-> 0, asked |-> 0,
         due |-> {}, signals |-> FALSE, consent |-> NoConsent]

Init ==
    /\ tickOfDay \in TicksOfDay
    /\ thread = "ended" /\ stop = FALSE /\ delay = 0 /\ since = 0 /\ crashed = FALSE /\ took = 0
    /\ CustomerInit /\ SignalsInit /\ PublicationInit
    /\ conf \in Configurations
    /\ calm = FALSE
    /\ pass = Idle

InPass == pass # Idle

\* A restart may change the datasets.  (Bounds: not the rest of the configuration, and
\* not during a pass by hand, whose process keeps the configuration it has read.)
StartDaemon ==
    /\ ~Up /\ Start
    /\ \E c \in Configurations :
        /\ [c EXCEPT !.consumption = conf.consumption] = conf
        /\ InPass => c = conf
        /\ conf' = c
        /\ shown' = (shown /\ c = conf)
    /\ UNCHANGED <<tickOfDay, customerVars, signalVars, have, broker, calm, pass>>

StopDaemon ==
    /\ ~calm /\ Stop
    /\ UNCHANGED <<tickOfDay, customerVars, signalVars, publicationVars, conf, calm, pass>>
LeaveLoop ==
    /\ Leave
    /\ UNCHANGED <<tickOfDay, customerVars, signalVars, publicationVars, conf, calm, pass>>

Weather ==
    /\ ~calm /\ calm' = TRUE
    /\ UNCHANGED <<tickOfDay, schedulerVars, customerVars, signalVars, publicationVars, conf, pass>>

\* Time goes by, in a pass or between passes.
Aging == [pass EXCEPT !.began = @ + 1,
                      !.today = OlderDay(@, LongAgo),
                      !.now = IF pass.at \in {"consent", "customer"} THEN @ + 1 ELSE @,
                      !.asked = IF pass.at \in {"season", "prices"} THEN OlderDay(@, LongAgo)
                                ELSE @]
TakingLock == thread = "running" /\ pass.by # "daemon"
Tick ==
    /\ InPass => pass.began < MaxPass
    /\ ~TakingLock
    /\ AdvanceClock /\ SchedulerTick /\ CustomerTick /\ SignalsTick /\ PublicationTick
    /\ pass' = IF InPass THEN Aging ELSE pass
    /\ UNCHANGED <<conf, calm>>

------------------------------------------------------------------------------
(***************************************************************************)
(* The lock.                                                               *)
(***************************************************************************)

Wake ==
    /\ Begin
    /\ UNCHANGED <<tickOfDay, customerVars, signalVars, publicationVars, conf, calm, pass>>

TakeLock(by) ==
    /\ ~InPass
    /\ by = "daemon" => TakingLock
    /\ pass' = [Idle EXCEPT !.at = IF conf.rte THEN "tempo" ELSE "point", !.by = by]
    /\ UNCHANGED <<tickOfDay, schedulerVars, customerVars, signalVars, publicationVars, conf, calm>>

\* The daemon finds the lock taken: the pass is skipped, which is no crash.
Skip ==
    /\ InPass /\ TakingLock
    /\ JobEnds(FALSE)
    /\ UNCHANGED <<tickOfDay, customerVars, signalVars, publicationVars, conf, calm, pass>>

\* The end of a pass, by an exception or not, frees the lock.
PassOver(crash) ==
    /\ pass' = Idle
    /\ IF pass.by = "daemon" THEN JobEnds(crash) ELSE UNCHANGED schedulerVars
    /\ UNCHANGED <<tickOfDay, customerVars, signalVars, publicationVars, conf, calm>>
EndPass == pass.at = "end" /\ PassOver(FALSE)
CrashPass == InPass /\ ~calm /\ PassOver(TRUE)

\* A process is killed; the system frees the lock it holds.
KillDaemon ==
    /\ ~calm /\ Die
    /\ pass' = IF pass.by = "daemon" THEN Idle ELSE pass
    /\ UNCHANGED <<tickOfDay, customerVars, signalVars, publicationVars, conf, calm>>

------------------------------------------------------------------------------
(***************************************************************************)
(* A pass.                                                                 *)
(***************************************************************************)

At(step) == [pass EXCEPT !.at = step]

\* A step of the grid's turn: the answer is cached, or the turn ends there.
Cached(from, upsert, next) ==
    /\ pass.at = from
    /\ upsert
    /\ pass' = next
    /\ UNCHANGED <<tickOfDay, schedulerVars, customerVars, publicationVars, conf, calm>>

SignalsDone == [At("point") EXCEPT !.asked = 0, !.signals = TRUE]
AfterEcowatt ==
    IF ExtrasDue(pass.today) THEN [At("season") EXCEPT !.asked = 0] ELSE SignalsDone

\* With no failure, an answer holds the day it is given on, and every price.
GivesToday(days, ahead) == calm => Asked(pass.today, ahead) \intersect {0} \subseteq days
SyncRte ==
    \/ \E days \in SUBSET Asked(pass.today, TempoAhead) :
        /\ GivesToday(days, TempoAhead)
        /\ Cached("tempo", UpsertTempo(days), At("ecowatt"))
    \/ \E days \in SUBSET Asked(pass.today, EcowattAhead) :
        /\ GivesToday(days, EcowattAhead)
        /\ Cached("ecowatt", UpsertEcowatt(days), AfterEcowatt)
    \/ Cached("season", UpsertSeason(pass.asked), At("prices"))
    \/ \E answer \in SUBSET Prices :
        /\ calm => answer = Prices
        /\ Cached("prices", UpsertPrices(pass.asked, answer), SignalsDone)
SignalsFail ==
    /\ ~calm
    /\ pass.at \in {"tempo", "ecowatt", "season", "prices"}
    /\ pass' = [At("point") EXCEPT !.asked = 0]
    /\ UNCHANGED <<tickOfDay, schedulerVars, customerVars, signalVars, publicationVars, conf, calm>>

Publishing == [At(IF conf.mqtt THEN "export" ELSE "end") EXCEPT !.now = 0, !.due = {},
                                                                 !.consent = NoConsent]

\* The usage point's turn: the clock is read, and what is due with it.
Backlog == IF conf.consumption THEN Missing(pass.today) ELSE {}
TakeTurn ==
    /\ pass.at = "point"
    /\ LET due == DueResources(conf.resources)
       IN  pass' = IF due = {} /\ Backlog = {} THEN Publishing
                   ELSE [At("consent") EXCEPT !.now = 0, !.due = due]
    /\ UNCHANGED <<tickOfDay, schedulerVars, customerVars, signalVars, publicationVars, conf, calm>>

Consent(valid, ban) ==
    /\ pass.at = "consent"
    /\ calm => valid = "true" /\ ban # "true" /\ ban # "junk"
    /\ ~ConsentRefused(valid, ban)
    /\ pass' = IF Granted(ParseConsent(valid, ban))
               THEN [At("customer") EXCEPT !.consent = [valid |-> valid, ban |-> ban]]
               ELSE Publishing
    /\ UNCHANGED <<tickOfDay, schedulerVars, customerVars, signalVars, publicationVars, conf, calm>>

\* The turn is over: no consent, or a quota, token or transport failure.
EndTurn ==
    /\ ~calm
    /\ pass.at \in {"consent", "customer", "daily"}
    /\ pass' = Publishing
    /\ UNCHANGED <<tickOfDay, schedulerVars, customerVars, signalVars, publicationVars, conf, calm>>

Answered(r) == [pass EXCEPT !.due = @ \ {r}]

\* A resource is refreshed, or recorded as failed: a refusal, an answer not readable.
Refreshed(r, entries) ==
    /\ pass.at = "customer" /\ r \in pass.due
    /\ calm => Readable(r, entries)
    /\ Upsert(r, entries, pass.now)
    /\ pass' = Answered(r)
    /\ UNCHANGED <<tickOfDay, schedulerVars, signalVars, publicationVars, conf, calm>>
Failed(r) ==
    /\ ~calm
    /\ pass.at = "customer" /\ r \in pass.due
    /\ RecordFailure(r, pass.now)
    /\ pass' = Answered(r)
    /\ UNCHANGED <<tickOfDay, schedulerVars, signalVars, publicationVars, conf, calm>>

CustomerDone ==
    /\ pass.at = "customer" /\ pass.due = {}
    /\ pass' = [At("daily") EXCEPT !.now = 0]
    /\ UNCHANGED <<tickOfDay, schedulerVars, customerVars, signalVars, publicationVars, conf, calm>>

\* The gateway holds some of the days asked for.
Daily(days) ==
    /\ pass.at = "daily"
    /\ UpsertDaily(days)
    /\ pass' = Publishing
    /\ UNCHANGED <<tickOfDay, schedulerVars, customerVars, signalVars, conf, calm>>

Export(acked) ==
    /\ pass.at = "export"
    /\ calm => acked = TopicsOf(conf.consumption)
    /\ Deliver(conf.consumption, acked)
    /\ pass' = At("end")
    /\ UNCHANGED <<tickOfDay, schedulerVars, customerVars, signalVars, conf, calm>>

------------------------------------------------------------------------------

Step ==
    \/ SyncRte \/ SignalsFail
    \/ TakeTurn
    \/ \E valid, ban \in Raws : Consent(valid, ban)
    \/ EndTurn
    \/ \E r \in Resources : Failed(r)
    \/ \E r \in Resources : \E entries \in AnswersOf(r) : Refreshed(r, entries)
    \/ CustomerDone
    \/ \E days \in SUBSET Backlog : Daily(days)
    \/ \E acked \in SUBSET TopicsOf(conf.consumption) : Export(acked)
    \/ EndPass

Next ==
    \/ StartDaemon \/ StopDaemon \/ LeaveLoop \/ KillDaemon
    \/ Weather
    \/ Tick
    \/ Wake \/ Skip
    \/ \E by \in {"daemon", "by hand"} : TakeLock(by)
    \/ Step \/ CrashPass

Spec == Init /\ [][Next]_vars

\* Time goes on.  With the bounds on Tick it takes the rest along: a pass, its requests
\* each with a timeout, ends within MaxPass, and a wait or a stop within its tick.  And
\* the supervisor starts the daemon again.
FairSpec == Spec /\ []<><<Tick>>_vars /\ WF_vars(StartDaemon)

------------------------------------------------------------------------------

Steps == {"idle", "tempo", "ecowatt", "season", "prices", "point", "consent",
          "customer", "daily", "export", "end"}
Passes ==
    [at : Steps, by : {"nobody", "daemon", "by hand"},
     began : 0..MaxPass, today : 0..LongAgo, now : 0..MaxPass, asked : 0..LongAgo,
     due : SUBSET Resources, signals : BOOLEAN, consent : [valid : Raws, ban : Raws]]
TypeOK ==
    /\ tickOfDay \in TicksOfDay
    /\ SchedulerTypeOK /\ CustomerTypeOK /\ SignalsTypeOK /\ PublicationTypeOK
    /\ conf \in Configurations /\ calm \in BOOLEAN
    /\ pass \in Passes
    /\ pass.now <= pass.began /\ pass.asked <= pass.today /\ pass.due \subseteq conf.resources
    /\ pass.by = "daemon" => thread = "running"

\* A pass that reports the grid signals as done leaves the season and the prices RTE
\* last gave cached for its day, however the passes before it ended: the extras count as
\* cached at the earliest date there is (sync_rte, tempo_extras_fetched_at).
ExtrasOfTheDay == pass.signals => ExtrasOf(pass.today)

\* "Discovery follows the configuration: a sensor whose dataset is disabled gets an
\* empty retained config, which removes it" (mqtt.py): once a delivery under the
\* configuration was complete, the broker has the sensor if and only if it is wanted,
\* and no total of a dataset that is not is left in the state from before.
ShownAsConfigured ==
    shown =>
        /\ broker.sensor = conf.consumption
        /\ ~conf.consumption =>
            broker.state.yesterday = Unknown /\ broker.state.window = Unknown
                                             /\ broker.state.latest = Unknown

\* Customer data is cached only by a pass the gateway told that the consent is valid,
\* and not that the meter is banned, in flags that could be read (parse_consent); and, of
\* the answers that list usage points, only the entry of the meter asked about.
OnlyWithConsent ==
    [][\A r \in Resources :
        Taken(r) => /\ pass.consent.valid = "true"
                    /\ pass.consent.ban \in {"false", "absent"}
                    /\ r \notin others']_copy

\* What a pass is to ask for was not refused for CUSTOMER_RETRY, whichever pass was
\* refused and crashed since; less the length of a pass, as a failure is dated by the
\* clock reading of the turn it ends (sync.py, `now`), before the requests of the turn.
HeldBack == \A r \in pass.due : tried[r] = Never \/ tried[r] >= Retry - MaxPass

\* Once nothing fails any more, what failed is made good: every customer resource is
\* cached with no failure left, the grid signals are reported as done, and the state of
\* the day is published, again every day; and the colour and the signal of the present
\* day are known again and again, however short the answers of before.
Recovered ==
    /\ \A r \in conf.resources : copy[r] # Never /\ failed[r] = Never
    /\ conf.rte => pass.signals
    /\ conf.mqtt => broker.state.day = 0
Recovers == <>[]calm => []<>Recovered /\ []<>(conf.rte => SignalsKnown)
===============================================================================
