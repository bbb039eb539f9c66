---------------------------- MODULE ServiceProofs -----------------------------
(***************************************************************************)
(* Proofs about Service, for any calendar, interval, set of resources,     *)
(* length of the totals and set of configurations.  The invariant says, of *)
(* a pass at each of its steps, what it has made sure of so far: that is   *)
(* all a later step, a crash or another pass can rely on.                  *)
(***************************************************************************)
EXTENDS Service, Induction

------------------------------------------------------------------------------
(***************************************************************************)
(* The operators the steps are built from.                                 *)
(***************************************************************************)

LEMMA Bounds ==
    /\ DayTicks \in Nat /\ DayTicks > 0
    /\ Interval \in Nat /\ Interval > 0
    /\ MaxPass \in Nat /\ MaxPass > 0 /\ MaxPass <= MaxLate /\ MaxLate \in Nat
    /\ Refresh \in Nat /\ MaxLate <= Refresh
    /\ Retry \in Nat /\ Retry > 0
    /\ Window \in Nat /\ Window > 0
    /\ TempoAhead \in Nat /\ EcowattAhead \in Nat
  BY AgesAssumption, SchedulerAssumption, CustomerAssumption, SignalsAssumption,
     PublicationAssumption, ServiceAssumption

LEMMA AgeTypes ==
    ASSUME NEW cap \in Nat, NEW age \in Aged(cap)
    PROVE  /\ Older(age, cap) \in Aged(cap) /\ OlderDay(age, cap) \in Aged(cap)
           /\ age # Never => age \in 0..cap /\ Older(age, cap) \in 0..cap /\ OlderDay(age, cap) \in 0..cap
           /\ age = Never => Older(age, cap) = Never /\ OlderDay(age, cap) = Never
  BY DEF Aged, Never, Older, OlderDay

LEMMA TotalCounts ==
    /\ Cardinality({1}) = 1
    /\ Cardinality(1..Window) = Window
  <1>1. Cardinality({1}) = 1
    BY FS_Singleton
  <1>2. 1 \in Int /\ Window \in Int /\ ~(1 > Window) /\ Window - 1 + 1 = Window
    BY Bounds
  <1>3. Cardinality(1..Window) = Window
    BY <1>2, FS_Interval
  <1>4. QED
    BY <1>1, <1>3

\* What a published state may say.
States == [day : Aged(Stale), yesterday : {Unknown} \union 0..Window,
           window : {Unknown} \union 0..Window, latest : {Unknown} \union 1..Window]

Truthful(s) ==
    /\ s.window \in {Unknown, Window} /\ s.yesterday \in {Unknown, 1}
    /\ s.window # Unknown => s.yesterday = 1
    /\ s.latest = 1 <=> s.yesterday = 1

LEMMA BlankState == Blank \in States /\ Truthful(Blank)
  BY Bounds DEF Blank, States, Truthful, Aged, Stale, Unknown, Never

LEMMA StateIsTruthful ==
    ASSUME have \subseteq 1..Window, NEW consumption \in BOOLEAN
    PROVE  State(consumption) \in States /\ Truthful(State(consumption))
  <1>1. CASE ~consumption
    BY <1>1, Bounds DEF State, Blank, States, Truthful, Aged, Stale, Unknown, Never
  <1>2. CASE consumption
    <2> DEFINE latest == IF have = {} THEN Unknown ELSE Min(have)
    <2>1. State(consumption) = [day |-> 0, yesterday |-> Total({1}),
                                window |-> Total(1..Window), latest |-> latest]
      BY <1>2 DEF State
    <2>2. have # {} => Min(have) \in have /\ \A y \in have : Min(have) <= y
      BY LeastExists, Bounds
    <2>3. /\ latest \in {Unknown} \union 1..Window
          /\ latest = 1 <=> 1 \in have
      <3>1. CASE have = {}
        BY <3>1 DEF Unknown
      <3>2. CASE have # {}
        <4> DEFINE least == Min(have)
        <4>1. least \in have /\ least \in 1..Window /\ \A y \in have : least <= y
          BY <3>2, <2>2
        <4>2. latest = least
          BY <3>2
        <4> HIDE DEF latest, least
        <4>3. QED
          BY <4>1, <4>2, Bounds
      <3>3. QED
        BY <3>1, <3>2
    <2>4. /\ Total({1}) = (IF 1 \in have THEN 1 ELSE Unknown)
          /\ Total(1..Window) = (IF 1..Window \subseteq have THEN Window ELSE Unknown)
      BY TotalCounts DEF Total
    <2>5. 1 \in 1..Window
      BY Bounds
    <2>6. QED
      <3> HIDE DEF latest
      <3>1. QED
        BY <2>1, <2>3, <2>4, <2>5, Bounds DEF States, Truthful, Aged, Stale, Unknown, Never
  <1>3. QED
    BY <1>1, <1>2

------------------------------------------------------------------------------
(***************************************************************************)
(* Types.                                                                  *)
(***************************************************************************)

LEMMA InitTypes == Init => TypeOK
  <1> SUFFICES ASSUME Init PROVE TypeOK
    OBVIOUS
  <1> USE Bounds DEF Init
  <1>1. SchedulerTypeOK /\ tickOfDay \in TicksOfDay
    <2>1. stop \in BOOLEAN /\ crashed \in BOOLEAN
      BY Zenon
    <2>2. tickOfDay \in TicksOfDay
      OBVIOUS
    <2>3. delay \in 0..Interval /\ since \in 0..MaxSince /\ took \in 0..MaxPass
      BY DEF MaxSince
    <2>4. QED
      BY <2>1, <2>2, <2>3 DEF SchedulerTypeOK
  <1>2. CustomerTypeOK
    BY DEF CustomerInit, CustomerTypeOK, Aged
  <1>3. SignalsTypeOK
    BY DEF SignalsInit, SignalsTypeOK, Aged, LongAgo, Never
  <1>4. PublicationTypeOK
    BY BlankState DEF PublicationInit, PublicationTypeOK, Absent, States
  <1>5. Idle \in Passes
    BY DEF Idle, Passes, Steps, NoConsent, Raws, LongAgo
  <1>6. QED
    <2>1. conf \in Configurations /\ calm \in BOOLEAN
      BY Zenon
    <2>2. /\ pass.now <= pass.began /\ pass.asked <= pass.today /\ pass.due \subseteq conf.resources
          /\ pass.by = "daemon" => thread = "running"
      BY DEF Idle
    <2>3. pass \in Passes
      BY <1>5
    <2>4. QED
      BY <1>1, <1>2, <1>3, <1>4, <2>1, <2>2, <2>3 DEF TypeOK

\* What a step may do to each part of the state.
SchedulerMoves ==
    Start \/ Stop \/ Leave \/ Die \/ Begin \/ (\E crash \in BOOLEAN : JobEnds(crash))
          \/ SchedulerTick \/ UNCHANGED schedulerVars
CustomerMoves ==
    \/ /\ pass.at = "customer"
       /\ \E r \in Resources : \E entries \in AnswersOf(r) : Upsert(r, entries, pass.now)
    \/ \E r \in pass.due : RecordFailure(r, pass.now)
    \/ CustomerTick
    \/ UNCHANGED customerVars
SignalMoves ==
    \/ \E days \in SUBSET Asked(pass.today, TempoAhead) : UpsertTempo(days)
    \/ \E days \in SUBSET Asked(pass.today, EcowattAhead) : UpsertEcowatt(days)
    \/ UpsertSeason(pass.asked)
    \/ \E answer \in SUBSET Prices : UpsertPrices(pass.asked, answer)
    \/ SignalsTick
    \/ UNCHANGED signalVars
PublicationMoves ==
    \/ \E days \in SUBSET Backlog : UpsertDaily(days)
    \/ \E acked \in SUBSET Topics : Deliver(conf.consumption, acked)
    \/ PublicationTick
    \/ UNCHANGED <<have, broker>> /\ shown' \in {shown, FALSE}

LEMMA Moves ==
    ASSUME TypeOK, Next
    PROVE  SchedulerMoves /\ CustomerMoves /\ SignalMoves /\ PublicationMoves
  <1> USE DEF SchedulerMoves, CustomerMoves, SignalMoves, PublicationMoves, publicationVars
  <1>1. CASE StartDaemon \/ StopDaemon \/ LeaveLoop \/ KillDaemon \/ Weather
    <2>1. StartDaemon => shown' \in {shown, FALSE}
      BY Zenon DEF StartDaemon, TypeOK, PublicationTypeOK
    <2>2. QED
      BY <1>1, <2>1 DEF StartDaemon, StopDaemon, LeaveLoop, KillDaemon, Weather
  <1>2. CASE Tick \/ Wake \/ Skip \/ CrashPass \/ EndPass
    BY <1>2 DEF Tick, Wake, Skip, CrashPass, EndPass, PassOver
  <1>3. CASE \E by \in {"daemon", "by hand"} : TakeLock(by)
    BY <1>3 DEF TakeLock
  <1>4. CASE SyncRte
    BY <1>4 DEF SyncRte, Cached
  <1>5. CASE SignalsFail \/ TakeTurn \/ EndTurn \/ CustomerDone
    BY <1>5 DEF SignalsFail, TakeTurn, EndTurn, CustomerDone
  <1>6. CASE \E valid, ban \in Raws : Consent(valid, ban)
    BY <1>6 DEF Consent
  <1>7. CASE \E r \in Resources : Failed(r)
    BY <1>7 DEF Failed
  <1>8. CASE \E r \in Resources : \E entries \in AnswersOf(r) : Refreshed(r, entries)
    BY <1>8 DEF Refreshed
  <1>9. CASE \E days \in SUBSET Backlog : Daily(days)
    BY <1>9 DEF Daily
  <1>10. CASE \E acked \in SUBSET TopicsOf(conf.consumption) : Export(acked)
    BY <1>10 DEF Export, TopicsOf
  <1>11. QED
    BY <1>1, <1>2, <1>3, <1>4, <1>5, <1>6, <1>7, <1>8, <1>9, <1>10 DEF Next, Step

LEMMA SchedulerTypes ==
    ASSUME TypeOK, SchedulerMoves
    PROVE  SchedulerTypeOK'
  <1>1. stop' \in BOOLEAN /\ crashed' \in BOOLEAN
    BY Zenon DEF SchedulerMoves, TypeOK, SchedulerTypeOK, Start, Stop, Leave, Die, EndThread,
                 Begin, JobEnds, SchedulerTick, schedulerVars
  <1>2. /\ thread' \in {"waiting", "running", "ended"}
        /\ delay' \in 0..Interval /\ since' \in 0..MaxSince /\ took' \in 0..MaxPass
    <2>1. CASE SchedulerTick
      BY <2>1, Bounds DEF SchedulerTick, TypeOK, SchedulerTypeOK, MaxSince, Up, Older,
                      Never
    <2>2. CASE ~SchedulerTick
      BY <2>2, Bounds DEF SchedulerMoves, TypeOK, SchedulerTypeOK, MaxSince, Start, Stop, Leave,
                          Die, EndThread, Begin, JobEnds, schedulerVars
    <2>3. QED
      BY <2>1, <2>2
  <1>3. QED
    BY <1>1, <1>2 DEF SchedulerTypeOK

LEMMA CustomerTypes ==
    ASSUME TypeOK, CustomerMoves
    PROVE  CustomerTypeOK'
  <1>1. pass.now \in 0..MaxPass /\ pass.now \in Aged(MaxCopy) /\ pass.now \in Aged(MaxFailed)
    <2>1. pass.now \in 0..MaxPass
      BY DEF TypeOK, Passes
    <2>2. QED
      BY <2>1, Bounds DEF Aged, MaxCopy, MaxFailed
  <1> USE DEF TypeOK, CustomerTypeOK
  <1>2. CASE \E r \in Resources : \E entries \in AnswersOf(r) : Upsert(r, entries, pass.now)
    BY <1>1, <1>2 DEF Upsert, Aged
  <1>3. CASE \E r \in pass.due : RecordFailure(r, pass.now)
    <2>1. 0 \in Aged(Retry)
      BY Bounds DEF Aged
    <2>2. PICK r \in pass.due : RecordFailure(r, pass.now)
      BY <1>3
    <2>3. failed' \in [Resources -> Aged(MaxFailed)] /\ tried' \in [Resources -> Aged(Retry)]
      BY <1>1, <2>1, <2>2 DEF RecordFailure
    <2>4. QED
      BY <2>2, <2>3 DEF RecordFailure
  <1>4. CASE CustomerTick
    <2>1. MaxCopy \in Nat /\ MaxFailed \in Nat /\ Retry \in Nat
      BY Bounds DEF MaxCopy, MaxFailed
    <2>2. QED
      BY <1>4, <2>1, AgeTypes DEF CustomerTick
  <1>5. CASE UNCHANGED customerVars
    BY <1>5 DEF customerVars
  <1>6. QED
    BY <1>2, <1>3, <1>4, <1>5 DEF CustomerMoves

LEMMA SignalTypes ==
    ASSUME TypeOK, SignalMoves
    PROVE  SignalsTypeOK'
  <1>1. pass.today \in 0..LongAgo /\ pass.asked \in 0..LongAgo
    BY DEF TypeOK, Passes
  <1>0. /\ tempo \subseteq 0..TempoAhead /\ ecowatt \subseteq 0..EcowattAhead
        /\ season \in Aged(LongAgo) /\ prices \in [Prices -> Aged(LongAgo)]
        /\ listed \subseteq Prices /\ LongAgo \in Nat
    BY DEF TypeOK, SignalsTypeOK, LongAgo
  <1>2. CASE \/ \E days \in SUBSET Asked(pass.today, TempoAhead) : UpsertTempo(days)
             \/ \E days \in SUBSET Asked(pass.today, EcowattAhead) : UpsertEcowatt(days)
    <2>1. \A ahead \in Nat : Asked(pass.today, ahead) \subseteq 0..ahead
      BY <1>0, <1>1 DEF Asked
    <2>2. QED
      BY <1>0, <1>2, <2>1, Bounds DEF UpsertTempo, UpsertEcowatt, SignalsTypeOK
  <1>3. CASE \/ UpsertSeason(pass.asked)
             \/ \E answer \in SUBSET Prices : UpsertPrices(pass.asked, answer)
    <2>1. pass.asked \in Aged(LongAgo)
      BY <1>1 DEF Aged
    <2>2. CASE UpsertSeason(pass.asked)
      BY <1>0, <2>1, <2>2 DEF UpsertSeason, SignalsTypeOK
    <2>3. CASE \E answer \in SUBSET Prices : UpsertPrices(pass.asked, answer)
      BY <1>0, <2>1, <2>3 DEF UpsertPrices, SignalsTypeOK
    <2>4. QED
      BY <1>3, <2>2, <2>3
  <1>4. CASE SignalsTick
    <2>1. tempo' \subseteq 0..TempoAhead /\ ecowatt' \subseteq 0..EcowattAhead
      <3>1. ASSUME NEW ahead \in Nat, NEW days \in SUBSET (0..ahead)
            PROVE  {d - 1 : d \in days \ {0}} \subseteq 0..ahead
        OBVIOUS
      <3>2. QED
        BY <1>0, <1>4, <3>1, Bounds DEF SignalsTick
    <2>2. season' \in Aged(LongAgo) /\ prices' \in [Prices -> Aged(LongAgo)]
      BY <1>0, <1>4, AgeTypes DEF SignalsTick
    <2>3. QED
      BY <1>0, <1>4, <2>1, <2>2 DEF SignalsTick, SignalsTypeOK
  <1>5. CASE UNCHANGED signalVars
    BY <1>0, <1>5 DEF signalVars, SignalsTypeOK
  <1>6. QED
    BY <1>2, <1>3, <1>4, <1>5 DEF SignalMoves

LEMMA PublicationTypes ==
    ASSUME TypeOK, NeverMisleading, PublicationMoves
    PROVE  PublicationTypeOK' /\ NeverMisleading'
  <1>1. conf.consumption \in BOOLEAN
    BY ServiceAssumption DEF TypeOK
  <1>2. /\ have \subseteq 1..Window /\ broker \in [sensor : BOOLEAN, state : States]
        /\ shown \in BOOLEAN /\ Truthful(broker.state)
    BY DEF TypeOK, PublicationTypeOK, NeverMisleading, States, Truthful
  <1>3. SUFFICES /\ have' \subseteq 1..Window /\ broker' \in [sensor : BOOLEAN, state : States]
                 /\ shown' \in BOOLEAN /\ Truthful(broker'.state)
    BY DEF PublicationTypeOK, NeverMisleading, States, Truthful
  <1>4. CASE \E days \in SUBSET Backlog : UpsertDaily(days)
    <2>1. Backlog \subseteq 1..Window
      <3>1. pass.today \in 0..LongAgo
        BY DEF TypeOK, Passes
      <3>2. QED
        BY <3>1, Bounds DEF Backlog, Missing, LongAgo
    <2>2. QED
      BY <1>2, <1>4, <2>1 DEF UpsertDaily
  <1>5. CASE \E acked \in SUBSET Topics : Deliver(conf.consumption, acked)
    <2>1. PICK acked \in SUBSET Topics : Deliver(conf.consumption, acked)
      BY <1>5
    <2>2. State(conf.consumption) \in States /\ Truthful(State(conf.consumption))
      BY <1>1, <1>2, StateIsTruthful
    <2>3. broker' \in [sensor : BOOLEAN, state : States] /\ Truthful(broker'.state)
      BY <1>1, <1>2, <2>1, <2>2 DEF Deliver, Message, Topics
    <2>4. have' = have /\ shown' \in BOOLEAN
      BY <1>2, <2>1, Zenon DEF Deliver
    <2>5. QED
      BY <1>2, <2>3, <2>4
  <1>6. CASE PublicationTick
    <2>1. OlderDay(broker.state.day, Stale) \in Aged(Stale)
      BY <1>2, AgeTypes DEF Stale, States
    <2>2. have' \subseteq 1..Window
      BY <1>2, <1>6, Bounds DEF PublicationTick
    <2>3. broker' = [broker EXCEPT !.state.day = OlderDay(broker.state.day, Stale)]
          /\ shown' = shown
      BY <1>6 DEF PublicationTick
    <2>4. QED
      BY <1>2, <2>1, <2>2, <2>3 DEF States, Truthful
  <1>7. CASE UNCHANGED <<have, broker>> /\ shown' \in {shown, FALSE}
    BY <1>2, <1>7
  <1>8. QED
    BY <1>4, <1>5, <1>6, <1>7 DEF PublicationMoves

\* What a step that changes some fields of the pass leaves of it.
Sound(p) == p \in Passes /\ p.now <= p.began /\ p.asked <= p.today
Keeps(p) == Sound(p) /\ p.due \subseteq pass.due /\ p.by = pass.by

LEMMA Fields ==
    ASSUME NEW p \in Passes
    PROVE  /\ p.at \in Steps /\ p.by \in {"nobody", "daemon", "by hand"}
           /\ p.began \in 0..MaxPass /\ p.today \in 0..LongAgo
           /\ p.now \in 0..MaxPass /\ p.asked \in 0..LongAgo
           /\ p.due \in SUBSET Resources /\ p.signals \in BOOLEAN
           /\ p.consent \in [valid : Raws, ban : Raws]
  BY DEF Passes

LEMMA Zeros == 0 \in 0..MaxPass /\ 0 \in 0..LongAgo
  BY Bounds DEF LongAgo

LEMMA IdleIsSound == Idle \in Passes /\ Idle.by = "nobody" /\ Sound(Idle) /\ Idle.due = {}
  <1>1. Idle \in Passes
    BY Bounds DEF Idle, Passes, Steps, NoConsent, Raws, LongAgo
  <1>2. QED
    BY <1>1 DEF Idle, Sound

LEMMA AtKeeps ==
    ASSUME Sound(pass), NEW step \in Steps
    PROVE  Keeps(At(step))
  <1>1. At(step) \in Passes
    BY DEF At, Passes, Sound
  <1>2. QED
    BY <1>1 DEF At, Keeps, Sound, Passes

LEMMA AskedKeeps ==
    ASSUME Sound(pass), NEW step \in Steps
    PROVE  /\ Keeps([At(step) EXCEPT !.asked = 0])
           /\ Keeps([At(step) EXCEPT !.asked = 0, !.signals = TRUE])
  <1> DEFINE p == [At(step) EXCEPT !.asked = 0]
             q == [At(step) EXCEPT !.asked = 0, !.signals = TRUE]
  <1>1. At(step) \in Passes /\ Keeps(At(step))
    BY AtKeeps DEF Keeps, Sound
  <1>2. p \in Passes /\ q \in Passes
    BY <1>1, Zeros DEF Passes
  <1>3. /\ p.now = At(step).now /\ p.began = At(step).began /\ p.today = At(step).today
        /\ p.asked = 0 /\ p.due = At(step).due /\ p.by = At(step).by
    BY <1>1 DEF Passes
  <1>4. /\ q.now = At(step).now /\ q.began = At(step).began /\ q.today = At(step).today
        /\ q.asked = 0 /\ q.due = At(step).due /\ q.by = At(step).by
    BY <1>1 DEF Passes
  <1> HIDE DEF p, q
  <1>5. At(step).today >= 0
    <2>1. At(step).today \in 0..LongAgo
      BY <1>1 DEF Passes
    <2>2. QED
      BY <2>1 DEF LongAgo
  <1>6. Keeps(p) /\ Keeps(q)
    BY <1>1, <1>2, <1>3, <1>4, <1>5 DEF Keeps, Sound
  <1>7. QED
    BY <1>6 DEF p, q

LEMMA NowKeeps ==
    ASSUME Sound(pass), NEW step \in Steps, NEW due \in SUBSET Resources, due \subseteq conf.resources
    PROVE  /\ Keeps([At(step) EXCEPT !.now = 0])
           /\ Sound([At(step) EXCEPT !.now = 0, !.due = due])
           /\ [At(step) EXCEPT !.now = 0, !.due = due].by = pass.by
           /\ [At(step) EXCEPT !.now = 0, !.due = due].due = due
           /\ Keeps([At(step) EXCEPT !.now = 0, !.due = {}, !.consent = NoConsent])
  <1> DEFINE p == [At(step) EXCEPT !.now = 0]
             q == [At(step) EXCEPT !.now = 0, !.due = due]
             r == [At(step) EXCEPT !.now = 0, !.due = {}, !.consent = NoConsent]
  <1>1. At(step) \in Passes /\ Keeps(At(step))
    BY AtKeeps DEF Keeps, Sound
  <1>2. p \in Passes /\ q \in Passes /\ r \in Passes
    BY <1>1, Zeros DEF Passes, NoConsent, Raws
  <1>3. /\ p.now = 0 /\ p.began = At(step).began /\ p.today = At(step).today
        /\ p.asked = At(step).asked /\ p.due = At(step).due /\ p.by = At(step).by
    BY <1>1 DEF Passes
  <1>4. /\ q.now = 0 /\ q.began = At(step).began /\ q.today = At(step).today
        /\ q.asked = At(step).asked /\ q.due = due /\ q.by = At(step).by
    BY <1>1 DEF Passes
  <1>5. /\ r.now = 0 /\ r.began = At(step).began /\ r.today = At(step).today
        /\ r.asked = At(step).asked /\ r.due = {} /\ r.by = At(step).by
    BY <1>1 DEF Passes
  <1> HIDE DEF p, q, r
  <1>6. At(step).began >= 0
    <2>1. At(step).began \in 0..MaxPass
      BY <1>1 DEF Passes
    <2>2. QED
      BY <2>1, Bounds
  <1>7. Keeps(p) /\ Sound(q) /\ q.by = pass.by /\ q.due = due /\ Keeps(r)
    BY <1>1, <1>2, <1>3, <1>4, <1>5, <1>6 DEF Keeps, Sound
  <1>8. QED
    BY <1>7 DEF p, q, r

LEMMA PublishingKeeps == ASSUME Sound(pass) PROVE Keeps(Publishing)
  <1>1. (IF conf.mqtt THEN "export" ELSE "end") \in Steps
    BY DEF Steps
  <1> DEFINE step == IF conf.mqtt THEN "export" ELSE "end"
  <1>2. {} \in SUBSET Resources /\ {} \subseteq conf.resources
    OBVIOUS
  <1>3. Publishing = [At(step) EXCEPT !.now = 0, !.due = {}, !.consent = NoConsent]
    BY DEF Publishing
  <1> HIDE DEF step
  <1>4. QED
    BY <1>1, <1>2, <1>3, NowKeeps DEF step

LEMMA AnsweredKeeps ==
    ASSUME Sound(pass), NEW r
    PROVE  Keeps(Answered(r)) /\ Answered(r).due = pass.due \ {r}
  <1>1. Answered(r) \in Passes
    BY DEF Answered, Passes, Sound
  <1>2. QED
    BY <1>1 DEF Answered, Keeps, Sound, Passes

LEMMA ConsentKeeps ==
    ASSUME Sound(pass), NEW consent \in [valid : Raws, ban : Raws], NEW step \in Steps
    PROVE  Keeps([At(step) EXCEPT !.consent = consent])
  <1>1. At(step) \in Passes /\ Keeps(At(step))
    BY AtKeeps DEF Keeps, Sound
  <1>2. [At(step) EXCEPT !.consent = consent] \in Passes
    BY <1>1 DEF Passes
  <1>3. QED
    BY <1>1, <1>2 DEF Keeps, Sound, Passes

LEMMA AgingKeeps ==
    ASSUME Sound(pass), pass.began < MaxPass
    PROVE  Keeps(Aging)
  <1> DEFINE now == IF pass.at \in {"consent", "customer"} THEN pass.now + 1 ELSE pass.now
             asked == IF pass.at \in {"season", "prices"} THEN OlderDay(pass.asked, LongAgo)
                      ELSE pass.asked
             today == OlderDay(pass.today, LongAgo)
  <1>1. /\ pass \in Passes /\ pass.now <= pass.began /\ pass.asked <= pass.today
        /\ pass.began \in 0..MaxPass /\ pass.now \in 0..MaxPass
        /\ pass.today \in 0..LongAgo /\ pass.asked \in 0..LongAgo
    BY Fields DEF Sound
  <1>2. /\ pass.began + 1 \in 0..MaxPass /\ now \in 0..MaxPass /\ now <= pass.began + 1
    BY <1>1, Bounds
  <1>3. today \in 0..LongAgo /\ asked \in 0..LongAgo /\ asked <= today
    BY <1>1 DEF OlderDay, Older, LongAgo, Never
  <1>4. Aging = [pass EXCEPT !.began = pass.began + 1, !.today = today, !.now = now,
                             !.asked = asked]
    BY DEF Aging
  <1> HIDE DEF now, asked, today
  <1>5. Aging \in Passes
    BY <1>1, <1>2, <1>3, <1>4 DEF Passes
  <1>6. /\ Aging.now = now /\ Aging.began = pass.began + 1 /\ Aging.today = today
        /\ Aging.asked = asked /\ Aging.due = pass.due /\ Aging.by = pass.by
    BY <1>1, <1>4 DEF Passes
  <1>7. QED
    BY <1>2, <1>3, <1>5, <1>6 DEF Keeps, Sound

LEMMA StepKeeps ==
    ASSUME TypeOK, Step, ~EndPass
    PROVE  /\ Sound(pass') /\ pass'.by = pass.by /\ pass'.due \subseteq conf.resources
           /\ UNCHANGED <<conf, thread>> /\ InPass
  <1>1. Sound(pass) /\ pass.due \subseteq conf.resources /\ conf.resources \in SUBSET Resources
    BY ServiceAssumption DEF TypeOK, Sound
  <1>2. UNCHANGED <<conf, thread>> /\ InPass
    BY DEF Step, SyncRte, Cached, SignalsFail, TakeTurn, Consent, EndTurn, Failed, Refreshed,
           CustomerDone, Daily, Export, schedulerVars, InPass, Idle
  <1>3. Keeps(pass') => Sound(pass') /\ pass'.by = pass.by /\ pass'.due \subseteq conf.resources
    BY <1>1 DEF Keeps
  <1>4. CASE SyncRte
    <2>1. {"ecowatt", "season", "prices", "point"} \subseteq Steps
      BY DEF Steps
    <2>2. \/ \E step \in Steps : pass' = At(step)
          \/ \E step \in Steps : pass' = [At(step) EXCEPT !.asked = 0]
          \/ \E step \in Steps : pass' = [At(step) EXCEPT !.asked = 0, !.signals = TRUE]
      BY <1>4, <2>1 DEF SyncRte, Cached, AfterEcowatt, SignalsDone
    <2>3. QED
      BY <1>1, <1>2, <1>3, <2>2, AtKeeps, AskedKeeps
  <1>5. CASE SignalsFail
    <2>1. pass' = [At("point") EXCEPT !.asked = 0] /\ "point" \in Steps
      BY <1>5 DEF SignalsFail, Steps
    <2>2. QED
      BY <1>1, <1>2, <1>3, <2>1, AskedKeeps
  <1>6. pass' = Publishing => Keeps(pass')
    BY <1>1, PublishingKeeps
  <1>7. CASE TakeTurn
    <2> DEFINE due == DueResources(conf.resources)
    <2>1. due \in SUBSET Resources /\ due \subseteq conf.resources /\ "consent" \in Steps
      BY <1>1 DEF DueResources, Steps
    <2>2. pass' = Publishing \/ pass' = [At("consent") EXCEPT !.now = 0, !.due = due]
      BY <1>7 DEF TakeTurn
    <2> HIDE DEF due
    <2>3. CASE pass' = [At("consent") EXCEPT !.now = 0, !.due = due]
      <3>1. Sound(pass') /\ pass'.by = pass.by /\ pass'.due = due
        BY <1>1, <2>1, <2>3, NowKeeps
      <3>2. QED
        BY <1>2, <2>1, <3>1
    <2>4. QED
      BY <1>2, <1>3, <1>6, <2>2, <2>3
  <1>8. CASE \E valid, ban \in Raws : Consent(valid, ban)
    <2>1. PICK valid \in Raws, ban \in Raws : Consent(valid, ban)
      BY <1>8
    <2> DEFINE consent == [valid |-> valid, ban |-> ban]
    <2>2. consent \in [valid : Raws, ban : Raws] /\ "customer" \in Steps
      BY DEF Steps
    <2>3. pass' = Publishing \/ pass' = [At("customer") EXCEPT !.consent = consent]
      BY <2>1 DEF Consent
    <2> HIDE DEF consent
    <2>4. QED
      BY <1>1, <1>2, <1>3, <1>6, <2>2, <2>3, ConsentKeeps
  <1>9. CASE EndTurn \/ \E days \in SUBSET Backlog : Daily(days)
    BY <1>2, <1>3, <1>6, <1>9 DEF EndTurn, Daily
  <1>10. CASE \/ \E r \in Resources : Failed(r)
              \/ \E r \in Resources : \E entries \in AnswersOf(r) : Refreshed(r, entries)
    <2>1. \E r : pass' = Answered(r)
      BY <1>10 DEF Failed, Refreshed
    <2>2. QED
      BY <1>1, <1>2, <1>3, <2>1, AnsweredKeeps
  <1>11. CASE CustomerDone
    <2>1. pass' = [At("daily") EXCEPT !.now = 0] /\ "daily" \in Steps
      BY <1>11 DEF CustomerDone, Steps
    <2>2. Keeps(pass')
      BY <1>1, <2>1, NowKeeps
    <2>3. QED
      BY <1>2, <1>3, <2>2
  <1>12. CASE \E acked \in SUBSET TopicsOf(conf.consumption) : Export(acked)
    <2>1. pass' = At("end") /\ "end" \in Steps
      BY <1>12 DEF Export, Steps
    <2>2. QED
      BY <1>1, <1>2, <1>3, <2>1, AtKeeps
  <1>13. QED
    BY <1>4, <1>5, <1>7, <1>8, <1>9, <1>10, <1>11, <1>12 DEF Step

\* The steps that are not a pass's own: it goes on as it was, it is over, or it starts.
Begun(by) == [Idle EXCEPT !.at = IF conf.rte THEN "tempo" ELSE "point", !.by = by]

LEMMA NotBelow == \A x, y \in {0} : x <= y
  OBVIOUS

LEMMA BegunIsSound ==
    ASSUME NEW by \in {"daemon", "by hand"}
    PROVE  Sound(Begun(by)) /\ Begun(by).by = by /\ Begun(by).due = {}
  <1>1. Begun(by) \in Passes
    BY Zeros DEF Begun, Idle, Passes, Steps, NoConsent, Raws
  <1>2. Begun(by).now \in {0} /\ Begun(by).began \in {0}
    BY DEF Begun, Idle
  <1>3. Begun(by).asked \in {0} /\ Begun(by).today \in {0}
    BY DEF Begun, Idle
  <1>4. Begun(by).by = by /\ Begun(by).due = {}
    BY DEF Begun, Idle
  <1>5. QED
    BY <1>1, <1>2, <1>3, <1>4, NotBelow, Zenon DEF Sound

PassStays ==
    /\ UNCHANGED pass
    /\ pass.by = "daemon" => (thread = "running" => thread' = "running")
    /\ InPass => conf' = conf /\ UNCHANGED <<customerVars, signalVars>>
PassStarts ==
    /\ ~InPass /\ UNCHANGED <<conf, thread>>
    /\ \E by \in {"daemon", "by hand"} : pass' = Begun(by) /\ (by = "daemon" => thread = "running")
PassAges == InPass /\ Tick /\ pass' = Aging /\ UNCHANGED <<conf, thread>> /\ pass.began < MaxPass

LEMMA PassMoves ==
    ASSUME Next
    PROVE  \/ PassStays \/ PassStarts \/ PassAges \/ pass' = Idle
           \/ Step /\ ~EndPass
  <1>1. CASE StartDaemon \/ StopDaemon \/ LeaveLoop \/ KillDaemon \/ Weather \/ Wake \/ Skip
    BY <1>1 DEF PassStays, StartDaemon, StopDaemon, LeaveLoop, KillDaemon, Weather, Wake, Skip,
                TakingLock, Up, Stop, Leave, Begin, schedulerVars, InPass
  <1>2. CASE Tick
    BY <1>2 DEF Tick, SchedulerTick, PassAges, PassStays, InPass
  <1>3. CASE \E by \in {"daemon", "by hand"} : TakeLock(by)
    BY <1>3 DEF TakeLock, TakingLock, PassStarts, Begun, schedulerVars
  <1>4. CASE CrashPass \/ EndPass
    BY <1>4 DEF CrashPass, EndPass, PassOver
  <1>5. QED
    BY <1>1, <1>2, <1>3, <1>4 DEF Next

LEMMA PassTypes ==
    ASSUME TypeOK, Next
    PROVE  /\ Sound(pass') /\ pass'.due \subseteq conf'.resources
           /\ pass'.by = "daemon" => thread' = "running"
  <1>1. /\ Sound(pass) /\ pass.due \subseteq conf.resources
        /\ pass.by = "daemon" => thread = "running"
    BY DEF TypeOK, Sound
  <1>2. CASE PassStays
    BY <1>1, <1>2, IdleIsSound DEF PassStays, InPass
  <1>3. CASE PassStarts
    <2>1. PICK by \in {"daemon", "by hand"} :
            pass' = Begun(by) /\ (by = "daemon" => thread = "running")
      BY <1>3 DEF PassStarts
    <2>2. thread' = thread
      BY <1>3 DEF PassStarts
    <2>3. QED
      BY <2>1, <2>2, BegunIsSound
  <1>4. CASE PassAges
    BY <1>1, <1>4, AgingKeeps DEF PassAges, Keeps
  <1>5. CASE pass' = Idle
    BY <1>5, IdleIsSound
  <1>6. CASE Step /\ ~EndPass
    BY <1>1, <1>6, StepKeeps
  <1>7. QED
    BY <1>2, <1>3, <1>4, <1>5, <1>6, PassMoves

\* Types, and what the retained topics say: a delivery composes it all from the cache.
LEMMA StepTypes ==
    ASSUME TypeOK, NeverMisleading, Next
    PROVE  TypeOK' /\ NeverMisleading'
  <1>1. SchedulerTypeOK' /\ CustomerTypeOK' /\ SignalsTypeOK'
    BY Moves, SchedulerTypes, CustomerTypes, SignalTypes
  <1>2. PublicationTypeOK' /\ NeverMisleading'
    BY Moves, PublicationTypes
  <1>3. tickOfDay' \in TicksOfDay
    <2>1. tickOfDay' = tickOfDay \/ tickOfDay' = (tickOfDay + 1) % DayTicks
      BY DEF Next, Step, StartDaemon, StopDaemon, LeaveLoop, KillDaemon, Weather, Tick, Wake,
             Skip, TakeLock, SyncRte, Cached, SignalsFail, TakeTurn, Consent, EndTurn, Failed,
             Refreshed, CustomerDone, Daily, Export, EndPass, CrashPass, PassOver, AdvanceClock
    <2>2. tickOfDay \in 0..(DayTicks - 1)
      BY DEF TypeOK, TicksOfDay
    <2>3. QED
      BY <2>1, <2>2, Bounds DEF TicksOfDay
  <1>4. conf' \in Configurations /\ calm' \in BOOLEAN
    BY Zenon DEF TypeOK, Next, Step, StartDaemon, StopDaemon, LeaveLoop, KillDaemon, Weather,
             Tick, Wake, Skip, TakeLock, SyncRte, Cached, SignalsFail, TakeTurn, Consent,
             EndTurn, Failed, Refreshed, CustomerDone, Daily, Export, EndPass, CrashPass,
             PassOver
  <1>5. Sound(pass') /\ pass'.due \subseteq conf'.resources
        /\ (pass'.by = "daemon" => thread' = "running")
    BY PassTypes
  <1>6. QED
    BY <1>1, <1>2, <1>3, <1>4, <1>5 DEF TypeOK, Sound

LEMMA InitNeverMisleading == Init => NeverMisleading
  BY BlankState DEF Init, PublicationInit, Absent, NeverMisleading, Truthful

LEMMA StutterTypes ==
    ASSUME TypeOK, NeverMisleading, UNCHANGED vars
    PROVE  TypeOK' /\ NeverMisleading'
  BY DEF vars, schedulerVars, customerVars, signalVars, publicationVars, TypeOK,
         SchedulerTypeOK, CustomerTypeOK, SignalsTypeOK, PublicationTypeOK, NeverMisleading,
         TicksOfDay

LEMMA Typed == Spec => [](TypeOK /\ NeverMisleading)
  BY InitTypes, InitNeverMisleading, StepTypes, StutterTypes, PTL DEF Spec

\* The program keeps the states described: ages within what can be told apart, a pass of
\* the daemon only while its thread runs a job, due resources only of the configuration.
THEOREM ServiceTypes == Spec => []TypeOK
  BY Typed, PTL

\* A total is retained only when it counted all its days, whichever deliveries were cut
\* short, and goes with the latest day retained beside it.
THEOREM TotalsCountEveryDay == Spec => []NeverMisleading
  BY Typed, PTL

------------------------------------------------------------------------------
(***************************************************************************)
(* The scheduler's memory.                                                 *)
(***************************************************************************)

\* The start of the last pass is no older than that pass is long, and the wait after it.
Fresh ==
    /\ thread = "running" =>
         since <= took /\ IF pass.by = "daemon" THEN took <= pass.began ELSE took = 0
    /\ thread = "waiting" => since <= took + Interval - delay

\* A process forgets a crash with its end, and a pass under way is somebody's.
Remembered ==
    /\ thread = "ended" => ~crashed
    /\ pass.by = "nobody" => ~InPass

LEMMA StepLeavesScheduler ==
    ASSUME TypeOK, Step, ~EndPass
    PROVE  UNCHANGED schedulerVars /\ pass'.began = pass.began
  <1>1. pass \in Passes
    BY DEF TypeOK
  <1>2. QED
    BY <1>1 DEF Step, SyncRte, Cached, AfterEcowatt, SignalsDone, SignalsFail, TakeTurn, Publishing, Consent,
                EndTurn, Failed, Refreshed, Answered, CustomerDone, Daily, Export, At, Passes

LEMMA RememberedStep ==
    ASSUME TypeOK, Remembered, Next
    PROVE  Remembered'
  <1>1. /\ pass.by = "nobody" => pass = Idle
        /\ thread = "ended" => ~crashed
        /\ pass.by \in {"nobody", "daemon", "by hand"}
        /\ pass.by = "daemon" => thread = "running"
    BY Fields DEF Remembered, InPass, TypeOK
  <1>2. SUFFICES /\ thread' = "ended" => ~crashed'
                 /\ pass'.by = "nobody" => pass' = Idle
    BY DEF Remembered, InPass
  <1>3. thread' = "ended" => ~crashed'
    <2>1. CASE StartDaemon \/ StopDaemon \/ LeaveLoop \/ KillDaemon \/ Weather
      BY <1>1, <2>1 DEF StartDaemon, StopDaemon, LeaveLoop, KillDaemon, Weather, Start, Stop,
                        Leave, Die, EndThread, schedulerVars
    <2>2. CASE Tick \/ Wake \/ Skip
      BY <1>1, <2>2 DEF Tick, SchedulerTick, Wake, Begin, Skip, JobEnds
    <2>3. CASE CrashPass \/ EndPass \/ \E by \in {"daemon", "by hand"} : TakeLock(by)
      BY <1>1, <2>3 DEF CrashPass, EndPass, PassOver, JobEnds, TakeLock, schedulerVars
    <2>4. CASE Step /\ ~EndPass
      BY <1>1, <2>4, StepLeavesScheduler DEF schedulerVars
    <2>5. QED
      BY <2>1, <2>2, <2>3, <2>4 DEF Next
  <1>4. pass'.by = "nobody" => pass' = Idle
    <2>1. CASE PassStays
      BY <1>1, <2>1 DEF PassStays
    <2>2. CASE PassStarts
      BY <2>2, BegunIsSound DEF PassStarts
    <2>3. CASE PassAges
      <3>1. pass'.by = pass.by
        BY <2>3, AgingKeeps DEF PassAges, Keeps, TypeOK, Sound
      <3>2. QED
        BY <1>1, <2>3, <3>1 DEF PassAges, InPass
    <2>4. CASE Step /\ ~EndPass
      BY <1>1, <2>4, StepKeeps DEF InPass
    <2>5. QED
      BY <2>1, <2>2, <2>3, <2>4, PassMoves
  <1>5. QED
    BY <1>3, <1>4

LEMMA FreshStep ==
    ASSUME TypeOK, Fresh, Remembered, Next
    PROVE  Fresh'
  <1>1. /\ delay \in 0..Interval /\ since \in 0..MaxSince /\ took \in 0..MaxPass
        /\ pass.began \in 0..MaxPass
    BY Fields DEF TypeOK, SchedulerTypeOK
  <1>2. /\ pass.by = "daemon" => thread = "running"
        /\ thread = "running" =>
             since <= took /\ IF pass.by = "daemon" THEN took <= pass.began ELSE took = 0
        /\ thread = "waiting" => since <= took + Interval - delay
    BY DEF TypeOK, Fresh
  <1>3. SUFFICES
          /\ thread' = "running" =>
               since' <= took' /\ IF pass'.by = "daemon" THEN took' <= pass'.began ELSE took' = 0
          /\ thread' = "waiting" => since' <= took' + Interval - delay'
    BY DEF Fresh
  <1>4. CASE StartDaemon \/ LeaveLoop \/ KillDaemon
    BY <1>4, Bounds DEF StartDaemon, LeaveLoop, KillDaemon, Start, Leave, Die, EndThread
  <1>5. CASE StopDaemon \/ Weather
    BY <1>1, <1>2, <1>5 DEF StopDaemon, Weather, Stop, schedulerVars
  <1>6. CASE Wake
    <2>1. /\ thread' = "running" /\ since' = 0 /\ took' = 0 /\ pass' = pass /\ thread = "waiting"
      BY <1>6 DEF Wake, Begin
    <2>2. QED
      BY <1>1, <1>2, <2>1
  <1>7. CASE Tick
    <2>1. /\ thread' = thread /\ delay' = IF thread = "waiting" THEN delay - 1 ELSE delay
          /\ since' = IF thread # "ended" THEN Older(since, MaxSince) ELSE since
          /\ took' = IF thread = "running" THEN Older(took, MaxPass) ELSE took
          /\ thread = "running" => pass.by = "daemon"
      BY <1>7 DEF Tick, SchedulerTick, TakingLock, Up
    <2>2. CASE thread = "running"
      <3>1. pass.by = "daemon" /\ InPass
        BY <2>1, <2>2 DEF InPass, Idle
      <3>2. pass'.by = "daemon" /\ pass'.began = pass.began + 1 /\ pass.began < MaxPass
        BY <1>7, <3>1 DEF Tick, Aging, TypeOK, Passes
      <3>3. since <= took /\ took <= pass.began
        BY <1>2, <2>2, <3>1
      <3>4. took' = took + 1 /\ since' = since + 1
        BY <1>1, <2>1, <2>2, <3>2, <3>3, Bounds DEF Older, Never, MaxSince
      <3>5. QED
        BY <1>1, <2>1, <2>2, <3>2, <3>3, <3>4
    <2>3. CASE thread = "waiting"
      BY <1>1, <1>2, <2>1, <2>3, Bounds DEF Older, Never, MaxSince
    <2>4. CASE thread \notin {"running", "waiting"}
      BY <2>1, <2>4
    <2>5. QED
      BY <2>2, <2>3, <2>4
  <1>8. ASSUME NEW crash, JobEnds(crash) PROVE <1>3!1
    BY <1>1, <1>2, <1>8, Bounds DEF JobEnds
  <1>9. CASE Skip
    BY <1>8, <1>9 DEF Skip
  <1>10. CASE \E by \in {"daemon", "by hand"} : TakeLock(by)
    <2>1. PICK by \in {"daemon", "by hand"} : TakeLock(by)
      BY <1>10
    <2>2. pass' = Begun(by) /\ UNCHANGED <<thread, delay, since, took>> /\ pass = Idle
      BY <2>1, Zenon DEF TakeLock, Begun, schedulerVars, InPass
    <2>3. pass'.by = by /\ pass'.began \in {0} /\ pass.by # "daemon"
      BY <2>2 DEF Begun, Idle
    <2>4. CASE thread = "running"
      <3>1. since <= took /\ took = 0
        BY <1>2, <2>3, <2>4
      <3>2. since' <= took' /\ took' = 0 /\ thread' = "running"
        BY <2>2, <2>4, <3>1
      <3>3. took' <= pass'.began
        BY <2>3, <3>2, NotBelow, Zenon
      <3>4. QED
        BY <3>2, <3>3
    <2>5. CASE thread # "running"
      BY <1>1, <1>2, <2>2, <2>5
    <2>6. QED
      BY <2>4, <2>5
  <1>11. CASE CrashPass \/ EndPass
    <2>1. CASE pass.by = "daemon"
      BY <1>8, <1>11, <2>1 DEF CrashPass, EndPass, PassOver
    <2>2. CASE pass.by # "daemon"
      <3>1. UNCHANGED <<thread, delay, since, took>> /\ pass'.by # "daemon"
        BY <1>11, <2>2 DEF CrashPass, EndPass, PassOver, schedulerVars, Idle
      <3>2. QED
        BY <1>1, <1>2, <2>2, <3>1
    <2>3. QED
      BY <2>1, <2>2
  <1>12. CASE Step /\ ~EndPass
    <2>1. UNCHANGED <<thread, delay, since, took>> /\ pass'.began = pass.began /\ pass'.by = pass.by
      BY <1>12, StepLeavesScheduler, StepKeeps DEF schedulerVars
    <2>2. QED
      BY <1>1, <1>2, <2>1
  <1>13. QED
    BY <1>4, <1>5, <1>6, <1>7, <1>9, <1>10, <1>11, <1>12 DEF Next

LEMMA InitFresh == Init => Fresh /\ Remembered
  BY DEF Init, Fresh, Remembered, Idle, InPass

LEMMA SchedulerKept == Spec => [](TypeOK /\ Fresh /\ Remembered)
  <1>1. TypeOK /\ Fresh /\ Remembered /\ UNCHANGED vars => (Fresh /\ Remembered)'
    BY DEF vars, schedulerVars, Fresh, Remembered, InPass
  <1>2. QED
    BY ServiceTypes, InitFresh, FreshStep, RememberedStep, <1>1, PTL DEF Spec

\* /healthz raises no false alarm, for any interval and any length of a pass: a daemon
\* that has not crashed and is reported unhealthy had a pass longer than the interval.
THEOREM AlarmsAreTrue == Spec => []NoFalseAlarm
  <1>1. TypeOK /\ Fresh => NoFalseAlarm
    BY Bounds DEF TypeOK, SchedulerTypeOK, MaxSince, Fresh, NoFalseAlarm, IsHealthy, Up
  <1>2. QED
    BY SchedulerKept, <1>1, PTL

------------------------------------------------------------------------------
(***************************************************************************)
(* The grid signals.                                                       *)
(***************************************************************************)

Turn == {"tempo", "ecowatt", "season", "prices"}

\* What the turn of the grid has made sure of at a step `at` of a pass of the day `today`:
\* and a price of the last answer has a row, if any price has.
SoFar(at, today, signals) ==
    /\ at = "prices" => season \in 0..today
    /\ signals => at \notin Turn /\ ExtrasOf(today)
Listed == \A p \in listed : prices[p] = Never => \A q \in Prices : prices[q] = Never
SignalsSoFar == Listed /\ SoFar(pass.at, pass.today, pass.signals)

\* The extras are not due only when no date is Never or too long ago.
LEMMA ExtrasFound ==
    ASSUME SignalsTypeOK, Listed, NEW today \in 0..LongAgo, ~ExtrasDue(today)
    PROVE  ExtrasOf(today)
  <1>1. /\ season \in Aged(LongAgo) /\ prices \in [Prices -> Aged(LongAgo)]
        /\ listed \subseteq Prices /\ LongAgo \in Nat
    BY DEF SignalsTypeOK, LongAgo
  <1>2. ~NothingCached /\ ExtrasFetched = Max(Dates) /\ ~(ExtrasFetched > today)
    BY DEF ExtrasDue, ExtrasFetched
  <1>3. season # Never /\ \E q \in Prices : prices[q] # Never
    BY <1>2 DEF NothingCached
  <1>4. Dates \in SUBSET Nat /\ Dates # {} /\ \A x \in Dates : x <= LongAgo
    BY <1>1, <1>3 DEF Dates, Aged, LongAgo
  <1>5. Max(Dates) \in Dates /\ \A y \in Dates : y <= Max(Dates)
    BY <1>1, <1>4, GreatestExists
  <1>6. \A y \in Dates : y \in 0..today
    <2> DEFINE latest == Max(Dates)
    <2>1. latest \in Nat /\ ~(latest > today) /\ \A y \in Dates : y <= latest /\ y \in Nat
      BY <1>2, <1>4, <1>5
    <2> HIDE DEF latest
    <2>2. QED
      BY <2>1 DEF LongAgo
  <1>7. season \in Dates /\ \A p \in Prices : prices[p] # Never => prices[p] \in Dates
    BY DEF Dates
  <1>8. \A p \in listed : prices[p] # Never
    BY <1>1, <1>3 DEF Listed
  <1>9. QED
    BY <1>1, <1>6, <1>7, <1>8 DEF ExtrasOf

LEMMA ListedStep ==
    ASSUME TypeOK, Listed, SignalMoves
    PROVE  Listed'
  <1>1. /\ pass.asked \in 0..LongAgo /\ prices \in [Prices -> Aged(LongAgo)]
        /\ listed \subseteq Prices
    BY Fields DEF TypeOK, SignalsTypeOK
  <1>2. CASE SignalsTick
    <2>1. \A p \in Prices : prices'[p] = Never <=> prices[p] = Never
      <3>1. \A p \in Prices : prices[p] \in Aged(LongAgo) /\ prices'[p] = OlderDay(prices[p], LongAgo)
        BY <1>1, <1>2 DEF SignalsTick
      <3>2. QED
        BY <3>1 DEF Aged, OlderDay, Older, LongAgo, Never
    <2>2. QED
      BY <1>1, <1>2, <2>1 DEF SignalsTick, Listed
  <1>3. CASE \E answer \in SUBSET Prices : UpsertPrices(pass.asked, answer)
    BY <1>1, <1>3 DEF UpsertPrices, Listed, LongAgo, Never
  <1>4. CASE ~SignalsTick /\ ~(\E answer \in SUBSET Prices : UpsertPrices(pass.asked, answer))
    BY <1>4 DEF SignalMoves, UpsertTempo, UpsertEcowatt, UpsertSeason, signalVars, Listed
  <1>5. QED
    BY <1>2, <1>3, <1>4

LEMMA OtherStepsLeaveTurn ==
    ASSUME TypeOK, Step, ~EndPass, ~SyncRte
    PROVE  /\ UNCHANGED signalVars /\ pass'.today = pass.today /\ pass'.signals = pass.signals
           /\ pass'.at \notin Turn
  <1>1. pass \in Passes
    BY DEF TypeOK
  <1>2. UNCHANGED signalVars
    BY DEF Step, SignalsFail, TakeTurn, Consent, EndTurn, Failed, Refreshed, CustomerDone,
           Daily, Export
  <1>3. pass' = Publishing => /\ pass'.today = pass.today /\ pass'.signals = pass.signals
                              /\ pass'.at \notin Turn
    BY <1>1 DEF Publishing, At, Passes, Turn
  <1>4. CASE SignalsFail \/ CustomerDone \/ \E acked \in SUBSET TopicsOf(conf.consumption) : Export(acked)
    BY <1>1, <1>2, <1>4 DEF SignalsFail, CustomerDone, Export, At, Passes, Turn
  <1>5. CASE TakeTurn
    <2>1. CASE pass' = Publishing
      BY <1>2, <1>3, <2>1
    <2>2. CASE pass' = [At("consent") EXCEPT !.now = 0, !.due = DueResources(conf.resources)]
      BY <1>1, <1>2, <2>2 DEF At, Passes, Turn
    <2>3. QED
      BY <1>5, <2>1, <2>2 DEF TakeTurn
  <1>6. CASE \E valid, ban \in Raws : Consent(valid, ban)
    <2>1. CASE pass' = Publishing
      BY <1>2, <1>3, <2>1
    <2>2. ASSUME NEW consent, pass' = [At("customer") EXCEPT !.consent = consent]
          PROVE  pass'.today = pass.today /\ pass'.signals = pass.signals /\ pass'.at \notin Turn
      BY <1>1, <2>2 DEF At, Passes, Turn
    <2>3. QED
      BY <1>2, <1>6, <2>1, <2>2 DEF Consent
  <1>7. CASE EndTurn \/ \E days \in SUBSET Backlog : Daily(days)
    BY <1>2, <1>3, <1>7 DEF EndTurn, Daily
  <1>8. CASE \/ \E r \in Resources : Failed(r)
             \/ \E r \in Resources : \E entries \in AnswersOf(r) : Refreshed(r, entries)
    <2>1. pass.at = "customer" /\ \E r : pass' = [pass EXCEPT !.due = pass.due \ {r}]
      BY <1>8 DEF Failed, Refreshed, Answered
    <2>2. QED
      BY <1>1, <1>2, <2>1 DEF Passes, Turn
  <1>9. QED
    BY <1>4, <1>5, <1>6, <1>7, <1>8 DEF Step

LEMMA SignalsStep ==
    ASSUME TypeOK, SignalsSoFar, Next
    PROVE  SignalsSoFar'
  <1>1. /\ pass \in Passes /\ pass.today \in 0..LongAgo /\ pass.asked \in 0..LongAgo
        /\ pass.asked <= pass.today /\ listed \subseteq Prices
        /\ season \in Aged(LongAgo) /\ prices \in [Prices -> Aged(LongAgo)]
    BY Fields DEF TypeOK, SignalsTypeOK
  <1>2. Listed /\ SoFar(pass.at, pass.today, pass.signals)
    BY DEF SignalsSoFar
  <1>3. SUFFICES SoFar(pass.at, pass.today, pass.signals)'
    BY <1>2, ListedStep, Moves DEF SignalsSoFar
  <1>4. CASE pass' = Idle
    BY <1>4 DEF SoFar, Idle
  <1>5. CASE PassStays
    <2>1. CASE InPass
      <3>1. UNCHANGED signalVars
        BY <1>5, <2>1 DEF PassStays
      <3>2. QED
        BY <1>2, <1>5, <3>1 DEF PassStays, signalVars, SoFar, ExtrasOf
    <2>2. CASE ~InPass
      BY <1>4, <1>5, <2>2 DEF PassStays, InPass
    <2>3. QED
      BY <2>1, <2>2
  <1>6. CASE PassStarts
    <2>1. pass'.at \in {"tempo", "point"} /\ ~pass'.signals
      BY <1>6 DEF PassStarts, Begun, Idle
    <2>2. QED
      BY <2>1 DEF SoFar
  <1>7. CASE PassAges
    <2>1. /\ pass'.at = pass.at /\ pass'.signals = pass.signals
          /\ pass'.today = OlderDay(pass.today, LongAgo) /\ SignalsTick
      BY <1>1, <1>7 DEF PassAges, Tick, Aging, Passes
    <2>2. \A age \in 0..pass.today : OlderDay(age, LongAgo) \in 0..pass'.today
      BY <1>1, <2>1 DEF OlderDay, Older, LongAgo, Never
    <2>3. season' = OlderDay(season, LongAgo) /\ listed' = listed
          /\ \A p \in Prices : prices'[p] = OlderDay(prices[p], LongAgo)
      BY <2>1 DEF SignalsTick
    <2>4. QED
      BY <1>1, <1>2, <2>1, <2>2, <2>3 DEF SoFar, ExtrasOf
  <1>8. CASE SyncRte
    <2>1. /\ At("ecowatt").at = "ecowatt" /\ At("ecowatt").today = pass.today
          /\ At("ecowatt").signals = pass.signals
          /\ At("prices").at = "prices" /\ At("prices").today = pass.today
          /\ At("prices").signals = pass.signals
      BY <1>1 DEF At, Passes
    <2>2. /\ [At("season") EXCEPT !.asked = 0].at = "season"
          /\ [At("season") EXCEPT !.asked = 0].today = pass.today
          /\ [At("season") EXCEPT !.asked = 0].signals = pass.signals
      BY <1>1 DEF At, Passes
    <2>3. SignalsDone.at = "point" /\ SignalsDone.today = pass.today
      BY <1>1 DEF SignalsDone, At, Passes
    <2>4. pass.at \in Turn => ~pass.signals
      BY <1>2 DEF SoFar
    <2>5. ASSUME NEW days, Cached("tempo", UpsertTempo(days), At("ecowatt")) PROVE <1>3!1
      BY <2>1, <2>4, <2>5 DEF Cached, SoFar, Turn
    <2>6. ASSUME NEW days, Cached("ecowatt", UpsertEcowatt(days), AfterEcowatt) PROVE <1>3!1
      <3>1. pass.at = "ecowatt" /\ UNCHANGED <<season, prices, listed>>
        BY <2>6 DEF Cached, UpsertEcowatt
      <3>2. CASE ExtrasDue(pass.today)
        <4>1. pass'.at = "season" /\ ~pass'.signals
          BY <2>2, <2>4, <2>6, <3>1, <3>2 DEF Cached, AfterEcowatt, Turn
        <4>2. QED
          BY <4>1 DEF SoFar
      <3>3. CASE ~ExtrasDue(pass.today)
        <4>1. pass'.at = "point" /\ pass'.today = pass.today
          BY <2>3, <2>6, <3>3 DEF Cached, AfterEcowatt
        <4>2. ExtrasOf(pass.today)
          BY <1>1, <1>2, <3>3, ExtrasFound DEF TypeOK
        <4>3. QED
          BY <3>1, <4>1, <4>2 DEF SoFar, ExtrasOf, Turn
      <3>4. QED
        BY <3>2, <3>3
    <2>7. CASE Cached("season", UpsertSeason(pass.asked), At("prices"))
      <3>1. /\ pass.at = "season" /\ pass'.at = "prices" /\ pass'.today = pass.today
            /\ pass'.signals = pass.signals /\ season' = pass.asked
        BY <2>1, <2>7 DEF Cached, UpsertSeason
      <3>2. season' \in 0..pass'.today
        BY <1>1, <3>1 DEF LongAgo
      <3>3. QED
        BY <2>4, <3>1, <3>2 DEF SoFar, Turn
    <2>8. ASSUME NEW answer \in SUBSET Prices,
                 Cached("prices", UpsertPrices(pass.asked, answer), SignalsDone)
          PROVE  <1>3!1
      <3>1. /\ pass.at = "prices" /\ pass'.at = "point" /\ pass'.today = pass.today
            /\ season' = season /\ listed' = answer
            /\ \A p \in answer : prices'[p] = pass.asked
        BY <2>3, <2>8 DEF Cached, UpsertPrices
      <3>2. pass.asked \in 0..pass.today /\ season \in 0..pass.today
        BY <1>1, <1>2, <3>1 DEF SoFar, LongAgo
      <3>3. QED
        BY <3>1, <3>2 DEF SoFar, ExtrasOf, Turn
    <2>9. QED
      BY <1>8, <2>5, <2>6, <2>7, <2>8 DEF SyncRte
  <1>9. CASE Step /\ ~EndPass /\ ~SyncRte
    BY <1>2, <1>9, OtherStepsLeaveTurn DEF SoFar, ExtrasOf, signalVars, Turn
  <1>10. QED
    BY <1>4, <1>5, <1>6, <1>7, <1>8, <1>9, PassMoves

\* A pass that says the grid signals are done has the season, and each price RTE last
\* gave, cached for its day, for any set of prices and any answers: the extras count as
\* cached at the earliest of their dates, so that a pass that got the season and not the
\* prices does not spare the next one the prices.
THEOREM ExtrasAreOfTheDay == Spec => []ExtrasOfTheDay
  <1>1. Init => SignalsSoFar
    BY DEF Init, SignalsInit, SignalsSoFar, Listed, SoFar, Idle
  <1>2. SignalsSoFar /\ UNCHANGED vars => SignalsSoFar'
    BY DEF vars, signalVars, SignalsSoFar, Listed, SoFar, ExtrasOf
  <1>3. SignalsSoFar => ExtrasOfTheDay
    BY DEF SignalsSoFar, SoFar, ExtrasOfTheDay
  <1>4. QED
    BY ServiceTypes, SignalsStep, <1>1, <1>2, <1>3, PTL DEF Spec

------------------------------------------------------------------------------
(***************************************************************************)
(* Customer data.                                                          *)
(***************************************************************************)

\* A pass asks for customer data under a consent; and a failure is dated at most a pass
\* before it happened, as far as the ages tell.
ConsentSoFar ==
    pass.at = "customer" =>
        pass.consent.valid = "true" /\ pass.consent.ban \in {"false", "absent"}
TriedSoFar ==
    \A r \in Resources :
        /\ failed[r] = Never <=> tried[r] = Never
        /\ tried[r] # Never => tried[r] >= failed[r] - MaxPass \/ tried[r] >= Retry

LEMMA TriedStep ==
    ASSUME TypeOK, TriedSoFar, CustomerMoves
    PROVE  TriedSoFar'
  <1>1. /\ pass.now \in 0..MaxPass /\ pass.due \subseteq Resources
        /\ failed \in [Resources -> Aged(MaxFailed)] /\ tried \in [Resources -> Aged(Retry)]
    BY Fields DEF TypeOK, CustomerTypeOK
  <1>2. SUFFICES ASSUME NEW r \in Resources
                 PROVE  /\ failed'[r] = Never <=> tried'[r] = Never
                        /\ tried'[r] # Never =>
                             tried'[r] >= failed'[r] - MaxPass \/ tried'[r] >= Retry
    BY DEF TriedSoFar
  <1>3. /\ failed[r] = Never <=> tried[r] = Never
        /\ tried[r] # Never => tried[r] >= failed[r] - MaxPass \/ tried[r] >= Retry
        /\ failed[r] \in Aged(MaxFailed) /\ tried[r] \in Aged(Retry)
    BY <1>1 DEF TriedSoFar
  <1>4. CASE \E s \in Resources : \E entries \in AnswersOf(s) : Upsert(s, entries, pass.now)
    BY <1>1, <1>3, <1>4 DEF Upsert
  <1>5. CASE \E s \in pass.due : RecordFailure(s, pass.now)
    <2>1. PICK s \in pass.due : RecordFailure(s, pass.now)
      BY <1>5
    <2>2. CASE s = r
      <3>1. failed'[r] = pass.now /\ tried'[r] = 0
        BY <1>1, <2>1, <2>2 DEF RecordFailure
      <3>2. QED
        BY <1>1, <3>1, Bounds DEF Never
    <2>3. CASE s # r
      <3>1. failed'[r] = failed[r] /\ tried'[r] = tried[r]
        BY <1>1, <2>1, <2>3 DEF RecordFailure
      <3>2. QED
        BY <1>3, <3>1
    <2>4. QED
      BY <2>2, <2>3
  <1>6. CASE CustomerTick
    <2>1. failed'[r] = Older(failed[r], MaxFailed) /\ tried'[r] = Older(tried[r], Retry)
      BY <1>6 DEF CustomerTick
    <2>2. QED
      BY <1>3, <2>1, Bounds DEF Older, Aged, MaxFailed, Never
  <1>7. CASE UNCHANGED customerVars
    BY <1>3, <1>7 DEF customerVars
  <1>8. QED
    BY <1>4, <1>5, <1>6, <1>7 DEF CustomerMoves

LEMMA HeldBackStep ==
    ASSUME TypeOK, TriedSoFar, HeldBack, Next
    PROVE  HeldBack'
  <1>1. /\ pass \in Passes /\ pass.due \subseteq Resources /\ conf.resources \subseteq Resources
        /\ failed \in [Resources -> Aged(MaxFailed)] /\ tried \in [Resources -> Aged(Retry)]
    BY Fields, ServiceAssumption DEF TypeOK, CustomerTypeOK
  <1>2. pass'.due \subseteq pass.due /\ UNCHANGED tried => HeldBack'
    BY DEF HeldBack
  <1>3. pass'.due = {} => HeldBack'
    BY DEF HeldBack
  <1>4. CASE pass' = Idle
    BY <1>3, <1>4 DEF Idle
  <1>5. CASE PassStays
    <2>1. CASE InPass
      BY <1>2, <1>5, <2>1 DEF PassStays, customerVars
    <2>2. CASE ~InPass
      BY <1>4, <1>5, <2>2 DEF PassStays, InPass
    <2>3. QED
      BY <2>1, <2>2
  <1>6. CASE PassStarts
    BY <1>3, <1>6, BegunIsSound DEF PassStarts
  <1>7. CASE PassAges
    <2>1. pass'.due = pass.due
      BY <1>1, <1>7 DEF PassAges, Aging, Passes
    <2>2. tried' = [r \in Resources |-> Older(tried[r], Retry)]
      BY <1>7 DEF PassAges, Tick, CustomerTick
    <2>3. SUFFICES ASSUME NEW r \in pass.due
                   PROVE  tried'[r] = Never \/ tried'[r] >= Retry - MaxPass
      BY <2>1 DEF HeldBack
    <2>4. /\ tried'[r] = Older(tried[r], Retry) /\ tried[r] \in Aged(Retry)
          /\ tried[r] = Never \/ tried[r] >= Retry - MaxPass
      BY <1>1, <2>2 DEF HeldBack
    <2>5. QED
      BY <2>4, Bounds DEF Older, Aged, Never
  <1>8. CASE Step /\ ~EndPass
    <2>1. CASE TakeTurn
      <3>1. CASE pass' = Publishing
        BY <1>1, <1>3, <3>1 DEF Publishing, At, Passes
      <3>2. CASE pass' = [At("consent") EXCEPT !.now = 0, !.due = DueResources(conf.resources)]
        <4>1. pass'.due = DueResources(conf.resources) /\ tried' = tried
          BY <1>1, <2>1, <3>2 DEF At, Passes, TakeTurn, customerVars
        <4>2. SUFFICES ASSUME NEW r \in DueResources(conf.resources), tried[r] # Never
                       PROVE  tried[r] >= Retry - MaxPass
          BY <4>1 DEF HeldBack
        <4>3. r \in Resources /\ (failed[r] = Never \/ failed[r] >= Retry)
          BY <1>1 DEF DueResources, Due
        <4>4. /\ failed[r] # Never
              /\ tried[r] >= failed[r] - MaxPass \/ tried[r] >= Retry
              /\ failed[r] \in Aged(MaxFailed) /\ tried[r] \in Aged(Retry)
          BY <1>1, <4>2, <4>3 DEF TriedSoFar
        <4>5. QED
          BY <4>2, <4>3, <4>4, Bounds DEF Aged, MaxFailed, Never
      <3>3. QED
        BY <2>1, <3>1, <3>2 DEF TakeTurn
    <2>2. CASE \/ \E r \in Resources : Failed(r)
               \/ \E r \in Resources : \E entries \in AnswersOf(r) : Refreshed(r, entries)
      <3>1. PICK r \in Resources : \/ Failed(r)
                                   \/ \E entries \in AnswersOf(r) : Refreshed(r, entries)
        BY <2>2
      <3>2. pass'.due = pass.due \ {r}
        BY <1>1, <3>1 DEF Failed, Refreshed, Answered, Passes
      <3>3. \A other \in Resources \ {r} : tried'[other] = tried[other]
        BY <1>1, <3>1 DEF Failed, Refreshed, RecordFailure, Upsert
      <3>4. QED
        BY <1>1, <3>2, <3>3 DEF HeldBack
    <2>3. CASE ~TakeTurn /\ ~(\E r \in Resources : Failed(r))
               /\ ~(\E r \in Resources : \E entries \in AnswersOf(r) : Refreshed(r, entries))
      <3>1. tried' = tried
        BY <1>8, <2>3 DEF Step, SyncRte, Cached, SignalsFail, Consent, EndTurn, CustomerDone,
                          Daily, Export, customerVars
      <3>2. pass'.due \subseteq pass.due
        <4> DEFINE Quiet == pass'.due \subseteq pass.due
        <4>1. CASE pass' = Publishing
          BY <1>1, <4>1 DEF Publishing, At, Passes
        <4>2. CASE SyncRte \/ SignalsFail
          BY <1>1, <4>2 DEF SyncRte, Cached, AfterEcowatt, SignalsDone, SignalsFail, At, Passes
        <4>3. ASSUME NEW consent, pass' = [At("customer") EXCEPT !.consent = consent] PROVE Quiet
          BY <1>1, <4>3 DEF At, Passes
        <4>4. CASE \E valid, ban \in Raws : Consent(valid, ban)
          BY <4>1, <4>3, <4>4 DEF Consent
        <4>5. CASE CustomerDone \/ \E acked \in SUBSET TopicsOf(conf.consumption) : Export(acked)
          BY <1>1, <4>5 DEF CustomerDone, Export, At, Passes
        <4>6. CASE EndTurn \/ \E days \in SUBSET Backlog : Daily(days)
          BY <4>1, <4>6 DEF EndTurn, Daily
        <4>7. QED
          BY <1>8, <2>3, <4>2, <4>4, <4>5, <4>6 DEF Step
      <3>3. QED
        BY <1>2, <3>1, <3>2
    <2>4. QED
      BY <2>1, <2>2, <2>3
  <1>9. QED
    BY <1>4, <1>5, <1>6, <1>7, <1>8, PassMoves

LEMMA ConsentStep ==
    ASSUME TypeOK, ConsentSoFar, Next
    PROVE  ConsentSoFar'
  <1>1. pass \in Passes
    BY DEF TypeOK
  <1>2. pass'.at # "customer" => ConsentSoFar'
    BY DEF ConsentSoFar
  <1>3. pass'.at = pass.at /\ pass'.consent = pass.consent => ConsentSoFar'
    BY DEF ConsentSoFar
  <1>4. CASE pass' = Idle \/ PassStarts
    <2>1. pass' = Idle \/ \E by : pass' = Begun(by)
      BY <1>4 DEF PassStarts
    <2>2. Idle.at # "customer" /\ \A by : Begun(by).at # "customer"
      BY DEF Begun, Idle
    <2>3. QED
      BY <1>2, <2>1, <2>2
  <1>5. CASE PassStays
    BY <1>3, <1>5 DEF PassStays
  <1>6. CASE PassAges
    BY <1>1, <1>3, <1>6 DEF PassAges, Aging, Passes
  <1>7. CASE Step /\ ~EndPass
    <2>1. CASE pass' = Publishing
      BY <1>1, <1>2, <2>1 DEF Publishing, At, Passes
    <2>2. CASE SyncRte \/ SignalsFail \/ CustomerDone
               \/ \E acked \in SUBSET TopicsOf(conf.consumption) : Export(acked)
      BY <1>1, <1>2, <2>2 DEF SyncRte, Cached, AfterEcowatt, SignalsDone, SignalsFail, CustomerDone, Export,
                              At, Passes
    <2>3. CASE pass' = [At("consent") EXCEPT !.now = 0, !.due = DueResources(conf.resources)]
      BY <1>1, <1>2, <2>3 DEF At, Passes
    <2>4. CASE TakeTurn
      BY <2>1, <2>3, <2>4 DEF TakeTurn
    <2>5. CASE \E valid, ban \in Raws : Consent(valid, ban)
      <3>1. PICK valid \in Raws, ban \in Raws : Consent(valid, ban)
        BY <2>5
      <3> DEFINE consent == [valid |-> valid, ban |-> ban]
      <3>2. CASE /\ Granted(ParseConsent(valid, ban))
                 /\ pass' = [At("customer") EXCEPT !.consent = consent]
        <4>1. pass'.consent = consent
          BY <1>1, <3>2 DEF At, Passes
        <4>2. valid = "true" /\ ban \in {"false", "absent"}
          BY <3>1, <3>2 DEF Granted, ParseConsent, Flag, Raws, Consent, ConsentRefused
        <4>3. QED
          BY <4>1, <4>2 DEF ConsentSoFar
      <3>3. QED
        BY <2>1, <3>1, <3>2 DEF Consent
    <2>6. CASE EndTurn \/ \E days \in SUBSET Backlog : Daily(days)
      BY <2>1, <2>6 DEF EndTurn, Daily
    <2>7. CASE \/ \E r \in Resources : Failed(r)
               \/ \E r \in Resources : \E entries \in AnswersOf(r) : Refreshed(r, entries)
      BY <1>1, <1>3, <2>7 DEF Failed, Refreshed, Answered, Passes
    <2>8. QED
      BY <1>7, <2>2, <2>4, <2>5, <2>6, <2>7 DEF Step
  <1>8. QED
    BY <1>4, <1>5, <1>6, <1>7, PassMoves

LEMMA CustomerKept == Spec => [](TypeOK /\ HeldBack /\ ConsentSoFar /\ TriedSoFar)
  <1>1. Init => HeldBack /\ ConsentSoFar /\ TriedSoFar
    BY DEF Init, CustomerInit, HeldBack, ConsentSoFar, TriedSoFar, Idle
  <1>2. HeldBack /\ ConsentSoFar /\ TriedSoFar /\ UNCHANGED vars
            => (HeldBack /\ ConsentSoFar /\ TriedSoFar)'
    BY DEF vars, customerVars, HeldBack, ConsentSoFar, TriedSoFar
  <1>3. TypeOK /\ TriedSoFar /\ Next => TriedSoFar'
    BY TriedStep, Moves
  <1>4. QED
    BY ServiceTypes, HeldBackStep, ConsentStep, <1>1, <1>2, <1>3, PTL DEF Spec

\* What a pass is to ask for was refused, if it was, no less than CUSTOMER_RETRY ago but
\* for the length of a pass, however passes follow one another, end or crash.
THEOREM FailuresAreHeldBack == Spec => []HeldBack
  BY CustomerKept, PTL

LEMMA EntryIsOwn ==
    ASSUME NEW entries, EntryFor(entries) # 0
    PROVE  entries[EntryFor(entries)] # "other"
  <1> DEFINE taken == {i \in Stops(entries) :
                        entries[i] # "junk" /\ \A j \in Stops(entries) : i <= j}
  <1>1. taken # {} /\ EntryFor(entries) = CHOOSE i \in taken : TRUE
    BY DEF EntryFor
  <1>2. EntryFor(entries) \in taken
    BY <1>1
  <1>3. ASSUME NEW i \in taken PROVE entries[i] # "other"
    <2>1. Chosen(entries, i) /\ i \in DOMAIN entries
      BY <1>3 DEF Stops
    <2>2. CASE entries[i] = "own"
      BY <2>2
    <2>3. CASE entries = <<"unnamed">>
      BY <2>1, <2>3
    <2>4. QED
      BY <2>1, <2>2, <2>3 DEF Chosen
  <1>4. QED
    BY <1>2, <1>3

\* Customer data enters the cache only in a pass that was told, in flags it could read,
\* that the consent is valid and the meter not banned, and only from the entry of the meter asked about, whatever else the answer lists.
THEOREM ConsentIsAsked == Spec => OnlyWithConsent
  <1> DEFINE Allowed == \A r \in Resources :
                Taken(r) => /\ pass.consent.valid = "true"
                            /\ pass.consent.ban \in {"false", "absent"}
                            /\ r \notin others'
  <1>1. TypeOK /\ ConsentSoFar /\ [Next]_vars => [Allowed]_copy
    <2> SUFFICES ASSUME TypeOK, ConsentSoFar, Next, NEW r \in Resources, Taken(r)
                 PROVE  /\ pass.consent.valid = "true"
                        /\ pass.consent.ban \in {"false", "absent"}
                        /\ r \notin others'
      BY DEF vars, customerVars
    <2>1. copy \in [Resources -> Aged(MaxCopy)]
      BY DEF TypeOK, CustomerTypeOK
    <2>2. copy'[r] # Never /\ (copy[r] = Never \/ copy'[r] < copy[r])
      BY DEF Taken
    <2>3. CASE pass.at = "customer"
               /\ \E s \in Resources : \E entries \in AnswersOf(s) : Upsert(s, entries, pass.now)
      <3>1. PICK s \in Resources : \E entries \in AnswersOf(s) : Upsert(s, entries, pass.now)
        BY <2>3
      <3>2. PICK entries \in AnswersOf(s) : Upsert(s, entries, pass.now)
        BY <3>1
      <3>3. s = r
        BY <2>1, <2>2, <3>2, Bounds DEF Upsert, Aged, MaxCopy, Never
      <3>4. r \notin others'
        BY <3>2, <3>3, EntryIsOwn DEF Upsert, Readable
      <3>5. QED
        BY <2>3, <3>4 DEF ConsentSoFar
    <2>4. CASE \E s \in pass.due : RecordFailure(s, pass.now)
      BY <2>1, <2>2, <2>4, Bounds DEF RecordFailure, Aged, MaxCopy, Never
    <2>5. CASE CustomerTick
      <3>1. copy'[r] = Older(copy[r], MaxCopy) /\ copy[r] \in Aged(MaxCopy)
        BY <2>1, <2>5 DEF CustomerTick
      <3>2. QED
        BY <2>2, <3>1, Bounds DEF Older, Aged, MaxCopy, Never
    <2>6. CASE UNCHANGED customerVars
      BY <2>1, <2>2, <2>6, Bounds DEF customerVars, Aged, MaxCopy, Never
    <2>7. QED
      BY <2>3, <2>4, <2>5, <2>6, Moves DEF CustomerMoves
  <1>2. QED
    BY CustomerKept, <1>1, PTL DEF Spec, OnlyWithConsent

------------------------------------------------------------------------------
(***************************************************************************)
(* What is on the broker.                                                  *)
(***************************************************************************)

\* Once a delivery under the configuration was complete, the broker has the sensor if and
\* only if its dataset is configured, and totals only if it is, whichever deliveries were
\* cut short since.
THEOREM DiscoveryFollows == Spec => []ShownAsConfigured
  <1>1. Init => ShownAsConfigured
    BY DEF Init, PublicationInit, ShownAsConfigured
  <1>2. ShownAsConfigured /\ UNCHANGED vars => ShownAsConfigured'
    BY DEF vars, publicationVars, ShownAsConfigured
  <1>3. TypeOK /\ ShownAsConfigured /\ Next => ShownAsConfigured'
    <2> SUFFICES ASSUME TypeOK, ShownAsConfigured, Next PROVE ShownAsConfigured'
      OBVIOUS
    <2>1. broker \in [sensor : BOOLEAN, state : States]
      BY DEF TypeOK, PublicationTypeOK, States
    <2>2. CASE StartDaemon
      BY <2>2 DEF StartDaemon, ShownAsConfigured
    <2>3. CASE Tick
      <3>1. /\ broker'.sensor = broker.sensor
            /\ broker'.state.yesterday = broker.state.yesterday
            /\ broker'.state.window = broker.state.window
            /\ broker'.state.latest = broker.state.latest
        BY <2>1, <2>3 DEF Tick, PublicationTick, States
      <3>2. QED
        BY <2>3, <3>1 DEF Tick, PublicationTick, ShownAsConfigured
    <2>4. CASE \E acked \in SUBSET TopicsOf(conf.consumption) : Export(acked)
      <3>1. PICK acked \in SUBSET Topics : Deliver(conf.consumption, acked) /\ conf' = conf
        BY <2>4 DEF Export, TopicsOf
      <3>2. /\ broker'.sensor = IF "sensor" \in acked THEN conf.consumption ELSE broker.sensor
            /\ broker'.state = IF "state" \in acked THEN State(conf.consumption) ELSE broker.state
            /\ shown' = (shown \/ acked = Topics)
        BY <3>1 DEF Deliver, Message, Topics, TopicsOf
      <3>3. acked = Topics => "sensor" \in acked /\ "state" \in acked
        BY DEF Topics
      <3>4. ~conf.consumption => /\ State(conf.consumption).yesterday = Unknown
                                 /\ State(conf.consumption).window = Unknown
                                 /\ State(conf.consumption).latest = Unknown
        BY DEF State, Blank
      <3>5. QED
        BY <3>1, <3>2, <3>3, <3>4 DEF ShownAsConfigured
    <2>5. CASE ~StartDaemon /\ ~Tick
               /\ ~(\E acked \in SUBSET TopicsOf(conf.consumption) : Export(acked))
      <3>1. UNCHANGED <<broker, shown, conf>>
        BY <2>5 DEF Next, Step, StopDaemon, LeaveLoop, KillDaemon, Weather, Wake, Skip, TakeLock,
                    SyncRte, Cached, SignalsFail, TakeTurn, Consent, EndTurn, Failed, Refreshed,
                    CustomerDone, Daily, UpsertDaily, EndPass, CrashPass, PassOver,
                    publicationVars
      <3>2. QED
        BY <3>1 DEF ShownAsConfigured
    <2>6. QED
      BY <2>2, <2>3, <2>4, <2>5
  <1>4. QED
    BY ServiceTypes, <1>1, <1>2, <1>3, PTL DEF Spec
===============================================================================
