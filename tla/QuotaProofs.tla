----------------------------- MODULE QuotaProofs -----------------------------
(***************************************************************************)
(* Theorems about Quota for any number of clients, any buckets, any budget *)
(* and any length of the day.                                              *)
(***************************************************************************)
EXTENDS Quota, TLAPS, FiniteSetTheorems

(***************************************************************************)
(* Clock arithmetic.                                                       *)
(***************************************************************************)

\* A reading of the clock is on a day of the model, not before that day's
\* midnight, and its next midnight is a number (clock.py, utc_midnight).
LEMMA DayOfTime ==
    ASSUME NEW t \in Time
    PROVE  /\ Day(t) \in Days
           /\ UtcMidnight(t) \in Nat
           /\ NextUtcMidnight(t) \in Nat
  <1>1. t \in Nat /\ t <= MaxTime /\ MaxTime \in Nat /\ DayTicks \in Nat \ {0}
    BY QuotaAssumption DEF Time
  <1>2. t % DayTicks \in Nat /\ t % DayTicks <= t
    BY <1>1
  <1>3. t \div DayTicks \in Nat /\ t \div DayTicks <= MaxTime \div DayTicks
    BY <1>1
  <1>4. MaxTime \div DayTicks \in Nat
    BY <1>1
  <1>5. QED
    BY <1>1, <1>2, <1>3, <1>4 DEF Day, Days, UtcMidnight, NextUtcMidnight

\* All the calls dated on the day of t are among those `reserve` counts at t.
LEMMA DayIsCounted ==
    ASSUME NEW t \in Time, NEW u \in Time, Day(u) = Day(t)
    PROVE  u >= UtcMidnight(t)
  <1>1. t \in Nat /\ u \in Nat /\ DayTicks \in Nat \ {0}
    BY QuotaAssumption DEF Time
  <1>2. QED
    BY <1>1 DEF Day, UtcMidnight

(***************************************************************************)
(* Types.                                                                  *)
(***************************************************************************)

LEMMA AnsweredRow ==
    ASSUME NEW r \in Rows, NEW v \in BOOLEAN
    PROVE  /\ [r EXCEPT !.answered = v] \in Rows
           /\ [r EXCEPT !.answered = v].bucket = r.bucket
           /\ [r EXCEPT !.answered = v].at = r.at
  BY DEF Rows

\* settle_call changes one row in place: neither its bucket nor its date, and no
\* other row.
LEMMA SettledRows ==
    ASSUME TypeOK, NEW id \in Nat, NEW s \in Answers
    PROVE  /\ SettleCall(id, s) \in Seq(Rows)
           /\ DOMAIN SettleCall(id, s) = DOMAIN calls
           /\ \A i \in DOMAIN calls : /\ SettleCall(id, s)[i].bucket = calls[i].bucket
                                     /\ SettleCall(id, s)[i].at = calls[i].at
  <1> DEFINE row(i) == [calls[i] EXCEPT !.answered = (s # NULL)]
  <1>1. calls \in Seq(Rows) /\ Len(calls) \in Nat /\ DOMAIN calls = 1..Len(calls)
    BY DEF TypeOK
  <1>2. SettleCall(id, s) = [calls EXCEPT ![id] = row(id)]
    BY DEF SettleCall
  <1>3. \A i \in DOMAIN calls : /\ calls[i] \in Rows
                              /\ row(i) \in Rows
                              /\ row(i).bucket = calls[i].bucket
                              /\ row(i).at = calls[i].at
    <2>1. (s # NULL) \in BOOLEAN
      OBVIOUS
    <2>2. \A i \in DOMAIN calls : calls[i] \in Rows
      BY <1>1
    <2> DEFINE v == (s # NULL)
    <2> HIDE DEF v
    <2>3. QED
      BY <2>1, <2>2, AnsweredRow DEF v
  <1> HIDE DEF row
  <1>4. SettleCall(id, s) \in [1..Len(calls) -> Rows]
    BY <1>1, <1>2, <1>3
  <1>5. QED
    BY <1>1, <1>2, <1>3, <1>4

\* What a request holds at each point of _get.
LEMMA Fields ==
    ASSUME TypeOK, NEW c \in Clients
    PROVE  /\ req[c].pc = "reserving" => /\ req[c].bucket \in Buckets
                                        /\ req[c].via \in Paths
                                        /\ req[c].at \in Time
           /\ req[c].pc \in {"sending", "waiting"} => /\ req[c].bucket \in Buckets
                                                     /\ req[c].via \in Paths
                                                     /\ req[c].call \in Nat
  <1>1. req[c] \in Requests
    BY DEF TypeOK
  <1>2. ASSUME req[c].pc = "reserving"
        PROVE  req[c] \in [pc : {"reserving"}, bucket : Buckets, via : Paths, at : Time]
    BY <1>1, <1>2 DEF Requests, Idle
  <1>3. ASSUME req[c].pc \in {"sending", "waiting"}
        PROVE  req[c] \in [pc : {"sending", "waiting"}, bucket : Buckets, via : Paths,
                           call : Nat]
    BY <1>1, <1>3 DEF Requests, Idle
  <1>4. QED
    BY <1>2, <1>3

\* Type correctness: the states of the model are those of the code's tables and
\* of a client that runs _get.
LEMMA TypeStep == TypeOK /\ [Next]_vars => TypeOK'
  <1> SUFFICES ASSUME TypeOK, [Next]_vars PROVE TypeOK'
    OBVIOUS
  <1>2. QED
    <2> USE QuotaAssumption
    <2>1. CASE Tick
      BY <2>1 DEF Tick, TypeOK, Time, table, past
    <2>2. ASSUME NEW c \in Clients, NEW b \in Buckets, NEW cacheable \in BOOLEAN,
                 Get(c, b, cacheable)
          PROVE  TypeOK'
      <3>1. Reserving(b, FirstPath(cacheable), now) \in Requests
        BY DEF TypeOK, Requests, Reserving, FirstPath, Paths
      <3>2. QED
        BY <2>2, <3>1 DEF Get, TypeOK, table, past
    <2>3. ASSUME NEW c \in Clients, RefuseBlocked(c) PROVE TypeOK'
      BY <2>3 DEF RefuseBlocked, TypeOK, Requests, table, past
    <2>4. ASSUME NEW c \in Clients, RefuseSpent(c) PROVE TypeOK'
      BY <2>4 DEF RefuseSpent, TypeOK, Requests, past
    <2>5. ASSUME NEW c \in Clients, Reserve(c) PROVE TypeOK'
      <3>1. /\ req[c].bucket \in Buckets
            /\ req[c].at \in Time
            /\ req[c].via \in Paths
        BY <2>5 DEF Reserve, TypeOK, Requests, Idle
      <3>2. Row(req[c].bucket, req[c].at) \in Rows
        BY <3>1 DEF Row, Rows
      <3>3. calls' \in Seq(Rows)
        BY <2>5, <3>2 DEF Reserve, TypeOK
      <3>4. NewId \in Nat
        BY DEF NewId, TypeOK
      <3>5. req' \in [Clients -> Requests]
        BY <2>5, <3>1, <3>4 DEF Reserve, TypeOK, Requests
      <3>6. QED
        BY <2>5, <3>3, <3>5 DEF Reserve, TypeOK, past
    <2>6. ASSUME NEW c \in Clients, Send(c) PROVE TypeOK'
      <3>1. /\ req[c].bucket \in Buckets
            /\ req[c].via \in Paths
            /\ req[c].call \in Nat
            /\ req[c] = [pc |-> "sending", bucket |-> req[c].bucket,
                         via |-> req[c].via, call |-> req[c].call]
        BY <2>6 DEF Send, TypeOK, Requests, Idle
      <3>2. Receipt(c) \in [id : Nat, bucket : Buckets, on : Days]
        BY <3>1, DayOfTime DEF Receipt, TypeOK
      <3>3. [req[c] EXCEPT !.pc = "waiting"] \in Requests
        BY <3>1 DEF Requests
      <3>4. QED
        BY <2>6, <3>2, <3>3 DEF Send, TypeOK, table
    <2>7. ASSUME NEW c \in Clients, NEW s \in Answers, Settle(c, s) PROVE TypeOK'
      <3>1. /\ req[c].bucket \in Buckets
            /\ req[c].via \in Paths
            /\ req[c].call \in Nat
        BY <2>7 DEF Settle, TypeOK, Requests, Idle
      <3>2. calls' \in Seq(Rows)
        <4>1. calls' = SettleCall(req[c].call, s)
          BY <2>7 DEF Settle
        <4>2. QED
          BY <3>1, <4>1, SettledRows
      <3>3. \A u \in RetryAt(s, now) : u \in Nat
        BY DayOfTime DEF RetryAt, TypeOK
      <3>4. req' \in [Clients -> Requests]
        <4>1. CASE s \notin Throttles
          BY <2>7, <4>1 DEF Settle, TypeOK, Requests
        <4>2. CASE s \in Throttles
          <5>1. \A u \in Nat : Throttled(req[c].bucket, req[c].via, s, u) \in Requests
            BY <3>1, <4>2 DEF Requests, Throttled
          <5>2. PICK u \in RetryAt(s, now) :
                       req' = [req EXCEPT ![c] = Throttled(req[c].bucket, req[c].via, s, u)]
            BY <2>7, <4>2 DEF Settle
          <5>3. Throttled(req[c].bucket, req[c].via, s, u) \in Requests
            BY <3>3, <5>1
          <5> DEFINE r == Throttled(req[c].bucket, req[c].via, s, u)
          <5> HIDE DEF r
          <5>4. req' = [req EXCEPT ![c] = r] /\ r \in Requests
            BY <5>2, <5>3 DEF r
          <5>5. req \in [Clients -> Requests]
            BY DEF TypeOK
          <5>6. QED
            BY <5>4, <5>5
        <4>3. QED
          BY <4>1, <4>2
      <3>5. QED
        BY <2>7, <3>2, <3>4 DEF Settle, TypeOK, past
    <2>8. ASSUME NEW c \in Clients, Block(c) PROVE TypeOK'
      <3>1. /\ req[c].bucket \in Buckets
            /\ req[c].status \in Throttles
            /\ req[c].until \in Nat
        <4>1. req[c] \in Requests /\ req[c].pc = "throttled"
          BY <2>8 DEF Block, TypeOK
        <4>2. req[c] \in [pc : {"throttled"}, bucket : Buckets, via : Paths,
                          status : Throttles, until : Nat]
          BY <4>1 DEF Requests, Idle
        <4>3. QED
          BY <4>2
      <3>2. AfterThrottle(req[c].bucket, req[c].via) \in Requests
        BY <3>1 DEF AfterThrottle, Requests
      <3>3. block' \in [Buckets -> Nat]
        BY <2>8, <3>1 DEF Block, TypeOK, BlockUntil, Later
      <3>4. refused' \in [Buckets -> Nat] /\ spent' \in [Buckets -> Nat]
        BY <2>8, <3>1 DEF Block, TypeOK, Later
      <3>5. QED
        BY <2>8, <3>2, <3>3, <3>4 DEF Block, TypeOK
    <2>9. ASSUME NEW c \in Clients, ClearBlock(c) PROVE TypeOK'
      <3>1. req[c].bucket \in Buckets
        BY <2>9 DEF ClearBlock, TypeOK, Requests, Idle
      <3>2. Reserving(req[c].bucket, "live", now) \in Requests
        BY <3>1 DEF TypeOK, Requests, Reserving, Paths
      <3>3. QED
        BY <2>9, <3>2 DEF ClearBlock, TypeOK, past
    <2>10. ASSUME NEW c \in Clients, Crash(c) PROVE TypeOK'
      BY <2>10 DEF Crash, TypeOK, Requests, table, past
    <2>11. CASE UNCHANGED vars
      BY <2>11 DEF vars, TypeOK, table, past
    <2>12. QED
      BY <2>1, <2>2, <2>3, <2>4, <2>5, <2>6, <2>7, <2>8, <2>9, <2>10, <2>11
      DEF Next, Continue

THEOREM TypeCorrect == Spec => []TypeOK
  <1>1. Init => TypeOK
    BY QuotaAssumption DEF Init, TypeOK, Time, Requests, Idle
  <1>2. QED
    BY <1>1, TypeStep, PTL DEF Spec

(***************************************************************************)
(* The budget.                                                             *)
(***************************************************************************)

\* The calls of a bucket and a day are finitely many, so they can be counted.
LEMMA CountIsFinite ==
    ASSUME TypeOK, NEW b, NEW d
    PROVE  IsFiniteSet(CallsOn(b, d)) /\ Cardinality(CallsOn(b, d)) \in Nat
  <1>1. Len(calls) \in Nat /\ DOMAIN calls = 1..Len(calls)
    BY DEF TypeOK
  <1>2. IsFiniteSet(1..Len(calls))
    BY <1>1, FS_Interval
  <1>3. CallsOn(b, d) \in SUBSET (1..Len(calls))
    BY <1>1 DEF CallsOn
  <1>4. QED
    BY <1>2, <1>3, FS_Subset, FS_CardinalityType

\* `reserve` adds one row, to its bucket on the day of the clock it read.
LEMMA ReserveCounts ==
    ASSUME TypeOK, NEW c \in Clients, Reserve(c), NEW b, NEW d
    PROVE  /\ NewId \notin CallsOn(b, d)
           /\ CallsOn(b, d)' = IF b = req[c].bucket /\ d = Day(req[c].at)
                               THEN CallsOn(b, d) \union {NewId} ELSE CallsOn(b, d)
  <1> DEFINE row == Row(req[c].bucket, req[c].at)
  <1>1. calls \in Seq(Rows) /\ Len(calls) \in Nat /\ DOMAIN calls = 1..Len(calls)
    BY DEF TypeOK
  <1>2. calls' = Append(calls, row) /\ NewId = Len(calls) + 1
    BY DEF Reserve, NewId
  <1>3. row.bucket = req[c].bucket /\ row.at = req[c].at
    BY DEF Row
  <1> HIDE DEF row
  <1>4. /\ DOMAIN calls' = DOMAIN calls \union {NewId}
        /\ NewId \notin DOMAIN calls
        /\ calls'[NewId] = row
        /\ \A i \in DOMAIN calls : calls'[i] = calls[i]
    BY <1>1, <1>2
  <1>5. CallsOn(b, d)' = {i \in DOMAIN calls' : calls'[i].bucket = b /\ Day(calls'[i].at) = d}
    BY DEF CallsOn, Day
  <1>6. QED
    BY <1>3, <1>4, <1>5 DEF CallsOn

\* settle_call gives no call back and dates none anew.
LEMMA SettleCounts ==
    ASSUME TypeOK, NEW c \in Clients, NEW s \in Answers, Settle(c, s), NEW b, NEW d
    PROVE  CallsOn(b, d)' = CallsOn(b, d)
  <1>1. req[c].call \in Nat
    BY Fields DEF Settle
  <1>2. calls' = SettleCall(req[c].call, s)
    BY DEF Settle
  <1>3. /\ DOMAIN calls' = DOMAIN calls
        /\ \A i \in DOMAIN calls : /\ calls'[i].bucket = calls[i].bucket
                                   /\ calls'[i].at = calls[i].at
    BY <1>1, <1>2, SettledRows
  <1>4. CallsOn(b, d)' = {i \in DOMAIN calls' : calls'[i].bucket = b /\ Day(calls'[i].at) = d}
    BY DEF CallsOn, Day
  <1>5. QED
    BY <1>3, <1>4 DEF CallsOn

\* No other step writes the table of calls.
LEMMA OnlyReserveAndSettle ==
    ASSUME [Next]_vars
    PROVE  \/ \E c \in Clients : Reserve(c)
           \/ \E c \in Clients, s \in Answers : Settle(c, s)
           \/ calls' = calls
  BY DEF Next, Continue, Tick, Get, RefuseBlocked, RefuseSpent, Send, Block,
         ClearBlock, Crash, vars, table

\* When `reserve` lets a call go, its day still has room: all the calls dated on
\* that day are among those counted since its midnight.
LEMMA RoomOnTheDay ==
    ASSUME TypeOK, NEW c \in Clients, Reserve(c)
    PROVE  Cardinality(CallsOn(req[c].bucket, Day(req[c].at))) < Budget
  <1> DEFINE b == req[c].bucket
             t == req[c].at
             since == CallsSince(b, UtcMidnight(t))
  <1>1. t \in Time
    BY DEF Reserve, TypeOK, Requests, Idle
  <1>2. calls \in Seq(Rows) /\ Len(calls) \in Nat /\ DOMAIN calls = 1..Len(calls)
    BY DEF TypeOK
  <1>3. \A i \in DOMAIN calls : calls[i].at \in Time
    <2>1. \A i \in DOMAIN calls : calls[i] \in Rows
      BY <1>2
    <2>2. QED
      BY <2>1 DEF Rows
  <1>4. CallsOn(b, Day(t)) \in SUBSET since
    BY <1>1, <1>3, DayIsCounted DEF CallsOn, CallsSince
  <1>5. IsFiniteSet(since)
    <2>1. IsFiniteSet(1..Len(calls))
      BY <1>2, FS_Interval
    <2>2. since \in SUBSET (1..Len(calls))
      BY <1>2 DEF CallsSince
    <2>3. QED
      BY <2>1, <2>2, FS_Subset
  <1>6. ~(Cardinality(since) >= Budget)
    BY DEF Reserve, BudgetSpent
  <1> HIDE DEF b, t, since
  <1>7. /\ Cardinality(CallsOn(b, Day(t))) <= Cardinality(since)
        /\ Cardinality(since) \in Nat
        /\ Cardinality(CallsOn(b, Day(t))) \in Nat
    BY <1>4, <1>5, FS_Subset, FS_CardinalityType
  <1>8. Cardinality(CallsOn(b, Day(t))) < Budget
    BY <1>6, <1>7, QuotaAssumption
  <1>9. QED
    BY <1>8 DEF b, t

\* The count of every bucket and day after a call was let go.
LEMMA ReserveSpends ==
    ASSUME TypeOK, NEW c \in Clients, Reserve(c), NEW b, NEW d
    PROVE  Cardinality(CallsOn(b, d))' =
             IF b = req[c].bucket /\ d = Day(req[c].at)
             THEN Cardinality(CallsOn(b, d)) + 1 ELSE Cardinality(CallsOn(b, d))
  <1>1. Cardinality(CallsOn(b, d))' = Cardinality(CallsOn(b, d)')
    OBVIOUS
  <1>2. CASE b = req[c].bucket /\ d = Day(req[c].at)
    BY <1>1, <1>2, ReserveCounts, CountIsFinite, FS_AddElement
  <1>3. CASE ~(b = req[c].bucket /\ d = Day(req[c].at))
    BY <1>1, <1>3, ReserveCounts
  <1>4. QED
    BY <1>2, <1>3

\* No UTC day of a bucket ever has more reserved calls than the budget: the
\* promise of quota.py, for any number of processes.
THEOREM BudgetKept == Spec => []BudgetPerDay
  <1>1. Init => BudgetPerDay
    <2>1. ASSUME Init, NEW b \in Buckets, NEW d \in Days PROVE CallsOn(b, d) = {}
      BY <2>1 DEF Init, CallsOn
    <2>2. QED
      BY <2>1, FS_EmptySet, QuotaAssumption DEF BudgetPerDay
  <1>2. TypeOK /\ BudgetPerDay /\ [Next]_vars => BudgetPerDay'
    <2> SUFFICES ASSUME TypeOK, BudgetPerDay, [Next]_vars,
                        NEW b \in Buckets, NEW d \in Days
                 PROVE  Cardinality(CallsOn(b, d))' <= Budget
      BY DEF BudgetPerDay, Days, Day
    <2>1. Cardinality(CallsOn(b, d)) <= Budget /\ Cardinality(CallsOn(b, d)) \in Nat
      BY CountIsFinite DEF BudgetPerDay
    <2>2. ASSUME NEW c \in Clients, Reserve(c)
          PROVE  Cardinality(CallsOn(b, d))' <= Budget
      BY <2>1, <2>2, ReserveSpends, RoomOnTheDay, QuotaAssumption
    <2>3. ASSUME NEW c \in Clients, NEW s \in Answers, Settle(c, s)
          PROVE  Cardinality(CallsOn(b, d))' <= Budget
      BY <2>1, <2>3, SettleCounts
    <2>4. CASE calls' = calls
      BY <2>1, <2>4 DEF CallsOn, Day
    <2>5. QED
      BY <2>2, <2>3, <2>4, OnlyReserveAndSettle
  <1>3. QED
    BY <1>1, <1>2, TypeCorrect, PTL DEF Spec

\* The governor implements DailyBudget: a step counts one call more, on a day
\* that had room, or changes no count.
THEOREM GovernorImplementsBudget == Spec => CountedOneByOne
  <1>1. Init => Promise!Init
    <2>1. ASSUME Init, NEW b \in Buckets, NEW d \in Days PROVE CallsOn(b, d) = {}
      BY <2>1 DEF Init, CallsOn
    <2>2. QED
      BY <2>1, FS_EmptySet DEF Promise!Init
  <1> DEFINE counted == [b \in Buckets |-> [d \in Days |-> Cardinality(CallsOn(b, d))]]
  <1>2. TypeOK /\ [Next]_vars => [Promise!Next]_counted
    <2> SUFFICES ASSUME TypeOK, [Next]_vars PROVE Promise!Next \/ counted' = counted
      OBVIOUS
    <2>1. counted' = [b \in Buckets |-> [d \in Days |-> Cardinality(CallsOn(b, d))']]
      BY DEF Days, Day
    <2>2. ASSUME NEW c \in Clients, Reserve(c) PROVE Promise!Next
      <3> DEFINE b == req[c].bucket
                 d == Day(req[c].at)
      <3>1. b \in Buckets /\ d \in Days
        BY <2>2, DayOfTime DEF Reserve, TypeOK, Requests, Idle
      <3>2. counted[b][d] < Budget
        BY <2>2, <3>1, RoomOnTheDay
      <3>3. counted' = [counted EXCEPT ![b][d] = @ + 1]
        <4> DEFINE more(x, y) == IF x = b /\ y = d THEN counted[x][y] + 1 ELSE counted[x][y]
        <4>1. ASSUME NEW x \in Buckets, NEW y \in Days
              PROVE  Cardinality(CallsOn(x, y))' = more(x, y)
          BY <2>2, ReserveSpends
        <4>2. counted' = [x \in Buckets |-> [y \in Days |-> more(x, y)]]
          BY <2>1, <4>1 DEF Days, Day
        <4>3. DOMAIN counted = Buckets /\ \A x \in Buckets : counted[x] = [y \in Days |-> counted[x][y]]
          OBVIOUS
        <4> HIDE DEF b, d, counted
        <4>4. [x \in Buckets |-> [y \in Days |-> more(x, y)]] = [counted EXCEPT ![b][d] = @ + 1]
          BY <3>1, <4>3
        <4>5. QED
          BY <4>2, <4>4
      <3>4. Promise!Spend(b, d)
        BY <3>2, <3>3 DEF Promise!Spend
      <3>5. QED
        BY <3>1, <3>4 DEF Promise!Next
    <2>3. ASSUME NEW c \in Clients, NEW s \in Answers, Settle(c, s)
          PROVE  counted' = counted
      BY <2>1, <2>3, SettleCounts
    <2>4. CASE calls' = calls
      BY <2>1, <2>4 DEF CallsOn, Day
    <2>5. QED
      BY <2>2, <2>3, <2>4, OnlyReserveAndSettle
  <1>3. QED
    BY <1>1, <1>2, TypeCorrect, PTL DEF Spec, CountedOneByOne, Promise!Spec

(***************************************************************************)
(* What is sent is counted.                                                *)
(***************************************************************************)

\* A client that holds a call holds a row of its own, and one that is about to
\* send has not sent: EveryCallCounted is not inductive without it.
Holds(c) == req[c].pc \in {"sending", "waiting"}

OwnRow ==
    /\ \A c \in Clients : Holds(c) =>
         /\ req[c].call \in DOMAIN calls
         /\ calls[req[c].call].bucket = req[c].bucket
    /\ \A c, e \in Clients :
         Holds(c) /\ Holds(e) /\ req[c].call = req[e].call => c = e
    /\ \A c \in Clients, s \in received :
         req[c].pc = "sending" => s.id # req[c].call

CountedInv == TypeOK /\ EveryCallCounted /\ OwnRow

\* Rows are only added, and keep their bucket.
LEMMA RowsStay ==
    ASSUME TypeOK, [Next]_vars
    PROVE  \A i \in DOMAIN calls : i \in DOMAIN calls' /\ calls'[i].bucket = calls[i].bucket
  <1>1. calls \in Seq(Rows) /\ Len(calls) \in Nat /\ DOMAIN calls = 1..Len(calls)
    BY DEF TypeOK
  <1>2. ASSUME NEW c \in Clients, Reserve(c)
        PROVE  \A i \in DOMAIN calls : i \in DOMAIN calls' /\ calls'[i] = calls[i]
    <2> DEFINE row == Row(req[c].bucket, req[c].at)
    <2>1. calls' = Append(calls, row)
      BY <1>2 DEF Reserve
    <2> HIDE DEF row
    <2>2. QED
      BY <1>1, <2>1
  <1>3. ASSUME NEW c \in Clients, NEW s \in Answers, Settle(c, s)
        PROVE  \A i \in DOMAIN calls :
                  i \in DOMAIN calls' /\ calls'[i].bucket = calls[i].bucket
    <2>1. req[c].call \in Nat /\ calls' = SettleCall(req[c].call, s)
      BY <1>3, Fields DEF Settle
    <2>2. QED
      BY <2>1, SettledRows
  <1>4. QED
    BY <1>2, <1>3, OnlyReserveAndSettle

\* The client that takes a step, and what the step does to who holds what.
LEMMA CountedStep == CountedInv /\ [Next]_vars => CountedInv'
  <1> SUFFICES ASSUME CountedInv, [Next]_vars PROVE EveryCallCounted' /\ OwnRow'
    BY TypeStep DEF CountedInv
  <1> USE DEF CountedInv
  <1>1. \A i \in DOMAIN calls : i \in DOMAIN calls' /\ calls'[i].bucket = calls[i].bucket
    BY RowsStay
  <1>2. req \in [Clients -> Requests]
    BY DEF TypeOK
  <1>3. ASSUME received' = received,
               \A c \in Clients : Holds(c)' => Holds(c) /\ req'[c] = req[c]
        PROVE  EveryCallCounted' /\ OwnRow'
    BY <1>1, <1>3 DEF EveryCallCounted, OwnRow, Holds
  <1>4. ASSUME NEW c \in Clients, Reserve(c) PROVE EveryCallCounted' /\ OwnRow'
    <2> DEFINE row == Row(req[c].bucket, req[c].at)
    <2>1. calls \in Seq(Rows) /\ Len(calls) \in Nat /\ DOMAIN calls = 1..Len(calls)
      BY DEF TypeOK
    <2>2. calls' = Append(calls, row) /\ row.bucket = req[c].bucket
      BY <1>4 DEF Reserve, Row
    <2> HIDE DEF row
    <2>3. NewId \in DOMAIN calls' /\ NewId \notin DOMAIN calls /\ calls'[NewId] = row
      BY <2>1, <2>2 DEF NewId
    <2>4. received' = received
      BY <1>4 DEF Reserve, past
    <2>5. /\ req'[c] = [pc |-> "sending", bucket |-> req[c].bucket,
                        via |-> req[c].via, call |-> NewId]
          /\ \A e \in Clients \ {c} : req'[e] = req[e]
      BY <1>2, <1>4 DEF Reserve
    <2>6. req'[c].call = NewId /\ req'[c].bucket = req[c].bucket
      BY <2>5
    <2>7. EveryCallCounted'
      BY <1>1, <2>4 DEF EveryCallCounted
    <2>8. OwnRow'
      BY <1>1, <2>2, <2>3, <2>4, <2>5, <2>6 DEF OwnRow, Holds, EveryCallCounted
    <2>9. QED
      BY <2>7, <2>8
  <1>5. ASSUME NEW c \in Clients, Send(c) PROVE EveryCallCounted' /\ OwnRow'
    <2>1. /\ req[c].pc = "sending"
          /\ received' \in {received, received \union {Receipt(c)}}
          /\ calls' = calls
          /\ req' = [req EXCEPT ![c].pc = "waiting"]
      BY <1>5 DEF Send, table
    <2>2. Receipt(c).id = req[c].call /\ Receipt(c).bucket = req[c].bucket
      BY DEF Receipt
    <2>3. /\ req'[c].pc = "waiting"
          /\ req'[c].call = req[c].call
          /\ req'[c].bucket = req[c].bucket
          /\ \A e \in Clients \ {c} : req'[e] = req[e]
      <3>1. req[c] \in [pc : {"sending", "waiting"}, bucket : Buckets, via : Paths, call : Nat]
        BY <1>2, <2>1 DEF Requests, Idle
      <3>2. QED
        BY <1>2, <2>1, <3>1
    <2>4. EveryCallCounted'
      BY <2>1, <2>2 DEF EveryCallCounted, OwnRow, Holds
    <2>5. OwnRow'
      BY <2>1, <2>2, <2>3 DEF OwnRow, Holds
    <2>6. QED
      BY <2>4, <2>5
  <1>6. CASE Tick
    BY <1>3, <1>6 DEF Tick, past, Holds
  <1>7. ASSUME NEW c \in Clients, NEW r, req' = [req EXCEPT ![c] = r],
               r.pc \notin {"sending", "waiting"}, received' = received
        PROVE  EveryCallCounted' /\ OwnRow'
    <2>1. \A e \in Clients : Holds(e)' => Holds(e) /\ req'[e] = req[e]
      BY <1>2, <1>7 DEF Holds
    <2>2. QED
      BY <1>3, <1>7, <2>1
  <1>8. ASSUME NEW c \in Clients, NEW b \in Buckets, NEW cacheable \in BOOLEAN,
               Get(c, b, cacheable)
        PROVE  EveryCallCounted' /\ OwnRow'
    BY <1>7, <1>8 DEF Get, Reserving, past
  <1>9. ASSUME NEW c \in Clients, RefuseBlocked(c) PROVE EveryCallCounted' /\ OwnRow'
    BY <1>7, <1>9 DEF RefuseBlocked, Idle, past
  <1>10. ASSUME NEW c \in Clients, RefuseSpent(c) PROVE EveryCallCounted' /\ OwnRow'
    BY <1>7, <1>10 DEF RefuseSpent, Idle, past
  <1>11. ASSUME NEW c \in Clients, NEW s \in Answers, Settle(c, s)
         PROVE  EveryCallCounted' /\ OwnRow'
    <2>1. received' = received
      BY <1>11 DEF Settle, past
    <2>2. CASE req' = [req EXCEPT ![c] = Idle]
      BY <1>7, <2>1, <2>2 DEF Idle
    <2>3. ASSUME NEW u,
                 req' = [req EXCEPT ![c] = Throttled(req[c].bucket, req[c].via, s, u)]
          PROVE  EveryCallCounted' /\ OwnRow'
      BY <1>7, <2>1, <2>3 DEF Throttled
    <2>4. QED
      BY <1>11, <2>2, <2>3 DEF Settle
  <1>12. ASSUME NEW c \in Clients, Block(c) PROVE EveryCallCounted' /\ OwnRow'
    <2>1. AfterThrottle(req[c].bucket, req[c].via).pc \notin {"sending", "waiting"}
      BY DEF AfterThrottle, Idle
    <2>2. QED
      BY <1>7, <1>12, <2>1 DEF Block
  <1>13. ASSUME NEW c \in Clients, ClearBlock(c) PROVE EveryCallCounted' /\ OwnRow'
    BY <1>7, <1>13 DEF ClearBlock, Reserving, past
  <1>14. ASSUME NEW c \in Clients, Crash(c) PROVE EveryCallCounted' /\ OwnRow'
    BY <1>7, <1>14 DEF Crash, Idle, past
  <1>15. CASE UNCHANGED vars
    BY <1>3, <1>15 DEF vars, past, Holds
  <1>16. QED
    BY <1>4, <1>5, <1>6, <1>8, <1>9, <1>10, <1>11, <1>12, <1>13, <1>14, <1>15
    DEF Next, Continue

\* Every call that reached the gateway has a row of its own, even if the process
\* that made it died (quota.py: "a call that crashes or fails in transit still
\* counts").
THEOREM SentIsCounted == Spec => []EveryCallCounted
  <1>1. Init => CountedInv
    <2>1. Init => TypeOK
      BY QuotaAssumption DEF Init, TypeOK, Time, Requests, Idle
    <2>2. Init => EveryCallCounted /\ OwnRow
      BY DEF Init, EveryCallCounted, OwnRow, Holds, Idle
    <2>3. QED
      BY <2>1, <2>2 DEF CountedInv
  <1>2. CountedInv => EveryCallCounted
    BY DEF CountedInv
  <1>3. QED
    BY <1>1, <1>2, CountedStep, PTL DEF Spec

(***************************************************************************)
(* What is refused stays refused.                                          *)
(***************************************************************************)

\* The block that is persisted covers every refusal that has not ended; a request's
\* reading of the clock is never ahead of the clock.
Covered(b) == refused[b] <= block[b] \/ refused[b] <= now

HonourInv ==
    /\ TypeOK
    /\ \A c \in Clients : req[c].pc = "reserving" => req[c].at <= now
    /\ \A b \in Buckets : Covered(b)

\* A row deleted once it is over, or together with the refusals it stood for.
LEMMA DeletingCovers ==
    ASSUME HonourInv, NEW b \in Buckets, now' = now, block' = [block EXCEPT ![b] = 0],
           \/ refused' = refused /\ (block[b] <= now)
           \/ refused' = [refused EXCEPT ![b] = 0]
    PROVE  \A e \in Buckets : Covered(e)'
  <1>1. /\ \A e \in Buckets : block[e] \in Nat /\ refused[e] \in Nat
        /\ now \in Nat
        /\ block \in [Buckets -> Nat] /\ refused \in [Buckets -> Nat]
    BY DEF HonourInv, TypeOK, Time
  <1>2. SUFFICES ASSUME NEW e \in Buckets PROVE Covered(e)'
    OBVIOUS
  <1>3. Covered(e)
    BY DEF HonourInv
  <1>4. QED
    BY <1>1, <1>3 DEF Covered

LEMMA HonourStep == HonourInv /\ [Next]_vars => HonourInv'
  <1> SUFFICES ASSUME HonourInv, [Next]_vars PROVE HonourInv'
    OBVIOUS
  <1> DEFINE Behind(r) == r.pc = "reserving" => r.at <= now
  <1>1. TypeOK /\ TypeOK' /\ now \in Nat
    <2>1. TypeOK /\ TypeOK'
      BY TypeStep DEF HonourInv
    <2>2. now \in Nat
      BY <2>1 DEF TypeOK, Time
    <2>3. QED
      BY <2>1, <2>2
  <1>2. /\ \A c \in Clients : Behind(req[c])
        /\ \A b \in Buckets : Covered(b)
    BY DEF HonourInv
  <1>3. SUFFICES /\ \A c \in Clients : Behind(req[c])'
                 /\ \A b \in Buckets : Covered(b)'
    BY <1>1 DEF HonourInv
  <1>4. ASSUME NEW c \in Clients, NEW r, req' = [req EXCEPT ![c] = r],
               now' = now, Behind(r)
        PROVE  \A e \in Clients : Behind(req[e])'
    <2>1. ASSUME NEW e \in Clients PROVE req'[e] = req[e] \/ req'[e] = r
      BY <1>1, <1>4 DEF TypeOK
    <2>2. QED
      BY <1>2, <1>4, <2>1
  <1>5. ASSUME block' = block, refused' = refused, now' = now
        PROVE  \A b \in Buckets : Covered(b)'
    BY <1>2, <1>5 DEF Covered
  <1>6. Behind(Idle)
    BY DEF Idle
  <1>7. CASE Tick
    <2>1. \A b \in Buckets : refused[b] \in Nat /\ block[b] \in Nat
      BY <1>1 DEF TypeOK
    <2>2. \A c \in Clients : req[c].pc = "reserving" => req[c].at \in Nat
      <3>1. ASSUME NEW c \in Clients, req[c].pc = "reserving" PROVE req[c].at \in Time
        BY <1>1, <3>1, Fields
      <3>2. QED
        BY <3>1 DEF Time
    <2>3. QED
      BY <1>1, <1>2, <1>7, <2>1, <2>2 DEF Tick, table, past, Covered
  <1>8. ASSUME NEW c \in Clients, NEW b \in Buckets, NEW cacheable \in BOOLEAN,
               Get(c, b, cacheable)
        PROVE  (\A e \in Clients : Behind(req[e])') /\ \A e \in Buckets : Covered(e)'
    <2>1. Behind(Reserving(b, FirstPath(cacheable), now))
      BY <1>1 DEF Reserving
    <2> HIDE DEF Behind
    <2>2. QED
      BY <1>4, <1>5, <1>8, <2>1 DEF Get, table, past
  <1>9. ASSUME NEW c \in Clients, RefuseBlocked(c) \/ Crash(c)
        PROVE  (\A e \in Clients : Behind(req[e])') /\ \A e \in Buckets : Covered(e)'
    <2> HIDE DEF Behind
    <2>1. QED
      BY <1>4, <1>5, <1>6, <1>9 DEF RefuseBlocked, Crash, table, past
  <1>10. ASSUME NEW c \in Clients, req[c].pc = "reserving", ~InForce(req[c].bucket, req[c].at)
         PROVE  req[c].bucket \in Buckets /\ block[req[c].bucket] <= now
    <2>1. req[c].at <= now
      BY <1>2, <1>10
    <2>2. req[c].bucket \in Buckets /\ req[c].at \in Time
      BY <1>1, <1>10, Fields
    <2>3. block[req[c].bucket] \in Nat
      BY <1>1, <2>2 DEF TypeOK
    <2>4. QED
      BY <1>1, <1>10, <2>1, <2>2, <2>3 DEF InForce, Time
  <1>11. ASSUME NEW c \in Clients, RefuseSpent(c)
         PROVE  (\A e \in Clients : Behind(req[e])') /\ \A e \in Buckets : Covered(e)'
    <2> HIDE DEF Behind
    <2>1. QED
      BY <1>4, <1>6, <1>10, <1>11, DeletingCovers DEF RefuseSpent, past
  <1>12. ASSUME NEW c \in Clients, Reserve(c)
         PROVE  (\A e \in Clients : Behind(req[e])') /\ \A e \in Buckets : Covered(e)'
    <2> DEFINE r == [pc |-> "sending", bucket |-> req[c].bucket,
                     via |-> req[c].via, call |-> NewId]
    <2>1. Behind(r)
      OBVIOUS
    <2> HIDE DEF Behind, r
    <2>2. req' = [req EXCEPT ![c] = r]
      BY <1>12 DEF Reserve, r
    <2>3. QED
      BY <1>4, <1>10, <1>12, <2>1, <2>2, DeletingCovers DEF Reserve, past
  <1>13. ASSUME NEW c \in Clients, Send(c)
         PROVE  (\A e \in Clients : Behind(req[e])') /\ \A e \in Buckets : Covered(e)'
    <2> DEFINE r == [req[c] EXCEPT !.pc = "waiting"]
    <2>1. req[c] \in [pc : {"sending", "waiting"}, bucket : Buckets, via : Paths, call : Nat]
      BY <1>1, <1>13 DEF Send, TypeOK, Requests, Idle
    <2>2. Behind(r)
      BY <2>1
    <2> HIDE DEF Behind, r
    <2>3. req' = [req EXCEPT ![c] = r]
      BY <1>13 DEF Send, r
    <2>4. QED
      BY <1>4, <1>5, <1>13, <2>2, <2>3 DEF Send, table
  <1>14. ASSUME NEW c \in Clients, NEW s \in Answers, Settle(c, s)
         PROVE  (\A e \in Clients : Behind(req[e])') /\ \A e \in Buckets : Covered(e)'
    <2>1. \A u : Behind(Throttled(req[c].bucket, req[c].via, s, u))
      BY DEF Throttled
    <2> HIDE DEF Behind
    <2>2. QED
      BY <1>4, <1>5, <1>6, <1>14, <2>1 DEF Settle, past
  <1>15. ASSUME NEW c \in Clients, Block(c)
         PROVE  (\A e \in Clients : Behind(req[e])') /\ \A e \in Buckets : Covered(e)'
    <2> DEFINE b == req[c].bucket
               u == req[c].until
    <2>1. b \in Buckets /\ u \in Nat
      <3>1. req[c] \in Requests /\ req[c].pc = "throttled"
        BY <1>1, <1>15 DEF Block, TypeOK
      <3>2. req[c] \in [pc : {"throttled"}, bucket : Buckets, via : Paths,
                        status : Throttles, until : Nat]
        BY <3>1 DEF Requests, Idle
      <3>3. QED
        BY <3>2
    <2>2. Behind(AfterThrottle(req[c].bucket, req[c].via))
      BY DEF AfterThrottle, Idle
    <2>3. /\ block' = [block EXCEPT ![b] = Later(block[b], u)]
          /\ refused' = [refused EXCEPT ![b] = Later(refused[b], u)]
          /\ now' = now
      BY <1>15 DEF Block, BlockUntil
    <2> HIDE DEF b, u
    <2>4. ASSUME NEW e \in Buckets PROVE Covered(e)'
      <3>1. block[e] \in Nat /\ refused[e] \in Nat
        BY <1>1 DEF TypeOK
      <3>2. CASE e # b
        BY <1>1, <1>2, <2>3, <3>2 DEF TypeOK, Covered
      <3>3. CASE e = b
        <4>1. block'[e] = Later(block[e], u) /\ refused'[e] = Later(refused[e], u)
          BY <1>1, <2>1, <2>3, <3>3 DEF TypeOK
        <4>2. QED
          BY <1>1, <1>2, <2>1, <2>3, <3>1, <4>1 DEF Later, Covered
      <3>4. QED
        BY <3>2, <3>3
    <2> HIDE DEF Behind
    <2>5. QED
      BY <1>4, <1>15, <2>2, <2>3, <2>4 DEF Block
  <1>16. ASSUME NEW c \in Clients, ClearBlock(c)
         PROVE  (\A e \in Clients : Behind(req[e])') /\ \A e \in Buckets : Covered(e)'
    <2>1. req[c].bucket \in Buckets
      BY <1>1, <1>16 DEF ClearBlock, TypeOK, Requests, Idle
    <2>2. Behind(Reserving(req[c].bucket, "live", now))
      BY <1>1 DEF Reserving
    <2> HIDE DEF Behind
    <2>3. QED
      BY <1>4, <1>16, <2>1, <2>2, DeletingCovers DEF ClearBlock
  <1>17. CASE UNCHANGED vars
    BY <1>2, <1>17 DEF vars, table, past, Covered
  <1> HIDE DEF Behind
  <1>18. QED
    BY <1>7, <1>8, <1>9, <1>11, <1>12, <1>13, <1>14, <1>15, <1>16, <1>17
    DEF Next, Continue

\* No process reserves a call before the latest end of any refusal the gateway
\* announced (quota.py: "an upstream refusal becomes a persisted block honored
\* until its end"), in whatever order the refusals of several processes are
\* written, except those a throttled /cache request dropped; without
\* gateway.prefer_cache there are none of these.
THEOREM RefusalsHonoured == Spec => RefusalHonoured
  <1>1. Init => HonourInv
    <2>1. Init => TypeOK
      BY QuotaAssumption DEF Init, TypeOK, Time, Requests, Idle
    <2>2. QED
      BY <2>1 DEF Init, HonourInv, Covered, Idle
  <1>2. HonourInv /\ [Next]_vars =>
          [\A c \in Clients : Reserves(c) => now >= refused[req[c].bucket]]_vars
    <2> SUFFICES ASSUME HonourInv, Next, NEW c \in Clients, Reserves(c)
                 PROVE  now >= refused[req[c].bucket]
      OBVIOUS
    <2>1. TypeOK /\ req[c].pc = "reserving" /\ req'[c].pc = "sending"
      BY DEF HonourInv, Reserves
    <2>2. req \in [Clients -> Requests]
      BY <2>1 DEF TypeOK
    <2>3. ~InForce(req[c].bucket, req[c].at)
      <3>1. ASSUME NEW e \in Clients, NEW r, req' = [req EXCEPT ![e] = r],
                   r.pc # "sending" \/ e # c
            PROVE  FALSE
        BY <2>1, <2>2, <3>1
      <3>2. Reserve(c)
        BY <2>1, <2>2, <3>1 DEF Next, Continue, Tick, Get, Reserving, RefuseBlocked,
           RefuseSpent, Reserve, Send, Settle, Throttled, Block, AfterThrottle,
           ClearBlock, Crash, Idle
      <3>3. QED
        BY <3>2 DEF Reserve
    <2>4. req[c].bucket \in Buckets /\ req[c].at \in Time /\ req[c].at <= now
      BY <2>1, <2>2 DEF HonourInv, Requests, Idle
    <2>5. /\ block[req[c].bucket] <= req[c].at
          /\ block[req[c].bucket] \in Nat
          /\ refused[req[c].bucket] \in Nat
          /\ now \in Nat
      BY <2>1, <2>3, <2>4 DEF InForce, TypeOK, Time
    <2>6. Covered(req[c].bucket)
      BY <2>4 DEF HonourInv
    <2>7. QED
      BY <2>4, <2>5, <2>6 DEF Covered, Time
  <1>3. QED
    BY <1>1, <1>2, HonourStep, PTL DEF Spec, RefusalHonoured

(***************************************************************************)
(* What the gateway counts.                                                *)
(***************************************************************************)

\* The clients about to send a call dated before day d: a process sends at most one
\* such call on d, for its next request reads the clock anew.
DatedBefore(c, d) ==
    \/ req[c].pc = "reserving" /\ Day(req[c].at) < d
    \/ req[c].pc = "sending" /\ Day(calls[req[c].call].at) < d
Early(d) == {c \in Clients : DatedBefore(c, d)}

\* The calls the gateway counts on day d: dated before it, or on it.
Late(b, d) == {s \in SentOn(b, d) : Day(calls[s.id].at) < d}
OnTime(b, d) == {s \in SentOn(b, d) : Day(calls[s.id].at) = d}

\* No call is dated after the clock, nor received before its date.
Dated ==
    /\ \A c \in Clients : req[c].pc = "reserving" => req[c].at <= now
    /\ \A i \in DOMAIN calls : calls[i].at <= now
    /\ \A s \in received : s.on <= Day(now) /\ Day(calls[s.id].at) <= s.on

LateBounded ==
    \A b \in Buckets, d \in Days :
        /\ IsFiniteSet(Late(b, d))
        /\ d <= Day(now) => Cardinality(Late(b, d)) <= Cardinality(Clients \ Early(d))

SentInv == CountedInv /\ Dated /\ LateBounded

LEMMA DaysInOrder ==
    ASSUME NEW t \in Nat, NEW u \in Nat, t <= u
    PROVE  Day(t) \in Nat /\ Day(u) \in Nat /\ Day(t) <= Day(u)
  <1>1. DayTicks \in Nat \ {0}
    BY QuotaAssumption
  <1>2. t \div DayTicks \in Nat /\ u \div DayTicks \in Nat /\ t \div DayTicks <= u \div DayTicks
    BY <1>1
  <1>3. QED
    BY <1>2 DEF Day

\* Rows keep their date, and a new one has its request's.
LEMMA DatesStay ==
    ASSUME TypeOK, [Next]_vars
    PROVE  /\ \A i \in DOMAIN calls : i \in DOMAIN calls' /\ calls'[i].at = calls[i].at
           /\ \A i \in DOMAIN calls' \ DOMAIN calls : \E c \in Clients :
                req[c].pc = "reserving" /\ calls'[i].at = req[c].at
  <1>1. calls \in Seq(Rows) /\ Len(calls) \in Nat /\ DOMAIN calls = 1..Len(calls)
    BY DEF TypeOK
  <1>2. ASSUME NEW c \in Clients, Reserve(c)
        PROVE  /\ \A i \in DOMAIN calls : i \in DOMAIN calls' /\ calls'[i].at = calls[i].at
               /\ \A i \in DOMAIN calls' \ DOMAIN calls :
                    req[c].pc = "reserving" /\ calls'[i].at = req[c].at
    <2> DEFINE row == Row(req[c].bucket, req[c].at)
    <2>1. calls' = Append(calls, row) /\ row.at = req[c].at /\ req[c].pc = "reserving"
      BY <1>2 DEF Reserve, Row
    <2> HIDE DEF row
    <2>2. QED
      BY <1>1, <2>1
  <1>3. ASSUME NEW c \in Clients, NEW s \in Answers, Settle(c, s)
        PROVE  /\ DOMAIN calls' = DOMAIN calls
               /\ \A i \in DOMAIN calls : calls'[i].at = calls[i].at
    <2>1. req[c].call \in Nat /\ calls' = SettleCall(req[c].call, s)
      BY <1>3, Fields DEF Settle
    <2>2. QED
      BY <2>1, SettledRows
  <1>4. QED
    BY <1>2, <1>3, OnlyReserveAndSettle

\* What a step makes of a request.
LEMMA NextRequest ==
    ASSUME TypeOK, [Next]_vars, NEW e \in Clients
    PROVE  \/ req'[e] = req[e]
           \/ req'[e].pc = "reserving" /\ req'[e].at = now
           \/ /\ req[e].pc = "reserving" /\ req'[e].pc = "sending"
              /\ calls'[req'[e].call].at = req[e].at
           \/ req'[e].pc \notin {"reserving", "sending"}
  <1>1. req \in [Clients -> Requests]
    BY DEF TypeOK
  <1>2. ASSUME NEW c \in Clients, NEW r, req' = [req EXCEPT ![c] = r],
               \/ r.pc = "reserving" /\ r.at = now
               \/ r.pc \notin {"reserving", "sending"}
        PROVE  \/ req'[e] = req[e]
               \/ req'[e].pc = "reserving" /\ req'[e].at = now
               \/ req'[e].pc \notin {"reserving", "sending"}
    BY <1>1, <1>2
  <1>3. ASSUME NEW c \in Clients, Reserve(c)
        PROVE  \/ req'[e] = req[e]
               \/ /\ req[e].pc = "reserving" /\ req'[e].pc = "sending"
                  /\ calls'[req'[e].call].at = req[e].at
    <2> DEFINE row == Row(req[c].bucket, req[c].at)
               r == [pc |-> "sending", bucket |-> req[c].bucket, via |-> req[c].via,
                     call |-> NewId]
    <2>1. /\ req[c].pc = "reserving" /\ calls' = Append(calls, row)
          /\ req' = [req EXCEPT ![c] = r] /\ row.at = req[c].at
      BY <1>3 DEF Reserve, Row
    <2>2. r.pc = "sending" /\ r.call = NewId
      OBVIOUS
    <2> HIDE DEF row, r
    <2>3. calls'[NewId] = row
      BY <2>1 DEF TypeOK, NewId
    <2>4. QED
      BY <1>1, <2>1, <2>2, <2>3
  <1>4. ASSUME NEW c \in Clients, Send(c)
        PROVE  req'[e] = req[e] \/ req'[e].pc \notin {"reserving", "sending"}
    <2>1. req[c].pc = "sending" /\ req' = [req EXCEPT ![c].pc = "waiting"]
      BY <1>4 DEF Send
    <2>2. req[c] \in [pc : {"sending", "waiting"}, bucket : Buckets, via : Paths, call : Nat]
      BY <1>1, <2>1 DEF Requests, Idle
    <2>3. QED
      BY <1>1, <2>1, <2>2
  <1>5. ASSUME NEW c \in Clients, NEW s \in Answers, Settle(c, s)
        PROVE  req'[e] = req[e] \/ req'[e].pc \notin {"reserving", "sending"}
    <2>1. req' = [req EXCEPT ![c] = Idle]
          \/ \E u : req' = [req EXCEPT ![c] = Throttled(req[c].bucket, req[c].via, s, u)]
      BY <1>5 DEF Settle
    <2>2. QED
      BY <1>1, <2>1 DEF Idle, Throttled
  <1>6. ASSUME NEW c \in Clients, Block(c)
        PROVE  req'[e] = req[e] \/ req'[e].pc \notin {"reserving", "sending"}
    <2>1. AfterThrottle(req[c].bucket, req[c].via).pc \notin {"reserving", "sending"}
      BY DEF AfterThrottle, Idle
    <2>2. QED
      BY <1>1, <1>6, <2>1 DEF Block
  <1>7. ASSUME NEW c \in Clients, RefuseBlocked(c) \/ RefuseSpent(c) \/ Crash(c)
        PROVE  req'[e] = req[e] \/ req'[e].pc \notin {"reserving", "sending"}
    BY <1>1, <1>7 DEF RefuseBlocked, RefuseSpent, Crash, Idle
  <1>8. ASSUME NEW c \in Clients,
               ClearBlock(c)
                 \/ \E b \in Buckets, cacheable \in BOOLEAN : Get(c, b, cacheable)
        PROVE  req'[e] = req[e] \/ (req'[e].pc = "reserving" /\ req'[e].at = now)
    BY <1>1, <1>8 DEF ClearBlock, Get, Reserving
  <1>9. CASE Tick \/ UNCHANGED vars
    BY <1>9 DEF Tick, vars
  <1>10. QED
    BY <1>3, <1>4, <1>5, <1>6, <1>7, <1>8, <1>9 DEF Next, Continue

\* What a step makes of the calls received, and of the clock.
LEMMA NextReceived ==
    ASSUME TypeOK, [Next]_vars
    PROVE  /\ now \in Nat /\ now' \in Nat /\ now <= now'
           /\ \/ received' = received
              \/ \E c \in Clients : /\ Send(c) /\ now' = now
                                    /\ received' = received \union {Receipt(c)}
  <1>1. now \in Nat
    BY DEF TypeOK, Time
  <1>2. now' = now \/ now' = now + 1
    <2>1. CASE Tick
      BY <2>1 DEF Tick
    <2>2. CASE \E c \in Clients : Continue(c)
      BY <2>2 DEF Continue, RefuseBlocked, RefuseSpent, Reserve, Send, Settle, Block, ClearBlock
    <2>3. QED
      BY <2>1, <2>2 DEF Next, Get, Crash, vars
  <1>3. received' = received \/ \E c \in Clients : Send(c)
    BY DEF Next, Continue, Tick, Get, RefuseBlocked, RefuseSpent, Reserve,
       Settle, Block, ClearBlock, Crash, vars, past
  <1>4. \A c \in Clients : Send(c) =>
            now' = now /\ received' \in {received, received \union {Receipt(c)}}
    BY DEF Send
  <1>5. QED
    BY <1>1, <1>2, <1>3, <1>4

LEMMA DatedStep == CountedInv /\ Dated /\ [Next]_vars => Dated'
  <1> SUFFICES ASSUME CountedInv, Dated, [Next]_vars PROVE Dated'
    OBVIOUS
  <1> USE DEF CountedInv
  <1>1. now \in Nat /\ now' \in Nat /\ now <= now'
    BY NextReceived
  <1>2. Day(now) \in Nat /\ Day(now') \in Nat /\ Day(now) <= Day(now')
    BY <1>1, DaysInOrder
  <1>3. \A i \in DOMAIN calls : calls[i].at \in Nat
    <2>1. \A i \in DOMAIN calls : calls[i] \in Rows
      BY DEF TypeOK
    <2>2. QED
      BY <2>1 DEF Rows, Time
  <1>4. ASSUME NEW c \in Clients, req'[c].pc = "reserving" PROVE req'[c].at <= now'
    <2>1. req'[c] = req[c] \/ req'[c].at = now
      BY <1>4, NextRequest
    <2>2. CASE req'[c] = req[c]
      <3>1. req[c].at \in Nat /\ req[c].at <= now
        BY <1>4, <2>2, Fields DEF Dated, Time
      <3>2. QED
        BY <1>1, <2>2, <3>1
    <2>3. QED
      BY <1>1, <2>1, <2>2
  <1>5. ASSUME NEW i \in DOMAIN calls' PROVE calls'[i].at <= now'
    <2>1. CASE i \in DOMAIN calls
      <3>1. calls'[i].at = calls[i].at /\ calls[i].at <= now
        BY <2>1, DatesStay DEF Dated
      <3>2. QED
        BY <1>1, <1>3, <2>1, <3>1
    <2>2. CASE i \notin DOMAIN calls
      <3>1. PICK c \in Clients : req[c].pc = "reserving" /\ calls'[i].at = req[c].at
        BY <2>2, DatesStay
      <3>2. req[c].at \in Nat /\ req[c].at <= now
        BY <3>1, Fields DEF Dated, Time
      <3>3. QED
        BY <1>1, <3>1, <3>2
    <2>3. QED
      BY <2>1, <2>2
  <1>6. ASSUME NEW s \in received' PROVE s.on <= Day(now') /\ Day(calls'[s.id].at) <= s.on
    <2>1. CASE s \in received
      <3>1. s.id \in DOMAIN calls /\ s.on \in Nat
        <4>1. s \in [id : Nat, bucket : Buckets, on : Days] /\ Days \subseteq Nat
          BY <2>1 DEF TypeOK, Days
        <4>2. QED
          BY <2>1, <4>1 DEF EveryCallCounted
      <3>2. calls'[s.id].at = calls[s.id].at
        BY <3>1, DatesStay
      <3>3. s.on <= Day(now) /\ Day(calls[s.id].at) <= s.on
        BY <2>1 DEF Dated
      <3>4. QED
        BY <1>2, <3>1, <3>2, <3>3
    <2>2. CASE s \notin received
      <3>1. PICK c \in Clients : /\ Send(c) /\ now' = now
                                 /\ received' = received \union {Receipt(c)}
        BY <2>2, NextReceived
      <3>2. s = Receipt(c) /\ s.id = req[c].call /\ s.on = Day(now)
        BY <2>2, <3>1 DEF Receipt
      <3>3. req[c].call \in DOMAIN calls
        BY <3>1 DEF Send, OwnRow, Holds
      <3>4. calls'[s.id].at = calls[s.id].at /\ calls[s.id].at \in Nat /\ calls[s.id].at <= now
        BY <1>3, <3>2, <3>3, DatesStay DEF Dated
      <3>5. Day(calls[s.id].at) <= Day(now)
        BY <1>1, <3>4, DaysInOrder
      <3>6. QED
        BY <1>2, <3>1, <3>2, <3>4, <3>5
    <2>3. QED
      BY <2>1, <2>2
  <1>7. QED
    BY <1>4, <1>5, <1>6 DEF Dated, Day

\* By today, no other client joins those that may still send a call dated before d.
LEMMA EarlyShrinks ==
    ASSUME SentInv, [Next]_vars, NEW d \in Days, d <= Day(now)
    PROVE  Early(d)' \subseteq Early(d)
  <1> USE DEF SentInv, CountedInv
  <1> SUFFICES ASSUME NEW c \in Clients, DatedBefore(c, d)' PROVE DatedBefore(c, d)
    BY DEF Early
  <1>1. Day(now) \in Nat /\ d \in Nat
    BY NextReceived, DaysInOrder DEF Days
  <1>2. CASE req'[c] = req[c]
    <2>1. CASE req[c].pc = "sending"
      <3>1. req[c].call \in DOMAIN calls
        BY <2>1 DEF OwnRow, Holds
      <3>2. calls'[req[c].call].at = calls[req[c].call].at
        BY <3>1, DatesStay
      <3>3. QED
        BY <1>2, <2>1, <3>2 DEF DatedBefore, Day
    <2>2. CASE req[c].pc # "sending"
      BY <1>2, <2>2 DEF DatedBefore, Day
    <2>3. QED
      BY <2>1, <2>2
  <1>3. CASE req'[c].pc = "reserving" /\ req'[c].at = now
    <2>1. Day(now) < d
      BY <1>3 DEF DatedBefore, Day
    <2>2. QED
      BY <1>1, <2>1
  <1>4. CASE /\ req[c].pc = "reserving" /\ req'[c].pc = "sending"
             /\ calls'[req'[c].call].at = req[c].at
    BY <1>4 DEF DatedBefore, Day
  <1>5. CASE req'[c].pc \notin {"reserving", "sending"}
    BY <1>5 DEF DatedBefore
  <1>6. QED
    BY <1>2, <1>3, <1>4, <1>5, NextRequest

LEMMA LateKept ==
    ASSUME SentInv, [Next]_vars, NEW b, NEW d \in Days, received' = received
    PROVE  Late(b, d)' = Late(b, d)
  <1> USE DEF SentInv, CountedInv
  <1>1. \A s \in received : calls'[s.id].at = calls[s.id].at
    BY DatesStay DEF EveryCallCounted
  <1>2. QED
    BY <1>1 DEF Late, SentOn, Day

LEMMA LateSend ==
    ASSUME SentInv, [Next]_vars, NEW b, NEW d \in Days, NEW c \in Clients, Send(c),
           received' = received \union {Receipt(c)}
    PROVE  \/ Late(b, d)' = Late(b, d)
           \/ /\ Late(b, d)' = Late(b, d) \union {Receipt(c)}
              /\ c \in Early(d) /\ c \notin Early(d)'
  <1> USE DEF SentInv, CountedInv
  <1>1. calls' = calls /\ req[c].pc = "sending" /\ req' = [req EXCEPT ![c].pc = "waiting"]
    BY DEF Send, table
  <1>2. Receipt(c).id = req[c].call
    BY DEF Receipt
  <1>3. Late(b, d)' = {s \in received' : s.bucket = b /\ s.on = d /\ Day(calls[s.id].at) < d}
    BY <1>1 DEF Late, SentOn, Day
  <1>4. Late(b, d) = {s \in received : s.bucket = b /\ s.on = d /\ Day(calls[s.id].at) < d}
    BY DEF Late, SentOn
  <1>5. CASE Day(calls[req[c].call].at) < d
    <2>1. c \in Early(d)
      BY <1>1, <1>5 DEF Early, DatedBefore
    <2>2. req'[c].pc = "waiting"
      <3>1. req[c] \in [pc : {"sending", "waiting"}, bucket : Buckets, via : Paths, call : Nat]
        BY <1>1 DEF TypeOK, Requests, Idle
      <3>2. QED
        BY <1>1, <3>1 DEF TypeOK
    <2>3. c \notin Early(d)'
      BY <2>2 DEF Early, DatedBefore
    <2>4. QED
      BY <1>3, <1>4, <2>1, <2>3
  <1>6. CASE ~(Day(calls[req[c].call].at) < d)
    BY <1>2, <1>3, <1>4, <1>6
  <1>7. QED
    BY <1>5, <1>6

LEMMA LateStep == SentInv /\ [Next]_vars => LateBounded'
  <1> SUFFICES ASSUME SentInv, [Next]_vars, NEW b \in Buckets, NEW d \in Days
               PROVE  /\ IsFiniteSet(Late(b, d)')
                      /\ d <= Day(now') =>
                            Cardinality(Late(b, d)') <= Cardinality(Clients \ Early(d)')
    BY DEF LateBounded, Days, Day
  <1> USE DEF SentInv, CountedInv
  <1>1. IsFiniteSet(Late(b, d)) /\ Cardinality(Late(b, d)) \in Nat
    BY FS_CardinalityType DEF LateBounded
  <1>2. /\ Day(now) \in Nat /\ Day(now') \in Nat /\ Day(now) <= Day(now') /\ d \in Nat
        /\ \A s \in received : s.on \in Nat
    <2>1. Days \subseteq Nat
      BY DEF Days
    <2>2. \A s \in received : s.on \in Days
      BY DEF TypeOK
    <2>3. QED
      BY <2>1, <2>2, NextReceived, DaysInOrder
  <1>3. \A S \in SUBSET Clients : IsFiniteSet(S) /\ Cardinality(S) \in Nat
    BY QuotaAssumption, FS_Subset, FS_CardinalityType
  <1>4. CASE d <= Day(now)
    <2>1. Early(d)' \subseteq Early(d) /\ Early(d) \subseteq Clients
      BY <1>4, EarlyShrinks DEF Early
    <2>2. Cardinality(Late(b, d)) <= Cardinality(Clients \ Early(d))
      BY <1>4 DEF LateBounded
    <2> DEFINE S == Clients \ Early(d)
               S2 == Clients \ Early(d)'
    <2>3. S \subseteq S2 /\ S2 \in SUBSET Clients /\ S \in SUBSET Clients
      BY <2>1
    <2>4. Cardinality(S) <= Cardinality(S2) /\ IsFiniteSet(S)
          /\ Cardinality(S) \in Nat /\ Cardinality(S2) \in Nat
      <3> HIDE DEF S, S2
      <3>1. QED
        BY <1>3, <2>3, FS_Subset
    <2>5. CASE Late(b, d)' = Late(b, d)
      <3> HIDE DEF S, S2
      <3>1. Cardinality(Late(b, d)) <= Cardinality(S)
        BY <2>2 DEF S
      <3>2. Cardinality(Late(b, d)) <= Cardinality(S2)
        BY <1>1, <2>4, <3>1
      <3>3. QED
        BY <1>1, <2>5, <3>2 DEF S2
    <2>6. ASSUME NEW c \in Clients, Late(b, d)' = Late(b, d) \union {Receipt(c)},
                 c \in Early(d), c \notin Early(d)'
          PROVE  /\ IsFiniteSet(Late(b, d)')
                 /\ Cardinality(Late(b, d)') <= Cardinality(Clients \ Early(d)')
      <3>1. IsFiniteSet(Late(b, d)') /\ Cardinality(Late(b, d)') <= Cardinality(Late(b, d)) + 1
            /\ Cardinality(Late(b, d)') \in Nat
        <4> DEFINE L == Late(b, d)
                   x == Receipt(c)
        <4>1. IsFiniteSet(L) /\ Cardinality(L) \in Nat
          BY <1>1
        <4> HIDE DEF L, x
        <4>2. /\ IsFiniteSet(L \union {x})
              /\ Cardinality(L \union {x}) = IF x \in L THEN Cardinality(L) ELSE Cardinality(L) + 1
          BY <4>1, FS_AddElement
        <4>3. Cardinality(L \union {x}) \in Nat /\ Cardinality(L \union {x}) <= Cardinality(L) + 1
          BY <4>1, <4>2
        <4>4. QED
          BY <2>6, <4>2, <4>3 DEF L, x
      <3>2. S \union {c} \in SUBSET S2 /\ c \notin S
        BY <2>3, <2>6
      <3> HIDE DEF S, S2
      <3>3. Cardinality(S \union {c}) = Cardinality(S) + 1
        BY <2>4, <3>2, FS_AddElement
      <3>4. Cardinality(S \union {c}) <= Cardinality(S2)
        BY <1>3, <2>3, <3>2, FS_Subset
      <3>5. Cardinality(Late(b, d)) <= Cardinality(S)
        BY <2>2 DEF S
      <3>6. Cardinality(Late(b, d)') <= Cardinality(S2)
        BY <1>1, <2>4, <3>1, <3>3, <3>4, <3>5
      <3>7. QED
        BY <3>1, <3>6 DEF S2
    <2>7. CASE received' = received
      BY <2>5, <2>7, LateKept
    <2>8. CASE received' # received
      BY <2>5, <2>6, <2>8, NextReceived, LateSend
    <2>9. QED
      BY <2>7, <2>8
  <1>5. CASE ~(d <= Day(now))
    <2>1. Late(b, d) = {}
      BY <1>2, <1>5 DEF Late, SentOn, Dated
    <2>2. CASE received' = received
      <3>1. Late(b, d)' = {}
        BY <2>1, <2>2, LateKept
      <3>2. Cardinality(Late(b, d)') = 0 /\ IsFiniteSet(Late(b, d)')
        BY <3>1, FS_EmptySet
      <3>3. Clients \ Early(d)' \in SUBSET Clients
        OBVIOUS
      <3> DEFINE S2 == Clients \ Early(d)'
      <3>4. Cardinality(S2) \in Nat
        BY <1>3
      <3> HIDE DEF S2
      <3>5. 0 <= Cardinality(S2)
        BY <3>4
      <3>6. QED
        BY <3>2, <3>5 DEF S2
    <2>3. CASE received' # received
      <3>1. PICK c \in Clients : Send(c) /\ now' = now /\ received' = received \union {Receipt(c)}
        BY <2>3, NextReceived
      <3>2. Late(b, d)' \subseteq Late(b, d) \union {Receipt(c)}
        BY <3>1, LateSend
      <3>3. IsFiniteSet(Late(b, d)')
        BY <1>1, <3>2, FS_AddElement, FS_Subset
      <3>4. ~(d <= Day(now'))
        BY <1>5, <3>1
      <3>5. QED
        BY <3>3, <3>4
    <2>4. QED
      BY <2>2, <2>3
  <1>6. QED
    BY <1>2, <1>4, <1>5

\* A day's calls: those dated before it, a client each at most, and those dated on it, a row
\* each, of which there are no more than the budget.
LEMMA SentIsBounded ==
    ASSUME SentInv, BudgetPerDay, NEW b \in Buckets, NEW d \in Days
    PROVE  Cardinality(SentOn(b, d)) <= Budget + Cardinality(Clients)
  <1> USE DEF SentInv, CountedInv
  <1> DEFINE L == Late(b, d)
             T == OnTime(b, d)
             rows == CallsOn(b, d)
             id == [s \in T |-> s.id]
  <1>1. SentOn(b, d) = L \union T
    <2>1. ASSUME NEW s \in SentOn(b, d) PROVE Day(calls[s.id].at) < d \/ Day(calls[s.id].at) = d
      <3>1. s \in received /\ s.on = d /\ s.on \in Days
        BY DEF SentOn, TypeOK
      <3>2. Day(calls[s.id].at) <= d
        BY <3>1 DEF Dated
      <3>3. calls[s.id] \in Rows
        BY <3>1 DEF EveryCallCounted, TypeOK
      <3>4. Day(calls[s.id].at) \in Nat /\ d \in Nat
        BY <3>3, DayOfTime DEF Rows, Days
      <3>5. QED
        BY <3>2, <3>4
    <2>2. QED
      BY <2>1 DEF Late, OnTime
  <1>2. IsFiniteSet(L) /\ Cardinality(L) \in Nat /\ Cardinality(L) <= Cardinality(Clients)
    <2>1. IsFiniteSet(L) /\ Cardinality(L) \in Nat
      BY FS_CardinalityType DEF LateBounded
    <2>2. IsFiniteSet(Clients) /\ Cardinality(Clients) \in Nat
      BY QuotaAssumption, FS_CardinalityType
    <2> DEFINE S == Clients \ Early(d)
    <2>3. Cardinality(S) <= Cardinality(Clients) /\ Cardinality(S) \in Nat
      <3>1. S \in SUBSET Clients
        OBVIOUS
      <3> HIDE DEF S
      <3>2. QED
        BY <2>2, <3>1, FS_Subset, FS_CardinalityType
    <2>4. Day(now) \in Nat /\ d \in Nat
      BY DayOfTime DEF TypeOK, Days
    <2>5. CASE d <= Day(now)
      <3>1. Cardinality(L) <= Cardinality(S)
        BY <2>5 DEF LateBounded
      <3> HIDE DEF S, L
      <3>2. QED
        BY <2>1, <2>2, <2>3, <3>1
    <2>6. CASE ~(d <= Day(now))
      <3>1. L = {}
        BY <2>6, <2>4 DEF Late, SentOn, Dated
      <3>2. Cardinality(L) = 0
        BY <3>1, FS_EmptySet
      <3> HIDE DEF L
      <3>3. QED
        BY <2>1, <2>2, <3>2
    <2>7. QED
      BY <2>5, <2>6
  <1>3. IsFiniteSet(rows) /\ Cardinality(rows) \in Nat /\ Cardinality(rows) <= Budget
    BY CountIsFinite DEF BudgetPerDay
  <1>4. id \in Injection(T, rows)
    <2>1. \A s \in T : s.id \in rows
      BY DEF OnTime, SentOn, CallsOn, EveryCallCounted
    <2>2. \A s, p \in T : s.id = p.id => s = p
      BY DEF OnTime, SentOn, EveryCallCounted
    <2> HIDE DEF T, rows
    <2>3. QED
      BY <2>1, <2>2 DEF Injection, IsInjective
  <1>5. IsFiniteSet(T) /\ Cardinality(T) \in Nat /\ Cardinality(T) <= Cardinality(rows)
    <2> HIDE DEF T, rows, id
    <2>1. QED
      BY <1>3, <1>4, FS_Injection, FS_CardinalityType
  <1> HIDE DEF L, T, rows
  <1>6. /\ Cardinality(L \union T) = Cardinality(L) + Cardinality(T) - Cardinality(L \intersect T)
        /\ Cardinality(L \intersect T) \in Nat
    <2>1. L \intersect T \in SUBSET L
      OBVIOUS
    <2>2. Cardinality(L \intersect T) \in Nat
      BY <1>2, <2>1, FS_Subset, FS_CardinalityType
    <2>3. QED
      BY <1>2, <1>5, <2>2, FS_Union
  <1>7. Cardinality(Clients) \in Nat /\ Budget \in Nat
    BY QuotaAssumption, FS_CardinalityType
  <1>8. QED
    BY <1>1, <1>2, <1>3, <1>5, <1>6, <1>7

\* The gateway, which counts a call when it receives it, never counts more in a UTC day than
\* the budget and one call for each process, however many of them reserve before midnight
\* and send after it, die, or start again (quota.py, reserve; gateway.py, _request).
THEOREM SentIsBudgeted == Spec => []SentPerDay
  <1>1. Init => SentInv
    <2> SUFFICES ASSUME Init PROVE SentInv
      OBVIOUS
    <2>1. TypeOK
      BY QuotaAssumption DEF Init, TypeOK, Time, Requests, Idle
    <2>2. EveryCallCounted /\ OwnRow
      BY DEF Init, EveryCallCounted, OwnRow, Holds, Idle
    <2>3. Dated
      BY DEF Init, Dated, Idle
    <2>4. LateBounded
      <3>1. ASSUME NEW b \in Buckets, NEW d \in Days PROVE Late(b, d) = {}
        BY DEF Init, Late, SentOn
      <3>2. \A d \in Days : Cardinality(Clients \ Early(d)) \in Nat
        <4> TAKE d \in Days
        <4>1. Clients \ Early(d) \in SUBSET Clients
          OBVIOUS
        <4> DEFINE S == Clients \ Early(d)
        <4>2. S \in SUBSET Clients
          BY <4>1
        <4> HIDE DEF S
        <4>3. Cardinality(S) \in Nat
          BY <4>2, QuotaAssumption, FS_Subset, FS_CardinalityType
        <4>4. QED
          BY <4>3 DEF S
      <3>3. QED
        BY <3>1, <3>2, FS_EmptySet DEF LateBounded
    <2>5. QED
      BY <2>1, <2>2, <2>3, <2>4 DEF SentInv, CountedInv
  <1>2. SentInv /\ [Next]_vars => SentInv'
    BY CountedStep, DatedStep, LateStep DEF SentInv
  <1>3. SentInv /\ BudgetPerDay => SentPerDay
    BY SentIsBounded DEF SentPerDay
  <1>4. QED
    BY <1>1, <1>2, <1>3, BudgetKept, PTL DEF Spec
==============================================================================
