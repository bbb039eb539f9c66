-------------------------------- MODULE Quota --------------------------------
(***************************************************************************)
(* The quota governor (quota.py), the two tables it keeps in the store     *)
(* (gateway_call and quota_block) and the gateway client's request path    *)
(* (gateway.py, _get, _request and _interpret) that drives it.             *)
(*                                                                         *)
(* A client is a process: the pass that runs (the lock lets one run at a   *)
(* time) and any number of `purge-cache` commands, which take no lock.     *)
(* Every step below is one transaction of the store, one reading of the    *)
(* clock or one exchange with the gateway, and the steps of the clients    *)
(* interleave.  The gateway is nondeterministic: it may receive a call or  *)
(* not, and answer anything or nothing.                                    *)
(***************************************************************************)
EXTENDS Integers, FiniteSets, Sequences

CONSTANTS
    Clients,        \* the processes that talk to the gateway
    Buckets,        \* what calls are counted by: the usage points and "rte"
    Budget,         \* gateway.daily_call_budget
    PreferCache,    \* gateway.prefer_cache: try the gateway's /cache first
    DayTicks,       \* clock ticks in one UTC day
    MaxTime,        \* bound: the clock stops there
    MaxUntil        \* bound: the latest end of an upstream throttle

ASSUME QuotaAssumption ==
    /\ IsFiniteSet(Clients)
    /\ Budget \in Nat
    /\ PreferCache \in BOOLEAN
    /\ DayTicks \in Nat \ {0}
    /\ MaxTime \in Nat
    /\ MaxUntil \in Nat

VARIABLES
    now,            \* the clock every process reads
    calls,          \* table gateway_call: its rows, by id
    block,          \* table quota_block: until, 0 when the bucket has no row
    req,            \* the request each client is in the middle of
    received,       \* history: the calls that reached the gateway, and when
    refused,        \* history: the latest end a refusal announced, of those the
                    \* client did not drop to ask past /cache
    spent           \* history: the latest end of a spent day (409), dropped or not

table == <<calls, block>>
past  == <<received, refused, spent>>
vars  == <<now, table, req, past>>

Time == 0..MaxTime
Day(t) == t \div DayTicks
UtcMidnight(t) == t - (t % DayTicks)
NextUtcMidnight(t) == UtcMidnight(t) + DayTicks
Days == 0..Day(MaxTime)

\* NULL: not answered yet, or never.  200 stands for every answer that ends the
\* request and throttles nothing.
NULL == 0
Throttles == {429, 409}
Answers == {200, NULL} \union Throttles
Later(s, t) == IF t > s THEN t ELSE s

\* A row of gateway_call; no one reads more of its status than whether it is NULL.
Rows == [bucket : Buckets, at : Time, answered : BOOLEAN]

\* What a request holds at each point of _get: `at` is the clock as `reserve`
\* read it, `call` the id it returned, `until` the retry_at of a refusal.
Idle == [pc |-> "idle"]
Paths == {"cache", "live"}
Requests ==
    {Idle}
    \union [pc : {"reserving"}, bucket : Buckets, via : Paths, at : Time]
    \union [pc : {"sending", "waiting"}, bucket : Buckets, via : Paths, call : Nat]
    \union [pc : {"throttled"}, bucket : Buckets, via : Paths,
            status : Throttles, until : Nat]
    \union [pc : {"clearing"}, bucket : Buckets]

Reserving(b, path, t) == [pc |-> "reserving", bucket |-> b, via |-> path, at |-> t]
Throttled(b, path, s, u) ==
    [pc |-> "throttled", bucket |-> b, via |-> path, status |-> s, until |-> u]

------------------------------------------------------------------------------

CallsSince(b, since) == 
    {i \in DOMAIN calls : calls[i].bucket = b /\ calls[i].at >= since}
CallsOn(b, d) == 
    {i \in DOMAIN calls : calls[i].bucket = b /\ Day(calls[i].at) = d}
\* Mutants: an off-by-one; a budget that counts what was answered only.
BudgetSpentLate(b, t) == Cardinality(CallsSince(b, UtcMidnight(t))) > Budget
BudgetSpentOnAnswers(b, t) ==
    Cardinality({i \in CallsSince(b, UtcMidnight(t)) : calls[i].answered}) >= Budget
BudgetSpent(b, t) == Cardinality(CallsSince(b, UtcMidnight(t))) >= Budget
InForce(b, t) == block[b] > t
NewId == Len(calls) + 1

Init ==
    /\ now = 0
    /\ calls = <<>>
    /\ block = [b \in Buckets |-> 0]
    /\ req = [c \in Clients |-> Idle]
    /\ received = {}
    /\ refused = [b \in Buckets |-> 0]
    /\ spent = [b \in Buckets |-> 0]

\* Time passes between any two steps of any client.
Tick ==
    /\ now < MaxTime
    /\ now' = now + 1
    /\ UNCHANGED <<table, req, past>>

\* A request starts: which path is tried first, and the clock as `reserve` reads
\* it, before its transaction.
FirstPath(cacheable) == IF cacheable /\ PreferCache THEN "cache" ELSE "live"

Get(c, b, cacheable) ==
    /\ req[c] = Idle
    /\ req' = [req EXCEPT ![c] = Reserving(b, FirstPath(cacheable), now)]
    /\ UNCHANGED <<now, table, past>>

\* reserve_call's transaction, when a block is in force: QuotaExhaustedError.
\* (Mutant: wait in place until the block ends.)
RefuseBlockedWaits(c) ==
    /\ req[c].pc = "reserving"
    /\ InForce(req[c].bucket, req[c].at)
    /\ UNCHANGED vars

RefuseBlocked(c) ==
    /\ req[c].pc = "reserving"
    /\ InForce(req[c].bucket, req[c].at)
    /\ req' = [req EXCEPT ![c] = Idle]
    /\ UNCHANGED <<now, table, past>>

\* The same transaction over budget: the expired block, if any, is deleted all
\* the same, and the call is refused.
RefuseSpent(c) ==
    /\ req[c].pc = "reserving"
    /\ ~InForce(req[c].bucket, req[c].at)
    /\ BudgetSpent(req[c].bucket, req[c].at)
    /\ block' = [block EXCEPT ![req[c].bucket] = 0]
    /\ req' = [req EXCEPT ![c] = Idle]
    /\ UNCHANGED <<now, calls, past>>

\* The same transaction when the call may go: the row is there before the call.
\* Mutant: the row is dated at the reset, the neighbouring argument.
RowAtReset(b, t) ==
    [bucket |-> b, at |-> NextUtcMidnight(t), answered |-> FALSE]
Row(b, t) == [bucket |-> b, at |-> t, answered |-> FALSE]

Reserve(c) ==
    /\ req[c].pc = "reserving"
    /\ ~InForce(req[c].bucket, req[c].at)
    /\ ~BudgetSpent(req[c].bucket, req[c].at)
    /\ block' = [block EXCEPT ![req[c].bucket] = 0]
    /\ calls' = Append(calls, Row(req[c].bucket, req[c].at))
    /\ req' = [req EXCEPT ![c] = [pc |-> "sending", bucket |-> req[c].bucket,
                                  via |-> req[c].via, call |-> NewId]]
    /\ UNCHANGED <<now, past>>

\* The call leaves, and reaches the gateway or is lost on the way.
Receipt(c) == [id |-> req[c].call, bucket |-> req[c].bucket, on |-> Day(now)]

Send(c) ==
    /\ req[c].pc = "sending"
    /\ received' \in {received, received \union {Receipt(c)}}
    /\ req' = [req EXCEPT ![c].pc = "waiting"]
    /\ UNCHANGED <<now, table, refused, spent>>

\* An answer, or the timeout that ends the wait; settle_call's transaction; and,
\* for an answer that throttles, the reading of the clock for retry_at: the next
\* UTC midnight for 409, whatever the gateway says for 429.
\* Mutant: a call that got no answer is given back.
SettleCallRefunds(id, s) ==
    IF s = NULL THEN SubSeq(calls, 1, id - 1) \o SubSeq(calls, id + 1, Len(calls))
    ELSE [calls EXCEPT ![id].answered = TRUE]
SettleCall(id, s) == [calls EXCEPT ![id].answered = (s # NULL)]
RetryAt(s, t) == IF s = 409 THEN {NextUtcMidnight(t)} ELSE 1..MaxUntil

Settle(c, s) ==
    /\ req[c].pc = "waiting"
    /\ s # NULL => \E r \in received : r.id = req[c].call
    /\ calls' = SettleCall(req[c].call, s)
    /\ \/ /\ s \notin Throttles
          /\ req' = [req EXCEPT ![c] = Idle]
       \/ /\ s \in Throttles
          /\ \E u \in RetryAt(s, now) :
                req' = [req EXCEPT ![c] = Throttled(@.bucket, @.via, s, u)]
    /\ UNCHANGED <<now, block, past>>

\* The block is persisted, unless a later one is there already.  ThrottledError
\* then ends the request, except on the /cache path.
\* Mutant: the latest block written wins.
BlockUntilLast(old, new) == new
BlockUntil(old, new) == Later(old, new)
AfterThrottle(b, path) ==
    IF path = "cache" THEN [pc |-> "clearing", bucket |-> b] ELSE Idle

Block(c) ==
    /\ req[c].pc = "throttled"
    /\ block' = [block EXCEPT ![req[c].bucket] = BlockUntil(@, req[c].until)]
    /\ refused' = [refused EXCEPT ![req[c].bucket] = Later(@, req[c].until)]
    /\ spent' = IF req[c].status = 409
                THEN [spent EXCEPT ![req[c].bucket] = Later(@, req[c].until)] ELSE spent
    /\ req' = [req EXCEPT ![c] = AfterThrottle(@.bucket, @.via)]
    /\ UNCHANGED <<now, calls, received>>

\* The /cache path throttled: drop the block and ask the live path once.
ClearBlock(c) ==
    /\ req[c].pc = "clearing"
    /\ block' = [block EXCEPT ![req[c].bucket] = 0]
    /\ refused' = [refused EXCEPT ![req[c].bucket] = 0]
    /\ req' = [req EXCEPT ![c] = Reserving(@.bucket, "live", now)]
    /\ UNCHANGED <<now, calls, received, spent>>

\* The process dies anywhere; what it wrote to the store stays.
Crash(c) ==
    /\ req[c] # Idle
    /\ req' = [req EXCEPT ![c] = Idle]
    /\ UNCHANGED <<now, table, past>>

------------------------------------------------------------------------------

Continue(c) ==
    \/ RefuseBlocked(c)
    \/ RefuseSpent(c)
    \/ Reserve(c)
    \/ Send(c)
    \/ \E s \in Answers : Settle(c, s)
    \/ Block(c)
    \/ ClearBlock(c)

Next ==
    \/ Tick
    \/ \E c \in Clients :
        \/ \E b \in Buckets, cacheable \in BOOLEAN : Get(c, b, cacheable)
        \/ Continue(c)
        \/ Crash(c)

Spec == Init /\ [][Next]_vars

\* A process that is in the middle of a request goes on with it: no step waits
\* for another process but for the length of a transaction, and the HTTP client
\* has a timeout (gateway.py:156).  Nobody owes a new request, a crash or a tick.
FairSpec == Spec /\ \A c \in Clients : WF_vars(Continue(c))

------------------------------------------------------------------------------

TypeOK ==
    /\ now \in Time
    /\ calls \in Seq(Rows)
    /\ block \in [Buckets -> Nat]
    /\ req \in [Clients -> Requests]
    /\ received \subseteq [id : Nat, bucket : Buckets, on : Days]
    /\ refused \in [Buckets -> Nat]
    /\ spent \in [Buckets -> Nat]

\* No UTC day of a bucket has more reserved calls than the budget, although the
\* clock is read before the transaction that counts, and another process may
\* reserve, or midnight pass, in between (quota.py reserve, store.py
\* reserve_call).
BudgetPerDay ==
    \A b \in Buckets, d \in Days : Cardinality(CallsOn(b, d)) <= Budget

\* What reached the gateway is counted, one row for each call, whatever became of
\* the call and of its process: "a call that crashes or fails in transit still
\* counts" (quota.py).
EveryCallCounted ==
    /\ \A s \in received : s.id \in DOMAIN calls /\ calls[s.id].bucket = s.bucket
    /\ \A s, p \in received : s.id = p.id => s = p

\* The gateway counts calls when it receives them.  A process that reserved
\* before midnight may send after it, so the gateway can count more calls in a
\* UTC day than the budget: one more for each process, and never two.
SentOn(b, d) == {s \in received : s.bucket = b /\ s.on = d}

SentPerDay ==
    \A b \in Buckets, d \in Days :
        Cardinality(SentOn(b, d)) <= Budget + Cardinality(Clients)

\* "An upstream refusal becomes a persisted block honored until its end"
\* (quota.py): no process reserves a call of the bucket before the latest end
\* any process was told, whatever order they write it in, unless the /cache path
\* was throttled since and dropped the block on purpose (gateway.py, _get).
Reserves(c) == req[c].pc = "reserving" /\ req'[c].pc = "sending"

RefusalHonoured ==
    [][\A c \in Clients : Reserves(c) => now >= refused[req[c].bucket]]_vars

\* "The gateway's daily quota is spent" (409) holds until its end on every path.
SpentDayHonoured ==
    [][\A c \in Clients : Reserves(c) => now >= spent[req[c].bucket]]_vars

\* A request ends: refused, answered, or given up.  No refusal is waited for and
\* none is retried forever ("retry loops are structurally impossible").
RequestsEnd == \A c \in Clients : req[c] # Idle ~> req[c] = Idle

\* The governor implements the budget it promises.
Promise == INSTANCE DailyBudget WITH
    spent <- [b \in Buckets |-> [d \in Days |-> Cardinality(CallsOn(b, d))]]

CountedOneByOne == Promise!Spec
==============================================================================
