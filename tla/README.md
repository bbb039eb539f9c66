# A TLA+ verification of relève

relève fetches a household's electricity data from a quota-limited gateway
(MyElectricalData), keeps it in one SQLite file, and delivers it to Home
Assistant, InfluxDB and MQTT. What is hard in it is not the data but the
bookkeeping: a budget of calls shared by processes that know nothing of each
other, a change feed that must not skip a change whatever dies or is refused on
the way, and cumulative sums that an older day shifts. This directory models
that bookkeeping from the source, checks it with TLC and proves what matters
most with TLAPS. Paths below are relative to `src/src/releve/`.

## 1. The system

| component | state it keeps | operations | interacts with |
|---|---|---|---|
| quota governor (`quota.py`, quota tables of `store.py`) | `gateway_call`, `quota_block` | `reserve`, `settle`, `block`, `clear_block` | every request of every process, by transactions |
| gateway client (`gateway.py`) | the request in progress | `_get`, `_request`, `_interpret`, `delete_cache`; the parsers | governor before and after each call; one retry past `/cache` |
| customer data (`store.py`, `sync.py`) | `contract`, `identity`, `contact`, `address`, `consent`, `customer_failure` | `due_customer_resources`, `sync_customer` | a usage point's turn, before its readings |
| grid signals (`store.py`, `sync.py`) | `tempo_day`, `ecowatt`, `ecowatt_hour`, `tempo_season`, `tempo_price` | `sync_rte`, `tempo_extras_fetched_at` | the first turn of a pass |
| metering tables and change feed (`store.py`) | `daily_energy`, `load_curve`, `power_peak`, each row stamped with the run that changed it; `load_curve_removed`; `export_cursor` | `upsert_*`, `changed_*`, `removed_curve`, `earliest_changed_day`, `advance_export_cursor` | written by the pass, read by exporters and pages |
| curve arithmetic (`curve.py`) | none | `grid_step`, `incomplete_days`, `hourly_energy` | decides which answers replace which |
| sync pass (`sync.py`) | the pass lock, `run`, `run_event`, `confirmed_gap` | `run_pass`, `sync_usage_point`, `sync_rte`, `export` | drives all the others |
| planning (`planning.py`) | none | backlog, windows, settled days | called by the pass |
| InfluxDB exporter | what the sink holds | delete, then write in batches | change feed |
| Home Assistant exporter | `ha_boundary`, and what Home Assistant holds | discover, pin, adopt or refuse a boundary; rewrite a series | change feed, `ha-boundary --set` |
| MQTT exporter, `state.py`, `tariffs.py` | none (retained messages) | compose the state, publish everything | the cache |
| scheduler (`scheduler.py`, `serve`) | last pass, crash flag | `one_pass`, stop, `is_healthy` | the pass |
| store opening (`store.py`, `legacy.py`) | `user_version`, open lock, backups | migrate, upgrade a legacy file | every process at start |
| command line, configuration, web, metrics | none | read, print, validate | — |

Three processes can run at once on one database: the daemon (`serve`), a manual
`sync`, and a command (`purge-cache`, `ha-boundary --set`). They share nothing
but the database, its transactions, and a lock that lets one of them at a time
run a *pass*. `purge-cache` spends quota without the lock; `ha-boundary --set`
moves boundaries and cursors without it.

What makes each part correct:

* **governor** — a UTC day never counts more calls than the budget, although the
  clock is read before the transaction; a call that may have left is counted;
  a refusal is honoured to its end; every request ends.
* **change feed** — a cursor never passes a change its sink has not got; a day's
  curve only gets better, whatever order answers come in.
* **Home Assistant series** — the sums continue the boundary and each other after
  any history of late, changed and dropped days; nothing before the boundary is
  touched; a series does not change owner behind the user's back.
* **pass and planning** — a backlog is taken up where it was left; no day Enedis
  may still publish is given up; a refusal stops the usage point it concerns only.
* **opening** — one process migrates, a crash between two scripts is harmless, the
  legacy file is never lost.
* **scheduler** — a pass at a time, no pass lost, health tells the truth.

The hard behaviours are listed one by one, with their lines, as `hazards` in
`PROJECT.json`.

## 2. The modules

| module | what it is | checked by | proved in |
|---|---|---|---|
| `DailyBudget` | abstract: calls of a bucket are counted one at a time, never given back, never over the budget | refinement in `quota_budget` | `QuotaProofs` |
| `Quota` | governor, its tables, the client's request path | `MCQuota` | `QuotaProofs` |
| `CurveDay` | `grid_step` on the set of points of a day | through `ChangeFeed`, `Answers` | `AnswersProofs` |
| `ChangeFeed` | caching with stamps, journal of dropped points, pass lock, cursors, InfluxDB delivery | `MCChangeFeed` | `ChangeFeedProofs` |
| `HaSeries` | boundaries and cumulative rows of the Home Assistant exporter | `MCHaSeries` | `HaSeriesProofs` |
| `Planning` | windows, stretching, settled gaps: pure operators, and the reference `Fewest` | through `SyncPass` | `SyncPassProofs` |
| `SyncPass` | what a pass asks for, day by day, while the calendar moves | `MCSyncPass` | `SyncPassProofs` |
| `ParisDay` | a civil day of 23, 24 or 25 hours and its wall clock | through `Answers` | `AnswersProofs` |
| `Answers` | load-curve timestamps, hourly energy, tariff periods, Ecowatt hours | `MCAnswers` | `AnswersProofs` |
| `Archive` | abstract: what the database knows only grows | refinement in `opening` | `OpeningProofs` |
| `Opening` | open lock, WAL, schema scripts, legacy copy and upgrade, several releases | `MCOpening` | `OpeningProofs` |
| `Ages` | instants kept as ages, so that a clock may run for ever | through `Service` | `ServiceProofs` |
| `Scheduler` | the daemon's thread, its health and its end | through `Service` | `ServiceProofs` |
| `CustomerData` | consent, customer resources, the failures that hold them back | through `Service` | `ServiceProofs` |
| `GridSignals` | Tempo, Ecowatt, season and prices | through `Service` | `ServiceProofs` |
| `Publication` | the published state and its retained topics | through `Service` | `ServiceProofs` |
| `Service` | the composition of the five above: daemon, passes by hand, turns, publication, faults | `MCService` | `ServiceProofs` |
| `Induction` | lemmas: least members, induction, folds and sums over finite sets | — | itself |

`ChangeFeed` extends `CurveDay`, `SyncPass` extends `Planning`, `Answers` extends
`ParisDay` and instantiates `CurveDay` for each length of day. `Service` extends
`Scheduler`, `CustomerData`, `GridSignals` and `Publication`, which extend `Ages`:
each of those holds one component's tables and operations, and `Service` says in
which order, under which lock and with which faults a pass goes through them. The
others meet only in ways each already allows: `Quota` writes tables no one else
reads, and a call it refuses is `EndTurn` in `SyncPass` and `Service`, an answer that
does not come in `ChangeFeed` and `HaSeries`, where a pass may end its fetching at
any point.

### Quota

`calls` and `block` are the two tables, `req[c]` the program counter of process
`c` inside `_get`. `Get` picks the path and reads the clock; `RefuseBlocked`,
`RefuseSpent` and `Reserve` are the three outcomes of `reserve_call`'s single
transaction; `Send` may or may not reach the gateway; `Settle` is the answer (or
the timeout), `settle_call`, and the reading of the clock that dates the end of a
refusal; `Block` is `Store.block`, a later transaction; `ClearBlock` the retry past
`/cache`. `Tick` and `Crash` may come between any two. `received`, `refused` and
`spent` are history variables, what the gateway saw and announced: `refused`
forgets what the client drops to ask past `/cache`, `spent` does not.
The status of an answer is abstracted to *429*, *409*, *no answer* or any other.

### CurveDay and ChangeFeed

A point is the end of its interval, in ticks from the start of the day, so a
day's curve is a set of ticks and `GridStep` a predicate on that set; days of 23
or 25 hours are other values of `DayLength`. The store holds one series day
(`Points`) and any number of single rows (`Rows`: daily energy, power peaks) with
one map `value` and one map `stamp`; `removed` is `load_curve_removed`. A pass
goes `fetching` → `exporting` → `delivering` → … → `Finish`, and holds the lock
from `Start` on. `Export` reads the cursor and the feed; `Delete` is one delete
request, `Write` a batch *or the part of it the sink took*; `answered = FALSE` is
a request that was applied and whose answer was lost. `left` is any set of sinks
because the configuration may enable other exporters from one process to the
next. `Refusing` sinks answer 4xx to every deletion, as VictoriaMetrics does.

### HaSeries

One direction per usage point, hours numbered in `Slots`. A complete curve *is*
its hours (`Grids`), `Partial` any other; `CacheTotal` and `CacheCurve` keep of
`upsert_daily` and `upsert_curve` what this exporter sees of them: the value and
the run that changed the day. `Continue`, `Adopt`, `RefuseOwner` and `Discover`
are the four outcomes of `_boundary`, `Pin` its write, `Import` one request of
`RowsPerImport` rows, applied whether or not it is answered. `SetBoundary` and
`Configure` are the user. The pass is alone here — that the lock does this is
what `ChangeFeed` checks — so the pass is one variable and no process has a name.

### Planning and SyncPass

`PlanWindows` folds over the missing days, newest first, as `plan_windows` loops
over them, then over the partial days. In `SyncPass`, `got` says of each day
whether the cache holds nothing, part or the whole of it, `gaps` is
`confirmed_gap`, `day` the Paris day by the clock and `pass.today` the one the pass
read when it started. `TakeTurn` reads a usage point's backlog, `Consent` and
`EndTurn` are the two ends of what precedes metering (`EndTurn` also the quota,
token and transport failures of any window), `PlanDataset` plans, and a window
ends as `FetchAnswer` or `FetchNothing` (404 or 400). `FetchAnswer(_, FALSE)` is
the process dying between the caching and the gaps, two transactions in the code.

### ParisDay and Answers

An instant is in ticks from the start of its Paris day, a wall-clock time in ticks too;
`Wall` and `AtParis` are the two directions of `zoneinfo` over the one switch a day may
have, `fold` included. `Answers` is the loop of `parse_load_curve` over one day: `told` is
the history of the instants the readings are of, which the code does not see, `seen` and
`points` the loop's two collections. The rest are functions of the points: `HourlyEnergy`
(`curve.py`), the tariff periods (`tariffs.py`, `_period_totals`), and the hours and day
of an Ecowatt signal, whose stamps are wall-clock times or carry their offset. A range of
off-peak hours is the two numbers the regular expression finds on either side; energies
are watts times ticks, so no division is left to round.

### Archive and Opening

A row is a table and a key. `at[p]` is where a process is in `Store._prepare`,
`next[p]` the script it runs next; each `Script` and the whole `Upgrade` is one
transaction. `Leave` is the end of a process at any step, killed or not, and frees the
lock and the switch it was in; the copy it was writing stays. `Scripts[p]` is the
number of scripts its release comes with, so an older release may run beside a newer
one. `Facts` is the refinement mapping: what rows *mean*, since the legacy layout
and the scripts before `RedatingScript` date an Ecowatt signal one day early.

### Service

Nothing here is bounded in time. The program never compares two instants but to ask how
long ago one was, so `Ages` keeps an instant as its age, saturated where no comparison
tells it from an older one, and a Paris day as *days ago*. `thread`, `stop`, `delay`,
`since` and `crashed` are the scheduler's; `pass` is the pass under way, by the daemon or
by hand: its step, the day it began on (`today`, read once) and the clock it goes by. A
pass asks for Tempo, Ecowatt, and season and prices when due, and each answer holds any of
the days and prices asked for, or none: `tempo` and `ecowatt` are the *sets of days* known
from today on, `season` and `prices` the day each was fetched on, `listed` the history of
what the last answer of prices held. (That of the season is whole, or `parse_tempo_season`
refuses it.) Then `TakeTurn` reads what is due of a usage point, `Consent` asks,
`Refreshed` or `Failed` end each resource; `failed` is dated by the clock the turn read
when it began, as `sync_customer` dates it, and the history `tried` by the attempt itself.
The pass keeps the flags of the consent as the gateway sent them. `Daily` caches readings;
`Export` publishes, and the broker may end with any part of it. `Skip` is the daemon that
finds the lock taken, `CrashPass` an exception, `KillDaemon` a kill. `calm` is a prophecy:
once it is true nothing fails any more and an answer holds the present day and every
price, which is what the liveness property needs to be said.

## 3. The runs

| run | instance | shows |
|---|---|---|
| `quota_budget` | 2 processes, 1 bucket, budget 2, one midnight, `/cache` on, fairness | `BudgetPerDay`, `EveryCallCounted`, `SentPerDay`, `RefusalHonoured`, `CountedOneByOne` (refinement of `DailyBudget`), `RequestsEnd` |
| `quota_spent_day` | the same, two ticks a day | *violated*: a 409 on `/cache` is not honoured |
| `change_feed` | 2 processes, 3 passes, 1 row, a curve of 2 points, one sink that refuses deletions | `Mirror`, `OnlyGetsBetter` |
| `ha_series` | 1 usage point, 3 days of 2 hours, 3 passes, requests of 2 rows, with and without earlier rows | `Continues`, `NeverBefore` |
| `ha_owner` | 2 usage points replacing each other on one series, pins at any moment | `PinnedOnce` |
| `ha_pin` | pins at any moment | *violated*: `Continues` |
| `ha_returns` | a usage point that leaves the configuration and comes back | *violated*: `Continues` |
| `sync_pass` | 1 usage point, 1 curve, 4 days of history, windows of 3, settled after 3, the calendar moving once | `PlanIsRight`, `RidesAlong`, `FreshAnswers`, `GivenUpWhenSettled`, `HistoryCompletes` |
| `opening` | 3 processes of 2 releases, 3 scripts, files of every version and four legacy ones | `RefusedForCause`, `OpensItsSchema`, `KeepsFacts` (refinement of `Archive`), `FirstCopyKept`, `OpenersEnd` |
| `opening_copy` | 2 processes | *violated*: `CopiedFirst` |
| `answers` | days of 2, 3 and 4 hours of 3 ticks, any readings left out, one repeated | `InstantsRecovered`, `GridStepIsRight`, `EnergyKept`, `LevelsInPlace` |
| `service` | the grid's signals, or one customer resource of either kind, or publication with and without consumption: days of 2 ticks, passes of up to 2, an interval of 1, 2 prices, a retry of 3, fairness | `ExtrasOfTheDay`, `HeldBack`, `OnlyWithConsent`, `NeverMisleading`, `ShownAsConfigured`, `NoFalseAlarm`, `Recovers` |

**Bounds.** Two processes are enough for every race of `Quota` and `ChangeFeed`: a
property relates one process to the table, and any third acts on the table as the
second does. One tick a day puts a midnight between any two steps of a request
(`quota_spent_day` has two a day, so that the block would still be in force), and
budget 2 leaves one call to race for after one is counted. Three passes are one that
delivers, one that fails, and one that must make up for it. Two points are the
smallest curve with two grids (one step of two, two of one); larger days, with grids
that do not nest, are in `answers`. Three days of two hours let a day before, between
and after the delivered ones change; two hours tell a daily total (last hour) from a
curve (first hour), and two rows a request make a request end inside a series.
In `sync_pass` windows are as long as days take to settle, as in the code (7 and
7); four days of history need one window or two, and are enough for a window to
be stretched either way; the calendar moves once at any step, so a pass may be a
day behind the clock, and `LastDay` is where it stops: `HistoryCompletes` speaks of
the days that are settled by then. Usage points and datasets share nothing but the
order of their turns, so one of each is enough for properties of one.

In `opening` three processes are one that is killed, one that comes after it and one
that comes at any time; two releases are the smallest number that disagree on the
schema; three scripts are one before, the one that moves days, and one after. In
`answers` three ticks an hour give grids of one and three ticks (20 and 60 minutes),
and days of 2, 3 and 4 hours stand for 23, 24 and 25: the switch has an hour on either
side; `MaxRepeats` is 1. In `service` a day of two ticks puts a midnight
inside or outside a pass, and a pass may be twice the interval. Two prices are one an
answer lists and one it leaves out. Signals are asked for one day ahead, where the code
asks for one (Tempo) and three (Ecowatt): a day that is known and one that is not, whose
distance nothing compares. A retry of three ticks is longer than a
pass, as in the code (a day, and a pass of minutes), so that `HeldBack` asks for something:
a failure is dated up to a pass early. Two days of a
window are yesterday and the one before it (`NeverMisleading` is proved for windows of any
length). The program is checked one part at a time — the grid's signals, a customer
resource whose answer lists meters or one whose answer does not, publication — because
the parts only share the lock, the clock and the scheduler, which every configuration of
the run has; two resources of a pass share its clock reading and its consent, and the
proofs are for any number of them. A restart may turn consumption on and off.

`MaxTime`, `MaxUntil`, `MaxRun`, `SyncPass`'s `LastDay` and `MaxRepeats` cut behaviours
off, and the proofs do not depend on their values; those models stop, so deadlock is
not checked there. A process may stay away for good in `Opening` too. `Service` never
stops: its ages saturate, and TLC checks that it has no deadlock.

**Fairness.** `quota_budget` needs `WF_vars(Continue(c))`, a process that is in the middle
of a request goes on with it. No step waits for another process for longer than a
transaction, and the HTTP client has a timeout (`gateway.py:156`), so the code's own
control flow provides it. Nobody owes a new request, a tick or a crash. `sync_pass`
assumes the days go by and the scheduler starts a pass after the other (weak fairness:
`scheduler.py` loops), and that the steps of a turn, the consent and an answer to each
window come infinitely often when they are possible infinitely often (strong fairness: a
refusal, a spent budget or a crash may come any number of times, but not every time at the
same place). It is an assumption on the gateway, and the reason why a window refused for
good is a hazard without a property. `opening` assumes that a process inside
`Store._prepare` goes on, and strong fairness of `Lock(p)`: the open lock is free again
and again and the system gives it to who waits, in `OpenersEnd`'s words unless it is
killed. `service` assumes that time goes on (`[]<><<Tick>>_vars`), and weak fairness of
`StartDaemon`, which `restart: unless-stopped` (`src/docker-compose.yaml:17`) provides. No
fairness of the steps of a pass is assumed: `Tick` is disabled when a pass is `MaxPass`
old or a wait is over, so a step that is due is taken because time cannot go on without it
— the model's way of saying that requests have timeouts.

**Mutants.** Definitions such as `BudgetSpentLate` or `TotalOfSome`, each above
the one it imitates, are plausible bugs of that code; substituted for it they
break the property `PROJECT.json` pairs them with. No specification uses them.

## 4. What the checks found

* **A spent day is not honoured on the `/cache` path** (`quota_spent_day`,
  `gateway.py:288`). `_get` catches every `ThrottledError` of the `/cache` call,
  the 409 that says the day's quota is spent included, clears the block and sends
  a live call. The comment there speaks of a cached 429.
* **`ha-boundary --set` during a pass is undone** (`ha_pin`, `sync.py:421`). The
  command drops the cursors so that "the next Home Assistant export rewrites
  everything after it"; a pass that is exporting puts its cursor back when it
  ends, and the rewrite never happens.
* **A usage point that leaves and returns misses its changes** (`ha_returns`,
  `exporters/home_assistant.py:117`). The cursor is the sink's, the pending series
  are those of the configuration: a failed delivery followed by a pass without the
  usage point is not "delivered next time".
* **Part of a copy passes for the copy** (`opening_copy`, `store.py:238`). Any file
  of the backup's name is reused by a retried migration; a process killed between
  the creation of that file and its integrity check leaves part of one, and the
  upgrade that follows drops the legacy tables. `FirstCopyKept` holds all the same: a
  copy that was whole once is never written again.

Read in the code, and told by no property:

* **A skipped pass passes for a success** (`scheduler.py:66`). The job of `serve` catches
  `SyncAlreadyRunningError` (`cli.py:278`) and returns, so the loop takes a pass that found
  the lock taken for one that ended well, and forgets the crash of the pass before:
  `/healthz` says 200 although no pass has succeeded since. A test
  (`tests/test_scheduler_and_time.py:88`) is named "until one succeeds", and
  `src/README.md:185` promises a 503 when the last pass crashed. `Service` has the step
  (`Skip`). Nothing is claimed of how long a crash is remembered: a property that allowed
  this step would follow from the assignments to `crashed`, and one that forbids it fails
  three steps after a crash.
* **Season and prices more than once a day** (`sync.py:168`). An answer of prices that lists
  none, or fewer than an earlier one, leaves the oldest `fetched_at` as it is, and both are
  asked for on every pass of the day, where the docstring (`sync.py:155`) says "once per
  Paris day" and `tests/test_sync.py:441` tries an answer that lists every price.
  `ExtrasOfTheDay` holds all the same: what is asked for too often is never too old.
* **No rows before the first change** (`exporters/home_assistant.py:17`). The docstring
  promises rows for every day between the first and the last with data; a rewrite starts
  at the first *changed* day, so a gap before it gets none (`:159`). `Continues` holds, the
  sums are right.

## 5. What is proved

Every theorem is for any value of the constants that satisfies the assumptions named in
the modules (`QuotaAssumption`, `ChangeFeedAssumption`, `HaSeriesAssumption`,
`PlanningAssumption`, `SyncPassAssumption`, `OpeningAssumption`, `ParisDayAssumption`,
`AnswersAssumption`, `SignalsAssumption`, `ServiceAssumption` and those of the modules it
extends): any number of processes, releases, buckets, sinks, rows, usage points, datasets
and resources, any budget, any history, any length of the day, of an hour, of a window, of
a pass and of the delays. Every invariant and every action property that a passing run
checks is proved; the theorems of `HaSeriesProofs` that need a hypothesis state it.

`Induction` is what the proofs about sums, folds and orders rest on. A theorem that takes
a predicate as a parameter cannot be used by the provers, so induction is stated of sets:
a set of naturals that holds 0 and each successor is all of them (`Naturals`), a set of
subsets that grows one member at a time holds them all (`Subsets`), both from the least
member of what is left out (`LeastExists`). From them: a fold over a finite set has a value
on each subset (`FoldExists`), a sum takes its members in any order (`SumTakes`), adds up
over disjoint parts (`SumUnion`), and over the parts a function makes (`SumParts`).

`QuotaProofs`
* `TypeCorrect`: `Spec => []TypeOK`.
* `BudgetKept`: `Spec => []BudgetPerDay`. The argument: a row is dated with the
  clock the process read, and `reserve_call` counts every row of *that* day
  (`DayIsCounted`), so a stale clock charges the right day. That count and the
  append are one transaction.
* `GovernorImplementsBudget`: `Spec => CountedOneByOne`, each step maps to
  `Spend(b, d)` or to a stutter; `settle_call` maps to a stutter because it changes
  neither the bucket nor the date of a row.
* `SentIsCounted`: `Spec => []EveryCallCounted`, strengthened by *the ids that
  processes hold are rows of the table, all different, and not received twice*.
* `RefusalsHonoured`: `Spec => RefusalHonoured`, with `/cache` or without.
  Strengthened by *the block of a bucket is at least every refusal still in force and
  not dropped on purpose*: any other deletion is of an expired block, because a
  reservation's clock is not ahead of the present.
* `SentIsBudgeted`: `Spec => []SentPerDay`. A call may be reserved before midnight and
  received after it, so the gateway's count of a day is not the table's. The argument: a
  call received on the day it was dated has a row of its own among that day's, which are
  within the budget; one received later was made by a process that can no longer make
  another dated before that day, so they are no more than the processes (`LateBounded`).

`ChangeFeedProofs`
* `FeedTypes`, `NothingIsLost` (`Spec => []Mirror`) and `CurveOnlyGetsBetter`.
  `Mirror` is not inductive: the invariant `Inv` adds that passes are alone
  (`Exclusive`), that no stamp or cursor is ahead of the last run and every cursor
  is behind the run of a pass that fetches (`Ordered`), that a point dropped and
  answered again is stamped no earlier than it was dropped (`BackLater` — so a
  sink that deletes it writes it back in the same delivery), and that in the middle
  of a delivery each unsettled key is still to be sent or already right
  (`Delivery`). Each action has its lemma; the sink's steps share `SinkStep`, the
  store's share `StoreStep`.

`OpeningProofs`
* `OpeningTypes`, `NoFalseRefusal` (`Spec => []RefusedForCause`) and
  `OpenedAtItsSchema`. The inductive invariant: one process at most is inside, the
  tables that exist are exactly those of the version, and the script a process is
  about to run is the one after it — because the version is read under the lock.
* `CopyKept`: a whole copy is never written again.
* `OpeningImplementsArchive`: `Spec => KeepsFacts`. A script, and the upgrade, change
  how rows are written and not what they mean: the redating is applied by the step
  that ends the era it is needed in, once.

`SyncPassProofs`
* `PlansAreRight`: `Spec => []PlanIsRight`, for any backlog, any partial days and any width.
  First the greedy plan (`Greedy`): the newest days of the windows are as far apart as a
  window is wide, so each needs a window of its own, and no plan has fewer (`Fewest` is the
  reference). Then the stretching (`Spread`): from the start of a window to the end of any
  newer one is more than a window's width, so one that keeps within its width meets no other.
* `PartialDaysRide` (`[]RidesAlong`): yesterday missing puts the newest window where every
  unsettled day is within its reach. `CacheIsSafe` (`[]FreshAnswers`), `GapsAreFinal`
  (`GivenUpWhenSettled`) and `TypeIsInvariant`. The invariant (`IInv`) adds that the
  backlogs still to come are exactly the days nothing is known of, that the windows left hold
  no missing day that has come already, and that an unsettled day which is neither missing
  nor partial is whole — by the day the pass began on, while the calendar moves.

`HaSeriesProofs`
* `TypeIsInvariant`, and `OwnersStay` (`Spec => PinnedOnce`), for any pins and
  configurations. The latter from `Unowned`: the boundary about to be pinned replaces
  none, or the user's; and `Exports`: it is for the usage point being exported, and rows
  are imported only while the boundary is this usage point's or has just been pinned by
  the user. A pass that found a series without an owner may pin it later, but by then only
  `SetBoundary` could have come between, and that gives a series to nobody.
* `OthersDaysAreKept`: `Pins = {}` implies `Spec => NeverBefore`, for any configurations. The
  invariant (`Found`): the boundary about to be pinned is the one the rows of Home Assistant
  give *now*, and the rows about to be imported are past it.
* `SeriesContinue`: `Pins = {}` and one configuration imply `Spec => []Continues`. This is the
  exporter's reason to be, and `Continues` says it only of the moment the cursor has passed
  everything. The invariant (`Steady`) says it of all others: every stamp is behind the last
  run (`Stamped`); what no series holds is still to be delivered (`Owners`); each row *older
  than all that changed* is right, and Home Assistant holds none that the cache does not
  have (`Reached`); and in the middle of a delivery each usage point is still to do, or
  whole, and of the one under way each row is still to import or right (`Underway`). A
  change of one day leaves every sum before it as it was (`SumAt` is a sum over the hours up
  to a slot), which is why a rewrite from the earliest change on is enough.
* Both hypotheses are needed and not for the proof's sake: `ha_pin` and `ha_returns` are
  counterexamples without them, and both are findings of section 4.

`AnswersProofs`
* `ClockIsReadBack`, `NamesakesAreAnHourApart`, `WhatExistsIsShown`: the three facts about a
  switch of the clocks on which `parse_load_curve` and `_parse_ecowatt_hours` rest.
* `ReadingsAreRecovered`: `Spec => []InstantsRecovered`, strengthened (`Recorded`) by *the
  readings are in time order, and a point is the last one that landed on it*, where a
  reading lands on the second occurrence of its time if any before it showed that time.
* `GridIsFound` (`[]GridStepIsRight`): a day is a whole number of hours and an hour of steps,
  so the steps of a day are the multiples of the step, as many as `grid_step` counts.
* `NoEnergyIsLost` (`[]EnergyKept`): a tick is in one interval, which starts in the hour the
  tick is in (`SameHour`) and, since the clocks change between two intervals (`WallInStep`),
  in the same tariff period when the ranges are whole intervals (`SamePeriod`). Each sum
  over intervals is then a sum over their ticks.
* `LevelsArePlaced` (`[]LevelsInPlace`): the levels kept are those of the hours that exist
  (`WhatExistsIsShown`), all of them, and each is before the midnight that ends the day
  (`ShownBeforeMidnight`), with an offset in its stamp or without. `TypeIsInvariant`.

`ServiceProofs`
* `ServiceTypes`: the ages and days stay within their bounds for ever.
* `TotalsCountEveryDay` (`[]NeverMisleading`): with the types it is inductive, because a
  message is composed whole from the cache and retained whole.
* `AlarmsAreTrue` (`[]NoFalseAlarm`), strengthened (`Fresh`) by *the last pass started no
  longer ago than it took, and the wait that followed*.
  `Remembered` is used on the way: a pass under way is somebody's.
* `ExtrasAreOfTheDay` (`[]ExtrasOfTheDay`), strengthened (`SignalsSoFar`) by what each step
  of the turn has already cached, for a pass whose day may be over by then, and by *a price
  the last answer listed has a date, or none has* (`Listed`), which is why the oldest date
  there is speaks for all of them. Nothing is assumed of the answers.
* `FailuresAreHeldBack` (`[]HeldBack`), inductive together with (`TriedSoFar`) *a failure is
  dated at most a pass before it happened*. That slack is the code's:
  `sync_usage_point` reads the clock once (`sync.py:188`) and dates by it the failures of
  the whole turn (`:279`), so after a slow turn the next attempt may come `CUSTOMER_RETRY`
  less the length of that turn after the refusal, where the docstring (`:239`) says
  "less than `CUSTOMER_RETRY` ago".
* `ConsentIsAsked` (`OnlyWithConsent`), strengthened (`ConsentSoFar`) by *past the consent,
  its raw flags said so*; that the entry taken is the first that stops the search
  (`LeastExists`) is where it rests on the order of an answer.
* `DiscoveryFollows` (`[]ShownAsConfigured`): a complete delivery replaces or clears every
  topic, of the state as of the sensor.

Only model-checked: `RequestsEnd`, `HistoryCompletes`, `OpenersEnd` and `Recovers`
(liveness under fairness, and what is enabled, are out of the prover's reach). What a fold or
a sum computes is proved where a property needs it, by the induction above.

## 6. What is not modelled

* Formatting, logging, pages, metrics, error classes, configuration files: no control
  of their own, read-only, or done before anything runs. The `custom_components`
  integration of Home Assistant reads the daemon's JSON and writes nothing back.
* `parse_daily`, `parse_max_power`, and the fields of customer data one by one: an
  answer they refuse is a failure that any request may meet. `parse_load_curve`'s
  answer is in time order; another order is refused nowhere and would be read as told.
* Of MQTT, the grid's topics, which are composed from the cache the same way, the
  datasets other than consumption, and the connection itself.
* The journal of passes, which only pages read; `prune_journal`, which drops calls
  older than a month: the models' days are fewer.
* The hours of Ecowatt, which `sync_rte` caches in a transaction after its days, as a part
  of the turn (what an answer of them is taken for is in `Answers`).
* Levels of Ecowatt stamped with an offset *and* without in one answer, or with offsets of
  other zones: two stamps may then name one hour, and the last one is kept.
* A write the sink applies after its connection timed out *and* after a later
  delivery; a transient 4xx on a delete, which the code makes final on purpose; a
  partial answer whose points happen to tile the day at a coarser step; a window that
  is refused for good. All four are hazards without a property.
* Another writer to a Home Assistant series after its boundary is pinned, and
  hours of days that were deleted in Home Assistant.
* The order in which a usage point's datasets are asked for (any order is modelled).
* Two directions of one usage point: two series with different ids, as two usage
  points.
* The columns of legacy rows: a row is taken over, moved a day, dropped or unreadable.

## 7. Plan

1. Eventual delivery: under fairness and a sink that answers in the end, a change
   reaches it — an abstract specification of the feed (`held` follows `value`) that
   `ChangeFeed` and `HaSeries` implement, with the refinement proved.
2. `SeriesContinue` for configurations that only grow, and with pins between two passes:
   what breaks it is a pin *during* an export and a usage point that *returns*.
3. A window refused for good (`sync.py:365`), with a calendar that runs on.
