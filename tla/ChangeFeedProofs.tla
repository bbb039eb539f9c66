-------------------------- MODULE ChangeFeedProofs ---------------------------
(***************************************************************************)
(* The change feed loses nothing, for any number of processes, sinks, rows *)
(* and passes.                                                             *)
(***************************************************************************)
EXTENDS ChangeFeed, FiniteSetTheorems, TLAPS

(***************************************************************************)
(* The inductive invariant.                                                *)
(***************************************************************************)

\* The lock: one process at a time is in a pass, and its run is the last one.
Exclusive ==
    /\ \A p, q \in Procs : pass[p] # Idle /\ pass[q] # Idle => p = q
    /\ \A p \in Procs : pass[p] # Idle => pass[p].run = lastRun

\* No change and no cursor is ahead of the last run, and while a pass fetches its
\* run is ahead of every cursor: what it changes is still to be delivered.
Ordered ==
    /\ \A k \in Keys : stamp[k] <= lastRun
    /\ \A k \in Points : removed[k] <= lastRun
    /\ \A s \in Sinks : cursor[s] <= lastRun
    /\ \A p \in Procs : pass[p].at = "fetching" => \A s \in Sinks : cursor[s] < lastRun

\* A point that came back after it was dropped is stamped by that run or a later
\* one, so a sink that has to delete it has to write it too.
BackLater ==
    /\ \A k \in Points : value[k] # Absent => removed[k] <= stamp[k]
    /\ \A k \in Keys : value[k] = Absent => stamp[k] = 0

\* In the middle of a delivery, each change past the cursor is still to be sent,
\* or the sink has it already.
Sending(d) ==
    /\ \A k \in d.dels : removed[k] > cursor[d.sink]
    /\ \A c \in d.writes : c[2] = value[c[1]] /\ stamp[c[1]] > cursor[d.sink]
    /\ \A k \in Keys : ~Settled(d.sink, k) =>
         \/ <<k, value[k]>> \in d.writes
         \/ k \in d.dels /\ value[k] = Absent
         \/ k \notin d.dels /\ Agrees(d.sink, k)

Delivery == \A p \in Procs : pass[p].at = "delivering" => Sending(pass[p])

Inv == TypeOK /\ Exclusive /\ Ordered /\ BackLater /\ Delivery /\ Mirror

(***************************************************************************)
(* Types.                                                                  *)
(***************************************************************************)

\* What a process holds in each phase of a pass.
LEMMA PassTypes ==
    ASSUME TypeOK, NEW p \in Procs
    PROVE  /\ pass[p] \in Passes
           /\ pass[p] # Idle => pass[p].run \in Runs
           /\ pass[p].at \in {"exporting", "delivering"} => pass[p].left \in SUBSET Sinks
           /\ pass[p].at = "delivering" => /\ pass[p].sink \in Sinks
                                           /\ pass[p].dels \in SUBSET Points
                                           /\ pass[p].writes \in SUBSET Deltas
           /\ pass[p].at \in {"fetching", "exporting", "delivering"} => pass[p] # Idle
  <1>1. pass[p] \in Passes
    BY DEF TypeOK
  <1>2. CASE pass[p] = Idle
    BY <1>1, <1>2 DEF Idle
  <1>3. CASE pass[p] \in [at : {"fetching"}, run : Runs]
    BY <1>1, <1>3 DEF Idle
  <1>4. CASE pass[p] \in [at : {"exporting"}, run : Runs, left : SUBSET Sinks]
    BY <1>1, <1>4 DEF Idle
  <1>5. CASE pass[p] \in Deliveries
    BY <1>1, <1>5 DEF Idle, Deliveries
  <1>6. QED
    BY <1>1, <1>2, <1>3, <1>4, <1>5 DEF Passes

\* A delivery that has less to send is a delivery; one that ends is not.
LEMMA DeliveryTypes ==
    ASSUME NEW d \in Passes, d.at = "delivering"
    PROVE  /\ d \in Deliveries
           /\ Exporting(d.run, d.left) \in Passes
  <1>1. d \in Deliveries
    BY DEF Passes, Idle
  <1>2. QED
    BY <1>1 DEF Passes, Exporting, Deliveries

LEMMA LessToSend ==
    ASSUME NEW d \in Deliveries, NEW dels, NEW writes
    PROVE  /\ Without(d, dels, writes) \in Passes
           /\ Without(d, dels, writes) # Idle
           /\ Without(d, dels, writes).at = "delivering"
           /\ Without(d, dels, writes).run = d.run
           /\ Without(d, dels, writes).sink = d.sink
           /\ Without(d, dels, writes).dels = d.dels \ dels
           /\ Without(d, dels, writes).writes = d.writes \ writes
  <1>1. d.dels \ dels \in SUBSET Points /\ d.writes \ writes \in SUBSET Deltas
    BY DEF Deliveries
  <1>2. Without(d, dels, writes) \in Deliveries
    BY <1>1 DEF Without, Deliveries
  <1>3. QED
    BY <1>2 DEF Without, Passes, Idle

(***************************************************************************)
(* What every step of a pass keeps.                                        *)
(***************************************************************************)

\* The process in a pass is alone, so only its own part of `pass` matters.
LEMMA PassStep ==
    ASSUME Inv, NEW p \in Procs, pass[p] # Idle,
           NEW r \in Passes, pass' = [pass EXCEPT ![p] = r],
           r # Idle => r.run = lastRun, lastRun' = lastRun,
           r.at = "delivering" => Sending(r)'
    PROVE  Exclusive' /\ Delivery' /\ pass' \in [Procs -> Passes]
  <1>1. pass \in [Procs -> Passes]
    BY DEF Inv, TypeOK
  <1>2. \A q \in Procs : q # p => pass[q] = Idle /\ pass'[q] = Idle
    BY <1>1 DEF Inv, Exclusive
  <1>3. pass'[p] = r /\ pass' \in [Procs -> Passes]
    BY <1>1
  <1>4. Exclusive'
    BY <1>2, <1>3 DEF Exclusive
  <1>5. Delivery'
    <2>1. ASSUME NEW q \in Procs, pass'[q].at = "delivering" PROVE q = p
      BY <1>2, <2>1 DEF Idle
    <2>2. QED
      BY <1>3, <2>1 DEF Delivery
  <1>6. QED
    BY <1>3, <1>4, <1>5

\* A step that changes neither the store nor the cursors nor the sinks.
LEMMA QuietStep ==
    ASSUME Inv, NEW p \in Procs, pass[p] # Idle,
           NEW r \in Passes, pass' = [pass EXCEPT ![p] = r],
           r # Idle => r.run = lastRun, r.at # "fetching",
           UNCHANGED <<store, cursor, held>>,
           r.at = "delivering" => Sending(r)
    PROVE  Inv'
  <1>1. /\ lastRun' = lastRun /\ value' = value /\ stamp' = stamp
        /\ removed' = removed /\ cursor' = cursor /\ held' = held
    BY DEF store
  <1>2. r.at = "delivering" => Sending(r)'
    BY <1>1 DEF Sending, Settled, Agrees
  <1>3. Exclusive' /\ Delivery' /\ pass' \in [Procs -> Passes]
    BY <1>1, <1>2, PassStep
  <1>4. TypeOK'
    BY <1>1, <1>3 DEF Inv, TypeOK
  <1>5. Ordered'
    <2>1. \A q \in Procs : pass'[q].at = "fetching" => pass[q].at = "fetching"
      BY DEF Inv, TypeOK
    <2>2. QED
      BY <1>1, <2>1 DEF Inv, Ordered
  <1>6. BackLater' /\ Mirror'
    BY <1>1 DEF Inv, BackLater, Mirror, Settled, Agrees
  <1>7. QED
    BY <1>3, <1>4, <1>5, <1>6 DEF Inv

(***************************************************************************)
(* The pass and its lock.                                                  *)
(***************************************************************************)

LEMMA StartKeeps == ASSUME Inv, NEW p \in Procs, Start(p) PROVE Inv'
  <1> DEFINE r == [at |-> "fetching", run |-> lastRun + 1]
  <1>1. /\ lastRun' = lastRun + 1 /\ value' = value /\ stamp' = stamp
        /\ removed' = removed /\ cursor' = cursor /\ held' = held
        /\ pass' = [pass EXCEPT ![p] = r]
        /\ \A q \in Procs : pass[q] = Idle
    BY DEF Start, LockFree
  <1>2. lastRun \in Nat /\ lastRun + 1 \in Runs /\ lastRun + 1 > lastRun
    BY ChangeFeedAssumption DEF Inv, TypeOK, Runs, Start
  <1>3. r \in Passes /\ r # Idle /\ r.run = lastRun + 1 /\ r.at = "fetching"
    BY <1>2 DEF Passes, Idle
  <1> HIDE DEF r
  <1>4. pass'[p] = r /\ (\A q \in Procs : q # p => pass'[q] = Idle)
        /\ pass' \in [Procs -> Passes]
    BY <1>1, <1>3 DEF Inv, TypeOK
  <1>5. TypeOK'
    BY <1>1, <1>2, <1>4 DEF Inv, TypeOK
  <1>6. Exclusive'
    BY <1>1, <1>3, <1>4 DEF Exclusive
  <1>7. Ordered'
    <2>1. /\ \A k \in Keys : stamp[k] \in Nat
          /\ \A k \in Points : removed[k] \in Nat
          /\ \A s \in Sinks : cursor[s] \in Nat
      BY DEF Inv, TypeOK, Runs
    <2>2. QED
      BY <1>1, <1>2, <2>1 DEF Inv, Ordered
  <1>8. BackLater' /\ Mirror'
    BY <1>1 DEF Inv, BackLater, Mirror, Settled, Agrees
  <1>9. Delivery'
    BY <1>3, <1>4 DEF Delivery, Idle
  <1>10. QED
    BY <1>5, <1>6, <1>7, <1>8, <1>9 DEF Inv

LEMMA EndKeeps == ASSUME Inv, NEW p \in Procs, Finish(p) \/ Crash(p) PROVE Inv'
  <1>1. /\ pass[p] # Idle /\ Idle \in Passes /\ Idle.at = "idle"
        /\ pass' = [pass EXCEPT ![p] = Idle]
        /\ UNCHANGED <<store, cursor, held>>
    BY DEF Finish, Crash, Idle, Passes
  <1>2. QED
    BY <1>1, QuietStep

LEMMA FetchingDoneKeeps ==
    ASSUME Inv, NEW p \in Procs, NEW left \in SUBSET Sinks, FetchingDone(p, left)
    PROVE  Inv'
  <1> DEFINE r == [at |-> "exporting", run |-> pass[p].run, left |-> left]
  <1>1. TypeOK /\ pass[p].at = "fetching"
    BY DEF Inv, FetchingDone
  <1>2. pass[p] # Idle /\ pass[p].run \in Runs /\ pass[p].run = lastRun
    BY <1>1, PassTypes DEF Inv, Exclusive
  <1>3. r \in Passes /\ r.run = lastRun /\ r.at = "exporting"
    BY <1>2 DEF Passes
  <1> HIDE DEF r
  <1>4. pass' = [pass EXCEPT ![p] = r] /\ UNCHANGED <<store, cursor, held>>
    BY DEF FetchingDone, r
  <1>5. QED
    BY <1>2, <1>3, <1>4, QuietStep

(***************************************************************************)
(* Delivering.                                                             *)
(***************************************************************************)

LEMMA ExportKeeps ==
    ASSUME Inv, NEW p \in Procs, NEW s \in Sinks, Export(p, s)
    PROVE  Inv'
  <1> DEFINE dels == RemovedCurve(cursor[s], pass[p].run)
             writes == Changed(cursor[s], pass[p].run)
             r == [at |-> "delivering", run |-> pass[p].run, left |-> pass[p].left \ {s},
                   sink |-> s, dels |-> dels, writes |-> writes]
  <1>1. TypeOK /\ pass[p].at = "exporting"
    BY DEF Inv, Export
  <1>2. /\ pass[p] # Idle /\ pass[p].run \in Runs /\ pass[p].run = lastRun
        /\ pass[p].left \in SUBSET Sinks
    BY <1>1, PassTypes DEF Inv, Exclusive
  <1>3. dels \in SUBSET Points /\ writes \in SUBSET Deltas
    BY DEF RemovedCurve, Changed
  <1>4. r \in Passes /\ r.run = lastRun /\ r.at = "delivering"
        /\ r.sink = s /\ r.dels = dels /\ r.writes = writes
    BY <1>2, <1>3 DEF Passes, Deliveries
  <1>5. pass' = [pass EXCEPT ![p] = r] /\ UNCHANGED <<store, cursor, held>>
    BY DEF Export
  <1>6. /\ \A k \in Keys : stamp[k] \in Nat /\ stamp[k] <= lastRun
        /\ \A k \in Points : removed[k] \in Nat /\ removed[k] <= lastRun
        /\ cursor[s] \in Nat
        /\ \A k \in Keys : value[k] \in Values \union {Absent}
        /\ lastRun \in Nat
    BY DEF Inv, TypeOK, Ordered, Runs
  <1>7. /\ \A k \in dels : removed[k] > cursor[s]
        /\ \A c \in writes : c[2] = value[c[1]] /\ stamp[c[1]] > cursor[s]
    <2>1. \A c \in writes : c[1] \in Keys
      BY <1>3 DEF Deltas
    <2>2. QED
      BY <1>2, <1>6, <2>1 DEF RemovedCurve, Changed, Since
  <1>8. ASSUME NEW k \in Keys, ~Settled(s, k)
        PROVE  <<k, value[k]>> \in writes \/ (k \in dels /\ value[k] = Absent)
    <2>1. CASE value[k] = Absent
      <3>1. stamp[k] = 0
        BY <2>1 DEF Inv, BackLater
      <3>2. k \in Points /\ removed[k] > cursor[s]
        BY <1>6, <1>8, <3>1 DEF Settled
      <3>3. QED
        BY <1>2, <1>6, <2>1, <3>2 DEF RemovedCurve, Since
    <2>2. CASE value[k] # Absent
      <3>1. stamp[k] > cursor[s]
        BY <1>6, <1>8, <2>2 DEF Settled, Inv, BackLater
      <3>2. <<k, value[k]>> \in Deltas
        BY <1>6, <2>2 DEF Deltas
      <3>3. QED
        BY <1>2, <1>6, <3>1, <3>2 DEF Changed, Since
    <2>3. QED
      BY <2>1, <2>2
  <1> HIDE DEF dels, writes, r
  <1>9. Sending(r)
    BY <1>4, <1>7, <1>8 DEF Sending
  <1>10. QED
    BY <1>2, <1>4, <1>5, <1>9, QuietStep

\* The facts about a delivery that its steps share.
LEMMA Delivering ==
    ASSUME Inv, NEW p \in Procs, NEW d, d = pass[p], d.at = "delivering"
    PROVE  /\ d \in Deliveries /\ d # Idle /\ d.run = lastRun /\ Sending(d)
           /\ d.sink \in Sinks
           /\ d.dels \in SUBSET Points
           /\ d.writes \in SUBSET Deltas
           /\ Exporting(d.run, d.left) \in Passes
           /\ Exporting(d.run, d.left) # Idle
           /\ Exporting(d.run, d.left).run = lastRun
           /\ Exporting(d.run, d.left).at = "exporting"
  <1>1. TypeOK
    BY DEF Inv
  <1>2. /\ d \in Passes /\ d # Idle /\ d.sink \in Sinks
        /\ d.dels \in SUBSET Points /\ d.writes \in SUBSET Deltas
    BY <1>1, PassTypes
  <1>3. d.run = lastRun /\ Sending(d)
    BY <1>2 DEF Inv, Exclusive, Delivery
  <1>4. d \in Deliveries /\ Exporting(d.run, d.left) \in Passes
    BY <1>2, DeliveryTypes
  <1>5. QED
    BY <1>2, <1>3, <1>4 DEF Exporting, Idle

LEMMA RefuseDeletesKeeps ==
    ASSUME Inv, NEW p \in Procs, RefuseDeletes(p) PROVE Inv'
  <1>1. PICK d : d = pass[p]
    OBVIOUS
  <1>a. PICK none : none = {}
    OBVIOUS
  <1>b. PICK r : r = Without(d, d.dels, none)
    OBVIOUS
  <1>2. d.at = "delivering" /\ d.sink \in Refusing
    BY <1>1 DEF RefuseDeletes
  <1>3. /\ d \in Deliveries /\ d # Idle /\ d.run = lastRun /\ Sending(d)
        /\ d.writes \in SUBSET Deltas
    BY <1>1, <1>2, Delivering
  <1>5. /\ r \in Passes /\ r.at = "delivering" /\ r.run = d.run /\ r.sink = d.sink
        /\ r.dels = {} /\ r.writes = d.writes
    <2>1. /\ r \in Passes /\ r.at = "delivering" /\ r.run = d.run /\ r.sink = d.sink
          /\ r.dels = d.dels \ d.dels /\ r.writes = d.writes \ none
      BY <1>3, <1>b, LessToSend
    <2>2. QED
      BY <1>a, <2>1
  <1>6. pass' = [pass EXCEPT ![p] = r] /\ UNCHANGED <<store, cursor, held>>
    BY <1>1, <1>a, <1>b DEF RefuseDeletes
  <1>7. Sending(r)
    BY <1>2, <1>3, <1>5 DEF Sending, Agrees
  <1>8. QED
    BY <1>1, <1>3, <1>5, <1>6, <1>7, QuietStep

LEMMA FailKeeps == ASSUME Inv, NEW p \in Procs, Fail(p) PROVE Inv'
  <1> DEFINE r == Exporting(pass[p].run, pass[p].left)
  <1>1. pass[p] # Idle /\ r \in Passes /\ r.run = lastRun /\ r.at = "exporting"
    BY Delivering DEF Fail
  <1>2. pass' = [pass EXCEPT ![p] = r] /\ UNCHANGED <<store, cursor, held>>
    BY DEF Fail
  <1> HIDE DEF r
  <1>3. QED
    BY <1>1, <1>2, QuietStep

LEMMA AdvanceCursorKeeps == ASSUME Inv, NEW p \in Procs, AdvanceCursor(p) PROVE Inv'
  <1> DEFINE d == pass[p]
             r == Exporting(d.run, d.left)
  <1>1. d.at = "delivering" /\ d.dels = {} /\ d.writes = {}
    BY DEF AdvanceCursor
  <1>2. /\ d # Idle /\ d.run = lastRun /\ Sending(d) /\ d.sink \in Sinks
        /\ r \in Passes /\ r.run = lastRun /\ r.at = "exporting"
    BY <1>1, Delivering
  <1>3. /\ cursor' = [cursor EXCEPT ![d.sink] = lastRun]
        /\ pass' = [pass EXCEPT ![p] = r]
        /\ lastRun' = lastRun /\ value' = value /\ stamp' = stamp
        /\ removed' = removed /\ held' = held
    BY <1>2 DEF AdvanceCursor, store
  <1>4. /\ cursor \in [Sinks -> Runs] /\ pass \in [Procs -> Passes]
        /\ lastRun \in Runs /\ lastRun \in Nat
    BY DEF Inv, TypeOK, Runs
  <1> HIDE DEF r
  <1>5. Exclusive' /\ Delivery' /\ pass' \in [Procs -> Passes]
    BY <1>2, <1>3, PassStep
  <1>6. TypeOK'
    BY <1>3, <1>4, <1>5 DEF Inv, TypeOK
  <1>7. Ordered'
    <2>1. \A q \in Procs : pass'[q].at # "fetching"
      <3>1. \A q \in Procs : q # p => pass'[q] = Idle
        BY <1>2, <1>3, <1>4 DEF Inv, Exclusive
      <3>2. QED
        BY <1>2, <1>3, <1>4, <3>1 DEF Idle
    <2>2. \A s \in Sinks : cursor'[s] <= lastRun
      BY <1>2, <1>3, <1>4 DEF Inv, Ordered
    <2>3. QED
      BY <1>3, <2>1, <2>2 DEF Inv, Ordered
  <1>8. BackLater'
    BY <1>3 DEF Inv, BackLater
  <1>9. Mirror'
    <2> SUFFICES ASSUME NEW s \in Sinks, NEW k \in Keys, Settled(s, k)'
                 PROVE  Agrees(s, k)
      BY <1>3 DEF Mirror, Agrees
    <2>1. CASE s # d.sink
      BY <1>2, <1>3, <1>4, <2>1 DEF Inv, Mirror, Settled
    <2>2. CASE s = d.sink
      BY <1>1, <1>2, <2>2 DEF Inv, Mirror, Sending
    <2>3. QED
      BY <2>1, <2>2
  <1>10. QED
    BY <1>5, <1>6, <1>7, <1>8, <1>9 DEF Inv

\* A request of a delivery: the sink changes, and what it now holds of each
\* change past the cursor is what the cache holds, or what is left to send.
LEMMA SinkStep ==
    ASSUME Inv, NEW p \in Procs, pass[p].at = "delivering",
           NEW r \in Passes, pass' = [pass EXCEPT ![p] = r],
           r # Idle, r.run = lastRun, r.at \in {"exporting", "delivering"},
           UNCHANGED <<store, cursor>>,
           held' \in [Sinks -> [Keys -> Values \union {Absent}]],
           \A s \in Sinks, k \in Keys :
              s # pass[p].sink \/ Settled(s, k) => held'[s][k] = held[s][k],
           r.at = "delivering" => Sending(r)'
    PROVE  Inv'
  <1>1. /\ lastRun' = lastRun /\ value' = value /\ stamp' = stamp
        /\ removed' = removed /\ cursor' = cursor
    BY DEF store
  <1>2. pass[p] # Idle
    BY Delivering
  <1>3. Exclusive' /\ Delivery' /\ pass' \in [Procs -> Passes]
    BY <1>1, <1>2, PassStep
  <1>4. TypeOK'
    BY <1>1, <1>3 DEF Inv, TypeOK
  <1>5. Ordered'
    <2>1. \A q \in Procs : pass'[q].at = "fetching" => pass[q].at = "fetching"
      BY DEF Inv, TypeOK
    <2>2. QED
      BY <1>1, <2>1 DEF Inv, Ordered
  <1>6. BackLater'
    BY <1>1 DEF Inv, BackLater
  <1>7. Mirror'
    BY <1>1 DEF Inv, Mirror, Settled, Agrees
  <1>8. QED
    BY <1>3, <1>4, <1>5, <1>6, <1>7 DEF Inv

LEMMA DeleteKeeps ==
    ASSUME Inv, NEW p \in Procs, NEW k \in Points, NEW answered \in BOOLEAN,
           Delete(p, k, answered)
    PROVE  Inv'
  <1>1. PICK d : d = pass[p]
    OBVIOUS
  <1>a. PICK none : none = {}
    OBVIOUS
  <1>b. PICK next : next = Without(d, {k}, none)
    OBVIOUS
  <1>c. PICK r : r = After(answered, d, next)
    OBVIOUS
  <1>2. d.at = "delivering" /\ k \in d.dels /\ k \in Keys
    BY <1>1 DEF Delete, Keys
  <1>3. /\ d \in Deliveries /\ d # Idle /\ d.run = lastRun /\ Sending(d) /\ d.sink \in Sinks
        /\ d.dels \in SUBSET Points /\ d.writes \in SUBSET Deltas
        /\ Exporting(d.run, d.left) \in Passes
        /\ Exporting(d.run, d.left) # Idle
        /\ Exporting(d.run, d.left).run = lastRun
        /\ Exporting(d.run, d.left).at = "exporting"
    BY <1>1, <1>2, Delivering
  <1>5. /\ next \in Passes /\ next.at = "delivering" /\ next.run = d.run
        /\ next.sink = d.sink /\ next.dels = d.dels \ {k} /\ next.writes = d.writes
    <2>1. /\ next \in Passes /\ next.at = "delivering" /\ next.run = d.run
          /\ next.sink = d.sink /\ next.dels = d.dels \ {k}
          /\ next.writes = d.writes \ none
      BY <1>3, <1>b, LessToSend
    <2>2. QED
      BY <1>a, <2>1
  <1>6. /\ held' = [held EXCEPT ![d.sink][k] = Absent]
        /\ pass' = [pass EXCEPT ![p] = r]
        /\ UNCHANGED <<store, cursor>>
    BY <1>1, <1>b, <1>c, <1>a DEF Delete
  <1>7. next # Idle
    BY <1>5 DEF Idle
  <1>8. r \in Passes /\ r # Idle /\ r.run = lastRun /\ r.at \in {"exporting", "delivering"}
        /\ (r.at = "delivering" => r = next)
    BY <1>3, <1>5, <1>7, <1>c DEF After
  <1>9. /\ held \in [Sinks -> [Keys -> Values \union {Absent}]]
        /\ \A e \in Points : removed[e] \in Nat
        /\ \A s \in Sinks : cursor[s] \in Nat
    BY DEF Inv, TypeOK, Runs
  <1>10. ~Settled(d.sink, k)
    BY <1>2, <1>3, <1>9 DEF Sending, Settled
  <1>11. /\ held' \in [Sinks -> [Keys -> Values \union {Absent}]]
         /\ held'[d.sink][k] = Absent
         /\ \A s \in Sinks, e \in Keys :
               s # d.sink \/ e # k => held'[s][e] = held[s][e]
    BY <1>2, <1>3, <1>6, <1>9
  <1>12. Sending(next)'
    <2>1. value' = value /\ stamp' = stamp /\ removed' = removed /\ cursor' = cursor
      BY <1>6 DEF store
    <2>2. ASSUME NEW e \in Keys, ~Settled(d.sink, e)
          PROVE  \/ <<e, value[e]>> \in next.writes
                 \/ e \in next.dels /\ value[e] = Absent
                 \/ e \notin next.dels /\ Agrees(d.sink, e)'
      BY <1>2, <1>3, <1>5, <1>11, <2>1, <2>2 DEF Sending, Agrees
    <2>3. QED
      BY <1>3, <1>5, <2>1, <2>2 DEF Sending, Settled
  <1>13. QED
    <2>1. pass[p].at = "delivering" /\ UNCHANGED <<store, cursor>>
      BY <1>1, <1>2, <1>6
    <2>2. \A s \in Sinks, e \in Keys :
             s # pass[p].sink \/ Settled(s, e) => held'[s][e] = held[s][e]
      BY <1>1, <1>10, <1>11
    <2>3. r.at = "delivering" => Sending(r)'
      BY <1>8, <1>12
    <2>4. QED
      BY <1>6, <1>8, <1>11, <2>1, <2>2, <2>3, SinkStep

LEMMA WriteKeeps ==
    ASSUME Inv, NEW p \in Procs, NEW batch \in SUBSET Deltas, NEW answered \in BOOLEAN,
           Write(p, batch, answered)
    PROVE  Inv'
  <1>1. PICK d : d = pass[p]
    OBVIOUS
  <1>a. PICK next : next = Without(d, {}, batch)
    OBVIOUS
  <1>b. PICK r : r = After(answered, d, next)
    OBVIOUS
  <1> DEFINE In(e) == \E v \in Values : <<e, v>> \in batch
             Sent(e) == CHOOSE v \in Values : <<e, v>> \in batch
  <1>2. d.at = "delivering" /\ d.dels = {} /\ batch \subseteq d.writes
    BY <1>1 DEF Write
  <1>3. /\ d \in Deliveries /\ d # Idle /\ d.run = lastRun /\ Sending(d) /\ d.sink \in Sinks
        /\ d.dels \in SUBSET Points /\ d.writes \in SUBSET Deltas
        /\ Exporting(d.run, d.left) \in Passes
        /\ Exporting(d.run, d.left) # Idle
        /\ Exporting(d.run, d.left).run = lastRun
        /\ Exporting(d.run, d.left).at = "exporting"
    BY <1>1, <1>2, Delivering
  <1>5. /\ next \in Passes /\ next.at = "delivering" /\ next.run = d.run
        /\ next.sink = d.sink /\ next.dels = {} /\ next.writes = d.writes \ batch
    BY <1>2, <1>3, <1>a, LessToSend
  <1>6. /\ held' = [held EXCEPT ![d.sink] =
                      [e \in Keys |-> IF In(e) THEN Sent(e) ELSE held[d.sink][e]]]
        /\ pass' = [pass EXCEPT ![p] = r]
        /\ UNCHANGED <<store, cursor>>
    BY <1>1, <1>a, <1>b DEF Write, In, Sent
  <1>7. next # Idle
    BY <1>5 DEF Idle
  <1>8. r \in Passes /\ r # Idle /\ r.run = lastRun /\ r.at \in {"exporting", "delivering"}
        /\ (r.at = "delivering" => r = next)
    BY <1>3, <1>5, <1>7, <1>b DEF After
  <1>9. /\ held \in [Sinks -> [Keys -> Values \union {Absent}]]
        /\ \A e \in Keys : stamp[e] \in Nat
        /\ \A s \in Sinks : cursor[s] \in Nat
    BY DEF Inv, TypeOK, Runs
  <1>10. ASSUME NEW e \in Keys, In(e)
         PROVE  /\ Sent(e) \in Values /\ Sent(e) = value[e]
                /\ <<e, value[e]>> \in batch /\ ~Settled(d.sink, e)
    <2>1. Sent(e) \in Values /\ <<e, Sent(e)>> \in batch
      BY <1>10
    <2> HIDE DEF Sent
    <2>2. Sent(e) = value[e] /\ stamp[e] > cursor[d.sink]
      BY <1>2, <1>3, <2>1 DEF Sending
    <2>3. QED
      BY <1>3, <1>9, <2>1, <2>2 DEF Settled
  <1> HIDE DEF In, Sent
  <1>11. /\ held' \in [Sinks -> [Keys -> Values \union {Absent}]]
         /\ \A e \in Keys : held'[d.sink][e] = IF In(e) THEN value[e] ELSE held[d.sink][e]
         /\ \A s \in Sinks : s # d.sink => held'[s] = held[s]
    BY <1>3, <1>6, <1>9, <1>10
  <1>12. Sending(next)'
    <2>1. value' = value /\ stamp' = stamp /\ removed' = removed /\ cursor' = cursor
      BY <1>6 DEF store
    <2>2. ASSUME NEW e \in Keys, ~Settled(d.sink, e)
          PROVE  <<e, value[e]>> \in next.writes \/ Agrees(d.sink, e)'
      <3>1. CASE In(e)
        BY <1>11, <2>1, <3>1 DEF Agrees
      <3>2. CASE ~In(e) /\ <<e, value[e]>> \in d.writes /\ value[e] \in Values
        BY <1>5, <3>2 DEF In
      <3>3. CASE ~In(e) /\ <<e, value[e]>> \notin d.writes
        BY <1>2, <1>3, <1>11, <2>1, <2>2, <3>3 DEF Sending, Agrees
      <3>4. QED
        BY <1>3, <3>1, <3>2, <3>3 DEF Deltas
    <2>3. \A c \in next.writes : c[2] = value[c[1]] /\ stamp[c[1]] > cursor[d.sink]
      BY <1>3, <1>5 DEF Sending
    <2>4. QED
      BY <1>5, <2>1, <2>2, <2>3 DEF Sending, Settled
  <1>13. \A s \in Sinks, e \in Keys :
            s # d.sink \/ Settled(s, e) => held'[s][e] = held[s][e]
    BY <1>3, <1>10, <1>11
  <1>14. QED
    <2>1. pass[p].at = "delivering" /\ UNCHANGED <<store, cursor>>
      BY <1>1, <1>2, <1>6
    <2>2. \A s \in Sinks, e \in Keys :
             s # pass[p].sink \/ Settled(s, e) => held'[s][e] = held[s][e]
      BY <1>1, <1>13
    <2>3. r.at = "delivering" => Sending(r)'
      BY <1>8, <1>12
    <2>4. QED
      BY <1>6, <1>8, <1>11, <2>1, <2>2, <2>3, SinkStep

(***************************************************************************)
(* Caching an answer.                                                      *)
(***************************************************************************)

\* A pass that fetches changes rows, and drops points, under a run that is ahead
\* of every cursor.
LEMMA StoreStep ==
    ASSUME Inv, NEW p \in Procs, pass[p].at = "fetching",
           UNCHANGED <<lastRun, cursor, held, pass>>,
           value' \in [Keys -> Values \union {Absent}],
           stamp' \in [Keys -> Runs],
           removed' \in [Points -> Runs],
           \A k \in Keys :
              \/ /\ value'[k] = value[k] /\ stamp'[k] = stamp[k]
                 /\ k \in Points => removed'[k] = removed[k]
              \/ /\ value'[k] # Absent /\ stamp'[k] = lastRun
                 /\ k \in Points => removed'[k] = removed[k]
              \/ /\ value'[k] = Absent /\ stamp'[k] = 0
                 /\ k \in Points /\ removed'[k] = lastRun
    PROVE  Inv'
  <1>1. TypeOK'
    BY DEF Inv, TypeOK
  <1>2. Exclusive'
    BY DEF Inv, Exclusive
  <1>3. /\ lastRun \in Nat
        /\ \A s \in Sinks : cursor[s] \in Nat /\ cursor[s] < lastRun
        /\ \A k \in Keys : stamp[k] \in Nat /\ stamp[k] <= lastRun
        /\ \A k \in Points : k \in Keys /\ removed[k] \in Nat /\ removed[k] <= lastRun
    BY DEF Inv, TypeOK, Ordered, Runs, Keys
  <1>4. Ordered'
    BY <1>3 DEF Inv, Ordered
  <1>5. BackLater'
    BY <1>3 DEF Inv, BackLater
  <1>6. Delivery'
    <2>1. \A q \in Procs : pass[q].at # "delivering"
      <3>1. \A q \in Procs : pass[q].at = "delivering" => pass[q] # Idle
        BY PassTypes DEF Inv
      <3>2. pass[p] # Idle
        BY PassTypes DEF Inv
      <3>3. QED
        BY <3>1, <3>2 DEF Inv, Exclusive
    <2>2. QED
      BY <2>1 DEF Delivery
  <1>7. Mirror'
    BY <1>3 DEF Inv, Mirror, Settled, Agrees
  <1>8. QED
    BY <1>1, <1>2, <1>4, <1>5, <1>6, <1>7 DEF Inv

LEMMA UpsertRowKeeps ==
    ASSUME Inv, NEW p \in Procs, NEW k \in Rows, NEW v \in Values, UpsertRow(p, k, v)
    PROVE  Inv'
  <1>1. pass[p].at = "fetching" /\ pass[p].run = lastRun /\ lastRun \in Runs
    BY PassTypes DEF UpsertRow, Inv, Exclusive, TypeOK
  <1>2. /\ k \in Keys /\ k \notin Points /\ v # Absent
        /\ value \in [Keys -> Values \union {Absent}] /\ stamp \in [Keys -> Runs]
        /\ removed \in [Points -> Runs]
    BY ChangeFeedAssumption DEF Inv, TypeOK, Keys
  <1>3. /\ value' = [value EXCEPT ![k] = v]
        /\ stamp' = [stamp EXCEPT ![k] = IF value[k] = v THEN stamp[k] ELSE lastRun]
        /\ removed' = removed
        /\ UNCHANGED <<lastRun, cursor, held, pass>>
    BY <1>1 DEF UpsertRow, Stamped
  <1>4. /\ value' \in [Keys -> Values \union {Absent}] /\ stamp' \in [Keys -> Runs]
        /\ removed' \in [Points -> Runs]
    BY <1>1, <1>2, <1>3
  <1>5. \A e \in Keys :
           \/ /\ value'[e] = value[e] /\ stamp'[e] = stamp[e]
              /\ e \in Points => removed'[e] = removed[e]
           \/ /\ value'[e] # Absent /\ stamp'[e] = lastRun
              /\ e \in Points => removed'[e] = removed[e]
    BY <1>1, <1>2, <1>3
  <1>6. QED
    BY <1>1, <1>3, <1>4, <1>5, StoreStep

LEMMA UpsertCurveKeeps ==
    ASSUME Inv, NEW p \in Procs, NEW answer \in Answer, UpsertCurve(p, answer)
    PROVE  Inv'
  <1> DEFINE S == DOMAIN answer
             D == Dropped(S)
  <1>1. pass[p].at = "fetching" /\ pass[p].run = lastRun /\ lastRun \in Runs
    BY PassTypes DEF UpsertCurve, Inv, Exclusive, TypeOK
  <1>2. /\ S \in SUBSET Points /\ \A k \in S : answer[k] \in Values
    BY ChangeFeedAssumption DEF Answer
  <1>3. D \in SUBSET Points /\ D \cap S = {}
    BY DEF Dropped, Cached
  <1>4. /\ Absent \notin Values /\ Points \subseteq Keys
        /\ value \in [Keys -> Values \union {Absent}] /\ stamp \in [Keys -> Runs]
        /\ removed \in [Points -> Runs] /\ 0 \in Runs
    BY ChangeFeedAssumption DEF Inv, TypeOK, Keys, Runs
  <1>5. /\ value' = [k \in Keys |-> IF k \in S THEN answer[k]
                                    ELSE IF k \in D THEN Absent ELSE value[k]]
        /\ stamp' = [k \in Keys |->
                       IF k \in S THEN IF value[k] = answer[k] THEN stamp[k] ELSE lastRun
                       ELSE IF k \in D THEN 0 ELSE stamp[k]]
        /\ removed' = [k \in Points |-> IF k \in D THEN lastRun ELSE removed[k]]
        /\ UNCHANGED <<lastRun, cursor, held, pass>>
    BY <1>1 DEF UpsertCurve, Stamped, Journal
  <1> HIDE DEF S, D
  <1>6. value' \in [Keys -> Values \union {Absent}]
    BY <1>2, <1>4, <1>5
  <1>7. stamp' \in [Keys -> Runs] /\ removed' \in [Points -> Runs]
    BY <1>1, <1>4, <1>5
  <1>8. ASSUME NEW k \in Keys
        PROVE  \/ /\ value'[k] = value[k] /\ stamp'[k] = stamp[k]
                  /\ k \in Points => removed'[k] = removed[k]
               \/ /\ value'[k] # Absent /\ stamp'[k] = lastRun
                  /\ k \in Points => removed'[k] = removed[k]
               \/ /\ value'[k] = Absent /\ stamp'[k] = 0
                  /\ k \in Points /\ removed'[k] = lastRun
    <2>1. CASE k \in S
      BY <1>2, <1>3, <1>4, <1>5, <2>1
    <2>2. CASE k \in D
      BY <1>3, <1>4, <1>5, <2>2
    <2>3. CASE k \notin S /\ k \notin D
      BY <1>4, <1>5, <2>3
    <2>4. QED
      BY <2>1, <2>2, <2>3
  <1>9. QED
    BY <1>1, <1>5, <1>6, <1>7, <1>8, StoreStep

(***************************************************************************)
(* A day of a curve.                                                       *)
(***************************************************************************)

\* A grid's step is a whole number of ticks.
LEMMA StepIsNat == ASSUME NEW S \in SUBSET Points PROVE GridStep(S) \in Nat
  <1>1. IsFiniteSet(S) /\ Cardinality(S) \in Nat /\ (S # {} => Cardinality(S) # 0)
    <2>1. IsFiniteSet(1..DayLength)
      BY CurveDayAssumption, FS_Interval
    <2>2. IsFiniteSet(S)
      BY <2>1, FS_Subset DEF Points
    <2>3. QED
      BY <2>2, FS_CardinalityType, FS_EmptySet
  <1>2. S # {} => DayLength \div Cardinality(S) \in Nat
    BY <1>1, CurveDayAssumption
  <1>3. QED
    BY <1>2 DEF GridStep

LEMMA RowLeavesCurve ==
    ASSUME Inv, NEW p \in Procs, NEW k \in Rows, NEW v \in Values, UpsertRow(p, k, v)
    PROVE  Cached' = Cached
  <1>1. \A e \in Points : value'[e] = value[e]
    BY ChangeFeedAssumption DEF UpsertRow, Inv, TypeOK, Keys
  <1>2. QED
    BY <1>1 DEF Cached

\* What a complete answer leaves of the day is its own grid.
LEMMA CurveImproves ==
    ASSUME Inv, NEW p \in Procs, NEW answer \in Answer, UpsertCurve(p, answer),
           Complete(Cached)
    PROVE  Complete(Cached') /\ GridStep(Cached') <= GridStep(Cached)
  <1>1. PICK S : S = DOMAIN answer
    OBVIOUS
  <1>2. S \in SUBSET Points /\ \A k \in S : answer[k] \in Values
    BY <1>1, ChangeFeedAssumption DEF Answer
  <1>3. Complete(S) /\ GridStep(S) <= GridStep(Cached)
    BY <1>1 DEF UpsertCurve, Caches
  <1>4. \A k \in Points : value'[k] = IF k \in S THEN answer[k]
                                      ELSE IF k \in Cached \ S THEN Absent ELSE value[k]
    BY <1>1, <1>3 DEF UpsertCurve, Dropped, Keys
  <1>5. \A k \in Points : value'[k] # Absent <=> k \in S
    BY <1>2, <1>4, ChangeFeedAssumption DEF Cached
  <1>6. Cached' = S
    BY <1>2, <1>5 DEF Cached
  <1>7. QED
    BY <1>3, <1>6

(***************************************************************************)
(* The theorems.                                                           *)
(***************************************************************************)

LEMMA InvInit == Init => Inv
  <1> SUFFICES ASSUME Init PROVE Inv
    OBVIOUS
  <1>1. TypeOK
    BY ChangeFeedAssumption DEF Init, TypeOK, Runs, Passes
  <1>2. Exclusive /\ Ordered /\ BackLater /\ Delivery
    BY DEF Init, Exclusive, Ordered, BackLater, Delivery, Idle, Keys
  <1>3. Mirror
    BY DEF Init, Mirror, Agrees
  <1>4. QED
    BY <1>1, <1>2, <1>3 DEF Inv

LEMMA InvStep == Inv /\ [Next]_vars => Inv'
  <1> SUFFICES ASSUME Inv, [Next]_vars PROVE Inv'
    OBVIOUS
  <1>1. CASE Next
    BY <1>1, StartKeeps, UpsertRowKeeps, UpsertCurveKeeps, FetchingDoneKeeps,
       ExportKeeps, DeleteKeeps, RefuseDeletesKeeps, WriteKeeps, FailKeeps,
       AdvanceCursorKeeps, EndKeeps
    DEF Next
  <1>2. CASE UNCHANGED vars
    BY <1>2 DEF vars, store, Inv, TypeOK, Exclusive, Ordered, BackLater, Delivery,
                Sending, Mirror, Settled, Agrees
  <1>3. QED
    BY <1>1, <1>2

\* Type correctness of the store, the sinks and the passes.
THEOREM FeedTypes == Spec => []TypeOK
  <1>1. Inv => TypeOK
    BY DEF Inv
  <1>2. QED
    BY <1>1, InvInit, InvStep, PTL DEF Spec

\* No change is ever lost to a sink: whatever a sink's cursor has passed, the sink
\* holds as the cache does (sync.py export, exporters/__init__.py), through any
\* interleaving of passes, crashes, failures and half-applied deliveries.
THEOREM NothingIsLost == Spec => []Mirror
  <1>1. Inv => Mirror
    BY DEF Inv
  <1>2. QED
    BY <1>1, InvInit, InvStep, PTL DEF Spec

\* "A day's curve only ever gets better" (store.py upsert_curve), for a day and an
\* hour of any length.
THEOREM CurveOnlyGetsBetter == Spec => OnlyGetsBetter
  <1> DEFINE Better == Complete(Cached) => Complete(Cached') /\ GridStep(Cached') <= GridStep(Cached)
  <1>1. ASSUME Inv, [Next]_vars PROVE [Better]_vars
    <2>1. ASSUME NEW p \in Procs, NEW answer \in Answer, UpsertCurve(p, answer)
          PROVE  Better
      BY <1>1, <2>1, CurveImproves
    <2>a. ASSUME Cached' = Cached PROVE Better
      <3>1. GridStep(Cached) \in Nat
        BY StepIsNat DEF Cached
      <3>2. QED
        BY <2>a, <3>1
    <2>2. ASSUME NEW p \in Procs, NEW k \in Rows, NEW v \in Values, UpsertRow(p, k, v)
          PROVE  Better
      <3>1. Cached' = Cached
        BY <1>1, <2>2, RowLeavesCurve
      <3>2. QED
        BY <2>a, <3>1
    <2>3. ASSUME value' = value
          PROVE  Better
      <3>1. Cached' = Cached
        BY <2>3 DEF Cached
      <3>2. QED
        BY <2>a, <3>1
    <2>4. CASE UNCHANGED vars
      BY <2>4
    <2>5. CASE Next
      BY <2>1, <2>2, <2>3, <2>5
      DEF Next, Start, FetchingDone, Export, Delete, RefuseDeletes, Write, Fail,
          AdvanceCursor, Finish, Crash, store
    <2>6. QED
      BY <1>1, <2>4, <2>5
  <1>2. QED
    BY <1>1, InvInit, InvStep, PTL DEF Spec, OnlyGetsBetter
==============================================================================
