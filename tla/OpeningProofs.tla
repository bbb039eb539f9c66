---------------------------- MODULE OpeningProofs -----------------------------
(***************************************************************************)
(* Proofs about Opening, for any number of processes, releases and rows.   *)
(* Everything rests on one invariant: the open lock is held by one process *)
(* at a time, the tables that exist are those of the version written, and  *)
(* what the holder read of the file under the lock is still true of it.    *)
(***************************************************************************)
EXTENDS Opening, TLAPS

Exclusive ==
    \A p, q \in Procs : at[p] \in Inside /\ at[q] \in Inside => p = q

Layout == created = 1..version /\ (layout = "legacy" => version = 0)

\* What the holder of the lock knows of the file.
Holds(p) ==
    /\ at[p] \in {"backing", "copying", "copied"} => layout = "legacy"
    /\ at[p] = "copying" => copy = "partial"
    /\ at[p] = "scripting" =>
         /\ layout = "current"
         /\ next[p] = version + 1
         /\ version <= Scripts[p]

IInv ==
    /\ TypeOK
    /\ Exclusive
    /\ Layout
    /\ \A p \in Procs : Holds(p)
    /\ RefusedForCause

------------------------------------------------------------------------------
(***************************************************************************)
(* The invariant.                                                          *)
(***************************************************************************)

LEMMA RedatedTypes ==
    ASSUME NEW S, S \subseteq Tables \X Nat
    PROVE  /\ Redated(S) \subseteq Tables \X Nat
           /\ Kept(S) \subseteq Tables \X Nat
  <1>1. Kept(S) \subseteq S
    BY DEF Kept, Active
  <1>2. ASSUME NEW r \in Signals(S) PROVE <<"ecowatt", r[2] + 1>> \in Tables \X Nat
    BY DEF Signals, Tables
  <1>3. QED
    BY <1>1, <1>2 DEF Redated

LEMMA InitInv == Init => IInv
  <1> SUFFICES ASSUME Init PROVE IInv
    OBVIOUS
  <1>1. version \in 0..LastScript /\ LastScript \in Nat /\ created = 1..version
    BY OpeningAssumption DEF Init
  <1>2. rows \subseteq Tables \X Nat
    BY OpeningAssumption DEF Init, Tables
  <1>3. TypeOK
    BY <1>1, <1>2 DEF Init, TypeOK, Places
  <1>4. Exclusive /\ (\A p \in Procs : Holds(p)) /\ RefusedForCause
    BY DEF Init, Exclusive, Holds, RefusedForCause, Inside
  <1>5. Layout
    BY <1>1 DEF Init, Layout
  <1>6. QED
    BY <1>3, <1>4, <1>5 DEF IInv

LEMMA Releases ==
    ASSUME NEW p \in Procs
    PROVE  /\ Scripts[p] \in 1..LastScript /\ LastScript \in Nat /\ LastScript >= 1
           /\ RedatingScript \in Nat /\ 2 <= RedatingScript /\ RedatingScript <= Scripts[p]
  BY OpeningAssumption

LEMMA VersionTypes ==
    ASSUME IInv, NEW p \in Procs
    PROVE  version \in Nat /\ Holds(p)
  <1>1. version \in 0..LastScript
    BY DEF IInv, TypeOK
  <1>2. QED
    BY <1>1, Releases DEF IInv

LEMMA NotNewer ==
    ASSUME IInv, NEW p \in Procs, ~Newer(p)
    PROVE  version \in Nat /\ version <= Scripts[p] /\ version + 1 \in 1..LastScript + 1
  <1>1. version \in Nat /\ ~(version > Scripts[p])
    BY VersionTypes DEF Newer
  <1>2. Scripts[p] \in Nat /\ Scripts[p] <= LastScript /\ LastScript \in Nat
    BY Releases
  <1>3. QED
    BY <1>1, <1>2

\* The steps that move one process and leave the file as it is.
LEMMA QuietSteps ==
    ASSUME IInv, NEW p \in Procs,
           \/ Look(p) \/ StartSwitch(p) \/ ReadVersion(p) \/ Reuse(p)
           \/ StartCopy(p) \/ FinishCopy(p) \/ FailCopy(p) \/ FailUpgrade(p)
           \/ Opened(p) \/ Leave(p)
    PROVE  IInv'
  <1> DEFINE Goes == /\ TypeOK'
                     /\ at'[p] \in Inside => at[p] \in Inside
                     /\ Holds(p)'
  <1> USE DEF IInv
  <1>1. UNCHANGED file
    BY DEF Look, StartSwitch, ReadVersion, Reuse, StartCopy, FinishCopy, FailCopy,
           FailUpgrade, Opened, Leave
  <1>2. Goes
    <2> USE <1>1 DEF TypeOK, Holds, file, Move, Refuse, Places, Inside
    <2>1. CASE Look(p)
      BY <2>1 DEF Look
    <2>2. CASE StartSwitch(p)
      BY <2>2 DEF StartSwitch
    <2>3. CASE ReadVersion(p)
      <3>1. CASE Newer(p)
        BY <2>3, <3>1 DEF ReadVersion
      <3>2. CASE ~Newer(p)
        <4>1. version \in Nat /\ version <= Scripts[p] /\ version + 1 \in 1..LastScript + 1
          BY <3>2, NotNewer
        <4>2. next' = [next EXCEPT ![p] = version + 1] /\ UNCHANGED <<copy, why>>
          BY <2>3, <3>2 DEF ReadVersion
        <4>3. CASE version = 0 /\ layout = "legacy"
          <5>1. at' = [at EXCEPT ![p] = "backing"]
            BY <2>3, <3>2, <4>3 DEF ReadVersion
          <5>2. QED
            BY <2>3, <4>1, <4>2, <4>3, <5>1 DEF ReadVersion
        <4>4. CASE ~(version = 0 /\ layout = "legacy")
          <5>1. at' = [at EXCEPT ![p] = "scripting"]
            BY <2>3, <3>2, <4>4 DEF ReadVersion
          <5>2. layout = "current"
            BY <4>4 DEF Layout
          <5>3. QED
            BY <2>3, <4>1, <4>2, <5>1, <5>2 DEF ReadVersion
        <4>5. QED
          BY <4>3, <4>4
      <3>3. QED
        BY <3>1, <3>2
    <2>4. CASE Reuse(p)
      BY <2>4 DEF Reuse
    <2>5. CASE StartCopy(p)
      BY <2>5 DEF StartCopy
    <2>6. CASE FinishCopy(p)
      BY <2>6 DEF FinishCopy
    <2>7. CASE FailCopy(p)
      BY <2>7 DEF FailCopy
    <2>8. CASE FailUpgrade(p)
      BY <2>8 DEF FailUpgrade
    <2>9. CASE Opened(p)
      BY <2>9, Releases DEF Opened
    <2>10. CASE Leave(p)
      BY <2>10 DEF Leave
    <2>11. QED
      BY <2>1, <2>2, <2>3, <2>4, <2>5, <2>6, <2>7, <2>8, <2>9, <2>10
  <1>3. \A q \in Procs : q # p => at'[q] = at[q] /\ next'[q] = next[q] /\ why'[q] = why[q]
    BY DEF TypeOK, Look, StartSwitch, ReadVersion, Reuse, StartCopy, FinishCopy,
           FailCopy, FailUpgrade, Opened, Leave, Move, Refuse
  <1>4. Exclusive'
    BY <1>2, <1>3 DEF Exclusive
  <1>5. Layout'
    BY <1>1 DEF Layout, file
  <1>6. ASSUME NEW q \in Procs, q # p PROVE Holds(q)'
    <2>1. at[q] = "copying" => copy' = copy
      BY <1>6 DEF Exclusive, Inside, Look, StartSwitch, ReadVersion, Reuse, StartCopy,
             FinishCopy, FailCopy, FailUpgrade, Opened, Leave
    <2>2. QED
      BY <1>1, <1>3, <1>6, <2>1 DEF Holds, file
  <1>7. why'[p] \notin {"busy", "table exists"}
    <2>1. CASE StartSwitch(p)
      <3>1. ~\E q \in Procs : at[q] = "switching"
        BY <2>1 DEF StartSwitch, Exclusive, Inside
      <3>2. QED
        BY <2>1, <3>1 DEF StartSwitch, RefusedForCause
    <2>2. CASE FailUpgrade(p)
      <3>1. version = 0
        BY <2>2 DEF FailUpgrade, Holds, Layout
      <3>2. created = {}
        BY <3>1 DEF Layout
      <3>3. QED
        BY <2>2, <3>2 DEF FailUpgrade, Refuse, TypeOK
    <2>3. QED
      BY <2>1, <2>2 DEF TypeOK, RefusedForCause, Look, ReadVersion, Reuse, StartCopy,
             FinishCopy, FailCopy, Opened, Leave, Move, Refuse
  <1>8. QED
    BY <1>2, <1>3, <1>4, <1>5, <1>6, <1>7 DEF RefusedForCause

LEMMA EntrySteps ==
    ASSUME IInv, NEW p \in Procs, Lock(p) \/ Switch(p)
    PROVE  IInv'
  <1> USE DEF IInv
  <1>1. TypeOK'
    BY DEF TypeOK, Lock, Switch, Move, Places, Inside
  <1>2. Exclusive'
    BY DEF TypeOK, Exclusive, Lock, Switch, LockFree, Move, Inside
  <1>3. Layout' /\ RefusedForCause'
    BY DEF Layout, RefusedForCause, Lock, Switch
  <1>4. \A q \in Procs : Holds(q)'
    BY DEF TypeOK, Holds, Lock, Switch, Move
  <1>5. QED
    BY <1>1, <1>2, <1>3, <1>4

LEMMA UpgradeStep ==
    ASSUME IInv, NEW p \in Procs, Upgrade(p)
    PROVE  IInv'
  <1> USE DEF IInv
  <1>1. /\ at[p] = "copied" /\ Scripts[p] \in 1..LastScript /\ LastScript \in Nat
    BY Releases DEF Upgrade
  <1>2. rows' \subseteq Tables \X Nat
    BY RedatedTypes DEF Upgrade, Imported, TypeOK
  <1>3. TypeOK'
    <2>1. version' \in 0..LastScript /\ created' \subseteq 1..LastScript
      BY <1>1 DEF Upgrade, UpgradedTo
    <2>2. QED
      BY <1>2, <2>1 DEF TypeOK, Upgrade, Move, Places
  <1>4. Exclusive' /\ Layout' /\ RefusedForCause'
    BY <1>1 DEF TypeOK, Exclusive, Layout, RefusedForCause, Upgrade, UpgradedTo, Move, Inside
  <1>5. ASSUME NEW q \in Procs PROVE Holds(q)'
    <2>1. CASE q = p
      BY <2>1 DEF Upgrade, Move, TypeOK, Holds
    <2>2. CASE q # p
      <3>1. at'[q] \notin Inside
        BY <1>1, <2>2 DEF Upgrade, Move, TypeOK, Exclusive, Inside
      <3>2. QED
        BY <3>1 DEF Holds, Inside
    <2>3. QED
      BY <2>1, <2>2
  <1>6. QED
    BY <1>3, <1>4, <1>5

LEMMA ScriptStep ==
    ASSUME IInv, NEW p \in Procs, Script(p)
    PROVE  IInv'
  <1> DEFINE n == next[p]
  <1> USE DEF IInv
  <1>1. /\ at[p] = "scripting" /\ n = version + 1 /\ n <= Scripts[p] /\ layout = "current"
        /\ version \in Nat /\ Scripts[p] \in 1..LastScript /\ LastScript \in Nat
    <2>1. at[p] = "scripting" /\ n <= Scripts[p]
      BY DEF Script
    <2>2. Holds(p) /\ version \in Nat
      BY VersionTypes
    <2>3. QED
      BY <2>1, <2>2, Releases DEF Holds
  <1>2. n \notin created
    BY <1>1 DEF Layout
  <1>3. /\ created' = created \union {n} /\ version' = n
        /\ next' = [next EXCEPT ![p] = n + 1]
        /\ rows' = RunScript(n, rows)
        /\ UNCHANGED <<disk, mode, layout, at, why, copy>>
    BY <1>2 DEF Script, VersionOf
  <1>4. rows' \subseteq Tables \X Nat
    BY <1>3, RedatedTypes DEF RunScript, TypeOK
  <1>5. created' = 1..version' /\ created' \subseteq 1..LastScript
    BY <1>1, <1>3 DEF Layout
  <1>6. TypeOK'
    <2>1. n \in 1..LastScript /\ n + 1 \in 1..LastScript + 1
      BY <1>1
    <2>2. version' \in 0..LastScript /\ next' \in [Procs -> 1..LastScript + 1]
      <3>1. version' = n /\ n \in 0..LastScript
        BY <1>3, <2>1
      <3>2. next \in [Procs -> 1..LastScript + 1]
        BY DEF TypeOK
      <3>3. QED
        BY <1>3, <2>1, <3>1, <3>2
    <2>3. QED
      BY <1>3, <1>4, <1>5, <2>2 DEF TypeOK
  <1>7. Exclusive' /\ Layout' /\ RefusedForCause'
    BY <1>1, <1>3, <1>5 DEF Exclusive, Layout, RefusedForCause
  <1>8. ASSUME NEW q \in Procs PROVE Holds(q)'
    <2>1. CASE q = p
      BY <1>1, <1>3, <2>1 DEF TypeOK, Holds
    <2>2. CASE q # p
      <3>1. at'[q] \notin Inside
        BY <1>1, <1>3, <2>2 DEF Exclusive, Inside
      <3>2. QED
        BY <3>1 DEF Holds, Inside
    <2>3. QED
      BY <2>1, <2>2
  <1>9. QED
    BY <1>6, <1>7, <1>8

LEMMA OtherSteps ==
    ASSUME IInv, MoveAway \/ \E p \in Procs, key \in Keys : Write(p, key)
    PROVE  IInv'
  <1> USE DEF IInv
  <1>1. rows' \subseteq Tables \X Nat
    <2>1. \A key \in Keys : <<"metering", key>> \in Tables \X Nat
      BY OpeningAssumption DEF Tables
    <2>2. QED
      BY <2>1 DEF TypeOK, MoveAway, Write
  <1>2. TypeOK'
    BY <1>1 DEF TypeOK, MoveAway, Write, file
  <1>3. QED
    BY <1>2 DEF Exclusive, Layout, Holds, RefusedForCause, MoveAway, Write, file

LEMMA Inductive == IInv /\ [Next]_vars => IInv'
  <1> SUFFICES ASSUME IInv, [Next]_vars PROVE IInv'
    OBVIOUS
  <1>1. CASE UNCHANGED vars
    BY <1>1 DEF vars, file, IInv, TypeOK, Exclusive, Layout, Holds, RefusedForCause
  <1>2. CASE Next
    BY <1>2, QuietSteps, EntrySteps, UpgradeStep, ScriptStep, OtherSteps DEF Next, Continue
  <1>3. QED
    BY <1>1, <1>2

LEMMA Invariant == Spec => []IInv
  BY InitInv, Inductive, PTL DEF Spec

------------------------------------------------------------------------------
(***************************************************************************)
(* What follows from it.                                                   *)
(***************************************************************************)

\* The file, the copy and the processes keep their types.
THEOREM OpeningTypes == Spec => []TypeOK
  BY Invariant, PTL DEF IInv

\* No process is ever refused because another one opens the file at the same time,
\* or was killed while it did: the lock serializes the switch to WAL, and a script
\* and its version are one transaction.
THEOREM NoFalseRefusal == Spec => []RefusedForCause
  BY Invariant, PTL DEF IInv

\* Whoever gets to use the file finds it in the current layout, at its own release's
\* version, with exactly that version's tables, whichever process brought it there.
THEOREM OpenedAtItsSchema == Spec => OpensItsSchema
  <1>1. ASSUME IInv, [Next]_vars, NEW p \in Procs, at[p] # "open", at'[p] = "open"
        PROVE  layout' = "current" /\ version' = Scripts[p] /\ created' = 1..version'
    <2>1. Upgrade(p) \/ Opened(p)
      <3>1. at' # at
        BY <1>1
      <3>2. PICK q \in Procs : Continue(q) \/ Lock(q) \/ Leave(q)
        BY <1>1, <3>1 DEF Next, vars, Write, MoveAway
      <3>3. at \in [Procs -> Places]
        BY <1>1 DEF IInv, TypeOK
      <3>4. QED
        BY <1>1, <3>2, <3>3 DEF Continue, Lock, Leave, Look, StartSwitch, Switch, ReadVersion,
           Reuse, StartCopy, FinishCopy, FailCopy, FailUpgrade, Script, Upgrade, Opened,
           Move, Refuse
    <2>2. CASE Upgrade(p)
      BY <2>2 DEF Upgrade, UpgradedTo
    <2>3. CASE Opened(p)
      <3>1. /\ layout = "current" /\ next[p] = version + 1 /\ version <= Scripts[p]
            /\ created = 1..version /\ next[p] > Scripts[p]
        BY <1>1, <2>3, VersionTypes DEF Opened, Holds, IInv, Layout
      <3>2. version \in Nat /\ Scripts[p] \in Nat
        BY <1>1, VersionTypes, Releases
      <3>3. version = Scripts[p]
        BY <3>1, <3>2
      <3>4. QED
        BY <2>3, <3>1, <3>3 DEF Opened, file
    <2>4. QED
      BY <2>1, <2>2, <2>3
  <1>2. IInv /\ [Next]_vars =>
          [\A p \in Procs : at[p] # "open" /\ at'[p] = "open" =>
                /\ layout' = "current"
                /\ version' = Scripts[p]
                /\ created' = 1..version']_vars
    BY <1>1
  <1>3. QED
    BY <1>2, Invariant, PTL DEF Spec, OpensItsSchema

\* A whole copy of the legacy file is never written over nor removed: only its
\* maker, alone under the lock and not yet done, ever removes one.
THEOREM CopyKept == Spec => FirstCopyKept
  <1>1. ASSUME IInv, [Next]_vars, copy = "whole" PROVE copy' = "whole"
    <2>1. \A p \in Procs : ~StartCopy(p) /\ ~FailCopy(p)
      BY <1>1 DEF IInv, Holds, StartCopy, FailCopy, Reusable
    <2>2. CASE UNCHANGED vars
      BY <1>1, <2>2 DEF vars
    <2>3. CASE MoveAway
      BY <1>1, <2>3 DEF MoveAway
    <2>4. ASSUME NEW p \in Procs, Lock(p) \/ Leave(p) \/ \E key \in Keys : Write(p, key)
          PROVE  copy' = "whole"
      BY <1>1, <2>4 DEF Lock, Leave, Write
    <2>5. ASSUME NEW p \in Procs, Continue(p) PROVE copy' = "whole"
      BY <1>1, <2>1, <2>5 DEF Continue, Look, StartSwitch, Switch, ReadVersion, Reuse,
         FinishCopy, Upgrade, FailUpgrade, Script, Opened
    <2>6. QED
      BY <1>1, <2>2, <2>3, <2>4, <2>5 DEF Next
  <1>2. IInv /\ [Next]_vars => [copy = "whole" => copy' = "whole"]_vars
    BY <1>1
  <1>3. QED
    BY <1>2, Invariant, PTL DEF Spec, FirstCopyKept

------------------------------------------------------------------------------
(***************************************************************************)
(* What the file knows.                                                    *)
(***************************************************************************)

LEMMA RedatedKept ==
    ASSUME NEW S, S \subseteq Tables \X Nat
    PROVE  Kept(Redated(S)) = Redated(Kept(S))
  <1>1. Signals(Kept(S)) = Signals(S)
    BY DEF Signals, Kept, Active
  <1>2. Active(Redated(S)) = Active(S)
    BY DEF Active, Redated, Signals
  <1>3. {r \in Redated(S) : r[1] \in {"metering", "ecowatt"}}
          = {r \in S : r[1] = "metering"} \union {<<"ecowatt", r[2] + 1>> : r \in Signals(S)}
    BY DEF Redated, Signals
  <1>4. Kept(S) \ Signals(S) = {r \in S : r[1] = "metering"} \union Active(S)
    BY DEF Kept, Signals, Active
  <1>5. QED
    BY <1>1, <1>2, <1>3, <1>4 DEF Kept, Redated

LEMMA KeptTwice ==
    ASSUME NEW S, S \subseteq Tables \X Nat
    PROVE  Kept(Imported(S)) = Imported(S)
  <1>1. Kept(Kept(S)) = Kept(S) /\ Kept(S) \subseteq Tables \X Nat
    BY RedatedTypes DEF Kept, Active
  <1>2. QED
    BY <1>1, RedatedKept DEF Imported

LEMMA KnownAtFirst == Init => Facts \subseteq Tables \X (Keys \union {k + 1 : k \in Keys})
  <1> SUFFICES ASSUME Init
               PROVE  Facts \subseteq Tables \X (Keys \union {k + 1 : k \in Keys})
    OBVIOUS
  <1>1. rows \subseteq Tables \X Keys
    BY OpeningAssumption DEF Init, Tables
  <1>2. Kept(rows) \subseteq rows
    BY DEF Kept, Active
  <1>3. Redated(Kept(rows)) \subseteq Tables \X (Keys \union {k + 1 : k \in Keys})
    <2>1. ASSUME NEW r \in Kept(rows) PROVE r[2] \in Keys /\ r \in Tables \X Keys
      BY <1>1, <1>2, <2>1
    <2>2. "ecowatt" \in Tables
      BY DEF Tables
    <2>3. QED
      BY <2>1, <2>2 DEF Redated, Signals
  <1>4. QED
    BY <1>1, <1>2, <1>3 DEF Facts

\* Writing a metering row adds that row to the facts.
LEMMA WriteLearns ==
    ASSUME IInv, NEW p \in Procs, NEW key \in Keys, Write(p, key)
    PROVE  Facts' = Facts \union {<<"metering", key>>}
  <1> DEFINE row == <<"metering", key>>
  <1>1. Early' = Early /\ rows' = rows \union {row}
    BY DEF Write, Early
  <1>2. Kept(rows') = Kept(rows) \union {row}
    BY <1>1 DEF Kept, Active
  <1>3. Redated(Kept(rows) \union {row}) = Redated(Kept(rows)) \union {row}
    BY DEF Redated, Signals
  <1>4. QED
    BY <1>1, <1>2, <1>3 DEF Facts

LEMMA UpgradeKnows ==
    ASSUME IInv, NEW p \in Procs, Upgrade(p)
    PROVE  Facts' = Facts
  <1>1. Early /\ ~Early'
    <2>1. Holds(p) /\ at[p] = "copied"
      BY VersionTypes DEF Upgrade
    <2>2. layout = "legacy" /\ layout' = "current" /\ version' = Scripts[p]
      BY <2>1 DEF Upgrade, UpgradedTo, Holds
    <2>3. ~(Scripts[p] < RedatingScript)
      BY Releases
    <2>4. QED
      BY <2>2, <2>3 DEF Early
  <1>2. rows' = Imported(rows) /\ rows \subseteq Tables \X Nat
    BY DEF Upgrade, IInv, TypeOK
  <1>3. Kept(rows') = Imported(rows)
    BY <1>2, KeptTwice
  <1>4. QED
    BY <1>1, <1>3 DEF Facts, Imported

LEMMA ScriptKnows ==
    ASSUME IInv, NEW p \in Procs, Script(p)
    PROVE  Facts' = Facts
  <1>1. CASE next[p] \in created
    BY <1>1 DEF Script, file, Facts, Early
  <1>2. CASE next[p] \notin created
    <2>1. /\ layout = "current" /\ next[p] = version + 1 /\ version \in Nat
          /\ rows \subseteq Tables \X Nat
      BY VersionTypes DEF Script, Holds, IInv, TypeOK
    <2>2. layout' = "current" /\ version' = version + 1 /\ rows' = RunScript(version + 1, rows)
      BY <1>2, <2>1 DEF Script, VersionOf
    <2>3. RedatingScript \in Nat
      BY Releases
    <2>4. CASE version + 1 = RedatingScript
      <3>1. Early /\ ~Early' /\ rows' = Redated(rows)
        BY <2>1, <2>2, <2>3, <2>4 DEF Early, RunScript
      <3>2. QED
        BY <2>1, <3>1, RedatedKept DEF Facts
    <2>5. CASE version + 1 # RedatingScript
      <3>1. Early' = Early /\ rows' = rows
        BY <2>1, <2>2, <2>3, <2>5 DEF Early, RunScript
      <3>2. QED
        BY <3>1 DEF Facts
    <2>6. QED
      BY <2>4, <2>5
  <1>3. QED
    BY <1>1, <1>2

\* Opening implements Archive: no upgrade, script, failure or kill changes what the
\* file knows; a write adds one fact.
THEOREM OpeningImplementsArchive == Spec => KeepsFacts
  <1>1. Init => Knowledge!Init
    BY KnownAtFirst DEF Knowledge!Init
  <1>2. IInv /\ [Next]_vars => [Knowledge!Next]_Facts
    <2> SUFFICES ASSUME IInv, [Next]_vars PROVE Knowledge!Next \/ Facts' = Facts
      OBVIOUS
    <2>1. ASSUME UNCHANGED <<rows, version, layout>> PROVE Facts' = Facts
      BY <2>1 DEF Facts, Early
    <2>2. ASSUME NEW p \in Procs, NEW key \in Keys, Write(p, key)
          PROVE  Knowledge!Next
      <3>1. <<"metering", key>> \in Tables \X (Keys \union {k + 1 : k \in Keys})
        BY DEF Tables
      <3>2. QED
        BY <2>2, <3>1, WriteLearns DEF Knowledge!Next, Knowledge!Learn
    <2>3. ASSUME NEW p \in Procs, Upgrade(p) \/ Script(p) PROVE Facts' = Facts
      BY <2>3, UpgradeKnows, ScriptKnows
    <2>4. ASSUME NEW p \in Procs, Continue(p) PROVE Facts' = Facts
      BY <2>1, <2>3, <2>4 DEF Continue, file, Look, StartSwitch, Switch, ReadVersion, Reuse,
         StartCopy, FinishCopy, FailCopy, FailUpgrade, Opened
    <2>5. ASSUME NEW p \in Procs, Lock(p) \/ Leave(p) PROVE Facts' = Facts
      BY <2>1, <2>5 DEF Lock, Leave, file
    <2>6. QED
      BY <2>1, <2>2, <2>4, <2>5 DEF Next, MoveAway, vars, file
  <1>3. QED
    BY <1>1, <1>2, Invariant, PTL DEF Spec, KeepsFacts, Knowledge!Spec
===============================================================================
