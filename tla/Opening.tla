------------------------------- MODULE Opening --------------------------------
(***************************************************************************)
(* How a process comes to use the database (Store.open): the open lock,    *)
(* the switch to WAL, the schema scripts one transaction each, and the     *)
(* one-shot upgrade of a file in the legacy layout, copied beside first.   *)
(* Processes of several releases open the file at once and may be killed   *)
(* between any two steps; a transaction they were in is rolled back.       *)
(*                                                                         *)
(* A row is a pair <<table, key>>.  "metering" stands for every table that *)
(* is taken over as it is (energy, load curve, peaks, Tempo, calls,        *)
(* boundaries), "ecowatt" is keyed by a day, "block" by the end of a quota *)
(* block; "sync_run" is the legacy journal.                                *)
(***************************************************************************)
EXTENDS Naturals

CONSTANTS
    Procs,          \* processes that open the database
    Scripts,        \* the number of schema scripts the release of each comes with
    LastScript,     \* the most scripts any release has
    RedatingScript, \* the script that moves every daily Ecowatt signal one day later
    Keys,           \* keys of rows: metering, days, ends of blocks
    Files,          \* the rows a file may hold to begin with
    Unreadable,     \* legacy rows the upgrade cannot convert
    Now             \* the instant of the openings, against which blocks are active

ASSUME OpeningAssumption ==
    /\ LastScript \in Nat \ {0}
    \* Every release modelled comes with the upgrade that moves the signals.
    /\ Scripts \in [Procs -> RedatingScript..LastScript]
    /\ RedatingScript \in 2..LastScript
    /\ Keys \subseteq Nat
    /\ Now \in Nat
    /\ Files \subseteq SUBSET ({"metering", "ecowatt", "block", "sync_run"} \X Keys)
    /\ Unreadable \subseteq {"metering"} \X Keys

VARIABLES
    disk,       \* the caches that exist: "ours", and one "beside"
    mode,       \* PRAGMA journal_mode
    version,    \* PRAGMA user_version
    created,    \* the scripts whose tables exist
    layout,     \* "legacy" when it holds the tables of the legacy layout
    rows,       \* its rows, in whichever layout
    copy,       \* <name>.pre-migration-*.bak: "none", "partial" or "whole"
    at,         \* where each process is
    next,       \* the script it runs next
    why         \* why it was refused

file == <<disk, mode, version, created, layout, rows>>
vars == <<file, copy, at, next, why>>

Inside == {"locked", "switching", "reading", "backing", "copying", "copied", "scripting"}
Places == {"out", "arrived", "open", "refused"} \union Inside

Move(p, place) == at' = [at EXCEPT ![p] = place]
Refuse(p, cause) == Move(p, "refused") /\ why' = [why EXCEPT ![p] = cause]

------------------------------------------------------------------------------
(***************************************************************************)
(* Rows and what they say.                                                 *)
(***************************************************************************)
Tables == {"metering", "ecowatt", "block", "sync_run"}
Signals(S) == {r \in S : r[1] = "ecowatt"}
Active(S) == {r \in S : r[1] = "block" /\ r[2] > Now}
Redated(S) == (S \ Signals(S)) \union {<<"ecowatt", r[2] + 1>> : r \in Signals(S)}

\* What an upgrade keeps: not the journal, nor the blocks that are over.
Kept(S) == {r \in S : r[1] \in {"metering", "ecowatt"}} \union Active(S)

\* Mutant: the signals are taken over under the day they had.
ImportedAsDated(S) == Kept(S)

\* import_data: each Ecowatt signal, dated one day early by the legacy layout, moves
\* one day later.
Imported(S) == Redated(Kept(S))

\* Script n on the rows it finds.
RunScript(n, S) == IF n = RedatingScript THEN Redated(S) ELSE S

\* What rows mean: until RedatingScript, a signal is dated one day early.
Early == layout = "legacy" \/ version < RedatingScript
Facts == IF Early THEN Redated(Kept(rows)) ELSE Kept(rows)

Init ==
    /\ disk \in SUBSET {"ours", "beside"}
    /\ layout \in {"current", "legacy"}
    /\ version \in 0..LastScript
    /\ created = 1..version
    /\ rows \in Files
    /\ layout = "current" => \A r \in rows : r[1] # "sync_run"
    /\ layout = "legacy" => "ours" \in disk /\ version = 0
    /\ "ours" \notin disk => version = 0
    /\ layout = "current" /\ version = 0 => rows = {}
    /\ mode = IF version > 0 THEN "wal" ELSE "delete"
    /\ copy = "none"
    /\ at = [p \in Procs |-> "out"]
    /\ next = [p \in Procs |-> 1]
    /\ why = [p \in Procs |-> "none"]

------------------------------------------------------------------------------
(***************************************************************************)
(* Getting in.                                                             *)
(***************************************************************************)

\* An empty cache is not started beside another one.  Looked at outside the lock.
Look(p) ==
    /\ at[p] = "out"
    /\ IF disk = {"beside"} THEN Refuse(p, "beside")
                             ELSE Move(p, "arrived") /\ UNCHANGED why
    /\ UNCHANGED <<file, copy, next>>

\* Mutants: every process takes a lock of its own; a refusal keeps the lock.
OwnLockFree(p) == at[p] \notin Inside
LockFreeLeaks(p) == \A q \in Procs : at[q] \notin Inside \union {"refused"}

\* The open lock: nobody else is inside.  It dies with its holder.
LockFree(p) == \A q \in Procs : at[q] \notin Inside

\* The lock is taken, then connecting creates the file.
Lock(p) ==
    /\ at[p] = "arrived"
    /\ LockFree(p)
    /\ disk' = disk \union {"ours"}
    /\ Move(p, "locked")
    /\ UNCHANGED <<mode, version, created, layout, rows, copy, next, why>>

\* Two connections that switch at once: SQLite refuses the second without waiting.
StartSwitch(p) ==
    /\ at[p] = "locked"
    /\ mode # "wal"
    /\ IF \E q \in Procs : at[q] = "switching" THEN Refuse(p, "busy")
                                              ELSE Move(p, "switching") /\ UNCHANGED why
    /\ UNCHANGED <<file, copy, next>>

Switch(p) ==
    /\ \/ at[p] = "switching"
       \/ at[p] = "locked" /\ mode = "wal"
    /\ mode' = "wal"
    /\ Move(p, "reading")
    /\ UNCHANGED <<disk, version, created, layout, rows, copy, next, why>>

\* Mutant: a newer schema is not looked for.
NewerNever(p) == FALSE

Newer(p) == version > Scripts[p]

\* The version and the layout are read, outside any transaction.
ReadVersion(p) ==
    /\ at[p] = "reading"
    /\ IF Newer(p) THEN Refuse(p, "newer") /\ UNCHANGED next
       ELSE /\ Move(p, IF version = 0 /\ layout = "legacy" THEN "backing" ELSE "scripting")
            /\ next' = [next EXCEPT ![p] = version + 1]
            /\ UNCHANGED why
    /\ UNCHANGED <<file, copy>>

------------------------------------------------------------------------------
(***************************************************************************)
(* The legacy file: copied beside, then upgraded in one transaction.       *)
(***************************************************************************)

\* Mutant: every attempt starts its copy, over the one there may be.
ReusableNever == FALSE

\* A retried migration reuses the first copy.
Reusable == copy # "none"

Reuse(p) ==
    /\ at[p] = "backing"
    /\ Reusable
    /\ Move(p, "copied")
    /\ UNCHANGED <<file, copy, next, why>>

\* The target is created, then filled: a process killed between the two leaves it.
StartCopy(p) ==
    /\ at[p] = "backing"
    /\ ~Reusable
    /\ copy' = "partial"
    /\ Move(p, "copying")
    /\ UNCHANGED <<file, next, why>>

FinishCopy(p) ==
    /\ at[p] = "copying"
    /\ copy' = "whole"
    /\ Move(p, "copied")
    /\ UNCHANGED <<file, next, why>>

\* The copy fails (no space), or fails its check: the target is removed.
FailCopy(p) ==
    /\ at[p] = "copying"
    /\ copy' = "none"
    /\ Refuse(p, "copy failed")
    /\ UNCHANGED <<file, next>>

\* The tables set aside, every script, the data, the version.  A row it cannot
\* convert or a table that exists already rolls everything back.
Upgradable == created = {} /\ rows \cap Unreadable = {}

UpgradedTo(p) == Scripts[p]

Upgrade(p) ==
    /\ at[p] = "copied"
    /\ Upgradable
    /\ layout' = "current"
    /\ created' = 1..Scripts[p]
    /\ rows' = Imported(rows)
    /\ version' = UpgradedTo(p)
    /\ Move(p, "open")
    /\ UNCHANGED <<disk, mode, copy, next, why>>

FailUpgrade(p) ==
    /\ at[p] = "copied"
    /\ ~Upgradable
    /\ Refuse(p, IF created = {} THEN "unreadable" ELSE "table exists")
    /\ UNCHANGED <<file, copy, next>>

------------------------------------------------------------------------------
(***************************************************************************)
(* The schema scripts, and what follows.                                   *)
(***************************************************************************)

\* Mutant: the version is written one ahead.
VersionAhead(n) == n + 1

\* The version the transaction of script n leaves.
VersionOf(n) == n

\* One transaction: the script and the version.  Its CREATE TABLE fails on a table
\* that exists.
Script(p) ==
    LET n == next[p] IN
    /\ at[p] = "scripting"
    /\ n <= Scripts[p]
    /\ IF n \in created THEN Refuse(p, "table exists") /\ UNCHANGED <<file, next>>
       ELSE /\ created' = created \union {n}
            /\ rows' = RunScript(n, rows)
            /\ version' = VersionOf(n)
            /\ next' = [next EXCEPT ![p] = n + 1]
            /\ UNCHANGED <<disk, mode, layout, at, why>>
    /\ UNCHANGED copy

Opened(p) ==
    /\ at[p] = "scripting"
    /\ next[p] > Scripts[p]
    /\ Move(p, "open")
    /\ UNCHANGED <<file, copy, next, why>>

\* An open store writes a row (any of the upserts).
Write(p, key) ==
    /\ at[p] = "open"
    /\ rows' = rows \union {<<"metering", key>>}
    /\ UNCHANGED <<disk, mode, version, created, layout, copy, at, next, why>>

\* The process ends, well, refused or killed: what it held is released.
Leave(p) ==
    /\ at[p] # "out"
    /\ Move(p, "out")
    /\ why' = [why EXCEPT ![p] = "none"]
    /\ UNCHANGED <<file, copy, next>>

\* The user moves the other cache away, as the refusal asks.
MoveAway ==
    /\ "beside" \in disk
    /\ disk' = disk \ {"beside"}
    /\ UNCHANGED <<mode, version, created, layout, rows, copy, at, next, why>>

Continue(p) ==
    \/ Look(p) \/ StartSwitch(p) \/ Switch(p) \/ ReadVersion(p)
    \/ Reuse(p) \/ StartCopy(p) \/ FinishCopy(p) \/ FailCopy(p)
    \/ Upgrade(p) \/ FailUpgrade(p) \/ Script(p) \/ Opened(p)

Next ==
    \/ \E p \in Procs :
        \/ Continue(p)
        \/ Lock(p)
        \/ Leave(p)
        \/ \E key \in Keys : Write(p, key)
    \/ MoveAway

Spec == Init /\ [][Next]_vars

\* A process inside goes on; the lock is given in the end to who waits for it.
FairSpec == Spec /\ \A p \in Procs : WF_vars(at[p] # "out" /\ Continue(p)) /\ SF_vars(Lock(p))

------------------------------------------------------------------------------
TypeOK ==
    /\ disk \subseteq {"ours", "beside"}
    /\ mode \in {"delete", "wal"}
    /\ layout \in {"current", "legacy"}
    /\ version \in 0..LastScript
    /\ created \subseteq 1..LastScript
    /\ rows \subseteq Tables \X Nat
    /\ copy \in {"none", "partial", "whole"}
    /\ at \in [Procs -> Places]
    /\ next \in [Procs -> 1..LastScript + 1]
    /\ why \in [Procs -> {"none", "beside", "busy", "newer", "copy failed", "unreadable",
                          "table exists"}]

\* A process is refused for what the file or the disk is, never because another one
\* opens it at the same time or was killed while it did ("opening is serialized
\* across threads and processes", Store._prepare).
RefusedForCause == \A p \in Procs : why[p] \notin {"busy", "table exists"}

\* Whoever comes to use the file finds the current layout at exactly the version of
\* its own release, whoever migrated it (_migrate).
OpensItsSchema ==
    [][\A p \in Procs : at[p] # "open" /\ at'[p] = "open" =>
            /\ layout' = "current"
            /\ version' = Scripts[p]
            /\ created' = 1..version']_vars

\* What the file knows only grows, whatever scripts, upgrades, failures and kills it
\* goes through (migration 0002, legacy.import_data): Archive.
Knowledge == INSTANCE Archive
    WITH AllFacts <- Tables \X (Keys \union {k + 1 : k \in Keys}), facts <- Facts
KeepsFacts == Knowledge!Spec

\* The legacy tables are gone only once a whole copy of them lies beside ("Store.open
\* backs the file up, then in one transaction ...", legacy.py).
CopiedFirst == [][layout = "legacy" /\ layout' # "legacy" => copy = "whole"]_vars

\* A whole copy is never touched again: "a retried migration reuses the first copy".
FirstCopyKept == [][copy = "whole" => copy' = "whole"]_vars

\* Whoever asks for the file gets it, is told why not, or is killed.
OpenersEnd == \A p \in Procs : at[p] = "arrived" ~> at[p] \in {"open", "refused", "out"}
===============================================================================
