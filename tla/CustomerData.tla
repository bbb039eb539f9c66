----------------------------- MODULE CustomerData -----------------------------
(***************************************************************************)
(* The consent of a usage point and its contract, identity, contact and    *)
(* addresses: when each is asked for again (sync.py,                       *)
(* due_customer_resources), what an answer is taken for (gateway.py,       *)
(* parse_consent and the parsers of customer data), and the tables it is   *)
(* cached in (store.py): one per resource, and customer_failure.           *)
(***************************************************************************)
EXTENDS Ages, SequencesExt

CONSTANTS
    Resources,      \* the customer resources
    PerMeter,       \* those whose answer lists usage points: contract, addresses
    Refresh,        \* ticks after which a copy is refreshed
    Retry,          \* CUSTOMER_RETRY
    MaxLate         \* bound: ticks from the reading of the clock to an answer

ASSUME CustomerAssumption ==
    /\ PerMeter \subseteq Resources
    /\ Refresh \in Nat /\ Retry \in Nat \ {0}
    /\ MaxLate \in 0..Refresh

VARIABLES
    copy,           \* age of each resource's fetched_at
    failed,         \* age of failed_at in customer_failure
    tried,          \* history: age of the failed attempt itself
    others          \* history: the resources whose copy is another meter's

customerVars == <<copy, failed, tried, others>>

\* Ages above these are all the same to _due.
MaxCopy == Refresh
MaxFailed == IF Retry < MaxLate THEN MaxLate ELSE Retry

CustomerInit ==
    /\ copy = [r \in Resources |-> Never]
    /\ failed = [r \in Resources |-> Never]
    /\ tried = [r \in Resources |-> Never]
    /\ others = {}

------------------------------------------------------------------------------
(***************************************************************************)
(* What an answer is taken for.                                            *)
(***************************************************************************)

\* A flag as the gateway sends it: JSON, 0/1 or text, absent, or unreadable.
Raws == {"true", "false", "absent", "junk"}
Flag(raw) == raw = "true"

\* The consent is read strictly where it decides.  (Its row is only displayed.)
ConsentRefused(valid, ban) == valid \in {"absent", "junk"} \/ ban = "junk"
ParseConsent(valid, ban) == [valid |-> Flag(valid), banned |-> Flag(ban)]
NoConsent == [valid |-> "absent", ban |-> "absent"]

\* Mutant: a ban is not looked at.
GrantedIfValid(consent) == consent.valid
Granted(consent) == consent.valid /\ ~consent.banned

\* The entry of the meter asked about: the one that carries its id, or the only one
\* when it carries none.  No entry, or one that is no object before it: no answer.
Entries == {"own", "other", "unnamed", "junk"}
Chosen(entries, i) == entries[i] = "own" \/ entries = <<"unnamed">>
Stops(entries) == {i \in DOMAIN entries : entries[i] = "junk" \/ Chosen(entries, i)}
EntryFor(entries) ==
    LET taken == {i \in Stops(entries) : entries[i] # "junk" /\ \A j \in Stops(entries) : i <= j}
    IN  IF taken = {} THEN 0 ELSE CHOOSE i \in taken : TRUE

\* The entries an answer may list.  (Bound: two; a list is read for some resources only.)
AnswersOf(r) == IF r \in PerMeter THEN SeqOf(Entries, 2) ELSE {<<>>}
Readable(r, entries) == r \in PerMeter => EntryFor(entries) # 0

------------------------------------------------------------------------------

Due(age, period) == age = Never \/ age >= period

\* A resource that failed is held back a day.  (Mutant: it is not.)
DueResourcesAtOnce(enabled) == {r \in enabled : Due(copy[r], Refresh)}
DueResources(enabled) == {r \in enabled : Due(copy[r], Refresh) /\ Due(failed[r], Retry)}

\* A copy cached at `now` forgets the failure, in one transaction.
Upsert(r, entries, now) ==
    /\ Readable(r, entries)
    /\ copy' = [copy EXCEPT ![r] = now]
    /\ failed' = [failed EXCEPT ![r] = Never]
    /\ tried' = [tried EXCEPT ![r] = Never]
    /\ others' = IF r \in PerMeter /\ entries[EntryFor(entries)] = "other"
                 THEN others \union {r} ELSE others \ {r}

\* The failure is dated by the clock reading of the turn, not by the refusal.
RecordFailure(r, now) ==
    /\ failed' = [failed EXCEPT ![r] = now]
    /\ tried' = [tried EXCEPT ![r] = 0]
    /\ UNCHANGED <<copy, others>>

CustomerTick ==
    /\ copy' = [r \in Resources |-> Older(copy[r], MaxCopy)]
    /\ failed' = [r \in Resources |-> Older(failed[r], MaxFailed)]
    /\ tried' = [r \in Resources |-> Older(tried[r], Retry)]
    /\ UNCHANGED others

------------------------------------------------------------------------------

CustomerTypeOK ==
    /\ copy \in [Resources -> Aged(MaxCopy)]
    /\ failed \in [Resources -> Aged(MaxFailed)]
    /\ tried \in [Resources -> Aged(Retry)]
    /\ others \subseteq Resources

Taken(r) == copy'[r] # Never /\ (copy[r] = Never \/ copy'[r] < copy[r])
===============================================================================
