----------------------------- MODULE DailyBudget -----------------------------
(***************************************************************************)
(* What the quota governor promises, whatever its clients, its blocks and  *)
(* its crashes: the calls of a bucket are counted one at a time, a call    *)
(* once counted is never forgotten, and no UTC day of a bucket counts more *)
(* calls than the budget.                                                  *)
(***************************************************************************)
EXTENDS Integers

CONSTANTS
    Buckets,    \* the usage points, and "rte" for Tempo and Ecowatt
    Days,       \* the UTC days
    Budget      \* gateway.daily_call_budget

VARIABLE spent  \* spent[b][d]: the calls of bucket b counted on day d

Init == spent = [b \in Buckets |-> [d \in Days |-> 0]]

Spend(b, d) ==
    /\ spent[b][d] < Budget
    /\ spent' = [spent EXCEPT ![b][d] = @ + 1]

Next == \E b \in Buckets, d \in Days : Spend(b, d)

Spec == Init /\ [][Next]_spent
==============================================================================
