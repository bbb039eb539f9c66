------------------------------- MODULE Archive --------------------------------
(***************************************************************************)
(* What the database promises across releases: what it knows only grows.   *)
(* An upgrade changes how facts are written down, never which ones are.    *)
(***************************************************************************)
CONSTANT AllFacts

VARIABLE facts      \* what the database knows

Init == facts \in SUBSET AllFacts

Learn(f) == facts' = facts \union {f}

Next == \E f \in AllFacts : Learn(f)

Spec == Init /\ [][Next]_facts
===============================================================================
