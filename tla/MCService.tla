------------------------------- MODULE MCService ------------------------------
(***************************************************************************)
(* Service for TLC: one part of the program at a time, with the lock, the  *)
(* clock and the scheduler, which are all that the parts share.            *)
(***************************************************************************)
EXTENDS Service

CONSTANTS contract, identity, blue, red

Nothing == [rte |-> FALSE, resources |-> {}, consumption |-> FALSE, mqtt |-> FALSE]
MCGrid == {[Nothing EXCEPT !.rte = TRUE]}
MCCustomer == {[Nothing EXCEPT !.resources = {r}] : r \in Resources}
MCBroker == {[Nothing EXCEPT !.mqtt = TRUE],
             [Nothing EXCEPT !.mqtt = TRUE, !.consumption = TRUE]}
MCEach == MCGrid \union MCCustomer \union MCBroker
===============================================================================
