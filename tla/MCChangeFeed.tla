---------------------------- MODULE MCChangeFeed -----------------------------
(***************************************************************************)
(* ChangeFeed for TLC.                                                     *)
(***************************************************************************)
EXTENDS ChangeFeed, TLC

CONSTANTS p1, p2, influx, victoria, row, a, b

Symmetry == Permutations(Procs)
==============================================================================
