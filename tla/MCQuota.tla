------------------------------- MODULE MCQuota -------------------------------
(***************************************************************************)
(* Quota for TLC: two processes (a pass and a `purge-cache`), two days, so *)
(* that midnight passes in the middle of a request.                        *)
(***************************************************************************)
EXTENDS Quota

CONSTANTS p1, p2, pdl, rte
==============================================================================
