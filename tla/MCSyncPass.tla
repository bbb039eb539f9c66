----------------------------- MODULE MCSyncPass ------------------------------
(***************************************************************************)
(* SyncPass for TLC.                                                       *)
(***************************************************************************)
EXTENDS SyncPass, TLC

CONSTANTS pdl, curve

MCWindowDays == (curve :> 3)
MCHistoryDays == (curve :> 4)
==============================================================================
