----------------------------- MODULE MCSyncJobs -----------------------------
(***************************************************************************)
(* SyncJobs for TLC: two requests for the same connection (a third adds    *)
(* nothing: every property is about one job or a pair).                    *)
(***************************************************************************)
EXTENDS SyncJobs
CONSTANTS r1, r2
=============================================================================
