--------------------------- MODULE MCSyncWorkflow ---------------------------
(***************************************************************************)
(* SyncWorkflow for TLC.  The constants get their values in the .cfg       *)
(* files: one code the bank accepts and one it rejects, a limit the clock  *)
(* can pass, two faults.                                                   *)
(*                                                                         *)
(* The properties below are what the repository's comments and README say  *)
(* of the program; TLC refutes each of them.                               *)
(***************************************************************************)
EXTENDS SyncWorkflow

\* workflow.py:127-128: the deadline check "cannot interfere with Restate's
\* journal replay", so a replay always asks for the call the journal has.
CheckNeverBreaksReplay ==
    pc \in Calls /\ pos < Len(journal) => journal[pos + 1] = pc

\* workflow.py:9-10: "If the worker crashes mid-sync, replay resumes from the
\* last completed step": with a working bank and no deadline in play, a sync
\* that needs no code ends whatever crashes it meets.
CrashRecovery ==
    bank = "ok" /\ mode = "direct" => <>(outcome # "none")
=============================================================================
