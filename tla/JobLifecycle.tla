---------------------------- MODULE JobLifecycle ----------------------------
(***************************************************************************)
(* What the rest of the product relies on about sync_jobs.status: the CLI  *)
(* polls it, has_active_sync() blocks a connection on it, the API shows    *)
(* it.  A job is announced as pending, runs, may pause once for a one-time *)
(* password, and then takes one of three final values which it keeps until *)
(* its row is deleted with the connection.                                 *)
(***************************************************************************)

VARIABLE status

Final == {"success", "partial_success", "failed"}
Active == {"pending", "running", "awaiting_otp"}

\* The moves of the workflow itself.  A pause is followed by more running,
\* never directly by a verdict.
WorkflowMoves ==
    {<<"pending", "running">>, <<"running", "awaiting_otp">>,
     <<"awaiting_otp", "running">>}
        \cup ({"running"} \X Final)

\* A job whose workflow was not started is failed for it, by its caller or at
\* the next start of a worker.
TriggerMoves == {<<"pending", "failed">>}

Deletions == (Active \cup Final) \X {"deleted"}

Moves == WorkflowMoves \cup TriggerMoves \cup Deletions

Init == status = "pending"

Step(moves) == \E move \in moves : status = move[1] /\ status' = move[2]

Next == Step(Moves)
WorkflowNext == Step(WorkflowMoves \cup Deletions)

\* The life of a job, and what its workflow has a part in.
Spec == Init /\ [][Next]_status
WorkflowSpec == Init /\ [][WorkflowNext]_status
=============================================================================
