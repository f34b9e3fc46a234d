------------------------------ MODULE SyncJobs ------------------------------
(***************************************************************************)
(* How sync jobs of one connection come into being and are kept honest:    *)
(* start_sync (api/routes/syncs.py), the CLI's sync command, trigger_sync  *)
(* and reconcile_orphaned_jobs (services/operations.py) and the worker's   *)
(* start-up (worker/app.py).  Callers, the database, Restate and the       *)
(* worker run concurrently; every database session is one transaction      *)
(* (read committed), every HTTP call may fail or lose its reply.           *)
(*                                                                         *)
(* A request's job has the request's name.  The workflow is reduced to the *)
(* moves of the job row that SyncWorkflow shows it to make.  The variables *)
(* cli, unseen, lost and late record circumstances for the properties: no  *)
(* step but the choice between StartSync and StartCli depends on them.     *)
(***************************************************************************)
EXTENDS FiniteSets

CONSTANTS
    Requests      \* requests to start a sync of the connection

VARIABLES
    cli,         \* requests made with the CLI, the others through the API
    unseen,      \* syncs under way that a request did not see when it started
    lost,        \* requests that reached Restate, which the caller did not learn
    late,        \* requests whose invocation waited longer than stale_minutes
    conn,        \* the bank_connections row exists
    request,     \* where each caller is; "over" when it has its answer, an error or died
    status,      \* sync_jobs.status, "none" before the insert, "deleted" after it is gone
    reason,      \* who wrote failure_reason last
    stale,       \* the row is older than stale_minutes
    flow,        \* the invocation in Restate
    worker,      \* "down" or "up"
    registered,  \* Restate knows the worker
    startup,     \* reconciliation of this worker process: "due", "read" or "done"
    found        \* rows it read

rowVars == <<status, reason, stale>>
workerVars == <<worker, registered, startup, found>>
history == <<cli, unseen, lost, late>>
vars == <<history, conn, request, rowVars, flow, workerVars>>

Active == {"pending", "running", "awaiting_otp"}
Final == {"success", "failed"}
InProgress == {"checked", "inserted", "failing"}

Row(r) == status[r] \notin {"none", "deleted"}

HasActiveSync == \E r \in Requests : status[r] \in Active

Init ==
    /\ cli \in SUBSET Requests
    /\ unseen = [r \in Requests |-> {}]
    /\ lost = {} /\ late = {}
    /\ conn = TRUE
    /\ request = [r \in Requests |-> "new"]
    /\ status = [r \in Requests |-> "none"]
    /\ reason = [r \in Requests |-> "none"]
    /\ stale = [r \in Requests |-> FALSE]
    /\ flow = [r \in Requests |-> "none"]
    /\ worker = "down" /\ registered = FALSE
    /\ startup = "due" /\ found = {}

Move(r, step) == request' = [request EXCEPT ![r] = step]

Write(r, value) == status' = [status EXCEPT ![r] = value]

-----------------------------------------------------------------------------
(* Callers                                                                 *)

\* Requests between their check and the insert.
Checking == {q \in Requests : request[q] = "checked"}

See(r, others) == /\ unseen' = [unseen EXCEPT ![r] = others]
                  /\ UNCHANGED <<cli, lost, late>>

\* Mutant of StartSync: the check looks for running jobs only.
StartSyncSeesRunning(r) ==
    /\ request[r] = "new" /\ r \notin cli
    /\ \/ Move(r, "over") /\ UNCHANGED history
       \/ /\ conn /\ \A q \in Requests : status[q] # "running"
          /\ Move(r, "checked") /\ See(r, Checking)
    /\ UNCHANGED <<conn, rowVars, flow, workerVars>>

\* POST /connections/{id}/sync up to the end of its read transaction and the
\* check for a one-time password, which depends on data not modelled here.
StartSync(r) ==
    /\ request[r] = "new" /\ r \notin cli
    /\ \/ Move(r, "over") /\ UNCHANGED history
       \/ conn /\ ~HasActiveSync /\ Move(r, "checked") /\ See(r, Checking)
    /\ UNCHANGED <<conn, rowVars, flow, workerVars>>

\* The CLI has found the connection and goes on without a check.
StartCli(r) ==
    /\ request[r] = "new" /\ r \in cli
    /\ conn
    /\ Move(r, "checked")
    /\ See(r, Checking \cup {q \in Requests : status[q] \in Active})
    /\ UNCHANGED <<conn, rowVars, flow, workerVars>>

\* The row refers to the connection.
InsertJob(r) ==
    /\ request[r] = "checked"
    /\ IF conn THEN Move(r, "inserted") /\ Write(r, "pending")
               ELSE Move(r, "over") /\ UNCHANGED status
    /\ UNCHANGED <<history, conn, reason, stale, flow, workerVars>>

Invoke(r) == registered /\ flow' = [flow EXCEPT ![r] = "queued"]

\* The call to Restate's ingress.
SendRun(r) ==
    /\ request[r] = "inserted"
    /\ \/ Invoke(r) /\ Move(r, "over") /\ UNCHANGED lost
       \/ Invoke(r) /\ Move(r, "failing") /\ lost' = lost \cup {r}
       \/ Move(r, "failing") /\ UNCHANGED <<flow, lost>>
    /\ UNCHANGED <<cli, unseen, late, conn, rowVars, workerVars>>

MarkTriggerFailed(r) ==
    /\ request[r] = "failing"
    /\ Move(r, "over")
    /\ IF Row(r) THEN Write(r, "failed") /\ reason' = [reason EXCEPT ![r] = "trigger"]
                 ELSE UNCHANGED <<status, reason>>
    /\ UNCHANGED <<history, conn, stale, flow, workerVars>>

\* The API process or the CLI dies; its call may have reached Restate.
CallerDies(r) ==
    /\ request[r] \in InProgress
    /\ Move(r, "over")
    /\ UNCHANGED flow \/ (request[r] = "inserted" /\ Invoke(r))
    /\ UNCHANGED <<history, conn, rowVars, workerVars>>

-----------------------------------------------------------------------------
(* The worker's start-up                                                   *)

WorkerStarts ==
    /\ worker = "down"
    /\ worker' = "up"
    /\ UNCHANGED <<history, conn, request, rowVars, flow, registered, startup, found>>

WorkerDies ==
    /\ worker = "up"
    /\ worker' = "down" /\ startup' = "due" /\ found' = {}
    /\ UNCHANGED <<history, conn, request, rowVars, flow, registered>>

\* One of the retries succeeds; when all fail nothing changes.
Register ==
    /\ worker = "up"
    /\ ~registered
    /\ registered' = TRUE
    /\ UNCHANGED <<history, conn, request, rowVars, flow, worker, startup, found>>

\* Mutants of ReconcileRead: the age comparison reversed, or missing; every job
\* not yet ended taken for an orphan of the last worker.
ReadRows(rows) ==
    /\ worker = "up" /\ startup = "due"
    /\ startup' = "read"
    /\ found' = rows
    /\ UNCHANGED <<history, conn, request, rowVars, flow, worker, registered>>
ReconcileReadFresh == ReadRows({r \in Requests : status[r] = "pending" /\ ~stale[r]})
ReconcileReadAll == ReadRows({r \in Requests : status[r] = "pending"})
ReconcileReadActive == ReadRows({r \in Requests : status[r] \in Active})

\* The query of reconcile_orphaned_jobs.
ReconcileRead ==
    /\ worker = "up" /\ startup = "due"
    /\ startup' = "read"
    /\ found' = {r \in Requests : status[r] = "pending" /\ stale[r]}
    /\ UNCHANGED <<history, conn, request, rowVars, flow, worker, registered>>

\* Its commit: updates by primary key.  A row deleted meanwhile makes the
\* update match nothing, and the session may be rolled back for it.
ReconcileWrite ==
    /\ worker = "up" /\ startup = "read"
    /\ startup' = "done" /\ found' = {}
    /\ LET hit == {r \in found : Row(r)} IN
       \/ /\ status' = [r \in Requests |-> IF r \in hit THEN "failed" ELSE status[r]]
          /\ reason' = [r \in Requests |-> IF r \in hit THEN "orphaned" ELSE reason[r]]
       \/ hit # found /\ UNCHANGED <<status, reason>>
    /\ UNCHANGED <<history, conn, request, stale, flow, worker, registered>>

-----------------------------------------------------------------------------
(* The workflow of a job, in the worker; it writes the row unconditionally *)

FlowMoves(r, from, to, value) ==
    /\ worker = "up" /\ registered
    /\ flow[r] \in from
    /\ Row(r)
    /\ flow' = [flow EXCEPT ![r] = to]
    /\ Write(r, value)
    /\ UNCHANGED <<history, conn, request, stale, workerVars>>

FlowStarts(r) == FlowMoves(r, {"queued"}, "started", "running") /\ UNCHANGED reason

FlowPauses(r) == FlowMoves(r, {"started"}, "paused", "awaiting_otp") /\ UNCHANGED reason
FlowResumes(r) == FlowMoves(r, {"paused"}, "resumed", "running") /\ UNCHANGED reason

\* Mutant of FlowSucceeds: the verdict is not written.
FlowEndsSilently(r) == FlowMoves(r, {"started", "resumed"}, "ended", status[r]) /\ UNCHANGED reason

FlowSucceeds(r) == FlowMoves(r, {"started", "resumed"}, "ended", "success") /\ UNCHANGED reason
FlowFails(r) == /\ FlowMoves(r, {"started", "resumed"}, "ended", "failed")
                /\ reason' = [reason EXCEPT ![r] = "workflow"]

-----------------------------------------------------------------------------
(* Environment                                                             *)

\* A row grows stale only after its caller is through: the call to Restate
\* times out after 30 seconds.  Only the age of pending rows is asked for.
GrowStale(r) ==
    /\ status[r] = "pending" /\ ~stale[r]
    /\ request[r] \notin InProgress
    /\ stale' = [stale EXCEPT ![r] = TRUE]
    /\ late' = IF flow[r] = "queued" THEN late \cup {r} ELSE late
    /\ UNCHANGED <<cli, unseen, lost, conn, request, status, reason, flow, workerVars>>

\* DELETE /connections/{id}, with the jobs its transaction sees.
DeleteConnection ==
    /\ conn
    /\ conn' = FALSE
    /\ status' = [r \in Requests |-> IF Row(r) THEN "deleted" ELSE status[r]]
    /\ UNCHANGED <<history, request, reason, stale, flow, workerVars>>

Caller(r) == StartSync(r) \/ StartCli(r) \/ InsertJob(r) \/ SendRun(r) \/ MarkTriggerFailed(r)
Flow(r) == FlowStarts(r) \/ FlowPauses(r) \/ FlowResumes(r) \/ FlowSucceeds(r) \/ FlowFails(r)
Startup == Register \/ ReconcileRead \/ ReconcileWrite

Next == \/ \E r \in Requests : Caller(r) \/ CallerDies(r) \/ Flow(r) \/ GrowStale(r)
        \/ WorkerStarts \/ WorkerDies \/ Startup \/ DeleteConnection

Spec == Init /\ [][Next]_vars

\* A caller that lives goes on, time passes, the worker is replaced now and
\* then (deployments, spot instances) and started again; its start-up happens
\* if it is up often enough.  Nothing is assumed of the workflows: one that
\* keeps failing is retried without bound, and a pause may last for ever.
FairSpec ==
    /\ Spec
    /\ \A r \in Requests : /\ WF_vars(InsertJob(r) \/ SendRun(r) \/ MarkTriggerFailed(r))
                           /\ WF_vars(GrowStale(r))
    /\ WF_vars(WorkerStarts) /\ WF_vars(WorkerDies)
    /\ SF_vars(ReconcileRead) /\ SF_vars(ReconcileWrite)
-----------------------------------------------------------------------------
(* Safety                                                                  *)

TypeOK ==
    /\ cli \subseteq Requests /\ lost \subseteq Requests /\ late \subseteq Requests
    /\ unseen \in [Requests -> SUBSET Requests]
    /\ conn \in BOOLEAN
    /\ request \in [Requests -> {"new", "over"} \cup InProgress]
    /\ status \in [Requests -> {"none", "deleted"} \cup Active \cup Final]
    /\ reason \in [Requests -> {"none", "trigger", "orphaned", "workflow"}]
    /\ stale \in [Requests -> BOOLEAN]
    /\ flow \in [Requests -> {"none", "queued", "started", "paused", "resumed", "ended"}]
    /\ worker \in {"down", "up"}
    /\ registered \in BOOLEAN
    /\ startup \in {"due", "read", "done"}
    /\ found \subseteq Requests

\* Whatever overlaps, is lost or restarted, the row errs on one side only: it
\* may call a sync failed that is running, it never shows progress or success
\* of a workflow that is not there, nor activity of one that has ended.
RowsTrackFlows ==
    \A r \in Requests :
        /\ status[r] = "pending" => flow[r] \in {"none", "queued"}
        /\ status[r] = "running" => flow[r] \in {"started", "resumed"}
        /\ status[r] = "awaiting_otp" => flow[r] = "paused"
        /\ status[r] = "success" => flow[r] = "ended"

\* The job's row or its workflow counts as a sync under way.
Busy(r) == /\ Row(r)
           /\ \/ status[r] \in Active
              \/ flow[r] \in {"started", "paused", "resumed"}

\* Two syncs of the connection are under way together only if one did not see
\* the other when it started (it was between its check and its insert, or the
\* CLI did not look), or Restate had the invocation of a job whose row says
\* that it failed.  Whoever dies in between adds no other way.
TwoSyncsHaveACause ==
    \A q, r \in Requests :
        q # r /\ Busy(q) /\ Busy(r) =>
            \/ q \in unseen[r] \/ r \in unseen[q]
            \/ {q, r} \cap (lost \cup late) # {}

\* "Failed to trigger workflow" of a job that Restate did get means that the
\* answer was lost; "Orphaned - workflow never started" of one means that the
\* invocation waited too long.  Neither ever means anything else.
FalseFailuresHaveACause ==
    \A r \in Requests :
        flow[r] # "none" => /\ reason[r] = "trigger" => r \in lost
                            /\ reason[r] = "orphaned" => r \in late

\* The three writers of a row (caller, reconciliation, workflow) together move
\* it along the life of a job, and replace no verdict, except where an answer
\* was lost or an invocation late.
Life(r) == INSTANCE JobLifecycle WITH status <- status[r]

RowsLiveTheirLives ==
    [][\A r \in Requests :
        Row(r) /\ status'[r] # status[r] =>
            \/ <<status[r], status'[r]>> \in Life(r)!Moves
            \/ r \in lost \cup late]_vars

-----------------------------------------------------------------------------
(* Liveness                                                                *)

\* No dead caller, refused call, lost reply or crashed worker leaves a job
\* pending for ever.  (Whether a workflow that started ends is the matter of
\* SyncWorkflow; where it does not the connection goes on answering 409.)
PendingEnds ==
    \A r \in Requests : status[r] = "pending" ~> status[r] # "pending"
=============================================================================
