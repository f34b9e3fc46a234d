--------------------------- MODULE SyncJobsProofs ---------------------------
(***************************************************************************)
(* Theorems about SyncJobs, for any number of requests, whatever overlaps, *)
(* is lost, waits or is restarted.                                         *)
(***************************************************************************)
EXTENDS SyncJobs, TLAPS

\* The caller has not called Restate yet.
Before == {"new", "checked", "inserted"}

TrackInv ==
    /\ TypeOK
    /\ RowsTrackFlows
    /\ \A r \in Requests : /\ request[r] \in Before => flow[r] = "none"
                           /\ request[r] \in {"new", "checked"} => status[r] = "none"

LEMMA TrackInit == Init => TrackInv
<1> SUFFICES ASSUME Init
             PROVE  TrackInv
  OBVIOUS
<1>1. TypeOK
  BY DEF Init, TypeOK, InProgress, Active, Final
<1> QED
  BY <1>1 DEF Init, TrackInv, RowsTrackFlows, Before

LEMMA TrackStep == TrackInv /\ [Next]_vars => TrackInv'
<1> SUFFICES ASSUME TrackInv, [Next]_vars
             PROVE  TrackInv'
  OBVIOUS
<1> USE DEF TrackInv, TypeOK, RowsTrackFlows, Before, InProgress, Active, Final,
            Move, Write, Row, rowVars, workerVars, history
<1>1. ASSUME NEW r \in Requests, StartSync(r)
      PROVE  TrackInv'
  BY <1>1 DEF StartSync, See, Checking
<1>2. ASSUME NEW r \in Requests, StartCli(r)
      PROVE  TrackInv'
  BY <1>2 DEF StartCli, See, Checking
<1>3. ASSUME NEW r \in Requests, InsertJob(r)
      PROVE  TrackInv'
  BY <1>3 DEF InsertJob
<1>4. ASSUME NEW r \in Requests, SendRun(r)
      PROVE  TrackInv'
  BY <1>4 DEF SendRun, Invoke
<1>5. ASSUME NEW r \in Requests, MarkTriggerFailed(r)
      PROVE  TrackInv'
  BY <1>5 DEF MarkTriggerFailed
<1>6. ASSUME NEW r \in Requests, CallerDies(r)
      PROVE  TrackInv'
  BY <1>6 DEF CallerDies, Invoke
<1>7. ASSUME NEW r \in Requests, FlowStarts(r)
      PROVE  TrackInv'
  BY <1>7 DEF FlowStarts, FlowMoves
<1>8. ASSUME NEW r \in Requests, FlowPauses(r)
      PROVE  TrackInv'
  BY <1>8 DEF FlowPauses, FlowMoves
<1>9. ASSUME NEW r \in Requests, FlowResumes(r)
      PROVE  TrackInv'
  BY <1>9 DEF FlowResumes, FlowMoves
<1>10. ASSUME NEW r \in Requests, FlowSucceeds(r)
       PROVE  TrackInv'
  BY <1>10 DEF FlowSucceeds, FlowMoves
<1>11. ASSUME NEW r \in Requests, FlowFails(r)
       PROVE  TrackInv'
  BY <1>11 DEF FlowFails, FlowMoves
<1>12. ASSUME NEW r \in Requests, GrowStale(r)
       PROVE  TrackInv'
  BY <1>12 DEF GrowStale
<1>13. CASE WorkerStarts \/ WorkerDies \/ Register
  BY <1>13 DEF WorkerStarts, WorkerDies, Register
<1>14. CASE ReconcileRead
  BY <1>14 DEF ReconcileRead
<1>15. CASE ReconcileWrite
  BY <1>15 DEF ReconcileWrite
<1>16. CASE DeleteConnection
  BY <1>16 DEF DeleteConnection
<1>17. CASE UNCHANGED vars
  BY <1>17 DEF vars
<1> QED
  BY <1>1, <1>2, <1>3, <1>4, <1>5, <1>6, <1>7, <1>8, <1>9, <1>10, <1>11, <1>12,
     <1>13, <1>14, <1>15, <1>16, <1>17 DEF Next, Caller, Flow, Startup

LEMMA TrackHolds == Spec => []TrackInv
<1>1. Init => TrackInv
  BY TrackInit
<1>2. TrackInv /\ [Next]_vars => TrackInv'
  BY TrackStep
<1> QED
  BY <1>1, <1>2, PTL DEF Spec

\* Every reachable state is type-correct.
THEOREM TypeCorrect == Spec => []TypeOK
<1>1. TrackInv => TypeOK
  BY DEF TrackInv
<1> QED
  BY <1>1, TrackHolds, PTL

\* A row never shows progress or success of a workflow that is not there,
\* whatever callers, replies and workers are lost.
THEOREM RowsTruthful == Spec => []RowsTrackFlows
<1>1. TrackInv => RowsTrackFlows
  BY DEF TrackInv
<1> QED
  BY <1>1, TrackHolds, PTL

-----------------------------------------------------------------------------
(* The causes of what goes wrong                                           *)

Odd == lost \cup late

\* A job without a lost answer is not taken for failed while Restate has it.
CallerInv ==
    \A r \in Requests :
        /\ request[r] \in Before => r \notin Odd /\ reason[r] = "none"
        /\ request[r] = "inserted" => status[r] \in {"pending", "deleted"}
        /\ request[r] = "failing" /\ r \notin Odd =>
              flow[r] = "none" /\ status[r] \in {"pending", "deleted"}
        /\ request[r] \in InProgress => ~stale[r]

\* A row that reconciliation holds without its invocation being late has none,
\* and will have none.
StaleInv ==
    \A r \in Requests :
        /\ stale[r] => request[r] = "over"
        /\ r \in late => stale[r]
        /\ stale[r] /\ r \notin late => flow[r] # "queued"
        /\ r \in found => stale[r]
        /\ r \in found \ late => flow[r] = "none" /\ status[r] \in {"pending", "deleted"}

\* A verdict stands for a workflow that ended or never started.
VerdictInv ==
    \A r \in Requests :
        /\ reason[r] \in {"trigger", "orphaned"} => request[r] = "over"
        /\ flow[r] # "none" => /\ reason[r] = "trigger" => r \in lost
                               /\ reason[r] = "orphaned" => r \in late
        /\ status[r] \in Final /\ r \notin Odd =>
              request[r] = "over" /\ flow[r] \in {"none", "ended"}

\* The order in which two requests looked decides which may have missed the
\* other: while one is between its check and its insert, every job of another
\* that is or may get under way was missed by one of the two.
Missed(q, r) == q \in unseen[r] \/ r \in unseen[q] \/ {q, r} \cap Odd # {}

Coming(r) == request[r] = "checked" \/ status[r] \in Active

PairInv ==
    \A q, r \in Requests : q # r /\ Coming(q) /\ Coming(r) => Missed(q, r)

CauseInv == TrackInv /\ CallerInv /\ StaleInv /\ VerdictInv /\ PairInv

LEMMA CauseInit == Init => CauseInv
BY TrackInit DEF Init, CauseInv, CallerInv, StaleInv, VerdictInv, PairInv, Coming, Before,
                 InProgress, Active, Final, Odd

LEMMA CauseStep == ASSUME CauseInv, [Next]_vars PROVE CauseInv'
<1>0. TrackInv'
  BY TrackStep DEF CauseInv
<1> DEFINE Rest == CallerInv /\ StaleInv /\ VerdictInv
<1>r. Rest'
  <2> USE DEF CauseInv, TrackInv, TypeOK, RowsTrackFlows, CallerInv, StaleInv, VerdictInv,
              InProgress, Before, Active, Final, Odd, Move, Write, Row, rowVars, workerVars, history
  <2>1. ASSUME NEW r \in Requests, StartSync(r)
        PROVE  Rest'
    BY <2>1 DEF StartSync, See
  <2>2. ASSUME NEW r \in Requests, StartCli(r)
        PROVE  Rest'
    BY <2>2 DEF StartCli, See
  <2>3. ASSUME NEW r \in Requests, InsertJob(r)
        PROVE  Rest'
    BY <2>3 DEF InsertJob
  <2>4. ASSUME NEW r \in Requests, SendRun(r)
        PROVE  Rest'
    BY <2>4 DEF SendRun, Invoke
  <2>5. ASSUME NEW r \in Requests, MarkTriggerFailed(r)
        PROVE  Rest'
    BY <2>5 DEF MarkTriggerFailed
  <2>6. ASSUME NEW r \in Requests, CallerDies(r)
        PROVE  Rest'
    BY <2>6 DEF CallerDies, Invoke
  <2>7. ASSUME NEW r \in Requests, FlowStarts(r)
        PROVE  Rest'
    BY <2>7 DEF FlowStarts, FlowMoves
  <2>8. ASSUME NEW r \in Requests, FlowPauses(r)
        PROVE  Rest'
    BY <2>8 DEF FlowPauses, FlowMoves
  <2>9. ASSUME NEW r \in Requests, FlowResumes(r)
        PROVE  Rest'
    BY <2>9 DEF FlowResumes, FlowMoves
  <2>10. ASSUME NEW r \in Requests, FlowSucceeds(r)
         PROVE  Rest'
    BY <2>10 DEF FlowSucceeds, FlowMoves
  <2>11. ASSUME NEW r \in Requests, FlowFails(r)
         PROVE  Rest'
    BY <2>11 DEF FlowFails, FlowMoves
  <2>12. ASSUME NEW r \in Requests, GrowStale(r)
         PROVE  Rest'
    BY <2>12 DEF GrowStale
  <2>13. CASE WorkerStarts \/ WorkerDies \/ Register
    <3>1. CASE WorkerStarts
      BY <3>1 DEF WorkerStarts
    <3>2. CASE WorkerDies
      BY <3>2 DEF WorkerDies
    <3>3. CASE Register
      BY <3>3 DEF Register
    <3> QED
      BY <2>13, <3>1, <3>2, <3>3
  <2>14. CASE ReconcileRead
    BY <2>14 DEF ReconcileRead
  <2>15. CASE ReconcileWrite
    BY <2>15 DEF ReconcileWrite
  <2>16. CASE DeleteConnection
    BY <2>16 DEF DeleteConnection
  <2>17. CASE UNCHANGED vars
    BY <2>17 DEF vars
  <2> QED
    BY <2>1, <2>2, <2>3, <2>4, <2>5, <2>6, <2>7, <2>8, <2>9, <2>10, <2>11, <2>12,
       <2>13, <2>14, <2>15, <2>16, <2>17 DEF Next, Caller, Flow, Startup
<1>p. PairInv'
  <2>1. ASSUME NEW r \in Requests, StartSync(r) \/ StartCli(r)
        PROVE  PairInv'
    <3> USE DEF CauseInv, TrackInv, TypeOK, PairInv, Missed, Coming, Odd, Move, rowVars, history
    <3>1. CASE StartSync(r)
      BY <2>1, <3>1 DEF StartSync, See, Checking, HasActiveSync
    <3>2. CASE StartCli(r)
      BY <2>1, <3>2 DEF StartCli, See, Checking
    <3> QED
      BY <2>1, <3>1, <3>2
  <2>2. ASSUME UNCHANGED unseen, Odd \subseteq Odd',
               \A r \in Requests : Coming(r)' => Coming(r) \/ r \in Odd'
        PROVE  PairInv'
    BY <2>2 DEF CauseInv, PairInv, Missed
  <2> USE DEF CauseInv, TrackInv, TypeOK, CallerInv, VerdictInv, Coming, Odd, Active, Final, Move,
              Write, Row, rowVars, workerVars, history
  <2>3. ASSUME NEW r \in Requests, InsertJob(r)
        PROVE  PairInv'
    BY <2>2, <2>3 DEF InsertJob
  <2>4. ASSUME NEW r \in Requests, SendRun(r) \/ MarkTriggerFailed(r) \/ CallerDies(r)
        PROVE  PairInv'
    BY <2>2, <2>4 DEF SendRun, MarkTriggerFailed, CallerDies
  <2>5. ASSUME NEW r \in Requests, Flow(r)
        PROVE  PairInv'
    BY <2>2, <2>5 DEF Flow, FlowStarts, FlowPauses, FlowResumes, FlowSucceeds, FlowFails, FlowMoves
  <2>6. ASSUME NEW r \in Requests, GrowStale(r)
        PROVE  PairInv'
    BY <2>2, <2>6 DEF GrowStale
  <2>7. CASE WorkerStarts \/ WorkerDies \/ Startup \/ DeleteConnection
    BY <2>2, <2>7 DEF WorkerStarts, WorkerDies, Startup, Register, ReconcileRead, ReconcileWrite,
       DeleteConnection
  <2>8. CASE UNCHANGED vars
    BY <2>2, <2>8 DEF vars
  <2> QED
    BY <2>1, <2>3, <2>4, <2>5, <2>6, <2>7, <2>8 DEF Next, Caller
<1> QED
  BY <1>0, <1>r, <1>p DEF CauseInv

LEMMA CauseHolds == Spec => []CauseInv
<1>1. Init => CauseInv
  BY CauseInit
<1>2. CauseInv /\ [Next]_vars => CauseInv'
  BY CauseStep
<1> QED
  BY <1>1, <1>2, PTL DEF Spec

\* A job whose workflow is under way is shown as active, but for the odd ones.
LEMMA BusyIsActive ==
    ASSUME CauseInv, NEW r \in Requests, Busy(r), r \notin Odd
    PROVE  status[r] \in Active
BY DEF CauseInv, VerdictInv, TrackInv, TypeOK, Busy, Row, Active, Final

\* For any number of requests, whoever dies in between: two syncs are under way
\* together only where one could not see the other, or where a lost answer or
\* a late invocation made a row say the job had failed.
THEOREM OneAtATime == Spec => []TwoSyncsHaveACause
<1>1. CauseInv => TwoSyncsHaveACause
  <2> SUFFICES ASSUME CauseInv, NEW q \in Requests, NEW r \in Requests, q # r,
                      Busy(q), Busy(r), {q, r} \cap Odd = {}
               PROVE  q \in unseen[r] \/ r \in unseen[q]
    BY DEF TwoSyncsHaveACause, Odd
  <2>1. Coming(q) /\ Coming(r)
    BY BusyIsActive DEF Coming
  <2> QED
    BY <2>1 DEF CauseInv, PairInv, Missed
<1> QED
  BY <1>1, CauseHolds, PTL

\* "Failed to trigger" is false only after a lost answer, "never started" only
\* of a late invocation.
THEOREM FailuresAreTrue == Spec => []FalseFailuresHaveACause
<1>1. CauseInv => FalseFailuresHaveACause
  BY DEF CauseInv, VerdictInv, FalseFailuresHaveACause
<1> QED
  BY <1>1, CauseHolds, PTL

\* Each step of each writer is a move of the job's life, but for the odd ones.
LEMMA LifeStep ==
    ASSUME CauseInv, [Next]_vars, NEW r \in Requests, Row(r), status'[r] # status[r],
           r \notin lost \cup late
    PROVE  <<status[r], status'[r]>> \in Life(r)!Moves
<1>0. \/ \E q \in Requests : Caller(q) \/ CallerDies(q) \/ GrowStale(q)
      \/ \E q \in Requests : Flow(q)
      \/ WorkerStarts \/ WorkerDies \/ Register \/ ReconcileRead
      \/ ReconcileWrite \/ DeleteConnection \/ UNCHANGED vars
  BY DEF Next, Startup
<1> USE DEF CauseInv, TrackInv, TypeOK, RowsTrackFlows, CallerInv, StaleInv, VerdictInv, InProgress,
            Before, Active, Final, Odd, Move, Write, Row, rowVars, workerVars, history
<1> DEFINE Lawful == \/ status[r] = "pending" /\ status'[r] \in {"running", "failed"}
                     \/ status[r] = "running" /\ status'[r] \in {"awaiting_otp", "success", "failed"}
                     \/ status[r] = "awaiting_otp" /\ status'[r] = "running"
                     \/ status[r] \in Active \cup Final /\ status'[r] = "deleted"
<1> SUFFICES Lawful
  BY DEF Life!Moves, Life!WorkflowMoves, Life!TriggerMoves, Life!Deletions, Life!Active, Life!Final
<1>1. ASSUME NEW q \in Requests, Caller(q) \/ CallerDies(q) \/ GrowStale(q)
      PROVE  Lawful
  <2>1. CASE StartSync(q) \/ StartCli(q) \/ SendRun(q) \/ CallerDies(q) \/ GrowStale(q)
    BY <2>1 DEF StartSync, StartCli, SendRun, CallerDies, GrowStale
  <2>2. CASE InsertJob(q)
    BY <2>2 DEF InsertJob
  <2>3. CASE MarkTriggerFailed(q)
    BY <2>3 DEF MarkTriggerFailed
  <2> QED
    BY <1>1, <2>1, <2>2, <2>3 DEF Caller
<1>2. ASSUME NEW q \in Requests, Flow(q)
      PROVE  Lawful
  <2>1. q = r
    BY <1>2 DEF Flow, FlowStarts, FlowPauses, FlowResumes, FlowSucceeds, FlowFails, FlowMoves
  <2>2. CASE FlowStarts(r)
    BY <2>2 DEF FlowStarts, FlowMoves
  <2>3. CASE FlowPauses(r)
    BY <2>3 DEF FlowPauses, FlowMoves
  <2>4. CASE FlowResumes(r)
    BY <2>4 DEF FlowResumes, FlowMoves
  <2>5. CASE FlowSucceeds(r) \/ FlowFails(r)
    BY <2>5 DEF FlowSucceeds, FlowFails, FlowMoves
  <2> QED
    BY <1>2, <2>1, <2>2, <2>3, <2>4, <2>5 DEF Flow
<1>3. CASE WorkerStarts \/ WorkerDies \/ Register \/ ReconcileRead
  BY <1>3 DEF WorkerStarts, WorkerDies, Register, ReconcileRead
<1>4. CASE ReconcileWrite
  <2>1. r \in found /\ status'[r] = "failed"
    BY <1>4 DEF ReconcileWrite
  <2>2. status[r] = "pending"
    BY <2>1
  <2> QED
    BY <2>1, <2>2
<1>5. CASE DeleteConnection
  <2>1. status'[r] = "deleted"
    BY <1>5 DEF DeleteConnection
  <2>2. status[r] \in Active \cup Final
    OBVIOUS
  <2> QED
    BY <2>1, <2>2
<1>6. CASE UNCHANGED vars
  BY <1>6 DEF vars
<1> QED
  BY <1>0, <1>1, <1>2, <1>3, <1>4, <1>5, <1>6

\* Caller, reconciliation and workflow together move a job along its life, and
\* nobody replaces a verdict, but after a lost answer or of a late invocation.
THEOREM RowsLive == Spec => RowsLiveTheirLives
<1>1. CauseInv /\ [Next]_vars =>
        [\A r \in Requests : Row(r) /\ status'[r] # status[r] =>
            \/ <<status[r], status'[r]>> \in Life(r)!Moves
            \/ r \in lost \cup late]_vars
  BY LifeStep
<1> QED
  BY <1>1, CauseHolds, PTL DEF Spec, RowsLiveTheirLives
=============================================================================
