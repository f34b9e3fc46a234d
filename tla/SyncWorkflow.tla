---------------------------- MODULE SyncWorkflow ----------------------------
(***************************************************************************)
(* One run of the durable workflow SyncBankWorkflow (worker/workflow.py)   *)
(* for one job, with the Restate server that journals it, the rows it      *)
(* writes, the client that answers its OTP promise, the wall clock and the *)
(* deletion of its connection.                                             *)
(*                                                                         *)
(* The handler is straight-line Python.  Its awaits on ctx are *calls*;    *)
(* between two calls it runs local code (slot, deadline checks, verdict).  *)
(* An attempt starts at the top and consumes the journal: a call whose     *)
(* entry is complete returns the stored result, a call beyond the end is   *)
(* issued (its entry appended), its closure run, and its result stored.    *)
(* An attempt that ends early is started again from the top.               *)
(*                                                                         *)
(* External, modelled from how the handler uses it: Restate.  A closure    *)
(* that raises ends the attempt and is run again by the next one           *)
(* (ctx.run() is called without a retry bound and no step raises           *)
(* TerminalError); a command is matched with its journal entry by its      *)
(* name; an attempt the server gave up on performs no further write.       *)
(***************************************************************************)
EXTENDS Integers, Sequences

CONSTANTS
    Codes,      \* one-time passwords a client may send
    GoodCodes,  \* those the bank accepts
    NoCode,     \* no password was sent
    Limit,      \* settings.max_sync_duration_secs, in ticks
    MaxNow,     \* bound: the clock stops there
    MaxFaults,  \* bound: crashes of the worker and transient step errors
    Deletable   \* whether the user may delete the connection during the run

ASSUME ConstantsAssumption ==
    /\ GoodCodes \subseteq Codes
    /\ NoCode \notin Codes
    /\ Limit \in Nat
    /\ MaxNow \in Nat
    /\ MaxFaults \in Nat
    /\ Deletable \in BOOLEAN

VARIABLES
    mode,     \* "webhook" or, for static and totp, "direct"
    bank,     \* what the bank's site does with this connection
    now,      \* wall clock
    promise,  \* the workflow's promise "otp"
    journal,  \* names of the calls entered in the journal, in order
    tail,     \* state of the last entry: "issued", "ran" (result not stored) or "done"
    jstart, jotp, jres,  \* results of record_start_time, promise_otp, extract_all
    pc, pos,  \* the attempt: where it is, how many entries it consumed
    exc,      \* exception caught by run(), kept for mark_failed
    status, reason,      \* sync_jobs row
    batch,    \* the rows of extract_all's batch transaction are committed
    outcome,  \* how the invocation ended for Restate
    faults    \* faults so far

reqVars == <<mode, bank>>
envVars == <<now, promise, faults>>
resVars == <<jstart, jotp, jres>>
jrnVars == <<journal, tail>>
locVars == <<pc, pos, exc>>
rowVars == <<status, reason, batch>>
vars == <<reqVars, envVars, jrnVars, resVars, locVars, rowVars, outcome>>

Closures == {"mark_running", "record_start_time", "mark_awaiting_otp",
             "mark_running_after_otp", "resolve_bank", "login", "extract_all",
             "finalise", "mark_failed"}
Calls == Closures \cup {"promise_otp"}
Locals == {"slot", "check", "verdict", "return", "raise"}
NoAttempt == {"idle", "suspended"}
Results == {"clean", "some_failed", "all_failed"}

\* Where the handler goes when a call has returned.
After(call) ==
    CASE call = "mark_running" -> "record_start_time"
      [] call = "record_start_time" ->
            IF mode = "webhook" THEN "mark_awaiting_otp" ELSE "resolve_bank"
      [] call = "mark_awaiting_otp" -> "promise_otp"
      [] call = "promise_otp" -> "mark_running_after_otp"
      [] call = "mark_running_after_otp" -> "resolve_bank"
      [] call = "resolve_bank" -> "slot"
      [] call = "login" -> "check"
      [] call = "extract_all" -> "verdict"
      [] call = "finalise" -> "return"
      [] call = "mark_failed" -> "raise"

\* _check_timeout: the wall clock against the journaled start.
Expired == now - jstart > Limit

Done == IF tail = "done" THEN Len(journal) ELSE Len(journal) - 1

\* The attempt stands at the last, unfinished entry, its closure not run yet.
AtTail(call) == /\ pc = call
                /\ tail = "issued"
                /\ pos + 1 = Len(journal)
                /\ journal[pos + 1] = call

Exists == status # "deleted"

\* Whether a closure can return: rows it reads or refers to are there, the
\* bank can be used and an account is found.  A login returns although the
\* bank rejects the code; then no account is found.
CanReturn(call) ==
    /\ call \notin {"record_start_time", "mark_failed"} => Exists
    /\ call = "login" => bank # "refuses"
    /\ call = "extract_all" => /\ bank # "empty"
                               /\ mode = "webhook" => jotp \in GoodCodes

\* A batch meets the rows of one that was committed before where it has an
\* account of it again; it may list other accounts only (ExtractStep).
MayClash(call) == call = "extract_all" /\ batch

Init ==
    /\ mode \in {"direct", "webhook"}
    /\ bank \in {"ok", "refuses", "empty"}
    /\ now = 0 /\ promise = NoCode /\ faults = 0
    /\ journal = <<>> /\ tail = "done"
    /\ jstart = 0 /\ jotp = NoCode /\ jres = "clean"
    /\ pc = "idle" /\ pos = 0 /\ exc = "none"
    /\ status = "pending" /\ reason = "none" /\ batch = FALSE
    /\ outcome = "none"

-----------------------------------------------------------------------------
(* Restate: attempts and the journal                                       *)

BeginAttempt ==
    /\ pc = "idle"
    /\ outcome = "none"
    /\ pc' = "mark_running" /\ pos' = 0 /\ exc' = "none"
    /\ UNCHANGED <<reqVars, envVars, jrnVars, resVars, rowVars, outcome>>

\* Mutant of Replay: the start time is read again instead of from the journal.
ReplayFreshClock ==
    /\ pc \in Calls
    /\ pos < Done
    /\ journal[pos + 1] = pc
    /\ pos' = pos + 1
    /\ pc' = After(pc)
    /\ jstart' = IF pc = "record_start_time" THEN now ELSE jstart
    /\ UNCHANGED <<reqVars, envVars, jrnVars, jotp, jres, exc, rowVars, outcome>>

Replay ==
    /\ pc \in Calls
    /\ pos < Done
    /\ journal[pos + 1] = pc
    /\ pos' = pos + 1
    /\ pc' = After(pc)
    /\ UNCHANGED <<reqVars, envVars, jrnVars, resVars, exc, rowVars, outcome>>

\* The attempt is over; a closure that had run must run again.
EndAttempt ==
    /\ pc' = "idle" /\ pos' = 0 /\ exc' = "none"
    /\ tail' = IF tail = "ran" THEN "issued" ELSE tail
    /\ UNCHANGED <<reqVars, now, promise, resVars, rowVars, outcome>>

\* The code asks for another call than the journal recorded at this place.
Mismatch ==
    /\ pc \in Calls
    /\ pos < Len(journal)
    /\ journal[pos + 1] # pc
    /\ EndAttempt
    /\ UNCHANGED <<journal, faults>>

Issue ==
    /\ pc \in Calls
    /\ pos = Len(journal)
    /\ journal' = Append(journal, pc)
    /\ tail' = "issued"
    /\ UNCHANGED <<reqVars, envVars, resVars, locVars, rowVars, outcome>>

Complete ==
    /\ tail = "ran"
    /\ tail' = "done"
    /\ pos' = pos + 1
    /\ pc' = After(pc)
    /\ UNCHANGED <<reqVars, envVars, journal, resVars, exc, rowVars, outcome>>

\* A closure that cannot return raises, in this attempt and in every other
\* one for as long as its cause lasts; so may a batch each time it is retried.
ClosureRaises ==
    /\ pc \in Closures
    /\ AtTail(pc)
    /\ ~CanReturn(pc) \/ MayClash(pc)
    /\ EndAttempt
    /\ UNCHANGED <<journal, faults>>

\* A closure fails for a passing cause: before it wrote anything or, in the
\* two steps that end with a commit of their own for the step row, after it
\* committed its main transaction.
ClosureFails ==
    /\ faults < MaxFaults
    /\ pc \in Closures
    /\ \/ AtTail(pc)
       \/ tail = "ran" /\ pc \in {"extract_all", "finalise"}
    /\ EndAttempt
    /\ faults' = faults + 1
    /\ UNCHANGED journal

\* The worker dies or loses its server: an unfinished entry may not have
\* reached the server.
Crash ==
    /\ faults < MaxFaults
    /\ pc \notin NoAttempt
    /\ faults' = faults + 1
    /\ pc' = "idle" /\ pos' = 0 /\ exc' = "none"
    /\ \/ /\ tail' = IF tail = "ran" THEN "issued" ELSE tail
          /\ UNCHANGED journal
       \/ /\ tail # "done"
          /\ journal' = SubSeq(journal, 1, Len(journal) - 1)
          /\ tail' = "done"
    /\ UNCHANGED <<reqVars, now, promise, resVars, rowVars, outcome>>

-----------------------------------------------------------------------------
(* The promise "otp"                                                       *)

AwaitOtp ==
    /\ AtTail("promise_otp")
    /\ promise # NoCode
    /\ jotp' = promise
    /\ tail' = "done"
    /\ pos' = pos + 1
    /\ pc' = After(pc)
    /\ UNCHANGED <<reqVars, envVars, journal, jstart, jres, exc, rowVars, outcome>>

Suspend ==
    /\ AtTail("promise_otp")
    /\ promise = NoCode
    /\ pc' = "suspended" /\ pos' = 0 /\ exc' = "none"
    /\ UNCHANGED <<reqVars, envVars, jrnVars, resVars, rowVars, outcome>>

Resume ==
    /\ pc = "suspended"
    /\ promise # NoCode
    /\ pc' = "idle"
    /\ UNCHANGED <<reqVars, envVars, jrnVars, resVars, pos, exc, rowVars, outcome>>

\* Mutant of ProvideOtp: a later code replaces the first.
ProvideOtpAgain(code) ==
    /\ Exists
    /\ promise' = code
    /\ UNCHANGED <<reqVars, now, faults, jrnVars, resVars, locVars, rowVars, outcome>>

\* POST /jobs/{id}/otp: only the row's existence is checked; the promise
\* takes one value.
ProvideOtp(code) ==
    /\ Exists
    /\ promise = NoCode
    /\ promise' = code
    /\ UNCHANGED <<reqVars, now, faults, jrnVars, resVars, locVars, rowVars, outcome>>

-----------------------------------------------------------------------------
(* Closures.  Each runs when the attempt stands at its entry; what it      *)
(* returns is stored by Complete.                                          *)

Runs(call) == /\ AtTail(call)
              /\ CanReturn(call)
              /\ tail' = "ran"
              /\ UNCHANGED <<reqVars, envVars, journal, jotp, locVars, outcome>>

SetJobStatus(call, value) ==
    /\ Runs(call)
    /\ status' = value
    /\ UNCHANGED <<resVars, reason, batch>>

\* Mutant of MarkRunningAfterOtp: the pause's end is not written.
MarkRunningAfterOtpUnwritten == SetJobStatus("mark_running_after_otp", status)

MarkRunning == SetJobStatus("mark_running", "running")
MarkAwaitingOtp == SetJobStatus("mark_awaiting_otp", "awaiting_otp")
MarkRunningAfterOtp == SetJobStatus("mark_running_after_otp", "running")

RecordStartTime ==
    /\ Runs("record_start_time")
    /\ jstart' = now
    /\ UNCHANGED <<jres, rowVars>>

ResolveBankSlug ==
    /\ Runs("resolve_bank")
    /\ UNCHANGED <<resVars, rowVars>>

StepLogin ==
    /\ Runs("login")
    /\ UNCHANGED <<resVars, rowVars>>

StepExtractAll ==
    /\ Runs("extract_all")
    /\ batch' = TRUE
    /\ jres' \in Results
    /\ UNCHANGED <<jstart, status, reason>>

\* Mutant of StepFinalise: refuses a job that is finalised already.
StepFinaliseOnce ==
    /\ Runs("finalise")
    /\ status = "running"
    /\ status' = IF jres = "clean" THEN "success" ELSE "partial_success"
    /\ UNCHANGED <<resVars, reason, batch>>

StepFinalise ==
    /\ Runs("finalise")
    /\ status' = IF jres = "clean" THEN "success" ELSE "partial_success"
    /\ UNCHANGED <<resVars, reason, batch>>

MarkJobFailed ==
    /\ Runs("mark_failed")
    /\ IF Exists THEN status' = "failed" /\ reason' = exc
                 ELSE UNCHANGED <<status, reason>>
    /\ UNCHANGED <<resVars, batch>>

-----------------------------------------------------------------------------
(* Local code between the calls                                            *)

Raise(cause) == pc' = "mark_failed" /\ exc' = cause

LocalStep == UNCHANGED <<reqVars, envVars, jrnVars, resVars, pos, rowVars, outcome>>

\* A slot is obtained (SyncSlots says when) and the deadline is checked
\* before anything else happens.
EnterSlot ==
    /\ pc = "slot"
    /\ IF Expired THEN Raise("timeout") ELSE pc' = "login" /\ UNCHANGED exc
    /\ LocalStep

\* Mutant of CheckAfterLogin: decides by a row read outside the journal.
CheckLiveRow ==
    /\ pc = "check"
    /\ IF ~Exists THEN Raise("timeout") ELSE pc' = "extract_all" /\ UNCHANGED exc
    /\ LocalStep

CheckAfterLogin ==
    /\ pc = "check"
    /\ IF Expired THEN Raise("timeout") ELSE pc' = "extract_all" /\ UNCHANGED exc
    /\ LocalStep

\* Mutant of Verdict: `>` for `>=`, so that no result counts as a failure.
VerdictOffByOne ==
    /\ pc = "verdict"
    /\ pc' = "finalise" /\ UNCHANGED exc
    /\ LocalStep

Verdict ==
    /\ pc = "verdict"
    /\ IF jres = "all_failed" THEN Raise("all_failed")
                              ELSE pc' = "finalise" /\ UNCHANGED exc
    /\ LocalStep

\* Mutant of Return: one more deadline check after finalise.
ReturnChecked ==
    /\ pc \in {"return", "raise"}
    /\ IF pc = "return" /\ Expired
         THEN Raise("timeout") /\ UNCHANGED <<pos, outcome>>
         ELSE /\ outcome' = IF pc = "return" THEN "completed" ELSE "failed"
              /\ pc' = "idle" /\ pos' = 0 /\ exc' = "none"
    /\ UNCHANGED <<reqVars, envVars, jrnVars, resVars, rowVars>>

\* The handler returns its summary, or raises TerminalError.
Return ==
    /\ pc \in {"return", "raise"}
    /\ outcome' = IF pc = "return" THEN "completed" ELSE "failed"
    /\ pc' = "idle" /\ pos' = 0 /\ exc' = "none"
    /\ UNCHANGED <<reqVars, envVars, jrnVars, resVars, rowVars>>

-----------------------------------------------------------------------------
(* Environment                                                             *)

Tick ==
    /\ now < MaxNow
    /\ now' = now + 1
    /\ UNCHANGED <<reqVars, promise, faults, jrnVars, resVars, locVars, rowVars, outcome>>

\* DELETE /connections/{id}: the job and its result rows go with it.
DeleteConnection ==
    /\ Deletable
    /\ Exists
    /\ status' = "deleted"
    /\ batch' = FALSE
    /\ UNCHANGED <<reqVars, envVars, jrnVars, resVars, locVars, reason, outcome>>

-----------------------------------------------------------------------------
Handler ==
    \/ BeginAttempt \/ Replay \/ Mismatch \/ Issue \/ Complete \/ ClosureRaises
    \/ AwaitOtp \/ Suspend \/ Resume
    \/ MarkRunning \/ RecordStartTime \/ MarkAwaitingOtp \/ MarkRunningAfterOtp
    \/ ResolveBankSlug \/ StepLogin \/ StepExtractAll \/ StepFinalise \/ MarkJobFailed
    \/ EnterSlot \/ CheckAfterLogin \/ Verdict \/ Return

AnswerOtp == \E code \in Codes : ProvideOtp(code)

Next == Handler \/ AnswerOtp \/ ClosureFails \/ Crash \/ Tick \/ DeleteConnection

Spec == Init /\ [][Next]_vars

\* Restate keeps an invocation going and the client answers in the end.
\* Nothing is assumed of the clock, of faults and of deletions.
FairSpec == Spec /\ WF_vars(Handler) /\ WF_vars(AnswerOtp)
-----------------------------------------------------------------------------
(* Safety                                                                  *)

TypeOK ==
    /\ mode \in {"direct", "webhook"}
    /\ bank \in {"ok", "refuses", "empty"}
    /\ now \in 0..MaxNow /\ jstart \in 0..MaxNow
    /\ promise \in Codes \cup {NoCode} /\ jotp \in Codes \cup {NoCode}
    /\ journal \in Seq(Calls)
    /\ tail \in {"issued", "ran", "done"}
    /\ jres \in Results
    /\ pc \in Calls \cup Locals \cup NoAttempt
    /\ pos \in Nat
    /\ exc \in {"none", "timeout", "all_failed"}
    /\ status \in {"pending", "running", "awaiting_otp", "success",
                   "partial_success", "failed", "deleted"}
    /\ reason \in {"none", "timeout", "all_failed"}
    /\ batch \in BOOLEAN
    /\ outcome \in {"none", "completed", "failed"}
    /\ faults \in 0..MaxFaults

LastDone == IF Done = 0 THEN "start" ELSE journal[Done]

\* The status a poller should see once a call is complete.
Shown(call) ==
    CASE call = "start" -> "pending"
      [] call \in {"mark_awaiting_otp", "promise_otp"} -> "awaiting_otp"
      [] call = "finalise" -> IF jres = "clean" THEN "success" ELSE "partial_success"
      [] call = "mark_failed" -> "failed"
      [] OTHER -> "running"

\* The calls the handler may make right after a completed one.
Following(call) ==
    CASE call = "start" -> {"mark_running"}
      [] call = "resolve_bank" -> {"login", "mark_failed"}
      [] call = "login" -> {"extract_all", "mark_failed"}
      [] call = "extract_all" -> {IF jres = "all_failed" THEN "mark_failed" ELSE "finalise"}
      [] call \in {"finalise", "mark_failed"} -> {}
      [] OTHER -> {After(call)}

\* Crashes, replays and step retries never let the row's status fall behind
\* the journal or run more than one call ahead of it: what the API shows is
\* what the last completed call means, or already what the next one will.
StatusFollowsJournal ==
    Exists => status \in {Shown(call) : call \in {LastDone} \cup Following(LastDone)}

\* A verdict in the row is backed by what happened: success by stored result
\* rows with a matching outcome, failure by a deadline that has passed or by
\* results that all failed; and the invocation ended as the row says.
VerdictIsBacked ==
    /\ status = "success" => batch /\ jres = "clean"
    /\ status = "partial_success" => batch /\ jres = "some_failed"
    /\ status = "failed" => \/ reason = "timeout" /\ Expired
                            \/ reason = "all_failed" /\ jres = "all_failed" /\ batch
    /\ outcome = "completed" => status \in {"success", "partial_success", "deleted"}
    /\ outcome = "failed" => status \in {"failed", "deleted"}

\* The job row only ever makes the moves its readers are built for: a final
\* status is never taken back, a paused job resumes before it ends.
JL == INSTANCE JobLifecycle WITH status <- status
Lifecycle == JL!WorkflowSpec

Entered(call) == \E i \in 1..Len(journal) : journal[i] = call
Completed(call) == \E i \in 1..Done : journal[i] = call

\* The start time survives suspensions and restarts: once the limit has
\* passed before the login step was reached, no attempt opens a browser.
LateMeansNoBrowser ==
    [](Completed("record_start_time") /\ Expired /\ pc # "login" /\ ~Entered("login")
        => []~Entered("login"))

\* The promise takes the first code only: when the bank rejects it, no later
\* code and no retry gets this job any data, although its login returns.
FirstCodeCounts ==
    [](mode = "webhook" /\ promise \in Codes \ GoodCodes => []~Completed("extract_all"))

\* Where the journal has an entry, the replaying code asks for that call, as
\* long as the deadline has not passed: only its check reads what a replay
\* does not find again.
ReplayMatches ==
    pc \in Calls /\ pos < Len(journal) /\ ~Expired => journal[pos + 1] = pc

-----------------------------------------------------------------------------
(* Liveness                                                                *)

\* What can keep an invocation from ending although Restate retries it: the
\* bank, a wrong password, deleted rows, a batch that was committed while its
\* step was not journaled, and a deadline that passes after the journal took
\* the way of a sync in time.
Blocked ==
    \/ bank # "ok"
    \/ mode = "webhook" /\ promise \in Codes \ GoodCodes
    \/ ~Exists
    \/ batch /\ ~Completed("extract_all")
    \/ Expired /\ Entered("login")

\* A finite number of crashes and failing steps keeps no other sync from
\* ending, one that is late for its browser included.
EndsUnlessBlocked == <>[](outcome # "none" \/ Blocked)
=============================================================================
