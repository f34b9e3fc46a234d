------------------------- MODULE SyncWorkflowProofs -------------------------
(***************************************************************************)
(* Theorems about SyncWorkflow, for every set of codes, every limit, every *)
(* clock bound and every number of faults.                                 *)
(*                                                                         *)
(* The handler is deterministic up to the deadline, so a call has one      *)
(* place in the journal (Place); only mark_failed can stand at three.  The *)
(* inductive invariant ties the journal, the attempt that replays it and   *)
(* the job row to these places.                                            *)
(***************************************************************************)
EXTENDS SyncWorkflow, TLAPS

PauseCalls == {"mark_awaiting_otp", "promise_otp", "mark_running_after_otp"}

\* The place of resolve_bank, the last call before the browser section.
Base == IF mode = "webhook" THEN 6 ELSE 3

Place(call) ==
    CASE call = "mark_running" -> 1
      [] call = "record_start_time" -> 2
      [] call = "mark_awaiting_otp" -> 3
      [] call = "promise_otp" -> 4
      [] call = "mark_running_after_otp" -> 5
      [] call = "resolve_bank" -> Base
      [] call = "login" -> Base + 1
      [] call = "extract_all" -> Base + 2
      [] call = "finalise" -> Base + 3
      [] OTHER -> 0

\* A call stands at its place, mark_failed is last.
JournalShape ==
    \A i \in 1..Len(journal) :
        /\ journal[i] # "mark_failed" => Place(journal[i]) = i
        /\ journal[i] = "mark_failed" => i = Len(journal) /\ i \in Base+1..Base+3
        /\ mode = "direct" => journal[i] \notin PauseCalls

\* The attempt stands where the entries it consumed have led it.
PcShape ==
    /\ pos <= Done
    /\ pc \in NoAttempt => pos = 0
    /\ pc \in Calls \ {"mark_failed"} =>
            /\ Place(pc) = pos + 1
            /\ mode = "direct" => pc \notin PauseCalls
    /\ pc = "mark_failed" => pos \in Base..Base+2
    /\ pc = "slot" => pos = Base
    /\ pc = "check" => pos = Base + 1
    /\ pc = "verdict" => pos = Base + 2
    /\ pc = "return" => pos = Base + 3
    /\ pc = "raise" => pos \in Base+1..Base+3 /\ journal[pos] = "mark_failed"
    /\ pc # "raise" /\ pos > 0 => journal[pos] # "mark_failed"

TailShape ==
    /\ tail # "done" => Len(journal) >= 1
    /\ tail = "ran" => /\ pc \in Closures
                       /\ pos + 1 = Len(journal)
                       /\ journal[pos + 1] = pc

Extracted == Done >= Base + 2 /\ journal[Base + 2] = "extract_all"

\* What the results and the caught exception say.
ResultShape ==
    /\ Exists /\ (Extracted \/ (tail = "ran" /\ pc = "extract_all")) => batch
    /\ pc = "finalise" => jres # "all_failed"
    /\ \A i \in 1..Len(journal) : journal[i] = "finalise" => jres # "all_failed"
    /\ pc = "mark_failed" =>
            \/ exc = "timeout" /\ Expired /\ pos < Base + 2
            \/ exc = "all_failed" /\ jres = "all_failed" /\ pos = Base + 2

\* What the row says of the journal, an executed closure included.
RowShape ==
    /\ tail = "ran" /\ Exists => status = Shown(pc)
    /\ status = "failed" =>
            /\ Done >= Base
            /\ Len(journal) > Done => journal[Len(journal)] = "mark_failed"
            /\ pc \in Calls /\ pos = Done => pc = "mark_failed"
            /\ \/ /\ reason = "timeout" /\ Expired
                  /\ Done < Base + 2 \/ journal[Done] = "mark_failed"
               \/ reason = "all_failed" /\ jres = "all_failed" /\ batch /\ Extracted
    /\ status = "success" => Extracted /\ batch /\ jres = "clean"
    /\ status = "partial_success" => Extracted /\ batch /\ jres = "some_failed"

OutcomeShape ==
    /\ outcome # "none" => tail = "done" /\ pc = "idle" /\ Done > 0
    /\ outcome = "completed" => journal[Done] = "finalise"
    /\ outcome = "failed" => journal[Done] = "mark_failed"

-----------------------------------------------------------------------------
LEMMA FrontFacts ==
    ASSUME NEW S, NEW s \in Seq(S), Len(s) >= 1
    PROVE  /\ SubSeq(s, 1, Len(s) - 1) \in Seq(S)
           /\ Len(SubSeq(s, 1, Len(s) - 1)) = Len(s) - 1
           /\ \A i \in 1..Len(s) - 1 : SubSeq(s, 1, Len(s) - 1)[i] = s[i]
<1> DEFINE n == Len(s) - 1
<1>1. n \in Int /\ n >= 0 /\ n <= Len(s)
  OBVIOUS
<1> HIDE DEF n
<1>2. SubSeq(s, 1, n) \in Seq(S)
  BY <1>1
<1>3. Len(SubSeq(s, 1, n)) = n
  BY <1>1
<1>4. \A i \in 1..n : SubSeq(s, 1, n)[i] = s[i]
  BY <1>1
<1> QED
  BY <1>2, <1>3, <1>4 DEF n

LEMMA AfterType ==
    ASSUME NEW call \in Calls
    PROVE  After(call) \in Calls \cup Locals
BY DEF After, Calls, Closures, Locals

TailInv == TypeOK /\ TailShape

\* An attempt that ends leaves the journal well typed.
LEMMA TailStep == TailInv /\ [Next]_vars => TailInv'
<1> SUFFICES ASSUME TailInv, [Next]_vars
             PROVE  TailInv'
  OBVIOUS
<1> USE DEF TailInv, TypeOK, TailShape, Calls, Closures, Locals, NoAttempt, Results,
            reqVars, envVars, resVars, jrnVars, locVars, rowVars
<1> USE ConstantsAssumption
<1>1. CASE BeginAttempt
  BY <1>1 DEF BeginAttempt
<1>2. CASE Replay
  <2>1. pc' \in Calls \cup Locals
    BY <1>2, AfterType DEF Replay
  <2> QED
    BY <1>2, <2>1 DEF Replay, Done
<1>3. CASE Mismatch
  BY <1>3 DEF Mismatch, EndAttempt
<1>4. CASE Issue
  BY <1>4 DEF Issue
<1>5. CASE Complete
  <2>1. pc' \in Calls \cup Locals
    BY <1>5, AfterType DEF Complete
  <2> QED
    BY <1>5, <2>1 DEF Complete
<1>6. CASE ClosureRaises
  BY <1>6 DEF ClosureRaises, EndAttempt
<1>7. CASE AwaitOtp
  <2>1. pc' \in Calls \cup Locals
    BY <1>7, AfterType DEF AwaitOtp, AtTail
  <2> QED
    BY <1>7, <2>1 DEF AwaitOtp, AtTail
<1>8. CASE Suspend
  BY <1>8 DEF Suspend, AtTail
<1>9. CASE Resume
  BY <1>9 DEF Resume
<1>10. CASE MarkRunning
  BY <1>10 DEF MarkRunning, SetJobStatus, Runs, AtTail
<1>11. CASE RecordStartTime
  BY <1>11 DEF RecordStartTime, Runs, AtTail
<1>12. CASE MarkAwaitingOtp
  BY <1>12 DEF MarkAwaitingOtp, SetJobStatus, Runs, AtTail
<1>13. CASE MarkRunningAfterOtp
  BY <1>13 DEF MarkRunningAfterOtp, SetJobStatus, Runs, AtTail
<1>14. CASE ResolveBankSlug
  BY <1>14 DEF ResolveBankSlug, Runs, AtTail
<1>15. CASE StepLogin
  BY <1>15 DEF StepLogin, Runs, AtTail
<1>16. CASE StepExtractAll
  BY <1>16 DEF StepExtractAll, Runs, AtTail
<1>17. CASE StepFinalise
  BY <1>17 DEF StepFinalise, Runs, AtTail
<1>18. CASE MarkJobFailed
  BY <1>18 DEF MarkJobFailed, Runs, AtTail
<1>19. CASE EnterSlot
  BY <1>19 DEF EnterSlot, Raise, LocalStep
<1>20. CASE CheckAfterLogin
  BY <1>20 DEF CheckAfterLogin, Raise, LocalStep
<1>21. CASE Verdict
  BY <1>21 DEF Verdict, Raise, LocalStep
<1>22. CASE Return
  BY <1>22 DEF Return
<1>23. CASE AnswerOtp
  BY <1>23 DEF AnswerOtp, ProvideOtp
<1>24. CASE ClosureFails
  BY <1>24 DEF ClosureFails, EndAttempt
<1>25. CASE Crash
  <2>1. CASE UNCHANGED journal
    BY <1>25, <2>1 DEF Crash
  <2>2. CASE tail # "done" /\ tail' = "done" /\ journal' = SubSeq(journal, 1, Len(journal) - 1)
    <3>1. journal' \in Seq(Calls)
      BY <2>2, FrontFacts
    <3> QED
      BY <1>25, <2>2, <3>1 DEF Crash
  <2> QED
    BY <1>25, <2>1, <2>2 DEF Crash
<1>26. CASE Tick
  BY <1>26 DEF Tick
<1>27. CASE DeleteConnection
  <2>1. status' = "deleted" /\ batch' = FALSE
    BY <1>27, Zenon DEF DeleteConnection
  <2>2. UNCHANGED <<reqVars, envVars, jrnVars, resVars, locVars, reason, outcome>>
    BY <1>27, Zenon DEF DeleteConnection
  <2>3. batch' \in BOOLEAN
    BY <2>1, Zenon
  <2> QED
    BY <2>1, <2>2, <2>3
<1>28. CASE UNCHANGED vars
  BY <1>28 DEF vars
<1> QED
  BY <1>1, <1>2, <1>3, <1>4, <1>5, <1>6, <1>7, <1>8, <1>9, <1>10, <1>11, <1>12,
     <1>13, <1>14, <1>15, <1>16, <1>17, <1>18, <1>19, <1>20, <1>21, <1>22, <1>23,
     <1>24, <1>25, <1>26, <1>27, <1>28 DEF Next, Handler

\* TypeOK: every variable keeps its type, through every crash and replay.
THEOREM TypeCorrect == Spec => []TypeOK
<1>1. Init => TailInv
  <2> SUFFICES ASSUME Init PROVE TailInv
    OBVIOUS
  <2>1. journal \in Seq(Calls)
    BY DEF Init
  <2>2. faults \in 0..MaxFaults /\ now \in 0..MaxNow /\ jstart \in 0..MaxNow
    BY ConstantsAssumption DEF Init
  <2> QED
    BY <2>1, <2>2 DEF Init, TailInv, TypeOK, TailShape, Calls, Closures, Results, NoAttempt
<1>2. TailInv => TypeOK
  BY DEF TailInv
<1> QED
  BY <1>1, <1>2, TailStep, PTL DEF Spec

-----------------------------------------------------------------------------
ShapeInv == TailInv /\ JournalShape /\ PcShape

\* A call leads from its place to the next location.
Leads(call, n, next) ==
    /\ next \in Calls => /\ next # "mark_failed"
                         /\ Place(next) = n + 1
                         /\ mode = "direct" => next \notin PauseCalls
                         /\ n < Base
    /\ next \in Calls \cup Locals
    /\ next = "slot" => n = Base
    /\ next = "check" => n = Base + 1
    /\ next = "verdict" => n = Base + 2
    /\ next = "return" => n = Base + 3
    /\ next = "raise" => n \in Base+1..Base+3 /\ call = "mark_failed"
    /\ next # "raise" => call # "mark_failed"

LEMMA AfterPlace ==
    ASSUME TypeOK, NEW call \in Calls, NEW n \in Nat,
           call # "mark_failed" => Place(call) = n,
           call = "mark_failed" => n \in Base+1..Base+3,
           mode = "direct" => call \notin PauseCalls
    PROVE  Leads(call, n, After(call))
<1> USE DEF Leads
<1> USE DEF TypeOK, After, Place, Base, Calls, Closures, PauseCalls, Locals
<1>1. CASE call = "mark_running"
  BY <1>1
<1>2. CASE call = "record_start_time"
  BY <1>2
<1>3. CASE call = "mark_awaiting_otp"
  BY <1>3
<1>4. CASE call = "promise_otp"
  BY <1>4
<1>5. CASE call = "mark_running_after_otp"
  BY <1>5
<1>6. CASE call = "resolve_bank"
  BY <1>6
<1>7. CASE call = "login"
  BY <1>7
<1>8. CASE call = "extract_all"
  BY <1>8
<1>9. CASE call = "finalise"
  BY <1>9
<1>10. CASE call = "mark_failed"
  BY <1>10
<1> QED
  BY <1>1, <1>2, <1>3, <1>4, <1>5, <1>6, <1>7, <1>8, <1>9, <1>10

\* An attempt that consumes the entry it stands at keeps the shape.
LEMMA Advance ==
    ASSUME TypeOK, JournalShape, PcShape, TypeOK', pc \in Calls,
           pos + 1 \in 1..Len(journal), journal[pos + 1] = pc,
           UNCHANGED <<mode, journal>>, pos' = pos + 1, pos' <= Done', pc' = After(pc)
    PROVE  JournalShape' /\ PcShape'
<1>1. JournalShape'
  BY DEF JournalShape, Place, Base
<1>2. pos + 1 \in Nat
  BY DEF TypeOK
<1>3. pc = "mark_failed" => pos + 1 \in Base+1..Base+3
  BY <1>2 DEF PcShape, Base
<1>4. pc # "mark_failed" => Place(pc) = pos + 1
  BY DEF PcShape
<1>5. mode = "direct" => pc \notin PauseCalls
  BY DEF PcShape, PauseCalls
<1>6. Leads(pc, pos + 1, pc')
  BY <1>2, <1>3, <1>4, <1>5, AfterPlace
<1>7. pc' \notin NoAttempt
  BY <1>6 DEF Leads, NoAttempt, Calls, Closures, Locals
<1>8. Base' = Base /\ Place(pc)' = Place(pc')
  BY DEF Base, Place
<1>9. mode' = mode /\ journal' = journal
  OBVIOUS
<1>10. pc' = "raise" => pos' \in Base'+1..Base'+3 /\ journal'[pos'] = "mark_failed"
  BY <1>6, <1>8, <1>9 DEF Leads
<1>11. pc' # "raise" => journal'[pos'] # "mark_failed"
  BY <1>6, <1>9 DEF Leads
<1>12. pc' \in Calls => pc' # "mark_failed" /\ Place(pc') = pos' + 1
  BY <1>6 DEF Leads
<1>13. mode' = "direct" /\ pc' \in Calls => pc' \notin PauseCalls
  BY <1>6, <1>9 DEF Leads
<1>14. /\ pc' = "slot" => pos' = Base'
       /\ pc' = "check" => pos' = Base' + 1
       /\ pc' = "verdict" => pos' = Base' + 2
       /\ pc' = "return" => pos' = Base' + 3
  BY <1>6, <1>8 DEF Leads
<1>15. "mark_failed" \in Calls
  BY DEF Calls, Closures
<1> QED
  BY <1>1, <1>7, <1>8, <1>10, <1>11, <1>12, <1>13, <1>14, <1>15 DEF PcShape

\* A step keeps the shape of the journal and the place of the attempt in it.
LEMMA ShapeStep == ShapeInv /\ [Next]_vars => ShapeInv'
<1> SUFFICES ASSUME ShapeInv, [Next]_vars
             PROVE  JournalShape' /\ PcShape'
  BY TailStep DEF ShapeInv
<1>t. TypeOK /\ TailShape /\ JournalShape /\ PcShape /\ TypeOK' /\ TailShape'
  BY TailStep DEF ShapeInv, TailInv
<1>d. Done \in 0..Len(journal) /\ Len(journal) \in Nat
  BY <1>t DEF TypeOK, TailShape, Done
<1>q. ASSUME UNCHANGED <<mode, journal>>, Done' = Done, pc' = "idle", pos' = 0
      PROVE  JournalShape' /\ PcShape'
  BY <1>t, <1>q DEF JournalShape, PcShape, Calls, Closures, NoAttempt, Place, Base, Done, TypeOK, TailShape
<1>r. ASSUME UNCHANGED <<mode, journal, pc, pos>>, Done' = Done
      PROVE  JournalShape' /\ PcShape'
  BY <1>t, <1>r DEF JournalShape, PcShape, Place, Base
<1>1. CASE BeginAttempt
  <2>1. UNCHANGED <<mode, journal, tail>> /\ Done' = Done /\ pc' = "mark_running" /\ pos' = 0
    BY <1>1 DEF BeginAttempt, reqVars, jrnVars, Done
  <2>2. JournalShape'
    BY <1>t, <2>1 DEF JournalShape, Place, Base
  <2> QED
    BY <1>d, <2>1, <2>2 DEF PcShape, Place, PauseCalls, Calls, NoAttempt
<1>2. CASE Replay
  <2>1. UNCHANGED <<mode, journal, tail>> /\ Done' = Done /\ pc' = After(pc) /\ pos' = pos + 1
    BY <1>2 DEF Replay, reqVars, jrnVars, Done
  <2>2. pos + 1 \in 1..Len(journal) /\ pos + 1 <= Done /\ pc \in Calls /\ journal[pos + 1] = pc
    BY <1>2, <1>t, <1>d DEF Replay, TypeOK
  <2> QED
    BY <1>t, <2>1, <2>2, Advance
<1>3. CASE Mismatch
  BY <1>3, <1>q DEF Mismatch, EndAttempt, reqVars, Done
<1>4. CASE Issue
  <2>0. pc \in Calls /\ tail = "done" /\ pos = Len(journal)
    BY <1>4, <1>t, <1>d DEF Issue, PcShape, Done
  <2>1. UNCHANGED <<mode, pc, pos>> /\ journal' = Append(journal, pc) /\ tail' = "issued"
    BY <1>4 DEF Issue, reqVars, locVars
  <2>2. Done' = Done
    BY <1>t, <2>0, <2>1 DEF Done, TypeOK
  <2>3. JournalShape'
    <3>1. /\ pc # "mark_failed" => Place(pc) = pos + 1
          /\ pc = "mark_failed" => pos + 1 \in Base+1..Base+3
          /\ mode = "direct" => pc \notin PauseCalls
          /\ pos > 0 => journal[pos] # "mark_failed"
      <4>1. PcShape
        BY <1>t
      <4>2. pc \in Calls
        BY <2>0
      <4>3. /\ pc # "mark_failed" => Place(pc) = pos + 1 /\ (mode = "direct" => pc \notin PauseCalls)
            /\ pos > 0 => journal[pos] # "mark_failed"
        BY <4>1, <4>2 DEF PcShape, Calls, Closures
      <4>4. pc = "mark_failed" => pos \in Base..Base+2 /\ pc \notin PauseCalls
        BY <4>1 DEF PcShape, PauseCalls
      <4>5. pc = "mark_failed" => pos + 1 \in Base+1..Base+3
        BY <4>4, <1>t DEF Base, TypeOK
      <4> QED
        BY <4>3, <4>4, <4>5
    <3>2. /\ Len(journal') = pos + 1 /\ journal'[pos + 1] = pc
          /\ \A i \in 1..pos : journal'[i] = journal[i]
      BY <1>t, <2>0, <2>1 DEF TypeOK
    <3>3. \A call : Place(call)' = Place(call)
      BY <2>1 DEF Place, Base
    <3>4. Base' = Base /\ pos \in Nat
      BY <1>t, <2>1 DEF Base, TypeOK
    <3>5. ASSUME NEW i \in 1..pos
          PROVE  /\ journal[i] # "mark_failed"
                 /\ Place(journal[i]) = i
                 /\ mode = "direct" => journal[i] \notin PauseCalls
      BY <1>t, <2>0, <3>1 DEF JournalShape, TypeOK
    <3> QED
      BY <2>1, <3>1, <3>2, <3>3, <3>4, <3>5 DEF JournalShape, Place, Base
  <2>4. pos > 0 => journal'[pos] = journal[pos]
    BY <1>t, <2>0, <2>1 DEF TypeOK
  <2> QED
    BY <1>t, <2>0, <2>1, <2>2, <2>3, <2>4 DEF PcShape, Place, Base, Calls, Closures
<1>5. CASE Complete
  <2>1. UNCHANGED <<mode, journal>> /\ Done' = Len(journal) /\ pc' = After(pc) /\ pos' = pos + 1
    BY <1>5 DEF Complete, reqVars, Done
  <2>2. pos + 1 \in 1..Len(journal) /\ pos' <= Done' /\ pc \in Calls /\ journal[pos + 1] = pc
    BY <1>5, <1>t, <1>d, <2>1 DEF Complete, TailShape, TypeOK, Calls
  <2> QED
    BY <1>t, <2>1, <2>2, Advance
<1>6. CASE ClosureRaises
  BY <1>6, <1>q DEF ClosureRaises, EndAttempt, reqVars, Done
<1>7. CASE AwaitOtp
  <2>1. UNCHANGED <<mode, journal>> /\ Done' = Len(journal) /\ pc' = After(pc) /\ pos' = pos + 1
    BY <1>7 DEF AwaitOtp, reqVars, Done
  <2>2. pos + 1 \in 1..Len(journal) /\ pos' <= Done' /\ pc \in Calls /\ journal[pos + 1] = pc
    BY <1>7, <1>t, <1>d, <2>1 DEF AwaitOtp, AtTail, TypeOK, Calls
  <2> QED
    BY <1>t, <2>1, <2>2, Advance
<1>8. CASE Suspend
  <2>1. UNCHANGED <<mode, journal, tail>> /\ Done' = Done /\ pc' = "suspended" /\ pos' = 0
    BY <1>8 DEF Suspend, reqVars, jrnVars, Done
  <2>2. JournalShape'
    BY <1>t, <2>1 DEF JournalShape, Place, Base
  <2> QED
    BY <1>d, <2>1, <2>2 DEF PcShape, Calls, Closures
<1>9. CASE Resume
  BY <1>9, <1>q, <1>t DEF Resume, reqVars, jrnVars, Done, PcShape, NoAttempt
<1>10. CASE \/ MarkRunning \/ RecordStartTime \/ MarkAwaitingOtp \/ MarkRunningAfterOtp
           \/ ResolveBankSlug \/ StepLogin \/ StepExtractAll \/ StepFinalise \/ MarkJobFailed
  <2>1. tail = "issued" /\ tail' = "ran" /\ UNCHANGED <<mode, journal, pc, pos>>
    BY <1>10 DEF MarkRunning, RecordStartTime, MarkAwaitingOtp, MarkRunningAfterOtp,
       ResolveBankSlug, StepLogin, StepExtractAll, StepFinalise, MarkJobFailed,
       SetJobStatus, Runs, AtTail, reqVars, locVars
  <2> QED
    BY <1>r, <2>1 DEF Done
<1>11. CASE EnterSlot
  BY <1>11, <1>t DEF EnterSlot, Raise, LocalStep, reqVars, jrnVars, Done, JournalShape,
     PcShape, Place, Base, Calls, Closures, NoAttempt, PauseCalls, TypeOK
<1>12. CASE CheckAfterLogin
  BY <1>12, <1>t DEF CheckAfterLogin, Raise, LocalStep, reqVars, jrnVars, Done, JournalShape,
     PcShape, Place, Base, Calls, Closures, NoAttempt, PauseCalls, TypeOK
<1>13. CASE Verdict
  BY <1>13, <1>t DEF Verdict, Raise, LocalStep, reqVars, jrnVars, Done, JournalShape,
     PcShape, Place, Base, Calls, Closures, NoAttempt, PauseCalls, TypeOK
<1>14. CASE Return
  BY <1>14, <1>q DEF Return, reqVars, jrnVars, Done
<1>15. CASE AnswerOtp
  BY <1>15, <1>r DEF AnswerOtp, ProvideOtp, reqVars, jrnVars, locVars, Done
<1>16. CASE ClosureFails
  BY <1>16, <1>q DEF ClosureFails, EndAttempt, reqVars, Done
<1>17. CASE Crash
  <2>1. CASE UNCHANGED journal /\ tail' = IF tail = "ran" THEN "issued" ELSE tail
    BY <1>17, <1>q, <2>1 DEF Crash, reqVars, Done
  <2>2. CASE /\ tail # "done" /\ tail' = "done"
             /\ journal' = SubSeq(journal, 1, Len(journal) - 1)
    <3>1. /\ Len(journal') = Len(journal) - 1
          /\ \A i \in 1..Len(journal) - 1 : journal'[i] = journal[i]
      BY <1>t, <2>2, FrontFacts DEF TypeOK, TailShape
    <3>2. UNCHANGED mode /\ pc' = "idle" /\ pos' = 0
      BY <1>17 DEF Crash, reqVars
    <3>3. JournalShape'
      BY <1>t, <1>d, <3>1, <3>2 DEF JournalShape, Place, Base
    <3> QED
      BY <1>d, <2>2, <3>1, <3>2, <3>3 DEF PcShape, Done, Calls, Closures
  <2> QED
    BY <1>17, <2>1, <2>2 DEF Crash
<1>18. CASE Tick
  BY <1>18, <1>r DEF Tick, reqVars, jrnVars, locVars, Done
<1>19. CASE DeleteConnection
  <2>1. UNCHANGED <<reqVars, jrnVars, locVars>>
    BY <1>19, Zenon DEF DeleteConnection
  <2> QED
    BY <1>r, <2>1 DEF reqVars, jrnVars, locVars, Done
<1>20. CASE UNCHANGED vars
  BY <1>20, <1>r DEF vars, reqVars, jrnVars, locVars, Done
<1> QED
  BY <1>1, <1>2, <1>3, <1>4, <1>5, <1>6, <1>7, <1>8, <1>9, <1>10, <1>11, <1>12,
     <1>13, <1>14, <1>15, <1>16, <1>17, <1>18, <1>19, <1>20 DEF Next, Handler

-----------------------------------------------------------------------------
RowInv == ResultShape /\ RowShape /\ OutcomeShape /\ StatusFollowsJournal

\* At a place there is one call, or mark_failed.
LEMMA NameAt ==
    ASSUME TypeOK, JournalShape, NEW i \in 1..Len(journal), journal[i] # "mark_failed",
           NEW call \in Calls \ {"mark_failed"}, Place(call) = i,
           mode = "direct" => call \notin PauseCalls
    PROVE  journal[i] = call
<1>1. journal[i] \in Calls /\ Place(journal[i]) = i /\ (mode = "direct" => journal[i] \notin PauseCalls)
  BY DEF TypeOK, JournalShape
<1>2. journal[i] # "mark_failed" /\ Place(journal[i]) = Place(call)
  BY <1>1
<1>3. mode \in {"direct", "webhook"}
  BY DEF TypeOK
<1>4. CASE mode = "direct"
  <2>1. Base = 3
    BY <1>4 DEF Base
  <2>2. journal[i] \in Calls \ {"mark_failed"} /\ journal[i] \notin PauseCalls /\ call \notin PauseCalls
    BY <1>1, <1>4
  <2> QED
    BY <1>2, <2>1, <2>2 DEF Place, Calls, Closures, PauseCalls
<1>5. CASE mode = "webhook"
  <2>1. Base = 6
    BY <1>5 DEF Base
  <2> QED
    BY <1>1, <1>2, <2>1 DEF Place, Calls, Closures
<1> QED
  BY <1>3, <1>4, <1>5

\* The call before the one the attempt is about to make.
LEMMA LastIs ==
    ASSUME ShapeInv, pos = Done
    PROVE  /\ pc = "mark_running" => LastDone = "start"
           /\ pc = "record_start_time" => LastDone = "mark_running"
           /\ pc = "mark_awaiting_otp" => LastDone = "record_start_time"
           /\ pc = "promise_otp" => LastDone = "mark_awaiting_otp"
           /\ pc = "mark_running_after_otp" => LastDone = "promise_otp"
           /\ pc = "resolve_bank" =>
                    LastDone = IF mode = "direct" THEN "record_start_time"
                                                  ELSE "mark_running_after_otp"
           /\ pc = "login" \/ (pc = "mark_failed" /\ pos = Base) => LastDone = "resolve_bank"
           /\ pc = "extract_all" \/ (pc = "mark_failed" /\ pos = Base + 1) => LastDone = "login"
           /\ pc = "finalise" \/ (pc = "mark_failed" /\ pos = Base + 2) => LastDone = "extract_all"
<1>1. TypeOK /\ TailShape /\ JournalShape /\ PcShape
  BY DEF ShapeInv, TailInv
<1>2. Done \in 0..Len(journal) /\ Len(journal) \in Nat
  BY <1>1 DEF TypeOK, TailShape, Done
<1>3. ASSUME pc \in Calls, pos > 0
      PROVE  /\ LastDone \in Calls /\ Place(LastDone) = pos /\ LastDone # "mark_failed"
             /\ mode = "direct" => LastDone \notin PauseCalls
  BY <1>1, <1>2, <1>3 DEF LastDone, JournalShape, PcShape, TypeOK, Calls, Closures
<1>4. pc \in Calls /\ pc # "mark_failed" => Place(pc) = pos + 1 /\ (mode = "direct" => pc \notin PauseCalls)
  BY <1>1 DEF PcShape
<1>5. pc = "mark_running" => LastDone = "start"
  BY <1>1, <1>4 DEF LastDone, Place, Calls, Closures, TypeOK
<1> USE DEF Place, Base, Calls, Closures, PauseCalls, TypeOK
<1>6. pc = "record_start_time" => LastDone = "mark_running"
  BY <1>1, <1>3, <1>4
<1>7. pc = "mark_awaiting_otp" => LastDone = "record_start_time"
  BY <1>1, <1>3, <1>4
<1>8. pc = "promise_otp" => LastDone = "mark_awaiting_otp"
  BY <1>1, <1>3, <1>4
<1>9. pc = "mark_running_after_otp" => LastDone = "promise_otp"
  BY <1>1, <1>3, <1>4
<1>10. pc = "resolve_bank" =>
            LastDone = IF mode = "direct" THEN "record_start_time"
                                          ELSE "mark_running_after_otp"
  BY <1>1, <1>3, <1>4
<1>11. pc = "login" \/ (pc = "mark_failed" /\ pos = Base) => LastDone = "resolve_bank"
  BY <1>1, <1>3, <1>4
<1>12. pc = "extract_all" \/ (pc = "mark_failed" /\ pos = Base + 1) => LastDone = "login"
  BY <1>1, <1>3, <1>4
<1>13. pc = "finalise" \/ (pc = "mark_failed" /\ pos = Base + 2) => LastDone = "extract_all"
  BY <1>1, <1>3, <1>4
<1> QED
  BY <1>5, <1>6, <1>7, <1>8, <1>9, <1>10, <1>11, <1>12, <1>13

\* The journal is never longer than the handler; after its last call it is full.
LEMMA FullJournal ==
    ASSUME ShapeInv, pc \in {"return", "raise"}
    PROVE  /\ tail = "done" /\ Done = pos /\ pos > 0
           /\ journal[pos] = IF pc = "return" THEN "finalise" ELSE "mark_failed"
<1>1. TypeOK /\ TailShape /\ JournalShape /\ PcShape
  BY DEF ShapeInv, TailInv
<1>2. Done \in 0..Len(journal) /\ Len(journal) \in Nat /\ (Done = Len(journal) => tail = "done")
  BY <1>1 DEF TypeOK, TailShape, Done
<1>3. pos > 0 /\ pos \in 1..Len(journal) /\ pos <= Done
  BY <1>1, <1>2 DEF PcShape, Base, TypeOK
<1>4. CASE pc = "return"
  <2>1. \A i \in 1..Len(journal) : i <= Base + 3
    BY <1>1 DEF JournalShape, Place, Base, TypeOK, Calls, Closures
  <2>2. pos = Base + 3 /\ journal[pos] # "mark_failed"
    BY <1>1, <1>3, <1>4 DEF PcShape
  <2>3. Len(journal) = pos
    <3>1. Len(journal) \in 1..Len(journal) /\ Len(journal) >= pos
      BY <1>2, <1>3
    <3>2. Len(journal) <= Base + 3
      BY <2>1, <3>1
    <3>3. pos = Base + 3 /\ pos \in Int /\ Len(journal) \in Int
      BY <1>2, <1>3, <2>2
    <3> QED
      BY <3>1, <3>2, <3>3
  <2>4. journal[pos] = "finalise"
    BY <1>1, <1>3, <2>2, NameAt DEF Place, Base, Calls, Closures, PauseCalls
  <2> QED
    BY <1>2, <1>3, <1>4, <2>3, <2>4
<1>5. CASE pc = "raise"
  BY <1>1, <1>2, <1>3, <1>5 DEF PcShape, JournalShape
<1> QED
  BY <1>4, <1>5

\* The status, too, is where the calls before this one left it.
LEMMA StatusIs ==
    ASSUME ShapeInv, RowInv, pos = Done, Exists
    PROVE  /\ pc = "mark_running" => status \in {"pending", "running"}
           /\ pc = "record_start_time" => status = "running"
           /\ pc = "mark_awaiting_otp" => status \in {"running", "awaiting_otp"}
           /\ pc = "promise_otp" => status = "awaiting_otp"
           /\ pc = "mark_running_after_otp" => status \in {"awaiting_otp", "running"}
           /\ pc \in {"resolve_bank", "login", "extract_all"} => status = "running"
           /\ pc = "finalise" => status \in {"running", Shown("finalise")}
           /\ pc = "mark_failed" => status \in {"running", "failed"}
<1>1. status \in {Shown(call) : call \in {LastDone} \cup Following(LastDone)}
  BY DEF RowInv, StatusFollowsJournal
<1>2. pc \in Calls /\ pc # "mark_failed" => status # "failed"
  BY DEF RowInv, RowShape
<1>3. /\ pc = "finalise" => jres # "all_failed"
      /\ pc = "mark_failed" => pos < Base + 2 \/ (jres = "all_failed" /\ pos = Base + 2)
  BY DEF RowInv, ResultShape, ShapeInv, TailInv, TypeOK, Base
<1>4. pc = "mark_failed" => pos \in Base..Base+2
  BY DEF ShapeInv, PcShape
<1>5. mode \in {"direct", "webhook"} /\ jres \in Results
  BY DEF ShapeInv, TailInv, TypeOK
<1>6. mode = "direct" => pc \notin PauseCalls
  BY DEF ShapeInv, PcShape, Calls, Closures, PauseCalls
<1> USE DEF Shown, Following, After, Calls, Closures, PauseCalls, Results
<1>7. pc = "mark_running" => status \in {"pending", "running"}
  BY <1>1, LastIs
<1>8. pc = "record_start_time" => status = "running"
  BY <1>1, LastIs
<1>9. pc = "mark_awaiting_otp" => status \in {"running", "awaiting_otp"}
  BY <1>1, <1>5, <1>6, LastIs
<1>10. pc = "promise_otp" => status = "awaiting_otp"
  BY <1>1, LastIs
<1>11. pc = "mark_running_after_otp" => status \in {"awaiting_otp", "running"}
  BY <1>1, LastIs
<1>12. pc = "resolve_bank" => status = "running"
  BY <1>1, <1>5, LastIs
<1>13. pc = "login" => status = "running"
  BY <1>1, <1>2, LastIs
<1>14. pc = "extract_all" => status = "running"
  BY <1>1, <1>2, LastIs
<1>15. pc = "finalise" => status \in {"running", Shown("finalise")}
  BY <1>1, <1>3, LastIs
<1>16. pc = "mark_failed" => status \in {"running", "failed"}
  <2>1. CASE pc = "mark_failed" /\ pos = Base
    BY <1>1, <2>1, LastIs, <1>2, <1>3
  <2>2. CASE pc = "mark_failed" /\ pos = Base + 1
    BY <1>1, <2>2, LastIs
  <2>3. CASE pc = "mark_failed" /\ pos = Base + 2
    BY <1>1, <1>3, <2>3, LastIs DEF Base
  <2> QED
    BY <1>4, <2>1, <2>2, <2>3 DEF Base
<1> QED
  BY <1>7, <1>8, <1>9, <1>10, <1>11, <1>12, <1>13, <1>14, <1>15, <1>16

\* Steps that leave the completed entries alone keep what they show.
LEMMA SameShown ==
    ASSUME TypeOK, TailShape, UNCHANGED <<mode, status, jres>>, Done' = Done,
           \A i \in 1..Done : journal'[i] = journal[i]
    PROVE  /\ LastDone' = LastDone
           /\ StatusFollowsJournal => StatusFollowsJournal'
           /\ Extracted' = Extracted
<1>1. Done \in Nat
  BY DEF TypeOK, TailShape, Done
<1>2. LastDone' = LastDone
  BY <1>1 DEF LastDone
<1>3. Extracted' = Extracted
  BY <1>1 DEF Extracted, Base
<1>4. Following(LastDone)' = Following(LastDone) /\ \A call : Shown(call)' = Shown(call)
  BY <1>2 DEF Following, After, Shown
<1> QED
  BY <1>2, <1>3, <1>4 DEF StatusFollowsJournal, Exists

LEMMA StillLater ==
    ASSUME NEW a \in Int, NEW b \in Int, NEW s \in Int, NEW l \in Int, b >= a, a - s > l
    PROVE  b - s > l
OBVIOUS

\* Time only makes a passed deadline pass further.
LEMMA RowEnv ==
    ASSUME ShapeInv, RowInv, TypeOK',
           UNCHANGED <<mode, jstart, jres, journal, tail, pc, pos, exc, status, reason, batch, outcome>>,
           now' >= now
    PROVE  RowInv'
<1>1. TypeOK /\ TailShape
  BY DEF ShapeInv, TailInv
<1>2. Done' = Done /\ (Expired => Expired') /\ Exists' = Exists
  <2>1. now \in Int /\ now' \in Int /\ jstart \in Int /\ Limit \in Int
    BY <1>1, ConstantsAssumption DEF TypeOK
  <2>2. now' >= now /\ jstart' = jstart
    OBVIOUS
  <2>3. now - jstart > Limit => now' - jstart > Limit
    BY <2>1, <2>2, StillLater
  <2>4. Expired => Expired'
    BY <2>2, <2>3 DEF Expired
  <2> QED
    BY <2>4 DEF Done, Exists
<1>3. LastDone' = LastDone /\ StatusFollowsJournal' /\ Extracted' = Extracted
  BY <1>1, <1>2, SameShown DEF RowInv
<1>4. Base' = Base /\ Shown(pc)' = Shown(pc)
  BY DEF Base, Shown
<1>5. ResultShape'
  BY <1>2, <1>3, <1>4 DEF RowInv, ResultShape
<1>6. RowShape'
  BY <1>2, <1>3, <1>4 DEF RowInv, RowShape
<1>7. OutcomeShape'
  BY <1>2 DEF RowInv, OutcomeShape
<1> QED
  BY <1>3, <1>5, <1>6, <1>7 DEF RowInv

\* An attempt that ends takes nothing with it but an unfinished entry.
LEMMA RowEnd ==
    ASSUME ShapeInv, RowInv, ShapeInv',
           UNCHANGED <<mode, now, jstart, jres, status, reason, batch, outcome>>,
           outcome = "none", pc' \in NoAttempt, tail' # "ran", Done' = Done,
           Len(journal') <= Len(journal),
           \A i \in 1..Len(journal') : journal'[i] = journal[i]
    PROVE  RowInv'
<1>1. TypeOK /\ TailShape /\ TypeOK' /\ TailShape'
  BY DEF ShapeInv, TailInv
<1>2. Exists' = Exists /\ Expired' = Expired /\ Base' = Base
  BY DEF Exists, Expired, Base
<1>3. /\ Done \in Nat /\ Done <= Len(journal') /\ Len(journal) \in Nat /\ Len(journal') \in Nat
      /\ Len(journal) <= Done + 1
  BY <1>1 DEF TypeOK, TailShape, Done
<1>4. LastDone' = LastDone /\ StatusFollowsJournal' /\ Extracted' = Extracted
  BY <1>1, <1>3, SameShown DEF RowInv
<1>5. pc' \notin Calls
  BY DEF NoAttempt, Calls, Closures
<1>6. ResultShape'
  BY <1>2, <1>3, <1>4, <1>5 DEF RowInv, ResultShape, Calls, Closures
<1>7. RowShape'
  <2>1. ASSUME status = "failed"
        PROVE  /\ Len(journal') > Done => journal'[Len(journal')] = "mark_failed"
               /\ Done > 0 => journal'[Done] = journal[Done]
    BY <1>3, <2>1 DEF RowInv, RowShape
  <2>2. Done >= Base => Done > 0
    BY <1>3 DEF Base
  <2> QED
    BY <1>2, <1>3, <1>4, <1>5, <2>1, <2>2 DEF RowInv, RowShape
<1> QED
  BY <1>4, <1>6, <1>7 DEF RowInv, OutcomeShape

\* The attempt consumes an entry of the completed journal.
LEMMA RowAdvance ==
    ASSUME ShapeInv, RowInv, ShapeInv', pc \in Calls,
           UNCHANGED <<mode, now, jstart, jres, journal, status, reason, batch, outcome, exc>>,
           outcome = "none", tail' # "ran", Done' >= Done, pos' = pos + 1, pc' = After(pc),
           Exists => status = Shown(LastDone') \/ LastDone' = LastDone,
           Exists /\ Extracted' => batch,
           Done' = Done \/ Done' = Len(journal),
           status = "failed" => Done' = Done \/ journal[Done'] = "mark_failed"
    PROVE  RowInv'
<1>1. TypeOK /\ TailShape /\ TypeOK' /\ TailShape' /\ PcShape /\ JournalShape
  BY DEF ShapeInv, TailInv
<1>2. Exists' = Exists /\ Expired' = Expired /\ Base' = Base
  BY DEF Exists, Expired, Base
<1>3. Done \in Nat /\ Done' \in Nat /\ Done <= Len(journal) /\ Done' <= Len(journal) /\ pos \in Nat
  BY <1>1 DEF TypeOK, TailShape, Done
<1>4. /\ pc' \notin {"mark_failed", "finalise"} \cup NoAttempt
      /\ pc' \in Calls => pos + 1 < Base
  <2>1. /\ pc # "mark_failed" => Place(pc) = pos + 1
        /\ mode = "direct" => pc \notin PauseCalls
    BY <1>1 DEF PcShape, PauseCalls
  <2>2. pc = "mark_failed" => pos + 1 \in Base+1..Base+3
    BY <1>1, <1>3 DEF PcShape, Base
  <2>3. Leads(pc, pos + 1, pc')
    BY <1>1, <1>3, <2>1, <2>2, AfterPlace
  <2> QED
    BY <1>3, <2>3 DEF Leads, Place, Base, Calls, Closures, Locals, NoAttempt
<1>5. StatusFollowsJournal'
  <2>1. CASE LastDone' = LastDone
    <3>1. Following(LastDone)' = Following(LastDone) /\ \A call : Shown(call)' = Shown(call)
      BY <2>1 DEF Following, After, Shown
    <3> QED
      BY <1>2, <2>1, <3>1 DEF RowInv, StatusFollowsJournal
  <2>2. CASE Exists => status = Shown(LastDone')
    <3>1. \A call : Shown(call)' = Shown(call)
      BY DEF Shown
    <3> QED
      BY <1>2, <2>2, <3>1 DEF StatusFollowsJournal
  <2> QED
    BY <2>1, <2>2
<1>6. Extracted => Extracted'
  BY <1>2, <1>3 DEF Extracted, Base
<1>7. ResultShape'
  BY <1>2, <1>4 DEF RowInv, ResultShape
<1>8. RowShape'
  <2>1. CASE status = "failed"
    <3>1. /\ Done' >= Base /\ (pc' \in Calls /\ pos' = Done' => pc' = "mark_failed")
      BY <1>2, <1>3, <1>4, <2>1 DEF RowInv, RowShape, Base
    <3>2. Len(journal) > Done' => journal[Len(journal)] = "mark_failed"
      BY <1>3, <2>1 DEF RowInv, RowShape
    <3>3. Done' < Base + 2 \/ journal[Done'] = "mark_failed" \/ reason = "all_failed"
      BY <1>3, <2>1 DEF RowInv, RowShape
    <3> QED
      BY <1>2, <1>6, <2>1, <3>1, <3>2, <3>3 DEF RowInv, RowShape
  <2>2. CASE status # "failed"
    BY <1>6, <2>2 DEF RowInv, RowShape
  <2> QED
    BY <2>1, <2>2
<1> QED
  BY <1>5, <1>7, <1>8 DEF RowInv, OutcomeShape

\* A closure writes what its call shows and stands at the unfinished entry.
LEMMA RowRan ==
    ASSUME ShapeInv, RowInv, ShapeInv', pc \in Closures, AtTail(pc), tail' = "ran",
           UNCHANGED <<mode, now, journal, pc, pos, exc, outcome>>,
           Exists' = Exists, Exists => status' = Shown(pc)',
           pc # "extract_all" => UNCHANGED <<jres, batch>>,
           pc = "extract_all" => batch',
           pc # "record_start_time" => jstart' = jstart,
           pc = "mark_failed" /\ Exists => reason' = exc
    PROVE  RowInv'
<1>1. TypeOK /\ TailShape /\ TypeOK' /\ TailShape' /\ PcShape /\ JournalShape
  BY DEF ShapeInv, TailInv
<1>2. /\ tail = "issued" /\ Len(journal) = pos + 1 /\ journal[pos + 1] = pc /\ pos \in Nat
      /\ pos = Done /\ Done' = Done
  BY <1>1 DEF AtTail, Done, TypeOK
<1>3. LastDone' = LastDone /\ Extracted' = Extracted /\ Base' = Base
  BY <1>2 DEF LastDone, Extracted, Base
<1>4. pc = "finalise" => pos = Base + 2 /\ LastDone = "extract_all" /\ jres # "all_failed"
  BY <1>1, <1>2, LastIs DEF PcShape, Place, Base, Calls, Closures, RowInv, ResultShape
<1>5. pc = "mark_failed" =>
        /\ pos \in Base..Base+2
        /\ \/ exc = "timeout" /\ Expired /\ pos < Base + 2
           \/ exc = "all_failed" /\ jres = "all_failed" /\ pos = Base + 2 /\ LastDone = "extract_all"
  BY <1>1, <1>2, LastIs DEF PcShape, RowInv, ResultShape
<1>6. LastDone = "extract_all" /\ pos = Base + 2 => Extracted /\ (Exists => batch)
  <2>1. LastDone = "extract_all" /\ pos = Base + 2 => Extracted
    BY <1>2 DEF LastDone, Extracted, Base
  <2>2. Extracted /\ Exists => batch
    <3>1. ResultShape
      BY DEF RowInv
    <3> QED
      BY <3>1, Zenon DEF ResultShape
  <2> QED
    BY <2>1, <2>2, Zenon
<1>7. pc = "extract_all" => pos = Base + 1 /\ LastDone = "login"
  BY <1>1, <1>2, LastIs DEF PcShape, Place, Base, Calls, Closures
<1>8. pc = "mark_failed" => LastDone \in {"resolve_bank", "login"} \/
                            (LastDone = "extract_all" /\ jres = "all_failed")
  BY <1>2, <1>5, LastIs DEF Base
<1>9. mode \in {"direct", "webhook"} /\ (mode = "direct" => pc \notin PauseCalls)
  BY <1>1 DEF TypeOK, PcShape, Calls, Closures, PauseCalls
<1>10. pc \in Following(LastDone)'
  BY <1>2, <1>3, <1>4, <1>7, <1>8, <1>9, LastIs DEF Following, After, Closures, PauseCalls
<1>11. StatusFollowsJournal'
  BY <1>3, <1>10 DEF StatusFollowsJournal
<1>12. pc # "record_start_time" => Expired' = Expired
  BY DEF Expired
<1>13. ResultShape'
  <2>1. Exists' /\ (Extracted' \/ pc = "extract_all") => batch'
    <3>1. Exists /\ Extracted => batch
      <4>1. ResultShape
        BY DEF RowInv
      <4> QED
        BY <4>1, Zenon DEF ResultShape
    <3>2. pc # "extract_all" => batch' = batch
      BY Zenon
    <3>3. Extracted' = Extracted /\ Exists' = Exists
      BY <1>3
    <3>4. CASE pc = "extract_all"
      BY <3>4, Zenon
    <3>5. CASE pc # "extract_all"
      BY <3>1, <3>2, <3>3, <3>5
    <3> QED
      BY <3>4, <3>5
  <2>2. \A i \in 1..Len(journal) : journal[i] = "finalise" => jres' # "all_failed"
    <3>1. CASE pc = "extract_all"
      BY <1>1, <1>2, <1>7, <3>1 DEF JournalShape, Place, Base
    <3>2. CASE pc # "extract_all"
      BY <3>2 DEF RowInv, ResultShape
    <3> QED
      BY <3>1, <3>2
  <2>3. pc = "finalise" => jres' # "all_failed"
    BY <1>4
  <2> QED
    BY <1>3, <1>5, <1>12, <2>1, <2>2, <2>3 DEF ResultShape
<1>14. RowShape'
  <2>1. CASE ~Exists
    BY <1>1, <2>1 DEF RowShape, Exists
  <2>2. CASE Exists
    <3>1. /\ status' = "failed" => pc = "mark_failed"
          /\ status' = "success" => pc = "finalise" /\ jres = "clean"
          /\ status' = "partial_success" => pc = "finalise" /\ jres # "clean"
      BY <2>2 DEF Shown
    <3>2. pc = "finalise" => Extracted' /\ batch' /\ jres' = jres
      BY <1>3, <1>4, <1>6, <2>2
    <3>3. jres \in Results
      BY <1>1 DEF TypeOK
    <3>4. ASSUME status' = "failed"
          PROVE  /\ Done' >= Base'
                 /\ journal'[Len(journal')] = "mark_failed"
                 /\ pc' = "mark_failed"
                 /\ \/ reason' = "timeout" /\ Expired' /\ Done' < Base' + 2
                    \/ reason' = "all_failed" /\ jres' = "all_failed" /\ batch' /\ Extracted'
      BY <1>2, <1>3, <1>5, <1>6, <1>12, <2>2, <3>1, <3>4 DEF Base
    <3>5. /\ status' = "success" => Extracted' /\ batch' /\ jres' = "clean"
          /\ status' = "partial_success" => Extracted' /\ batch' /\ jres' = "some_failed"
      BY <1>4, <3>1, <3>2, <3>3 DEF Results
    <3>6. status' = Shown(pc)'
      BY <2>2
    <3> QED
      BY <3>4, <3>5, <3>6 DEF RowShape
  <2> QED
    BY <2>1, <2>2
<1>15. OutcomeShape'
  BY DEF RowInv, OutcomeShape, Closures
<1> QED
  BY <1>11, <1>13, <1>14, <1>15 DEF RowInv

\* Local code keeps the row invariant when it raises only with a cause and
\* goes on only where the row has no verdict yet.
LEMMA RowLocal ==
    ASSUME ShapeInv, RowInv, ShapeInv', pc \in Locals, pos = Done,
           UNCHANGED <<mode, now, jstart, jres, journal, tail, pos, status, reason, batch, outcome>>,
           \/ pc' \in {"login", "extract_all"} /\ status # "failed"
           \/ pc' = "finalise" /\ status # "failed" /\ jres # "all_failed"
           \/ /\ pc' = "mark_failed"
              /\ \/ exc' = "timeout" /\ Expired /\ pos < Base + 2
                 \/ exc' = "all_failed" /\ jres = "all_failed" /\ pos = Base + 2
    PROVE  RowInv'
<1>1. TypeOK /\ TailShape
  BY DEF ShapeInv, TailInv
<1>2. Done' = Done /\ Expired' = Expired /\ Exists' = Exists /\ Base' = Base
  BY DEF Done, Expired, Exists, Base
<1>3. LastDone' = LastDone /\ StatusFollowsJournal' /\ Extracted' = Extracted
  BY <1>1, <1>2, SameShown DEF RowInv
<1>4. tail # "ran"
  BY <1>1 DEF TailShape, Locals, Closures
<1>5. ResultShape'
  BY <1>2, <1>3, <1>4 DEF RowInv, ResultShape
<1>6. RowShape'
  BY <1>2, <1>3, <1>4 DEF RowInv, RowShape
<1>7. OutcomeShape'
  BY DEF RowInv, OutcomeShape, Locals
<1> QED
  BY <1>3, <1>5, <1>6, <1>7 DEF RowInv

\* Where a local step replays over entries the journal already has.
LEMMA RowLocalReplay ==
    ASSUME ShapeInv, RowInv, ShapeInv', pc \in Locals, pos # Done,
           UNCHANGED <<mode, now, jstart, jres, journal, tail, pos, status, reason, batch, outcome>>,
           \/ pc' \in {"login", "extract_all"}
           \/ pc' = "finalise" /\ jres # "all_failed"
           \/ /\ pc' = "mark_failed"
              /\ \/ exc' = "timeout" /\ Expired /\ pos < Base + 2
                 \/ exc' = "all_failed" /\ jres = "all_failed" /\ pos = Base + 2
    PROVE  RowInv'
<1>1. TypeOK /\ TailShape
  BY DEF ShapeInv, TailInv
<1>2. Done' = Done /\ Expired' = Expired /\ Exists' = Exists /\ Base' = Base
  BY DEF Done, Expired, Exists, Base
<1>3. LastDone' = LastDone /\ StatusFollowsJournal' /\ Extracted' = Extracted
  BY <1>1, <1>2, SameShown DEF RowInv
<1>4. tail # "ran"
  BY <1>1 DEF TailShape, Locals, Closures
<1>5. ResultShape'
  BY <1>2, <1>3, <1>4 DEF RowInv, ResultShape
<1>6. RowShape'
  BY <1>2, <1>3, <1>4 DEF RowInv, RowShape
<1>7. OutcomeShape'
  BY DEF RowInv, OutcomeShape, Locals
<1> QED
  BY <1>3, <1>5, <1>6, <1>7 DEF RowInv

LEMMA RowStep == ShapeInv /\ RowInv /\ [Next]_vars => RowInv'
<1> SUFFICES ASSUME ShapeInv, RowInv, [Next]_vars
             PROVE  RowInv'
  OBVIOUS
<1>t. /\ TypeOK /\ TailShape /\ JournalShape /\ PcShape
      /\ ShapeInv' /\ TypeOK' /\ TailShape'
  BY ShapeStep DEF ShapeInv, TailInv
<1>d. Done \in 0..Len(journal) /\ Len(journal) \in Nat /\ pos \in Nat
  BY <1>t DEF TypeOK, TailShape, Done
<1>o. pc # "idle" => outcome = "none"
  BY <1>t DEF RowInv, OutcomeShape, TypeOK
<1>a. ASSUME NEW call, AtTail(call)
      PROVE  pc = call /\ pos = Done /\ tail = "issued"
  BY <1>a, <1>d DEF AtTail, Done
<1> USE DEF reqVars, envVars, resVars, jrnVars, locVars, rowVars
<1>1. CASE BeginAttempt
  <2>1. /\ UNCHANGED <<mode, now, jstart, jres, journal, tail, status, reason, batch, outcome>>
        /\ pc = "idle" /\ pc' = "mark_running" /\ pos' = 0 /\ outcome = "none"
    BY <1>1 DEF BeginAttempt
  <2>2. Done' = Done /\ Expired' = Expired /\ Exists' = Exists /\ Base' = Base
    BY <2>1 DEF Done, Expired, Exists, Base
  <2>3. LastDone' = LastDone /\ StatusFollowsJournal' /\ Extracted' = Extracted
    BY <1>t, <2>1, <2>2, SameShown DEF RowInv
  <2>4. tail # "ran"
    BY <1>t, <2>1 DEF TailShape, Closures
  <2>5. ResultShape'
    BY <2>1, <2>2, <2>3, <2>4 DEF RowInv, ResultShape
  <2>6. RowShape'
    BY <1>d, <2>1, <2>2, <2>3, <2>4 DEF RowInv, RowShape, Base
  <2> QED
    BY <2>1, <2>3, <2>5, <2>6 DEF RowInv, OutcomeShape
<1>2. CASE Replay
  <2>1. /\ UNCHANGED <<mode, now, jstart, jres, journal, tail, status, reason, batch, outcome, exc>>
        /\ pc \in Calls /\ pos' = pos + 1 /\ pc' = After(pc) /\ pos < Done
    BY <1>2 DEF Replay
  <2>2. Done' = Done /\ LastDone' = LastDone /\ Extracted' = Extracted
    BY <2>1 DEF Done, LastDone, Extracted, Base
  <2>3. tail' # "ran" /\ outcome = "none"
    BY <1>t, <1>d, <1>o, <2>1 DEF TailShape, Done, Calls, Closures
  <2>4. Exists /\ Extracted => batch
    <3>1. ResultShape
      BY DEF RowInv
    <3> QED
      BY <3>1, Zenon DEF ResultShape
  <2>5. Exists /\ Extracted' => batch
    BY <2>2, <2>4
  <2> QED
    BY <1>t, <1>d, <2>1, <2>2, <2>3, <2>5, RowAdvance
<1>3. CASE Mismatch
  <2>1. pc \in Calls
    BY <1>3 DEF Mismatch
  <2>2. outcome = "none"
    BY <1>o, <2>1 DEF Calls, Closures
  <2> QED
    BY <1>t, <2>2, <1>3, RowEnd DEF Mismatch, EndAttempt, Done, NoAttempt
<1>4. CASE Issue
  <2>1. /\ pc \in Calls /\ tail = "done" /\ pos = Len(journal) /\ pos = Done
        /\ UNCHANGED <<mode, now, jstart, jres, pc, pos, exc, status, reason, batch, outcome>>
        /\ journal' = Append(journal, pc) /\ tail' = "issued"
    BY <1>4, <1>t, <1>d DEF Issue, PcShape, Done
  <2>2. Done' = Done /\ Len(journal') = Len(journal) + 1 /\ journal'[Len(journal')] = pc
    BY <1>t, <2>1 DEF Done, TypeOK
  <2>3. \A i \in 1..Len(journal) : journal'[i] = journal[i]
    <3>1. journal \in Seq(Calls) /\ pc \in Calls /\ journal' = Append(journal, pc)
      BY <1>t, <2>1 DEF TypeOK
    <3> QED
      BY <3>1
  <2>4. Expired' = Expired /\ Exists' = Exists /\ Base' = Base
    BY <2>1 DEF Expired, Exists, Base
  <2>5. LastDone' = LastDone /\ StatusFollowsJournal' /\ Extracted' = Extracted
    BY <1>t, <2>1, <2>2, <2>3, SameShown DEF RowInv
  <2>6. ResultShape'
    BY <1>d, <2>1, <2>2, <2>3, <2>4, <2>5 DEF RowInv, ResultShape
  <2>7. RowShape'
    BY <1>d, <2>1, <2>2, <2>3, <2>4, <2>5 DEF RowInv, RowShape, Base
  <2> QED
    BY <1>o, <2>1, <2>5, <2>6, <2>7 DEF RowInv, OutcomeShape, Calls, Closures
<1>5. CASE Complete
  <2>1. /\ UNCHANGED <<mode, now, jstart, jres, journal, status, reason, batch, outcome, exc>>
        /\ tail = "ran" /\ tail' = "done" /\ pos' = pos + 1 /\ pc' = After(pc)
    BY <1>5 DEF Complete
  <2>2. pc \in Calls /\ pos + 1 = Len(journal) /\ journal[pos + 1] = pc /\ outcome = "none"
    BY <1>t, <1>o, <2>1 DEF TailShape, Calls, Closures
  <2>3. Done = pos /\ Done' = pos + 1 /\ Done' = Len(journal)
    BY <1>d, <2>1, <2>2 DEF Done
  <2>4. LastDone' = pc
    BY <1>d, <2>1, <2>2, <2>3 DEF LastDone
  <2>5. Exists => status = Shown(pc)
    BY <2>1 DEF RowInv, RowShape
  <2>6. Exists /\ Extracted' => batch
    <3>1. ResultShape
      BY DEF RowInv
    <3>2. Extracted' => Extracted \/ pc = "extract_all"
      BY <1>d, <2>1, <2>2, <2>3 DEF Extracted, Base
    <3> QED
      BY <2>1, <3>1, <3>2, Zenon DEF ResultShape
  <2>7. status = "failed" => journal[Done'] = "mark_failed"
    BY <2>2, <2>3, <2>5 DEF Exists, Shown
  <2> QED
    BY <1>t, <1>d, <2>1, <2>2, <2>3, <2>4, <2>5, <2>6, <2>7, RowAdvance
<1>6. CASE ClosureRaises
  <2>1. pc \in Calls
    BY <1>6 DEF ClosureRaises, Calls
  <2>2. outcome = "none"
    BY <1>o, <2>1 DEF Calls, Closures
  <2> QED
    BY <1>t, <2>2, <1>6, RowEnd DEF ClosureRaises, EndAttempt, Done, NoAttempt
<1>7. CASE AwaitOtp
  <2>1. /\ UNCHANGED <<mode, now, jstart, jres, journal, status, reason, batch, outcome, exc>>
        /\ tail' = "done" /\ pos' = pos + 1 /\ pc' = After(pc)
        /\ AtTail("promise_otp")
    BY <1>7 DEF AwaitOtp
  <2>2. /\ pc = "promise_otp" /\ pos = Done /\ pos + 1 = Len(journal) /\ journal[pos + 1] = pc
        /\ outcome = "none"
    BY <1>a, <1>o, <2>1 DEF AtTail
  <2>3. Done' = pos + 1 /\ Done' = Len(journal) /\ LastDone' = pc
    BY <1>d, <2>1, <2>2 DEF Done, LastDone
  <2>4. Exists => status = "awaiting_otp"
    BY <2>2, StatusIs
  <2>5. Exists => status = Shown(pc)
    BY <2>2, <2>4 DEF Shown
  <2>6. pos + 1 < Base
    BY <1>t, <2>2 DEF PcShape, Place, Base, PauseCalls, Calls, Closures, TypeOK
  <2>7. Exists /\ Extracted' => batch
    <3>1. Base' = Base
      BY <2>1 DEF Base
    <3> QED
      BY <1>d, <2>2, <2>3, <2>6, <3>1 DEF Extracted, Base
  <2>8. status # "failed"
    BY <2>4 DEF Exists
  <2> QED
    BY <1>t, <1>d, <2>1, <2>2, <2>3, <2>5, <2>7, <2>8, RowAdvance DEF Calls
<1>8. CASE Suspend
  <2>1. AtTail("promise_otp")
    BY <1>8 DEF Suspend
  <2>2. outcome = "none" /\ tail = "issued"
    BY <1>a, <1>o, <2>1
  <2> QED
    BY <1>t, <1>d, <2>2, <1>8, RowEnd DEF Suspend, Done, NoAttempt
<1>9. CASE Resume
  <2>1. pc = "suspended" /\ outcome = "none" /\ tail # "ran"
    BY <1>9, <1>o, <1>t DEF Resume, TailShape, Closures
  <2> QED
    BY <1>t, <1>d, <2>1, <1>9, RowEnd DEF Resume, Done, NoAttempt
<1>19. CASE DeleteConnection
  <2>1. /\ UNCHANGED <<mode, now, jstart, jres, journal, tail, pc, pos, exc, outcome>>
        /\ status' = "deleted"
    BY <1>19, Zenon DEF DeleteConnection
  <2>2. Done' = Done /\ Expired' = Expired /\ ~Exists' /\ Base' = Base
    BY <2>1 DEF Done, Expired, Exists, Base
  <2>3. ResultShape'
    BY <2>1, <2>2 DEF RowInv, ResultShape
  <2>4. RowShape'
    BY <2>1, <2>2 DEF RowShape
  <2> QED
    BY <2>1, <2>2, <2>3, <2>4 DEF RowInv, OutcomeShape, StatusFollowsJournal
<1>10. CASE \/ MarkRunning \/ MarkAwaitingOtp \/ MarkRunningAfterOtp
           \/ ResolveBankSlug \/ StepLogin
  <2>1. PICK call \in {"mark_running", "mark_awaiting_otp", "mark_running_after_otp",
                       "resolve_bank", "login"} :
          /\ Runs(call) /\ UNCHANGED <<jstart, jres, reason, batch>>
          /\ status' = CASE call = "mark_awaiting_otp" -> "awaiting_otp"
                         [] call \in {"resolve_bank", "login"} -> status
                         [] OTHER -> "running"
    BY <1>10 DEF MarkRunning, MarkAwaitingOtp, MarkRunningAfterOtp, ResolveBankSlug,
       StepLogin, SetJobStatus
  <2>2. /\ AtTail(pc) /\ pc = call /\ pos = Done /\ Exists /\ tail' = "ran" /\ pc \in Closures
        /\ UNCHANGED <<mode, now, journal, pc, pos, exc, outcome>>
    BY <1>a, <2>1 DEF Runs, CanReturn, AtTail, Closures
  <2>3. status' = Shown(pc)' /\ Exists'
    BY <2>1, <2>2, StatusIs DEF Shown, Exists
  <2> QED
    BY <1>t, <2>1, <2>2, <2>3, RowRan
<1>11. CASE RecordStartTime
  <2>1. /\ AtTail(pc) /\ pc = "record_start_time" /\ pos = Done /\ tail' = "ran"
        /\ UNCHANGED <<mode, now, journal, pc, pos, exc, outcome, jres, status, reason, batch>>
    BY <1>11, <1>a DEF RecordStartTime, Runs, AtTail
  <2>2. Exists' = Exists /\ (Exists => status' = Shown(pc)')
    BY <2>1, StatusIs DEF Shown, Exists
  <2> QED
    BY <1>t, <2>1, <2>2, RowRan DEF Closures
<1>12. CASE StepExtractAll
  <2>1. /\ AtTail(pc) /\ pc = "extract_all" /\ pos = Done /\ tail' = "ran" /\ Exists
        /\ UNCHANGED <<mode, now, journal, pc, pos, exc, outcome, jstart, status, reason>>
    BY <1>12, <1>a DEF StepExtractAll, Runs, AtTail, CanReturn
  <2>2. batch'
    BY <1>12, Zenon DEF StepExtractAll
  <2>3. Exists' = Exists /\ status' = Shown(pc)'
    BY <2>1, StatusIs DEF Shown, Exists
  <2> QED
    BY <1>t, <2>1, <2>2, <2>3, RowRan DEF Closures
<1>13. CASE StepFinalise
  <2>1. /\ AtTail(pc) /\ pc = "finalise" /\ pos = Done /\ tail' = "ran" /\ Exists
        /\ UNCHANGED <<mode, now, journal, pc, pos, exc, outcome, jres, jstart, reason, batch>>
        /\ status' = IF jres = "clean" THEN "success" ELSE "partial_success"
    BY <1>13, <1>a DEF StepFinalise, Runs, AtTail, CanReturn
  <2>2. Exists' = Exists /\ status' = Shown(pc)'
    BY <2>1 DEF Shown, Exists
  <2> QED
    BY <1>t, <2>1, <2>2, RowRan DEF Closures
<1>14. CASE MarkJobFailed
  <2>1. /\ AtTail(pc) /\ pc = "mark_failed" /\ pos = Done /\ tail' = "ran"
        /\ UNCHANGED <<mode, now, journal, pc, pos, exc, outcome, jres, jstart, batch>>
        /\ IF Exists THEN status' = "failed" /\ reason' = exc ELSE UNCHANGED <<status, reason>>
    BY <1>14, <1>a DEF MarkJobFailed, Runs, AtTail
  <2>2. Exists' = Exists /\ (Exists => status' = Shown(pc)')
    BY <2>1 DEF Shown, Exists
  <2> QED
    BY <1>t, <2>1, <2>2, RowRan DEF Closures
<1>15. CASE EnterSlot \/ CheckAfterLogin \/ Verdict
  <2>1. /\ pc \in {"slot", "check", "verdict"}
        /\ pc = "slot" => EnterSlot
        /\ pc = "check" => CheckAfterLogin
        /\ pc = "verdict" => Verdict
        /\ UNCHANGED <<mode, now, jstart, jres, journal, tail, pos, status, reason, batch, outcome>>
    BY <1>15 DEF EnterSlot, CheckAfterLogin, Verdict, LocalStep
  <2>2. \/ pc = "slot" /\ pos = Base /\ ~Expired /\ pc' = "login"
        \/ pc = "check" /\ pos = Base + 1 /\ ~Expired /\ pc' = "extract_all"
        \/ pc = "verdict" /\ pos = Base + 2 /\ jres # "all_failed" /\ pc' = "finalise"
        \/ /\ pc' = "mark_failed"
           /\ \/ exc' = "timeout" /\ Expired /\ pos < Base + 2
              \/ exc' = "all_failed" /\ jres = "all_failed" /\ pos = Base + 2
    BY <1>t, <2>1 DEF EnterSlot, CheckAfterLogin, Verdict, Raise, PcShape, Base
  <2>3. ASSUME pos = Done, pc' # "mark_failed" PROVE status # "failed"
    <3>1. pos > 0 /\ journal[pos] # "mark_failed"
      BY <1>t, <2>1, <2>2, <2>3 DEF PcShape, Base
    <3> QED
      BY <2>2, <2>3, <3>1 DEF RowInv, RowShape, Extracted, Base
  <2>4. CASE pos = Done
    BY <1>t, <2>1, <2>2, <2>3, <2>4, RowLocal DEF Locals
  <2>5. CASE pos # Done
    BY <1>t, <2>1, <2>2, <2>5, RowLocalReplay DEF Locals
  <2> QED
    BY <2>4, <2>5
<1>16. CASE Return
  <2>1. /\ pc \in {"return", "raise"} /\ pc' = "idle"
        /\ outcome' = IF pc = "return" THEN "completed" ELSE "failed"
        /\ UNCHANGED <<mode, now, jstart, jres, journal, tail, status, reason, batch>>
    BY <1>16 DEF Return
  <2>2. /\ tail = "done" /\ Done > 0
        /\ journal[Done] = IF pc = "return" THEN "finalise" ELSE "mark_failed"
    BY <2>1, FullJournal
  <2>3. Done' = Done /\ Expired' = Expired /\ Exists' = Exists /\ Base' = Base
    BY <2>1 DEF Done, Expired, Exists, Base
  <2>4. LastDone' = LastDone /\ StatusFollowsJournal' /\ Extracted' = Extracted
    BY <1>t, <2>1, <2>3, SameShown DEF RowInv
  <2>5. ResultShape'
    BY <2>1, <2>2, <2>3, <2>4 DEF RowInv, ResultShape
  <2>6. RowShape'
    BY <2>1, <2>2, <2>3, <2>4 DEF RowInv, RowShape, Calls, Closures
  <2>7. OutcomeShape'
    BY <2>1, <2>2, <2>3 DEF OutcomeShape
  <2> QED
    BY <2>4, <2>5, <2>6, <2>7 DEF RowInv
<1>17. CASE AnswerOtp \/ UNCHANGED vars
  <2>1. UNCHANGED <<mode, now, jstart, jres, journal, tail, pc, pos, exc, status, reason, batch, outcome>>
    BY <1>17 DEF AnswerOtp, ProvideOtp, vars
  <2>2. now' >= now
    BY <1>t, <2>1, ConstantsAssumption DEF TypeOK
  <2> QED
    BY <1>t, <2>1, <2>2, RowEnv
<1>18. CASE Tick
  <2>1. UNCHANGED <<mode, jstart, jres, journal, tail, pc, pos, exc, status, reason, batch, outcome>>
    BY <1>18 DEF Tick
  <2>2. now' >= now
    BY <1>t, <1>18, ConstantsAssumption DEF Tick, TypeOK
  <2> QED
    BY <1>t, <2>1, <2>2, RowEnv
<1>20. CASE ClosureFails
  <2>1. outcome = "none"
    BY <1>o, <1>20 DEF ClosureFails, Closures
  <2> QED
    BY <1>t, <2>1, <1>20, RowEnd DEF ClosureFails, EndAttempt, Done, NoAttempt
<1>21. CASE Crash
  <2>1. /\ outcome = "none" /\ pc' = "idle"
        /\ UNCHANGED <<mode, now, jstart, jres, status, reason, batch, outcome>>
    BY <1>o, <1>21 DEF Crash, NoAttempt
  <2>2. CASE UNCHANGED journal /\ tail' = IF tail = "ran" THEN "issued" ELSE tail
    <3>1. Done' = Done /\ tail' # "ran"
      BY <2>2, <1>t DEF Done, TypeOK
    <3> QED
      BY <1>t, <1>d, <2>1, <2>2, <3>1, RowEnd DEF NoAttempt
  <2>3. CASE tail # "done" /\ tail' = "done" /\ journal' = SubSeq(journal, 1, Len(journal) - 1)
    <3>1. Len(journal') = Len(journal) - 1 /\ \A i \in 1..Len(journal) - 1 : journal'[i] = journal[i]
      BY <1>t, <2>3, FrontFacts DEF TypeOK, TailShape
    <3>2. Done' = Done /\ tail' # "ran" /\ Len(journal') <= Len(journal)
      BY <1>d, <2>3, <3>1 DEF Done
    <3> QED
      BY <1>t, <1>d, <2>1, <3>1, <3>2, RowEnd DEF NoAttempt
  <2> QED
    BY <1>21, <2>2, <2>3 DEF Crash
<1> QED
  BY <1>1, <1>2, <1>3, <1>4, <1>5, <1>6, <1>7, <1>8, <1>9, <1>10, <1>11, <1>12, <1>13, <1>14,
     <1>15, <1>16, <1>17, <1>18, <1>19, <1>20, <1>21 DEF Next, Handler

-----------------------------------------------------------------------------
(* The theorems                                                            *)

Inv == ShapeInv /\ RowInv

LEMMA InvHolds == Spec => []Inv
<1>1. Init => Inv
  <2> SUFFICES ASSUME Init PROVE Inv
    OBVIOUS
  <2>1. journal = <<>> /\ tail = "done" /\ pos = 0 /\ pc = "idle"
    BY DEF Init
  <2>2. Done = 0 /\ Len(journal) = 0 /\ LastDone = "start"
    BY <2>1 DEF Done, LastDone
  <2>3. TypeOK /\ TailShape
    <3>1. journal \in Seq(Calls)
      BY DEF Init
    <3>2. faults \in 0..MaxFaults /\ now \in 0..MaxNow /\ jstart \in 0..MaxNow
      BY ConstantsAssumption DEF Init
    <3> QED
      BY <3>1, <3>2 DEF Init, TypeOK, TailShape, Calls, Closures, Results, NoAttempt
  <2>4. JournalShape /\ PcShape
    BY <2>1, <2>2 DEF JournalShape, PcShape, Calls, Closures
  <2>5. ResultShape /\ RowShape /\ OutcomeShape
    BY <2>1, <2>2 DEF Init, ResultShape, RowShape, OutcomeShape, Extracted, Base
  <2>6. StatusFollowsJournal
    BY <2>2 DEF Init, StatusFollowsJournal, Shown
  <2> QED
    BY <2>3, <2>4, <2>5, <2>6 DEF Inv, ShapeInv, TailInv, RowInv
<1>2. Inv /\ [Next]_vars => Inv'
  BY ShapeStep, RowStep DEF Inv
<1> QED
  BY <1>1, <1>2, PTL DEF Spec

\* StatusFollowsJournal: however often the worker crashes and replays, the
\* status that steps.py and workflow.py write is at most one call ahead of the
\* journal and never behind it.
THEOREM StatusInStep == Spec => []StatusFollowsJournal
<1>1. Inv => StatusFollowsJournal
  BY DEF Inv, RowInv
<1> QED
  BY <1>1, InvHolds, PTL

\* VerdictIsBacked: a success has its result rows, a failure its cause, and
\* the invocation ends as the row says.
THEOREM VerdictsAreBacked == Spec => []VerdictIsBacked
<1>1. Inv => VerdictIsBacked
  <2> SUFFICES ASSUME Inv PROVE VerdictIsBacked
    OBVIOUS
  <2>1. RowShape /\ OutcomeShape /\ StatusFollowsJournal /\ TypeOK
    BY DEF Inv, RowInv, ShapeInv, TailInv
  <2>2. ASSUME outcome # "none", Exists
        PROVE  status = Shown(journal[Done])
    <3>1. LastDone = journal[Done] /\ journal[Done] \in {"finalise", "mark_failed"}
      BY <2>1, <2>2 DEF LastDone, OutcomeShape, TypeOK
    <3> QED
      BY <2>1, <2>2, <3>1 DEF StatusFollowsJournal, Following
  <2>3. outcome = "completed" => status \in {"success", "partial_success", "deleted"}
    BY <2>1, <2>2 DEF OutcomeShape, Shown, Exists
  <2>4. outcome = "failed" => status \in {"failed", "deleted"}
    BY <2>1, <2>2 DEF OutcomeShape, Shown, Exists
  <2>5. status = "failed" => \/ reason = "timeout" /\ Expired
                             \/ reason = "all_failed" /\ jres = "all_failed" /\ batch
    BY <2>1 DEF RowShape
  <2>6. /\ status = "success" => batch /\ jres = "clean"
        /\ status = "partial_success" => batch /\ jres = "some_failed"
    BY <2>1 DEF RowShape
  <2> QED
    BY <2>3, <2>4, <2>5, <2>6 DEF VerdictIsBacked
<1> QED
  BY <1>1, InvHolds, PTL

LEMMA Move ==
    ASSUME NEW a, NEW b, status = a, status' = b,
           \/ a = "pending" /\ b = "running"
           \/ a = "running" /\ b = "awaiting_otp"
           \/ a = "awaiting_otp" /\ b = "running"
           \/ a = "running" /\ b \in JL!Final
           \/ a \in JL!Active \cup JL!Final /\ b = "deleted"
    PROVE  JL!WorkflowNext
<1>1. <<a, b>> \in JL!WorkflowMoves \cup JL!Deletions
  BY DEF JL!WorkflowMoves, JL!Deletions, JL!Final, JL!Active
<1> QED
  BY <1>1 DEF JL!WorkflowNext, JL!Step

LEMMA LifecycleStep == Inv /\ [Next]_vars => [JL!WorkflowNext]_status
<1> SUFFICES ASSUME Inv, [Next]_vars, status' # status
             PROVE  JL!WorkflowNext
  OBVIOUS
<1>i. ShapeInv /\ RowInv /\ TypeOK /\ TailShape
  BY DEF Inv, ShapeInv, TailInv
<1>a. ASSUME NEW call, AtTail(call)
      PROVE  pc = call /\ pos = Done
  BY <1>i, <1>a DEF AtTail, Done, TypeOK
<1> USE DEF JL!Final, JL!Active
<1>1. CASE MarkRunning
  <2>1. status \in {"pending", "running"} /\ status' = "running"
    BY <1>1, <1>i, <1>a, StatusIs DEF MarkRunning, SetJobStatus, Runs, CanReturn
  <2> QED
    BY <2>1, Move
<1>2. CASE MarkAwaitingOtp
  <2>1. status \in {"running", "awaiting_otp"} /\ status' = "awaiting_otp"
    BY <1>2, <1>i, <1>a, StatusIs DEF MarkAwaitingOtp, SetJobStatus, Runs, CanReturn
  <2> QED
    BY <2>1, Move
<1>3. CASE MarkRunningAfterOtp
  <2>1. status \in {"awaiting_otp", "running"} /\ status' = "running"
    BY <1>3, <1>i, <1>a, StatusIs DEF MarkRunningAfterOtp, SetJobStatus, Runs, CanReturn
  <2> QED
    BY <2>1, Move
<1>4. CASE StepFinalise
  <2>1. /\ status \in {"running", Shown("finalise")} /\ status' = Shown("finalise")
        /\ Shown("finalise") \in {"success", "partial_success"}
    BY <1>4, <1>i, <1>a, StatusIs DEF StepFinalise, Runs, CanReturn, Shown
  <2> QED
    BY <2>1, Move
<1>5. CASE MarkJobFailed
  <2>1. Exists /\ status' = "failed" /\ pc = "mark_failed" /\ pos = Done
    BY <1>5, <1>a DEF MarkJobFailed, Runs
  <2>2. status = "running"
    BY <1>i, <2>1, StatusIs
  <2> QED
    BY <2>1, <2>2, Move
<1>6. CASE DeleteConnection
  <2>1. status # "deleted" /\ status' = "deleted"
    BY <1>6, Zenon DEF DeleteConnection, Exists
  <2>2. status \in JL!Active \cup JL!Final
    BY <1>i, <2>1 DEF TypeOK
  <2> QED
    BY <2>1, <2>2, Move
<1>7. \/ MarkRunning \/ MarkAwaitingOtp \/ MarkRunningAfterOtp
      \/ StepFinalise \/ MarkJobFailed \/ DeleteConnection
  BY DEF Next, Handler, vars, rowVars, BeginAttempt, Replay, Mismatch, Issue, Complete,
     ClosureRaises, AwaitOtp, Suspend, Resume, RecordStartTime, ResolveBankSlug, StepLogin,
     StepExtractAll, EnterSlot, CheckAfterLogin, Verdict, Return, LocalStep, AnswerOtp,
     ProvideOtp, ClosureFails, Crash, EndAttempt, Tick
<1> QED
  BY <1>1, <1>2, <1>3, <1>4, <1>5, <1>6, <1>7

\* The workflow implements JobLifecycle: its readers never see a final status
\* taken back, nor a pause end in a verdict, through any crash, replay or
\* concurrent deletion.
THEOREM ImplementsLifecycle == Spec => Lifecycle
<1>1. Init => JL!Init
  BY DEF Init, JL!Init
<1> QED
  BY <1>1, LifecycleStep, InvHolds, PTL DEF Spec, Lifecycle, JL!WorkflowSpec

-----------------------------------------------------------------------------
(* Determinism of the replay, as long as the deadline has not passed       *)

\* Before the deadline mark_failed has one cause and one place.
OneFailure == ~Expired =>
                 \A i \in 1..Len(journal) :
                    journal[i] = "mark_failed" => i = Base + 3 /\ jres = "all_failed"

\* A sync that is late stays late once its start is recorded.
LEMMA LateStays ==
    ASSUME TypeOK, Expired, [Next]_vars, ~RecordStartTime
    PROVE  Expired'
<1>1. now \in Int /\ jstart \in Int /\ Limit \in Int
  BY ConstantsAssumption DEF TypeOK
<1>2. jstart' = jstart /\ (now' = now \/ now' = now + 1)
  BY DEF Next, Handler, vars, envVars, resVars, BeginAttempt, Replay, Mismatch, Issue, Complete,
     ClosureRaises, AwaitOtp, Suspend, Resume, ResolveBankSlug, StepLogin,
     StepExtractAll, EnterSlot, CheckAfterLogin, Verdict, Return, LocalStep, AnswerOtp,
     ProvideOtp, ClosureFails, Crash, EndAttempt, Tick, DeleteConnection, Runs, MarkRunning,
     MarkAwaitingOtp, MarkRunningAfterOtp, SetJobStatus, StepFinalise, MarkJobFailed
<1> QED
  BY <1>1, <1>2 DEF Expired

LEMMA OneFailureStep ==
    ASSUME Inv, OneFailure, [Next]_vars
    PROVE  OneFailure'
<1>i. /\ ShapeInv /\ RowInv /\ TypeOK /\ TailShape /\ JournalShape /\ PcShape /\ ResultShape
      /\ TypeOK'
  BY ShapeStep DEF Inv, ShapeInv, TailInv, RowInv
<1>1. mode' = mode /\ Base' = Base
  BY DEF Next, Handler, vars, reqVars, BeginAttempt, Replay, Mismatch, Issue, Complete,
     ClosureRaises, AwaitOtp, Suspend, Resume, RecordStartTime, ResolveBankSlug, StepLogin,
     StepExtractAll, EnterSlot, CheckAfterLogin, Verdict, Return, LocalStep, AnswerOtp,
     ProvideOtp, ClosureFails, Crash, EndAttempt, Tick, DeleteConnection, Runs, MarkRunning,
     MarkAwaitingOtp, MarkRunningAfterOtp, SetJobStatus, StepFinalise, MarkJobFailed, Base
<1>0. CASE RecordStartTime
  <2>1. pc = "record_start_time" /\ pos + 1 = Len(journal) /\ journal' = journal
    BY <1>0 DEF RecordStartTime, Runs, AtTail
  <2>2. Len(journal) = 2
    BY <2>1, <1>i DEF PcShape, Calls, Closures, Place
  <2>3. \A i \in 1..Len(journal) : journal[i] # "mark_failed"
    BY <1>i, <2>2 DEF JournalShape, Base
  <2> QED
    BY <2>1, <2>3 DEF OneFailure
<1> SUFFICES ASSUME ~RecordStartTime, ~Expired'
             PROVE  OneFailure'
  BY <1>0 DEF OneFailure
<1>e. ~Expired
  BY <1>i, LateStays
<1>2. CASE Issue
  <2>1. journal \in Seq(Calls) /\ pc \in Calls /\ journal' = Append(journal, pc)
        /\ jres' = jres /\ pos = Len(journal)
    BY <1>2, <1>i DEF Issue, TypeOK, resVars
  <2>2. pc = "mark_failed" => pos = Base + 2 /\ jres = "all_failed"
    BY <1>i, <1>e DEF ResultShape
  <2> QED
    BY <1>1, <1>e, <2>1, <2>2 DEF OneFailure, Base
<1>3. CASE StepExtractAll
  <2>1. pc = "extract_all" /\ pos + 1 = Len(journal) /\ journal' = journal
    BY <1>3 DEF StepExtractAll, Runs, AtTail
  <2>2. Place(pc) = pos + 1
    BY <2>1, <1>i DEF PcShape, Calls, Closures
  <2>3. Place(pc) = Base + 2
    BY <2>1 DEF Place
  <2>4. Len(journal) = Base + 2
    BY <2>1, <2>2, <2>3
  <2>5. \A i \in 1..Len(journal) : journal[i] # "mark_failed"
    BY <1>e, <2>4 DEF OneFailure, Base
  <2> QED
    BY <2>1, <2>5 DEF OneFailure
<1>4. CASE Crash
  <2>1. jres' = jres
    BY <1>4 DEF Crash, resVars
  <2>2. CASE UNCHANGED journal
    BY <1>1, <1>e, <2>1, <2>2 DEF OneFailure
  <2>3. CASE tail # "done" /\ journal' = SubSeq(journal, 1, Len(journal) - 1)
    <3>1. /\ Len(journal') = Len(journal) - 1 /\ Len(journal) \in Nat
          /\ \A i \in 1..Len(journal) - 1 : journal'[i] = journal[i]
      BY <1>i, <2>3, FrontFacts DEF TypeOK, TailShape
    <3> QED
      BY <1>1, <1>e, <2>1, <3>1 DEF OneFailure
  <2> QED
    BY <1>4, <2>2, <2>3 DEF Crash
<1>5. CASE ~Issue /\ ~StepExtractAll /\ ~Crash
  <2>1. journal' = journal /\ jres' = jres
    BY <1>5 DEF Next, Handler, vars, jrnVars, resVars, BeginAttempt, Replay, Mismatch, Complete,
       ClosureRaises, AwaitOtp, Suspend, Resume, ResolveBankSlug, StepLogin,
       EnterSlot, CheckAfterLogin, Verdict, Return, LocalStep, AnswerOtp, ProvideOtp,
       ClosureFails, EndAttempt, Tick, DeleteConnection, Runs, MarkRunning, MarkAwaitingOtp,
       MarkRunningAfterOtp, SetJobStatus, StepFinalise, MarkJobFailed
  <2> QED
    BY <1>1, <1>e, <2>1 DEF OneFailure
<1> QED
  BY <1>2, <1>3, <1>4, <1>5

\* ReplayMatches: until the deadline has passed, workflow.py asks for exactly
\* the calls the journal has, so the deadline check is the only source of a
\* journal mismatch.
THEOREM ReplayInTime == Spec => []ReplayMatches
<1>1. Init => OneFailure
  BY DEF Init, OneFailure
<1>2. Inv /\ OneFailure /\ [Next]_vars => OneFailure'
  BY OneFailureStep
<1>3. Inv /\ OneFailure => ReplayMatches
  <2> SUFFICES ASSUME Inv, OneFailure, pc \in Calls, pos < Len(journal), ~Expired
               PROVE  journal[pos + 1] = pc
    BY DEF ReplayMatches
  <2>1. TypeOK /\ JournalShape /\ PcShape /\ ResultShape
    BY DEF Inv, ShapeInv, TailInv, RowInv
  <2>2. pos + 1 \in 1..Len(journal)
    BY <2>1 DEF TypeOK
  <2>3. CASE pc = "mark_failed"
    <3>1. pos = Base + 2 /\ jres = "all_failed"
      BY <2>1, <2>3 DEF ResultShape
    <3>2. journal[pos + 1] # "finalise"
      BY <2>1, <2>2, <3>1 DEF ResultShape
    <3>3. CASE journal[pos + 1] # "mark_failed"
      <4>1. Place("finalise") = pos + 1 /\ "finalise" \in Calls \ {"mark_failed"} /\ "finalise" \notin PauseCalls
        BY <3>1 DEF Place, Base, Calls, Closures, PauseCalls
      <4>2. journal[pos + 1] = "finalise"
        BY <2>1, <2>2, <3>3, <4>1, NameAt
      <4> QED
        BY <3>2, <4>2
    <3> QED
      BY <2>3, <3>3
  <2>4. CASE pc # "mark_failed"
    <3>1. Place(pc) = pos + 1 /\ (mode = "direct" => pc \notin PauseCalls)
      BY <2>1, <2>4 DEF PcShape
    <3>2. journal[pos + 1] # "mark_failed"
      <4>1. SUFFICES ASSUME journal[pos + 1] = "mark_failed" PROVE FALSE
        OBVIOUS
      <4>2. pos + 1 = Base + 3 /\ jres = "all_failed"
        BY <2>2, <4>1 DEF OneFailure
      <4>3. pc = "finalise"
        BY <2>4, <3>1, <4>2, <2>1 DEF Place, Base, Calls, Closures, PauseCalls, TypeOK
      <4> QED
        BY <2>1, <4>2, <4>3 DEF ResultShape
    <3> QED
      BY <2>1, <2>2, <2>4, <3>1, <3>2, NameAt
  <2> QED
    BY <2>3, <2>4
<1> QED
  BY <1>1, <1>2, <1>3, InvHolds, PTL DEF Spec

-----------------------------------------------------------------------------
(* What is settled for good                                                *)

\* How a step changes what the journal has.
LEMMA JournalStep ==
    ASSUME ShapeInv, [Next]_vars
    PROVE  \/ journal' = journal /\ Done' = Done
           \/ /\ Complete \/ AwaitOtp
              /\ journal' = journal /\ Done' = Done + 1 /\ journal[Done + 1] = pc
           \/ Issue /\ journal' = Append(journal, pc) /\ Done' = Done /\ Done = Len(journal)
           \/ /\ journal' = SubSeq(journal, 1, Len(journal) - 1) /\ Len(journal) >= 1
              /\ Done' = Done /\ Done = Len(journal) - 1
<1>t. TypeOK /\ TailShape /\ PcShape /\ Done \in 0..Len(journal) /\ Len(journal) \in Nat
  BY DEF ShapeInv, TailInv, TypeOK, TailShape, Done
<1>1. CASE Issue
  <2>1. tail = "done" /\ Done = Len(journal)
    BY <1>1, <1>t DEF Issue, PcShape, Done
  <2>2. journal' = Append(journal, pc) /\ tail' = "issued" /\ Len(journal') = Len(journal) + 1
    BY <1>1, <1>t DEF Issue, TypeOK
  <2> QED
    BY <1>1, <1>t, <2>1, <2>2 DEF Done
<1>2. CASE Complete \/ AwaitOtp
  <2>1. journal' = journal /\ tail # "done" /\ tail' = "done" /\ journal[Len(journal)] = pc
    BY <1>2, <1>t DEF Complete, AwaitOtp, AtTail, TailShape, TypeOK
  <2> QED
    BY <1>2, <1>t, <2>1 DEF Done
<1>3. CASE Crash
  <2>1. CASE tail # "done" /\ tail' = "done" /\ journal' = SubSeq(journal, 1, Len(journal) - 1)
    <3>1. Len(journal) >= 1 /\ Done = Len(journal) - 1
      BY <1>t, <2>1 DEF TailShape, Done
    <3>2. Len(journal') = Len(journal) - 1
      BY <1>t, <2>1, <3>1, FrontFacts DEF TypeOK
    <3> QED
      BY <2>1, <3>1, <3>2 DEF Done
  <2>2. CASE journal' = journal /\ tail' = IF tail = "ran" THEN "issued" ELSE tail
    BY <2>2 DEF Done
  <2> QED
    BY <1>3, <2>1, <2>2 DEF Crash
<1>4. CASE ~Issue /\ ~Complete /\ ~AwaitOtp /\ ~Crash
  <2>1. journal' = journal /\ (tail' = "done" <=> tail = "done")
    BY <1>4 DEF Next, Handler, vars, jrnVars, BeginAttempt, Replay, Mismatch, ClosureRaises,
       Suspend, Resume, RecordStartTime, ResolveBankSlug, StepLogin, StepExtractAll,
       EnterSlot, CheckAfterLogin, Verdict, Return, LocalStep, AnswerOtp, ProvideOtp,
       ClosureFails, EndAttempt, Tick, DeleteConnection, Runs, AtTail, MarkRunning,
       MarkAwaitingOtp, MarkRunningAfterOtp, SetJobStatus, StepFinalise, MarkJobFailed
  <2> QED
    BY <2>1 DEF Done
<1> QED
  BY <1>1, <1>2, <1>3, <1>4

\* A call that is complete stays so, and another one becomes complete by being
\* stored, or by the promise's value.
LEMMA CompletedStep ==
    ASSUME ShapeInv, [Next]_vars, NEW call
    PROVE  /\ Completed(call) => Completed(call)'
           /\ Completed(call)' => \/ Completed(call)
                                  \/ (Complete \/ AwaitOtp) /\ pc = call
           /\ Entered(call)' => Entered(call) \/ (Issue /\ pc = call)
<1>t. /\ journal \in Seq(Calls) /\ Done \in 0..Len(journal) /\ Len(journal) \in Nat
  BY DEF ShapeInv, TailInv, TypeOK, TailShape, Done
<1>1. CASE journal' = journal /\ Done' = Done
  BY <1>1 DEF Completed, Entered
<1>2. CASE /\ Complete \/ AwaitOtp
           /\ journal' = journal /\ Done' = Done + 1 /\ journal[Done + 1] = pc
  BY <1>2, <1>t DEF Completed, Entered
<1>3. CASE Issue /\ journal' = Append(journal, pc) /\ Done' = Done /\ Done = Len(journal)
  <2>1. /\ Len(journal') = Len(journal) + 1 /\ journal'[Len(journal) + 1] = pc
        /\ \A i \in 1..Len(journal) : journal'[i] = journal[i]
    BY <1>3, <1>t
  <2> QED
    BY <1>3, <1>t, <2>1 DEF Completed, Entered
<1>4. CASE /\ journal' = SubSeq(journal, 1, Len(journal) - 1) /\ Len(journal) >= 1
           /\ Done' = Done /\ Done = Len(journal) - 1
  <2>1. /\ Len(journal') = Len(journal) - 1
        /\ \A i \in 1..Len(journal) - 1 : journal'[i] = journal[i]
    BY <1>4, <1>t, FrontFacts
  <2> QED
    BY <1>4, <1>t, <2>1 DEF Completed, Entered
<1> QED
  BY <1>1, <1>2, <1>3, <1>4, JournalStep

\* Nothing but record_start_time writes the start, and it runs once.
LEMMA StartIsKept ==
    ASSUME ShapeInv, [Next]_vars, Completed("record_start_time")
    PROVE  ~RecordStartTime
<1> SUFFICES ASSUME RecordStartTime PROVE FALSE
  OBVIOUS
<1>1. TypeOK /\ JournalShape /\ PcShape
  BY DEF ShapeInv, TailInv
<1>2. pc = "record_start_time" /\ pos + 1 = Len(journal) /\ tail = "issued"
  BY DEF RecordStartTime, Runs, AtTail
<1>3. Len(journal) = 2 /\ Done = 1
  BY <1>1, <1>2 DEF PcShape, Calls, Closures, Place, Done
<1>4. journal[1] = "record_start_time"
  BY <1>3 DEF Completed
<1>5. Place(journal[1]) = 1
  BY <1>1, <1>3, <1>4 DEF JournalShape
<1> QED
  BY <1>4, <1>5 DEF Place

TooLate == Completed("record_start_time") /\ Expired /\ pc # "login" /\ ~Entered("login")

\* The way to a browser leads through the deadline check.
LEMMA TooLateStays ==
    ASSUME Inv, TooLate, [Next]_vars
    PROVE  TooLate'
<1>1. ShapeInv /\ TypeOK
  BY DEF Inv, ShapeInv, TailInv
<1>2. Completed("record_start_time") /\ Expired /\ pc # "login" /\ ~Entered("login")
  BY DEF TooLate
<1>3. ~RecordStartTime
  BY <1>1, <1>2, StartIsKept
<1>4. Expired'
  BY <1>1, <1>2, <1>3, LateStays
<1>5. Completed("record_start_time")' /\ ~Entered("login")'
  BY <1>1, <1>2, CompletedStep
<1>6. pc' # "login"
  <2>1. pc \in Calls => After(pc) # "login"
    BY DEF After, Calls, Closures
  <2>2. CASE Replay \/ Complete \/ AwaitOtp
    <3>1. pc \in Calls /\ pc' = After(pc)
      BY <1>1, <2>2 DEF Replay, Complete, AwaitOtp, AtTail, ShapeInv, TailInv, TailShape, Calls
    <3> QED
      BY <2>1, <3>1
  <2>3. CASE EnterSlot \/ CheckAfterLogin \/ Verdict
    BY <1>2, <2>3 DEF EnterSlot, CheckAfterLogin, Verdict, Raise
  <2>4. CASE /\ ~Replay /\ ~Complete /\ ~AwaitOtp
             /\ ~EnterSlot /\ ~CheckAfterLogin /\ ~Verdict
    <3>1. pc' \in {pc, "idle", "suspended", "mark_running"}
      BY <2>4 DEF Next, Handler, vars, locVars, BeginAttempt, Mismatch, Issue, ClosureRaises,
         Suspend, Resume, RecordStartTime, ResolveBankSlug, StepLogin, StepExtractAll, Return,
         AnswerOtp, ProvideOtp, ClosureFails, Crash, EndAttempt, Tick, DeleteConnection, Runs,
         MarkRunning, MarkAwaitingOtp, MarkRunningAfterOtp, SetJobStatus, StepFinalise,
         MarkJobFailed
    <3> QED
      BY <1>2, <3>1
  <2> QED
    BY <2>1, <2>2, <2>3, <2>4
<1> QED
  BY <1>4, <1>5, <1>6 DEF TooLate

\* LateMeansNoBrowser: a sync whose deadline passed before its login step never
\* opens a browser, however often it is suspended, restarted and replayed.
THEOREM LateNeverLogsIn == Spec => LateMeansNoBrowser
<1>1. Inv /\ TooLate /\ [Next]_vars => TooLate'
  BY TooLateStays
<1>2. TooLate => ~Entered("login")
  BY DEF TooLate
<1>3. Spec => [](TooLate => []~Entered("login"))
  BY <1>1, <1>2, InvHolds, PTL DEF Spec
<1>4. LateMeansNoBrowser <=> [](TooLate => []~Entered("login"))
  BY DEF LateMeansNoBrowser, TooLate
<1> QED
  BY <1>3, <1>4

\* The password the journal has is the promise's, and an extraction that got
\* through with a password was one the bank accepts.
OtpShape ==
    /\ jotp \in {NoCode, promise}
    /\ mode = "webhook" /\ (Completed("extract_all") \/ (tail = "ran" /\ pc = "extract_all"))
            => jotp \in GoodCodes

LEMMA OtpStep ==
    ASSUME Inv, OtpShape, [Next]_vars
    PROVE  /\ OtpShape' /\ mode' = mode
           /\ promise # NoCode => promise' = promise
<1>1. ShapeInv /\ TypeOK /\ TailShape
  BY DEF Inv, ShapeInv, TailInv
<1>2. mode' = mode
  BY DEF Next, Handler, vars, reqVars, BeginAttempt, Replay, Mismatch, Issue, Complete,
     ClosureRaises, AwaitOtp, Suspend, Resume, RecordStartTime, ResolveBankSlug, StepLogin,
     StepExtractAll, EnterSlot, CheckAfterLogin, Verdict, Return, LocalStep, AnswerOtp,
     ProvideOtp, ClosureFails, Crash, EndAttempt, Tick, DeleteConnection, Runs, MarkRunning,
     MarkAwaitingOtp, MarkRunningAfterOtp, SetJobStatus, StepFinalise, MarkJobFailed
<1>3. promise' = promise \/ (AnswerOtp /\ promise = NoCode)
  BY DEF Next, Handler, vars, envVars, BeginAttempt, Replay, Mismatch, Issue, Complete,
     ClosureRaises, AwaitOtp, Suspend, Resume, RecordStartTime, ResolveBankSlug, StepLogin,
     StepExtractAll, EnterSlot, CheckAfterLogin, Verdict, Return, LocalStep, AnswerOtp,
     ProvideOtp, ClosureFails, Crash, EndAttempt, Tick, DeleteConnection, Runs, MarkRunning,
     MarkAwaitingOtp, MarkRunningAfterOtp, SetJobStatus, StepFinalise, MarkJobFailed
<1>4. jotp' = jotp \/ (AwaitOtp /\ jotp' = promise /\ promise' = promise)
  BY DEF Next, Handler, vars, envVars, resVars, BeginAttempt, Replay, Mismatch, Issue, Complete,
     ClosureRaises, AwaitOtp, Suspend, Resume, RecordStartTime, ResolveBankSlug, StepLogin,
     StepExtractAll, EnterSlot, CheckAfterLogin, Verdict, Return, LocalStep, AnswerOtp,
     ProvideOtp, ClosureFails, Crash, EndAttempt, Tick, DeleteConnection, Runs, MarkRunning,
     MarkAwaitingOtp, MarkRunningAfterOtp, SetJobStatus, StepFinalise, MarkJobFailed
<1>5. jotp' \in {NoCode, promise'}
  BY <1>3, <1>4 DEF OtpShape, AnswerOtp
<1>6. ASSUME jotp \in GoodCodes PROVE jotp' \in GoodCodes
  <2>1. jotp = promise
    BY <1>6, ConstantsAssumption DEF OtpShape
  <2> QED
    BY <1>4, <1>6, <2>1
<1>7. ASSUME mode = "webhook",
             Completed("extract_all")' \/ (tail' = "ran" /\ pc' = "extract_all")
      PROVE  jotp \in GoodCodes
  <2>1. CASE Completed("extract_all") \/ (tail = "ran" /\ pc = "extract_all")
    BY <1>7, <2>1 DEF OtpShape
  <2>2. CASE StepExtractAll
    BY <1>7, <2>2 DEF StepExtractAll, Runs, CanReturn
  <2>3. CASE /\ ~StepExtractAll /\ ~Completed("extract_all")
             /\ ~(tail = "ran" /\ pc = "extract_all")
    <3>1. ~Completed("extract_all")'
      <4>1. ~(Complete /\ pc = "extract_all")
        BY <2>3 DEF Complete
      <4>2. ~(AwaitOtp /\ pc = "extract_all")
        BY DEF AwaitOtp, AtTail
      <4> QED
        BY <1>1, <2>3, <4>1, <4>2, CompletedStep
    <3>2. ~(tail' = "ran" /\ pc' = "extract_all")
      <4>1. SUFFICES ASSUME tail' = "ran" PROVE pc' = pc /\ (pc # "extract_all" \/ tail = "ran")
        BY <2>3
      <4>2. CASE tail = "ran"
        <5>1. pc \in Closures /\ ~Replay
          BY <1>1, <4>2 DEF TailShape, Replay, Done, TypeOK
        <5> QED
          BY <4>1, <4>2, <5>1 DEF Next, Handler, vars, locVars, jrnVars, BeginAttempt, Mismatch,
             Issue, Complete, ClosureRaises, AwaitOtp, AtTail, Suspend, Resume, RecordStartTime,
             ResolveBankSlug, StepLogin, StepExtractAll, EnterSlot, CheckAfterLogin, Verdict,
             Return, LocalStep, AnswerOtp, ProvideOtp, ClosureFails, Crash, EndAttempt, Tick,
             DeleteConnection, Runs, MarkRunning, MarkAwaitingOtp, MarkRunningAfterOtp,
             SetJobStatus, StepFinalise, MarkJobFailed, Closures, NoAttempt
      <4>3. CASE tail # "ran"
        <5>1. \E call \in Closures \ {"extract_all"} : Runs(call)
          BY <2>3, <4>1, <4>3 DEF Next, Handler, vars, jrnVars, BeginAttempt, Replay, Mismatch,
             Issue, Complete, ClosureRaises, AwaitOtp, Suspend, Resume, RecordStartTime,
             ResolveBankSlug, StepLogin, EnterSlot, CheckAfterLogin, Verdict, Return, LocalStep,
             AnswerOtp, ProvideOtp, ClosureFails, Crash, EndAttempt, Tick, DeleteConnection,
             MarkRunning, MarkAwaitingOtp, MarkRunningAfterOtp, SetJobStatus, StepFinalise,
             MarkJobFailed, Closures
        <5> QED
          BY <5>1 DEF Runs, AtTail, locVars
      <4> QED
        BY <4>2, <4>3
    <3> QED
      BY <1>7, <3>1, <3>2
  <2> QED
    BY <2>1, <2>2, <2>3
<1> QED
  BY <1>2, <1>3, <1>5, <1>6, <1>7 DEF OtpShape

WrongCode == mode = "webhook" /\ promise \in Codes \ GoodCodes

\* FirstCodeCounts: a sync whose first code the bank rejects never gets any
\* data, whatever codes and retries follow.
THEOREM WrongCodeGetsNothing == Spec => FirstCodeCounts
<1>1. Init => OtpShape
  BY DEF Init, OtpShape, Completed, Done
<1>2. Inv /\ OtpShape /\ [Next]_vars => OtpShape'
  BY OtpStep
<1>3. Inv /\ OtpShape /\ WrongCode /\ [Next]_vars => WrongCode'
  BY OtpStep, ConstantsAssumption DEF WrongCode
<1>4. Inv /\ OtpShape /\ WrongCode => ~Completed("extract_all")
  BY ConstantsAssumption DEF WrongCode, OtpShape
<1>5. Spec => [](WrongCode => []~Completed("extract_all"))
  BY <1>1, <1>2, <1>3, <1>4, InvHolds, PTL DEF Spec
<1>6. FirstCodeCounts <=> [](WrongCode => []~Completed("extract_all"))
  BY DEF FirstCodeCounts, WrongCode
<1> QED
  BY <1>5, <1>6
=============================================================================
