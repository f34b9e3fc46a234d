-------------------------- MODULE LoginStepProofs --------------------------
(***************************************************************************)
(* Theorems about LoginStep, for any codes, any bounds and any LLM client. *)
(*                                                                         *)
(* None of the properties is inductive: the step that breaks one reads the *)
(* local variable `otp`, which was set attempts earlier from rows that may *)
(* have changed since.  IInv ties it to the sync and its code (Begun), and *)
(* what the bank shows to the password and to what was typed (Reason).     *)
(***************************************************************************)
EXTENDS LoginStep, TLAPS

\* The code of the sync itself.
Own == IF webhook \in Codes THEN webhook ELSE sync.otp

\* Before a request is accepted nothing has happened.
Untouched == sync.by = "nobody" => /\ sync = NoSync /\ ~disturbed /\ webhook = NoCode
                                   /\ phase = "idle" /\ page = "none" /\ ~codeless

\* What start_sync and the CLI saw of the row holds while nobody rewrites it.
Checked ==
    ~disturbed => /\ sync.by = "api" /\ sync.mode = "static" =>
                        sync.otp \in Codes \/ conn.stored # NoCode
                  /\ sync.by = "cli" => sync.otp = NoCode

\* From the first attempt on the promise keeps its value, and the local variable
\* is the code of the sync, or, undisturbed, what the row has for it.
Begun ==
    /\ page = "none" => phase = "idle" /\ typed = NoCode /\ ~codeless
    /\ page # "none" => /\ sync.mode = "webhook" => webhook # NoCode
                        /\ Own \in Codes => otp = Own
                        /\ ~disturbed => otp = UsedCode
                        /\ typed # NoCode => typed = otp

\* What the bank shows has its reason.
Reason ==
    /\ phase \in {"submitted", "challenged", "landed", "returned"} =>
            page \in {"code", "dashboard", "refused"}
    /\ page = "refused" => ~conn.right \/ disturbed
    /\ phase \in {"landed", "returned"} /\ ~odd /\ page = "code" =>
            typed \in Codes /\ (typed = RightCode => oneTime /\ spent)

IInv == /\ TypeOK /\ AcceptedSyncHasCode
        /\ Untouched /\ Checked /\ Begun /\ Reason

-----------------------------------------------------------------------------
(* What the operators return *)

\* The code a login uses is a code or none.
LEMMA UsedCodeType == TypeOK => UsedCode \in Given
  BY LoginConstants DEF TypeOK, UsedCode, OtpForLogin, Given, Stored

\* A code of the sync itself is the one that is used, whatever is stored.
LEMMA OwnComesFirst == ASSUME TypeOK, Own \in Codes PROVE UsedCode = Own
  BY LoginConstants DEF TypeOK, UsedCode, OtpForLogin, Own

\* Where the sync was given a code, the row still has what was seen of it.
LEMMA GivenIsUsed ==
  ASSUME TypeOK, Checked, ~disturbed, HasCode, sync.mode = "webhook" => webhook # NoCode
  PROVE  UsedCode \in Codes
  <1>1. CASE Own \in Codes
    BY <1>1, OwnComesFirst
  <1>2. CASE Own \notin Codes
    <2>1. webhook \notin Codes /\ sync.otp \notin Codes
      BY <1>2 DEF Own
    <2>2. sync.otp = NoCode /\ conn.stored # NoCode /\ conn.mode # "webhook"
      BY <2>1 DEF HasCode, Checked
    <2>3. UsedCode = conn.stored
      BY <2>1, <2>2 DEF UsedCode, OtpForLogin, TypeOK, Modes
    <2> QED
      BY <2>2, <2>3 DEF TypeOK, Stored
  <1> QED
    BY <1>1, <1>2

\* An answer that is no exception is one of the states.
LEMMA StateOrRaise ==
  ASSUME NEW provider, NEW answer \in StateAnswers, PostLoginState(provider, answer) # "raises"
  PROVE  PostLoginState(provider, answer) \in States
  BY DEF PostLoginState, StateAnswers, States, ClientRaises

-----------------------------------------------------------------------------
(* The invariant                                                           *)

\* What the code is drawn from is the same where row and request are.
LEMMA Frame ==
  ASSUME UNCHANGED <<row, request>>
  PROVE  Own' = Own /\ UsedCode' = UsedCode /\ HasCode' = HasCode
  BY DEF row, request, Own, UsedCode, OtpForLogin, HasCode

LEMMA InitIInv == Init => IInv
  <1> SUFFICES ASSUME Init PROVE IInv
    OBVIOUS
  <1>1. TypeOK
    <2>1. browser = (phase \notin {"idle", "returned"})
      BY Zenon DEF Init
    <2>2. conn \in [mode : Modes, stored : Stored, right : BOOLEAN] /\ rewrites \in 0..MaxRewrites
          /\ faults \in 0..MaxFaults
      BY LoginConstants DEF Init
    <2>3. sync \in [by : {"nobody", "api", "cli"}, mode : Modes, otp : Given]
      BY DEF Init, NoSync, Modes, Given
    <2> QED
      BY <2>1, <2>2, <2>3 DEF Init, TypeOK, Stored, Given, States
  <1>2. Untouched /\ Checked /\ Begun /\ Reason /\ AcceptedSyncHasCode
    BY DEF Init, NoSync, Untouched, Checked, Begun, Reason, AcceptedSyncHasCode
  <1> QED
    BY <1>1, <1>2 DEF IInv

\* Every action keeps the invariant.
LEMMA StepIInv == IInv /\ [Next]_vars => IInv'
  <1> SUFFICES ASSUME IInv, [Next]_vars PROVE IInv'
    OBVIOUS
  <1> USE LoginConstants
      DEF IInv, TypeOK, AcceptedSyncHasCode, Untouched, Checked, Begun, Reason,
          row, request, attempt, bank, Modes, Stored, Given, States
  <1>1. CASE CreateAgain
    <2>1. conn' \in [mode : Modes, stored : Stored, right : BOOLEAN]
      BY <1>1 DEF CreateAgain, Rewritten, Keep
    <2>2. Own' = Own
      BY <1>1 DEF CreateAgain, Own
    <2>3. sync # NoSync => disturbed'
      BY <1>1 DEF CreateAgain
    <2>4. sync = NoSync => sync.by = "nobody"
      BY DEF NoSync
    <2> QED
      BY <1>1, <2>1, <2>2, <2>3, <2>4 DEF CreateAgain, HasCode, NoSync
  <1>2. CASE StartSync
    <2>1. sync.by = "nobody"
      BY <1>2 DEF StartSync, NoSync
    <2>2. Untouched /\ Begun
      OBVIOUS
    <2>3. PICK mode \in Modes, code \in Given :
            MayStart(mode, code) /\ sync' = [by |-> "api", mode |-> mode, otp |-> code]
      BY <1>2 DEF StartSync
    <2>4. UNCHANGED <<row, disturbed, webhook, attempt, bank, codeless, faults>>
      BY <1>2 DEF StartSync
    <2> QED
      BY <2>1, <2>2, <2>3, <2>4 DEF MayStart
  <1>3. CASE SyncByCli
    <2>1. sync.by = "nobody"
      BY <1>3 DEF SyncByCli, NoSync
    <2>2. conn' \in [mode : Modes, stored : Stored, right : BOOLEAN]
      BY <1>3 DEF SyncByCli, Rewritten, Keep
    <2>3. sync' = [by |-> "cli", mode |-> conn'.mode, otp |-> NoCode]
      BY <1>3 DEF SyncByCli
    <2>4. UNCHANGED <<rewrites, disturbed, webhook, attempt, bank, codeless, faults>>
      BY <1>3 DEF SyncByCli
    <2> QED
      BY <2>1, <2>2, <2>3, <2>4
  <1>4. CASE ProvideOtp
    <2>1. page = "none"
      BY <1>4 DEF ProvideOtp
    <2>2. ~codeless
      BY <1>4, <2>1
    <2> QED
      BY <1>4, <2>1, <2>2 DEF ProvideOtp
  <1>5. CASE BeginLogin
    <2>1. otp' = UsedCode /\ UsedCode \in Given /\ page' = "form" /\ typed' = NoCode
      BY <1>5, UsedCodeType DEF BeginLogin, Opening
    <2>2. UNCHANGED <<row, request>>
      BY <1>5 DEF BeginLogin, Opening, Fixed
    <2>3. UsedCode' = UsedCode /\ Own' = Own /\ (Own \in Codes => UsedCode = Own)
      BY <2>2, OwnComesFirst DEF UsedCode, OtpForLogin, Own
    <2>4. sync.by # "nobody"
      BY <1>5 DEF BeginLogin, Opening
    <2>5. phase' = "form" /\ browser' = TRUE /\ detected' = "unknown" /\ odd' = FALSE
          /\ UNCHANGED <<bank, codeless, faults>> /\ (sync.mode = "webhook" => webhook # NoCode)
      BY <1>5 DEF BeginLogin, Opening, OpenBrowser, Fixed
    <2>6. (browser = (phase \notin {"idle", "returned"}))'
      BY <2>5, Zenon
    <2>7. TypeOK'
      <3>1. otp' \in Given /\ typed' \in Stored /\ page' = "form"
        BY <2>1
      <3>2. UNCHANGED <<conn, rewrites, sync, disturbed, webhook>>
        BY <2>2
      <3>3. UNCHANGED <<spent, oneTime, hasDom, codeless, faults>>
        BY <2>5
      <3>4. phase' = "form" /\ detected' = "unknown" /\ odd' \in BOOLEAN
        BY <2>5
      <3> QED
        BY <2>6, <3>1, <3>2, <3>3, <3>4
    <2>8. (Untouched /\ Checked /\ AcceptedSyncHasCode)'
      BY <2>2, <2>4, <2>5, Frame
    <2>9. (Begun /\ Reason)'
      BY <2>1, <2>2, <2>3, <2>5
    <2> QED
      BY <2>7, <2>8, <2>9
  <1>6. CASE FillCredentials
    BY <1>6, Frame DEF FillCredentials, Fixed
  <1>7. CASE IsOtpRequired
    <2>1. UNCHANGED <<row, request, oneTime, hasDom, browser, otp, page, typed, spent, codeless>>
      BY <1>7 DEF IsOtpRequired, Fixed
    <2>2. detected' \in {"unknown"} \cup States /\ odd' \in BOOLEAN /\ faults' \in 0..MaxFaults
      <3>1. phase = "submitted" /\ page \in {"code", "dashboard", "refused"}
        BY <1>7 DEF IsOtpRequired
      <3>2. CASE DetectByDom
        BY <3>1, <3>2 DEF DetectByDom
      <3>3. CASE detected' = TrueState[page] /\ UNCHANGED <<odd, faults>>
        BY <3>1, <3>3 DEF TrueState
      <3>4. CASE Fault /\ odd' = TRUE /\ \E answer \in StateAnswers \ {TrueState[page]} :
                   PostLoginState(Client, answer) # "raises"
                   /\ detected' = PostLoginState(Client, answer)
        <4>1. detected' \in States
          BY <3>4, StateOrRaise
        <4>2. faults' \in 0..MaxFaults
          BY <3>4 DEF Fault
        <4> QED
          BY <3>4, <4>1, <4>2
      <3> QED
        BY <1>7, <3>2, <3>3, <3>4 DEF IsOtpRequired, DetectByLlm
    <2>3. ~odd' /\ page = "code" => detected' = "otp_required"
      BY <1>7 DEF IsOtpRequired, DetectByDom, DetectByLlm, TrueState
    <2> QED
      BY <1>7, <2>1, <2>2, <2>3, Frame DEF IsOtpRequired
  <1>8. CASE RaiseWithoutCode
    <2>1. UNCHANGED <<row, request, bank, otp, page, detected, typed, odd, faults>>
      BY <1>8 DEF RaiseWithoutCode, Raises, Fixed
    <2>2. page # "none" /\ otp \notin Codes
      BY <1>8 DEF RaiseWithoutCode
    <2>3. ~disturbed => UsedCode \notin Codes
      BY <2>2
    <2>4. disturbed \/ ~HasCode
      BY <2>2, <2>3, GivenIsUsed
    <2>5. phase' = "idle" /\ browser' = FALSE /\ codeless' = TRUE
      BY <1>8 DEF RaiseWithoutCode, Raises, CloseBrowser
    <2>6. (browser = (phase \notin {"idle", "returned"}))'
      BY <2>5, Zenon
    <2> QED
      BY <2>1, <2>2, <2>4, <2>5, <2>6, Frame
  <1>9. CASE SubmitOtp
    <2>1. UNCHANGED <<row, request, oneTime, hasDom, browser, otp, detected, odd, codeless, faults>>
      BY <1>9 DEF SubmitOtp, Fixed
    <2>2. typed' = otp /\ otp \in Codes /\ phase = "challenged" /\ phase' = "landed"
      BY <1>9 DEF SubmitOtp
    <2>3. page' \in {"code", "dashboard", "refused"} /\ (page' = "refused" => page = "refused")
      BY <1>9, <2>2 DEF SubmitOtp
    <2>4. spent' \in BOOLEAN /\ (page' = "code" /\ typed' = RightCode => oneTime /\ spent')
      BY <1>9, <2>2 DEF SubmitOtp, Accepted
    <2> QED
      BY <2>1, <2>2, <2>3, <2>4, Frame
  <1>10. CASE LoginReturns
    <2>1. UNCHANGED <<row, request, bank, otp, page, detected, typed, odd, codeless, faults>>
          /\ phase = "landed" /\ phase' = "returned" /\ browser' = FALSE
      BY <1>10 DEF LoginReturns, CloseBrowser, Fixed
    <2>2. (browser = (phase \notin {"idle", "returned"}))'
      BY <2>1, Zenon
    <2> QED
      BY <2>1, <2>2, Frame
  <1>11. CASE AttemptFails
    <2>1. UNCHANGED <<row, request, bank, otp, page, detected, typed, odd, codeless>>
          /\ phase \notin {"idle", "returned"} /\ phase' = "idle" /\ browser' = FALSE
          /\ faults < MaxFaults /\ faults' = faults + 1
      BY <1>11 DEF AttemptFails, Fault, Raises, CloseBrowser, Fixed
    <2>2. (browser = (phase \notin {"idle", "returned"}))'
      BY <2>1, Zenon
    <2> QED
      BY <2>1, <2>2, Frame
  <1>12. CASE UNCHANGED vars
    BY <1>12, Frame DEF vars
  <1> QED
    BY <1>1, <1>2, <1>3, <1>4, <1>5, <1>6, <1>7, <1>8, <1>9, <1>10, <1>11, <1>12
    DEF Next, Work

THEOREM Invariance == Spec => []IInv
  BY InitIInv, StepIInv, PTL DEF Spec

-----------------------------------------------------------------------------
(* The properties                                                          *)

\* Every variable has its type; no browser outlives its attempt.
THEOREM TypeCorrect == Spec => []TypeOK
  <1>1. IInv => TypeOK
    BY DEF IInv
  <1> QED
    BY <1>1, Invariance, PTL

\* A sync that was given a code never raises for want of one, but for the
\* exceptions that AcceptedSyncHasCode names.
THEOREM AcceptedSyncsHaveCode == Spec => []AcceptedSyncHasCode
  <1>1. IInv => AcceptedSyncHasCode
    BY DEF IInv
  <1> QED
    BY <1>1, Invariance, PTL

\* Only the sync's own code is ever typed where it has one.
THEOREM OwnCodesAreUsed == Spec => []OwnCodeIsUsed
  <1>1. IInv => OwnCodeIsUsed
    BY DEF IInv, Begun, OwnCodeIsUsed, Own
  <1> QED
    BY <1>1, Invariance, PTL

\* A login that returns without a session was refused by the bank.
THEOREM SuccessIsSession == Spec => []SuccessMeansSession
  <1>1. IInv => SuccessMeansSession
    BY DEF IInv, Reason, SuccessMeansSession
  <1> QED
    BY <1>1, Invariance, PTL
=============================================================================
