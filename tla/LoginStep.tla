----------------------------- MODULE LoginStep -----------------------------
(***************************************************************************)
(* A sync from its request to the end of its login: what is asked of       *)
(* start_sync or of the CLI, the row of the connection that the login      *)
(* reads and that other requests may rewrite, the choice of the one-time   *)
(* password, and step_login with its browser, retried by Restate.          *)
(*                                                                         *)
(* External: the bank, whose page shows a form, the question for a code,   *)
(* the dashboard or a refusal, and which may take a code only once; the    *)
(* LLM, which tells what the page shows or, within a bound, anything.      *)
(* The deletion of the connection is in SyncWorkflow.                      *)
(***************************************************************************)
EXTENDS Naturals, Extractor

CONSTANTS
    Codes,        \* one-time passwords, other than the empty one
    RightCode,    \* the one the bank accepts
    NoCode,       \* None
    EmptyCode,    \* ''
    MaxRewrites,  \* bound: requests that rewrite the connection
    MaxFaults,    \* bound: attempts lost, and answers of the LLM that are not true
    Client        \* settings.llm_provider

ASSUME LoginConstants ==
    /\ RightCode \in Codes
    /\ NoCode # EmptyCode /\ {NoCode, EmptyCode} \cap Codes = {}
    /\ MaxRewrites \in Nat /\ MaxFaults \in Nat
    /\ Client \in Providers

Modes == {"static", "totp", "webhook"}
Given == Codes \cup {NoCode, EmptyCode}
Stored == Codes \cup {NoCode}

VARIABLES
    conn,       \* the row: otp_mode, the stored code, and whether the password is right
    rewrites,   \* how often it was rewritten by other requests
    sync,       \* the request that was accepted, or none yet
    disturbed,  \* the row was rewritten since
    webhook,    \* the value of the promise "otp"
    phase,      \* of the attempt at the login
    browser,    \* a browser is open
    otp,        \* the local variable of step_login
    page,       \* what the bank shows
    detected,   \* what is_otp_required took it for
    typed,      \* the code typed in this attempt
    spent,      \* the bank accepted its code once already
    oneTime,    \* and does not take a code twice
    hasDom,     \* the adapter has selectors of its own
    odd,        \* the LLM said something else than what this attempt's page shows
    codeless,   \* some attempt raised for want of a code
    faults      \* so far

row == <<conn, rewrites>>
request == <<sync, disturbed, webhook>>
attempt == <<phase, browser, otp, page, detected, typed, odd>>
bank == <<spent, oneTime, hasDom>>
vars == <<row, request, attempt, bank, codeless, faults>>

NoSync == [by |-> "nobody", mode |-> "static", otp |-> NoCode]

Init ==
    /\ conn \in [mode : Modes, stored : Stored, right : BOOLEAN]
    /\ rewrites = 0
    /\ sync = NoSync /\ disturbed = FALSE /\ webhook = NoCode
    /\ phase = "idle" /\ browser = FALSE /\ otp = NoCode /\ page = "none"
    /\ detected = "unknown" /\ typed = NoCode /\ odd = FALSE
    /\ spent = FALSE /\ oneTime \in BOOLEAN /\ hasDom \in BOOLEAN
    /\ codeless = FALSE /\ faults = 0

-----------------------------------------------------------------------------
(* Requests *)

\* `encrypt(otp) if otp else None`.
Keep(code) == IF code \in Codes THEN code ELSE NoCode

\* find_or_create_connection for the connection that is there: credentials, mode
\* and stored code are overwritten, with nothing if nothing is given.
Rewritten == \E mode \in Modes, code \in Given, right \in BOOLEAN :
                conn' = [mode |-> mode, stored |-> Keep(code), right |-> right]

CreateAgain ==
    /\ rewrites < MaxRewrites /\ rewrites' = rewrites + 1
    /\ Rewritten
    /\ disturbed' = (sync # NoSync)
    /\ UNCHANGED <<sync, webhook, attempt, bank, codeless, faults>>

\* start_sync: static mode takes a code from the request or a stored one.
MayStart(mode, code) == mode = "static" => code \in Codes \/ conn.stored # NoCode

StartSync ==
    /\ sync = NoSync
    /\ \E mode \in Modes, code \in Given :
         /\ MayStart(mode, code)
         /\ sync' = [by |-> "api", mode |-> mode, otp |-> code]
    /\ UNCHANGED <<row, disturbed, webhook, attempt, bank, codeless, faults>>

\* The CLI stores what it is given and triggers the sync without a code.
SyncByCli ==
    /\ sync = NoSync
    /\ Rewritten
    /\ sync' = [by |-> "cli", mode |-> conn'.mode, otp |-> NoCode]
    /\ UNCHANGED <<rewrites, disturbed, webhook, attempt, bank, codeless, faults>>

\* POST /jobs/{id}/otp, or the CLI's otp: the promise keeps its first value.
ProvideOtp ==
    /\ sync # NoSync /\ sync.mode = "webhook" /\ webhook = NoCode
    /\ webhook' \in Given \ {NoCode}
    /\ UNCHANGED <<row, sync, disturbed, attempt, bank, codeless, faults>>

-----------------------------------------------------------------------------
(* The attempt *)

\* `webhook_otp or provided_otp`.
OtpForLogin == IF webhook \in Codes THEN webhook ELSE sync.otp

\* Mutants of UsedCode: a stored code is for static mode only; it is preferred.
UsedCodeStaticOnly ==
    IF OtpForLogin = NoCode /\ conn.mode = "static" THEN conn.stored ELSE OtpForLogin
UsedCodeStoredFirst ==
    IF conn.mode \in {"static", "totp"} /\ conn.stored # NoCode THEN conn.stored ELSE OtpForLogin

\* The code of the sync, else the stored one if the connection's mode allows.
UsedCode ==
    IF OtpForLogin = NoCode /\ conn.mode \in {"static", "totp"} THEN conn.stored ELSE OtpForLogin

\* stealth_browser: opened for the attempt, closed whatever it came to.
OpenBrowser == browser' = TRUE

\* Mutant of CloseBrowser: closed only at the end of the process.
LeaveBrowser == UNCHANGED browser
CloseBrowser == browser' = FALSE

Fixed == UNCHANGED <<row, request, oneTime, hasDom>>

\* The row is read and the login page opened.
Opening ==
    /\ phase = "idle" /\ sync # NoSync
    /\ sync.mode = "webhook" => webhook # NoCode
    /\ otp' = UsedCode
    /\ OpenBrowser
    /\ phase' = "form" /\ page' = "form"
    /\ detected' = "unknown" /\ typed' = NoCode /\ odd' = FALSE
    /\ UNCHANGED <<spent, codeless, faults>> /\ Fixed

\* Mutant of BeginLogin: an attempt that raised is not made again.
BeginLoginOnce == page = "none" /\ Opening

\* The first attempt, or another.
BeginLogin == Opening

\* The attempt raises: a screenshot and a step row, the browser is closed, and
\* Restate tries again.
Raises == /\ phase' = "idle"
          /\ CloseBrowser
          /\ UNCHANGED <<otp, page, detected, typed, odd>>

\* A fault: the page fails or hangs, an answer is of no use, or the worker dies.
Fault == faults < MaxFaults /\ faults' = faults + 1

AttemptFails ==
    /\ phase \notin {"idle", "returned"}
    /\ Fault
    /\ Raises
    /\ UNCHANGED <<spent, codeless>> /\ Fixed

\* The fields of a form, by selectors or by an answer that names them.
Located(goal) ==
    hasDom \/ \E reply \in Replies : Outcome(Client, goal, reply) \in {"found", "default"}

\* fill_and_submit_credentials, and the wait for what follows.  What
\* the bank shows then depends on the password, and on whether it asks for a code.
FillCredentials ==
    /\ phase = "form" /\ Located("fields")
    /\ page' \in IF conn.right THEN {"code", "dashboard"} ELSE {"refused"}
    /\ phase' = "submitted"
    /\ UNCHANGED <<browser, otp, detected, typed, odd, spent, codeless, faults>> /\ Fixed

\* What an LLM that tells the truth answers.
TrueState == [code |-> "otp_required", dashboard |-> "logged_in", refused |-> "login_failed"]

\* is_otp_required by the bank's own elements.
DetectByDom ==
    /\ hasDom
    /\ detected' = CASE page = "code" -> "otp_required" [] page = "dashboard" -> "logged_in"
                     [] OTHER -> "unknown"
    /\ detected' # "unknown"
    /\ UNCHANGED <<odd, faults>>

DetectByLlm ==
    \/ detected' = TrueState[page] /\ UNCHANGED <<odd, faults>>
    \/ Fault /\ odd' = TRUE
       /\ \E answer \in StateAnswers \ {TrueState[page]} :
            PostLoginState(Client, answer) # "raises" /\ detected' = PostLoginState(Client, answer)

\* Only one of the states counts, a failed login is taken like a good one.
IsOtpRequired ==
    /\ phase = "submitted"
    /\ DetectByDom \/ DetectByLlm
    /\ phase' = IF detected' = "otp_required" THEN "challenged" ELSE "landed"
    /\ UNCHANGED <<browser, otp, page, typed, spent, codeless>> /\ Fixed

\* Mutant of RaiseWithoutCode: the login goes on when there is no code.
GoOnWithoutCode ==
    /\ phase = "challenged" /\ otp \notin Codes
    /\ phase' = "landed"
    /\ UNCHANGED <<browser, otp, page, detected, typed, odd, spent, codeless, faults>> /\ Fixed

\* `OTP required but not provided`.
RaiseWithoutCode ==
    /\ phase = "challenged" /\ otp \notin Codes
    /\ codeless' = TRUE
    /\ Raises
    /\ UNCHANGED <<spent, faults>> /\ Fixed

Accepted == page = "code" /\ otp = RightCode /\ ~(oneTime /\ spent)

\* submit_otp.  That the dashboard
\* does not come up is logged at most.
SubmitOtp ==
    /\ phase = "challenged" /\ otp \in Codes /\ Located("otp")
    /\ typed' = otp
    /\ page' = IF Accepted THEN "dashboard" ELSE page
    /\ spent' = (spent \/ Accepted)
    /\ phase' = "landed"
    /\ UNCHANGED <<browser, otp, detected, odd, codeless, faults>> /\ Fixed

\* The cookies, the end of the browser, and the step row.
LoginReturns ==
    /\ phase = "landed"
    /\ phase' = "returned"
    /\ CloseBrowser
    /\ UNCHANGED <<otp, page, detected, typed, odd, spent, codeless, faults>> /\ Fixed

Work == \/ BeginLogin \/ FillCredentials \/ IsOtpRequired \/ RaiseWithoutCode
        \/ SubmitOtp \/ LoginReturns

Next == CreateAgain \/ StartSync \/ SyncByCli \/ ProvideOtp \/ Work \/ AttemptFails

Spec == Init /\ [][Next]_vars

\* Restate goes on with the login; nobody has to send a code.
FairSpec == Spec /\ WF_vars(Work)
-----------------------------------------------------------------------------
(* Safety                                                                  *)

\* Every variable has its type, and a browser is open only within an attempt.
TypeOK ==
    /\ conn \in [mode : Modes, stored : Stored, right : BOOLEAN]
    /\ rewrites \in 0..MaxRewrites
    /\ sync \in [by : {"nobody", "api", "cli"}, mode : Modes, otp : Given]
    /\ disturbed \in BOOLEAN /\ webhook \in Given
    /\ phase \in {"idle", "form", "submitted", "challenged", "landed", "returned"}
    /\ browser = (phase \notin {"idle", "returned"})
    /\ otp \in Given /\ typed \in Stored
    /\ page \in {"none", "form", "code", "dashboard", "refused"}
    /\ detected \in {"unknown"} \cup States
    /\ odd \in BOOLEAN /\ spent \in BOOLEAN /\ oneTime \in BOOLEAN /\ hasDom \in BOOLEAN
    /\ codeless \in BOOLEAN
    /\ faults \in 0..MaxFaults

\* The sync was given a code where nobody had to send one later.
HasCode == \/ sync.by = "api" /\ sync.otp \in Codes
           \/ sync.by = "api" /\ sync.mode = "static" /\ sync.otp = NoCode
                              /\ conn.mode # "webhook"
           \/ sync.by = "cli" /\ conn.mode # "webhook" /\ conn.stored # NoCode

\* A sync that start_sync accepted in static mode, or that got a code with the
\* request or from the CLI, never stops for want of one: unless the connection is
\* in webhook mode itself and the request brought none, or the connection was
\* rewritten meanwhile, or the request brought an empty code, which passes for one.
AcceptedSyncHasCode == codeless => disturbed \/ ~HasCode

\* A code given with the request, or sent for the pause, is never replaced by the
\* one that is stored, whoever stores another meanwhile.
OwnCodeIsUsed ==
    sync.otp \in Codes \/ webhook \in Codes =>
        typed \in {NoCode, IF webhook \in Codes THEN webhook ELSE sync.otp}

\* A login that returns, the LLM having told the truth, left the bank at the
\* dashboard: unless the bank refused the password, or the code that was typed.
SuccessMeansSession ==
    phase = "returned" /\ ~odd =>
        \/ page = "dashboard"
        \/ page = "refused" /\ (~conn.right \/ disturbed)
        \/ page = "code" /\ typed \in Codes /\ (typed = RightCode => oneTime /\ spent)

-----------------------------------------------------------------------------
(* Liveness                                                                *)

\* No code can come: none was given, or only one that is empty.
Stuck == sync # NoSync /\ (sync.mode = "webhook" => webhook # NoCode) /\ UsedCode \notin Codes

\* A sync that has a code, or need not wait for one, comes to the end of its
\* login, whatever is rewritten and lost on the way.
LoginEnds ==
    []<>~(Stuck \/ (sync.mode = "webhook" /\ webhook = NoCode)) =>
        (sync # NoSync ~> phase = "returned")
=============================================================================
