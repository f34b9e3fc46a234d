----------------------------- MODULE Extraction -----------------------------
(***************************************************************************)
(* The browser session of extract_all: BankAdapter.extract_all and         *)
(* extract_account (bank_adapters/base.py), the page loops of the adapters *)
(* and the budget of LLM calls (agent/extractor.py), over the attempts     *)
(* Restate makes of the step.                                              *)
(*                                                                         *)
(* Accounts are numbered as get_accounts lists them in an attempt.  A      *)
(* reading of the page comes from the DOM or from the LLM; the generic     *)
(* adapter has only the LLM.  External: the bank's pages, which may fail,  *)
(* hang, or go on beyond the cap, the browser's history, and the LLM,      *)
(* which may answer anything of Extractor.                                 *)
(***************************************************************************)
EXTENDS Integers, Sequences, FiniteSets, Extractor

CONSTANTS
    NumAccounts,  \* accounts on the dashboard
    PageCounts,   \* numbers of pages a history may have
    MaxPages,     \* settings.max_pages_per_account
    MaxLlmCalls,  \* settings.max_llm_calls_per_sync
    LoginCalls,   \* numbers of calls the login that returned may have made
    MaxAttempts,  \* bound: attempts of the step
    Adapters,     \* TRUE for one with selectors of its own (heritage), FALSE (generic)
    Client        \* settings.llm_provider

ASSUME ExtractionConstants ==
    /\ NumAccounts \in Nat \ {0}
    /\ PageCounts \subseteq Nat \ {0}
    /\ MaxPages \in Nat \ {0}
    /\ MaxLlmCalls \in Nat
    /\ LoginCalls \subseteq 0..MaxLlmCalls
    /\ MaxAttempts \in Nat \ {0}
    /\ Adapters \subseteq BOOLEAN /\ Client \in Providers

Accounts == 1..NumAccounts

VARIABLES
    hasDom,   \* the adapter has selectors of its own
    pages,    \* pages of each listed account's history, at the bank
    inPlace,  \* whether the bank turns pages without leaving the document
    attempt,  \* of Restate, from 1
    phase,    \* what the session does next
    listed,   \* how many accounts get_accounts found
    current,  \* the account it is at
    page,     \* page_num in that account
    trail,    \* the browser's history up to what it shows: whose page, and which
    read,     \* pages of the account whose rows were collected
    worst,    \* the worst answer about this account (no code has this)
    results,  \* AccountResults so far, with the pages collected and worst
    homed,    \* the account after which a link last led home (no code has this)
    hung,     \* the bank's page does not answer
    calls,    \* _llm_call_count of the closure
    asked     \* LLM calls of this sync, the login's and those of all attempts

site == <<hasDom, pages, inPlace>>
session == <<phase, listed, current, page, trail, read, worst, results, homed>>
llmVars == <<calls, asked>>
vars == <<site, attempt, session, hung, llmVars>>

InAccount == {"navigate", "page", "next", "balance"}
Over == {"returned", "raised"}

\* What the browser may show that is no page of an account: the dashboard, and
\* the document before it.
Dashboard == [of |-> 0, page |-> 1]
Before == [of |-> 0, page |-> 0]

view == trail[Len(trail)]

\* The browser follows a link; one to what it shows makes no new entry.
Follow(to) == trail' = IF view = to THEN trail ELSE Append(trail, to)

\* The bank's next-page control: another entry, or another page in the same one.
TurnPage == LET to == [view EXCEPT !.page = @ + 1]
            IN  trail' = IF inPlace THEN [trail EXCEPT ![Len(trail)] = to] ELSE Append(trail, to)

\* A session as step_extract_all opens it, by page.goto(post_login_url); what an
\* earlier one held is gone with it.
Anew ==
    /\ listed' = 0 /\ current' = 1 /\ page' = 0
    /\ trail' = <<Before, Dashboard>> /\ read' = {} /\ worst' = "exact"
    /\ results' = <<>> /\ homed' = 0

\* Each closure of a ctx.run is a task, with a context of its own: what the
\* login asked is not in the counter of extract_all.
Init ==
    /\ hasDom \in Adapters
    /\ pages \in [Accounts -> PageCounts]
    /\ inPlace \in BOOLEAN
    /\ attempt = 1
    /\ phase = "discover" /\ listed = 0 /\ current = 1 /\ page = 0
    /\ trail = <<Before, Dashboard>> /\ read = {} /\ worst = "exact"
    /\ results = <<>> /\ homed = 0
    /\ hung = FALSE
    /\ calls = 0 /\ asked \in LoginCalls

\* Mutant of Ask: the comparison lets one call more through.
AskOneMore == /\ calls <= MaxLlmCalls
              /\ calls' = calls + 1
              /\ asked' = asked + 1

\* _ask within the budget.
Ask == /\ calls < MaxLlmCalls
       /\ calls' = calls + 1
       /\ asked' = asked + 1

\* _ask beyond it: the call is counted and refused.
OverBudget == /\ calls >= MaxLlmCalls
              /\ calls' = calls + 1
              /\ UNCHANGED asked

NoAsk == UNCHANGED llmVars

\* The answers of which the goal's function makes this, and getting one.
Answers(goal, outcome) == {reply \in Replies : Outcome(Client, goal, reply) = outcome}
Answered(goal, outcome) ==
    /\ Ask
    /\ \E reply \in Answers(goal, outcome) : worst' = Worse(worst, Quality(reply))

\* Something is found by selectors, or by asking the LLM.
Found(goal) == (hasDom /\ NoAsk /\ UNCHANGED worst) \/ Answered(goal, "found")

Step(from) == /\ phase = from
              /\ ~hung
              /\ UNCHANGED <<site, attempt, hung>>

-----------------------------------------------------------------------------
\* get_accounts: entries without a number are dropped, and where no row of the
\* DOM is left the LLM is asked.  Without any account the step raises when
\* extract_all has returned.
Discover ==
    /\ Step("discover")
    /\ \/ (hasDom /\ NoAsk) /\ listed' \in Accounts
       \/ Ask /\ \E outcome \in {"found", "partial", "default"} :
            /\ Answers("accounts", outcome) # {}
            /\ listed' \in CASE outcome = "found" -> {NumAccounts}
                            [] outcome = "partial" -> 0..(NumAccounts - 1)
                            [] OTHER -> {0}
    /\ phase' = IF listed' = 0 THEN "raised" ELSE "navigate"
    /\ UNCHANGED <<current, page, trail, read, worst, results, homed>>

\* The account is looked for anew: its rows, and what it is judged by.
Enter == /\ phase' = "page" /\ page' = 1 /\ read' = {}
         /\ UNCHANGED <<listed, current, results, homed>>

\* A link is found where there is one, and opens the account.  The generic
\* adapter takes an answer without an action to say that the account is shown.
NavigateToAccount ==
    /\ Step("navigate")
    /\ \/ Found("link") /\ view # Before /\ Follow([of |-> current, page |-> 1])
       \/ ~hasDom /\ Answered("link", "default") /\ UNCHANGED trail
    /\ Enter

\* One turn of the loop of get_transactions: rows from the DOM, or from the
\* LLM, where an answer may stand for no rows, or some rows be dropped.
ReadPage ==
    /\ Step("page")
    /\ \/ Found("rows") /\ read' = IF view.of = current THEN read \cup {view.page} ELSE read
       \/ (Answered("rows", "partial") \/ Answered("rows", "default")) /\ UNCHANGED read
    /\ phase' = "next"
    /\ UNCHANGED <<listed, current, page, trail, results, homed>>

MorePages == view.of # 0 /\ view.page < pages[view.of]

\* Mutants of NextPage: the loop ends one page early; or only with the history.
Turn(further) ==
    /\ Step("next")
    /\ IF hasDom THEN NoAsk /\ UNCHANGED worst ELSE Answered("next", "found")
    /\ IF MorePages THEN TurnPage ELSE UNCHANGED trail
    /\ IF MorePages /\ further THEN phase' = "page" /\ page' = page + 1
                               ELSE phase' = "balance" /\ UNCHANGED page
    /\ UNCHANGED <<listed, current, read, results, homed>>
NextPageEarly == Turn(page + 1 < MaxPages)
NextPageUncapped == Turn(TRUE)

\* The next-page control, a disabled or missing one being the end, or what the
\* LLM says of it.  It is clicked before the cap is looked at.
NextPage ==
    /\ Step("next")
    /\ \/ /\ IF hasDom THEN NoAsk /\ UNCHANGED worst ELSE Answered("next", "found")
          /\ IF MorePages THEN TurnPage ELSE UNCHANGED trail
          /\ IF MorePages /\ page < MaxPages
               THEN phase' = "page" /\ page' = page + 1
               ELSE phase' = "balance" /\ UNCHANGED page
       \/ /\ ~hasDom /\ Answered("next", "default")
          /\ phase' = "balance" /\ UNCHANGED <<page, trail>>
    /\ UNCHANGED <<listed, current, read, results, homed>>

\* The account is finished: with the balance, read or the function's default, or
\* with an exception, which is recorded by its text.
AccountDone(balance, error) ==
    /\ results' = Append(results, [ok |-> ~error, balance |-> balance, worst |-> worst',
                                   read |-> IF balance = "none" THEN {} ELSE read])
    /\ IF current < listed THEN phase' = "home" ELSE phase' = "returned"
    /\ UNCHANGED <<listed, current, page, read, homed>>

GetBalance ==
    /\ Step("balance")
    /\ \/ Found("balance") /\ AccountDone("read", FALSE)
       \/ Answered("balance", "default") /\ AccountDone("default", FALSE)
    /\ UNCHANGED trail

\* What the browser shows when an account is given up: the click may have come
\* through.
LeftSomewhere ==
    \/ UNCHANGED trail
    \/ phase = "navigate" /\ view # Before /\ Follow([of |-> current, page |-> 1])
    \/ phase = "next" /\ MorePages /\ TurnPage

\* Mutant of AccountFails: the loop goes on without a result.
AccountSkipped ==
    /\ phase \in InAccount
    /\ ~hung
    /\ NoAsk
    /\ phase' = IF current < listed THEN "home" ELSE "returned"
    /\ UNCHANGED <<listed, current, page, trail, read, worst, results, homed, site, attempt, hung>>

\* The question of a phase.
GoalOf == [navigate |-> "link", page |-> "rows", next |-> "next", balance |-> "balance"]

\* An exception in extract_account: caught, and recorded as the result.  One
\* without a text, which step_extract_all takes for no error, may come from the
\* page or a client; those of the budget and of the answers have one.
AccountFails ==
    /\ phase \in InAccount
    /\ ~hung
    /\ \/ NoAsk /\ UNCHANGED worst /\ \E text \in BOOLEAN : AccountDone("none", text)
       \/ /\ \/ ~(hasDom /\ phase = "next") /\ OverBudget /\ UNCHANGED worst
             \/ ~(hasDom /\ phase = "next") /\ Answered(GoalOf[phase], "raises")
             \/ hasDom /\ phase = "navigate" /\ Answered("link", "default")
          /\ AccountDone("none", TRUE)
    /\ LeftSomewhere
    /\ UNCHANGED <<site, attempt, hung>>

\* Mutant of AccountTimeout: without wait_for, a hung page is waited for.
WaitForPage == UNCHANGED vars

\* wait_for gives a hung account up; the page may answer again, or not.
AccountTimeout ==
    /\ phase \in InAccount
    /\ hung /\ hung' \in BOOLEAN
    /\ NoAsk /\ UNCHANGED worst
    /\ LeftSomewhere
    /\ AccountDone("none", TRUE)
    /\ UNCHANGED <<site, attempt>>

\* page.go_back, which does nothing at the first entry.
GoBack == trail' = IF Len(trail) > 1 THEN SubSeq(trail, 1, Len(trail) - 1) ELSE trail

\* The next account is up.
GoOn == /\ phase' = "navigate" /\ current' = current + 1
        /\ worst' = "exact"
        /\ UNCHANGED <<listed, page, read, results>>

\* The bank's link home is found, or not; the generic adapter looks for none.
ByLink == hasDom /\ view # Before /\ Follow(Dashboard) /\ homed' = current

\* Mutant of NavigateToDashboard: without a link the adapter stays where it is.
NavigateToDashboardByLink ==
    /\ Step("home")
    /\ NoAsk
    /\ ByLink \/ UNCHANGED <<trail, homed>>
    /\ GoOn

\* navigate_to_dashboard between accounts: by the bank's link, or, where none is
\* found and in the base class, by going back.
NavigateToDashboard ==
    /\ Step("home")
    /\ NoAsk
    /\ ByLink \/ (GoBack /\ UNCHANGED homed)
    /\ GoOn

\* The step raises, or the worker dies in it: the browser and the results are
\* gone.
Raise == /\ phase' = "raised"
         /\ hung' = FALSE
         /\ Anew
         /\ UNCHANGED <<site, attempt>>

\* An exception outside extract_account is not caught.  Going back has a timeout,
\* counting the links home and reading the dashboard have none.
SessionFails ==
    \/ phase = "discover" /\ ~hung /\ (NoAsk \/ OverBudget) /\ Raise
    \/ phase = "discover" /\ ~hung /\ Answers("accounts", "raises") # {} /\ Ask /\ Raise
    \/ phase = "home" /\ (~hung \/ ~hasDom) /\ NoAsk /\ Raise

WorkerDies == phase \notin Over /\ NoAsk /\ Raise

\* A new attempt starts from nothing, and may list other accounts; the budget is
\* reset with it, and the login comes from the journal.
Retry ==
    /\ phase = "raised"
    /\ attempt < MaxAttempts
    /\ attempt' = attempt + 1
    /\ phase' = "discover" /\ Anew
    /\ pages' \in [Accounts -> PageCounts]
    /\ calls' = 0
    /\ UNCHANGED <<hasDom, inPlace, hung, asked>>

\* The bank stops answering, anywhere in a session.
Hang ==
    /\ phase \notin Over
    /\ ~hung /\ hung' = TRUE
    /\ UNCHANGED <<site, attempt, session, llmVars>>

Work == \/ Discover \/ NavigateToAccount \/ ReadPage \/ NextPage \/ GetBalance
        \/ AccountFails \/ AccountTimeout \/ NavigateToDashboard \/ SessionFails

Next == Work \/ WorkerDies \/ Retry \/ Hang

Spec == Init /\ [][Next]_vars

\* The session goes on where it can, by success, exception or timeout.
FairSpec == Spec /\ WF_vars(Work)
-----------------------------------------------------------------------------
(* Safety                                                                  *)

AccountResults == [ok : BOOLEAN, balance : {"read", "default", "none"}, worst : Qualities,
                   read : SUBSET (1..MaxPages)]

\* Every variable has its type; the loop's page number stays within the cap.
TypeOK ==
    /\ hasDom \in BOOLEAN /\ inPlace \in BOOLEAN
    /\ pages \in [Accounts -> Nat \ {0}]
    /\ attempt \in 1..MaxAttempts
    /\ phase \in {"discover", "home"} \cup InAccount \cup Over
    /\ listed \in 0..NumAccounts /\ current \in Accounts
    /\ page \in 0..MaxPages
    /\ trail \in Seq([of : 0..NumAccounts, page : Nat]) /\ trail # <<>>
    /\ read \subseteq 1..MaxPages
    /\ worst \in Qualities
    /\ results \in Seq(AccountResults) /\ homed \in 0..NumAccounts
    /\ hung \in BOOLEAN
    /\ calls \in Nat /\ asked \in Nat

\* Every account up to the current one has exactly one result, in the order
\* of the dashboard, whatever failed or hung: what is returned is complete.
OneResultEach ==
    /\ phase \in InAccount => Len(results) = current - 1
    /\ phase = "home" => Len(results) = current
    /\ phase = "returned" => Len(results) = listed

\* An account reported as extracted, with the LLM answering truly and in the
\* form asked for, has its own history from the first page on without a gap, up
\* to its end or the cap, and a balance that was read.  An answer in a code block
\* or in prose costs at most later pages, and none where the bank's selectors
\* turn them: the balance is still read, and never the default 0.  Only an
\* exception without a text is reported with nothing.
HistoryIsFaithful ==
    \A k \in 1..Len(results) : results[k].ok /\ results[k].worst # "odd" =>
        LET last == IF pages[k] < MaxPages THEN pages[k] ELSE MaxPages
        IN  IF results[k].balance = "none" THEN results[k].read = {}
            ELSE /\ results[k].balance = "read"
                 /\ \E m \in 1..last : /\ results[k].read = 1..m
                                       /\ hasDom \/ results[k].worst = "exact" => m = last

\* An account after which going back need not lead to where it was looked for:
\* it was given up, judged by what the page does not say, or took several entries
\* of the browser's history.
Strayed(k) == \/ results[k].balance = "none" \/ results[k].worst = "odd"
              \/ ~inPlace /\ pages[k] > 1

\* Every account is looked for from the dashboard, unless one strayed since the
\* session began or a link last led home; a link home makes good whatever
\* happened before.
StartsFromDashboard ==
    phase = "navigate" =>
        view = Dashboard \/ \E k \in (homed + 1)..(current - 1) : Strayed(k)

\* What extracting this account takes where the LLM does all the looking: the
\* way to it, its balance, and each page with the question for another one.
Price(result) == IF result.balance # "none" THEN 2 + 2 * Cardinality(result.read) ELSE 0

\* The calls that the accounts that were read took, each by its account and its
\* number.
Paid == UNION {{k} \X (1..Price(results[k])) : k \in 1..Len(results)}

\* The budget bounds what is paid and what is got: the LLM is asked at most
\* that often by the login and by each attempt, although accounts go on after
\* the first refusal, and an adapter without selectors reads no more accounts
\* than the attempt could pay for.
BudgetIsKept ==
    /\ asked <= (1 + attempt) * MaxLlmCalls
    /\ ~hasDom => Cardinality(Paid) <= MaxLlmCalls

-----------------------------------------------------------------------------
(* Liveness                                                                *)

\* The page hangs where nothing gives it up: get_accounts, and the search for
\* the link home, are outside wait_for and call what has no timeout.
Stuck == hung /\ (phase = "discover" \/ (phase = "home" /\ hasDom))

\* Hung pages and exceptions do not keep the session, and the slot it holds,
\* for ever, unless the page hangs outside extract_account.
SessionEnds == phase \notin Over ~> phase \in Over \/ Stuck
=============================================================================
