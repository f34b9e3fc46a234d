# A TLA+ model of the bank scraper

Specifications, TLC instances and TLAPS proofs for the service in this repository: it logs
into banks with a browser, extracts accounts, balances and transactions, and runs each sync as
a durable workflow on Restate. Paths below are relative to the Python package `src/src/` unless
they start otherwise. `PROJECT.json` has the machine-readable side: runs, mutants, the map
from definitions to source lines, findings, hazards and theorems.

## 1. The system

Three processes share a PostgreSQL database: the **API** and the **CLI** create connections and
trigger syncs; **Restate** accepts invocations, journals the steps of each, and delivers them to
the **worker**, which drives browsers and writes what it extracted.

| Component | State it keeps | Operations | Talks to | What makes it correct |
|---|---|---|---|---|
| Sync workflow, `worker/workflow.py` | Restate's journal and promise, `sync_jobs.status` | `run`, `provide_otp` | Restate, database, steps, limiter | the row says what the journal says; verdicts are backed and final; replay takes the recorded way; syncs end |
| Concurrency limiter, `worker/concurrency.py` | two layers of `asyncio.Semaphore` | enter, leave, be cancelled | tasks of the worker's event loop | limits hold, units are conserved, no sleeper beside a free unit, no starvation |
| Job creation and reconciliation, `services/operations.py`, `api/routes/syncs.py`, `worker/app.py`, `cli.py` | `sync_jobs` rows, the invocation in Restate | start a sync, mark a failed trigger, reconcile at start-up | API and CLI callers, Restate, worker | one sync of a connection at a time; failure reasons are true; no connection blocked for good |
| Step extract_all, `worker/steps.py`, `db/models.py` | accounts, transactions, balances, result rows, counters | persist accounts, batch, step row | browser session, database | counters match the ledger; retries add nothing twice; the summary equals the rows |
| Browser session, `bank_adapters/`, `agent/extractor.py` | account loop, page loop, what the browser shows, LLM budget | discover, navigate, read pages, balance, go back | the bank, the LLM | one result per account, its own history without gaps, bounded LLM calls, no hang |
| Transaction identity, `bank_adapters/heritage_bank/parsers.py` | `external_id`, the ledger | derive an id, insert unless there | the bank's list, which moves | nothing lost, nothing twice |
| Login and finalise steps, `worker/steps.py` | browser, the code in hand, job status | log in, finalise | bank, LLM, database | the right code is used; success means a session; a verdict is written once |
| Connections API, `api/routes/connections.py`, `db/queries.py`, `core/urls.py` | connections and everything under them | find or create, delete | database | one per bank, complete deletion, tenant scoping |
| LLM clients and functions, `agent/llm.py`, `agent/extractor.py` | none but the budget | ask, read the answer | the LLM | an answer in another form fails loudly or costs no truth |
| Read endpoints, keys, crypto, logging, metrics, screenshots, schema, deployment | none, or written only | | | |

The behaviours that are hard: a closure's effect is committed before Restate has its result, so
that every closure may run again; handler code between two calls is replayed at a later time;
callers may die or lose a reply between two systems that share no transaction; tasks are
cancelled inside two nested waits; the bank's list moves while it is read; several workers and
callers write the same row without looking.

## 2. Modules

| Module | Models | Correspondence |
|---|---|---|
| `JobLifecycle` | what readers of `sync_jobs.status` rely on (abstract) | `status` moves along `Moves`: those of the workflow (`WorkflowMoves`), the failure of a job whose workflow was not started (`TriggerMoves`), and deletion; `WorkflowSpec` is the workflow's part in it |
| `SyncWorkflow` | `workflow.py` for one job, with Restate, the OTP client, the clock and deletion | `pc` is the call the handler makes next or the local code it is in; `journal`, `tail`, `pos` are the journal, the state of its last entry, and how far the attempt has consumed it. One action per call's effect (`MarkRunning`, `StepLogin`, `StepExtractAll`, `StepFinalise`, ...), one per piece of local code (`EnterSlot`, `CheckAfterLogin`, `Verdict`, `Return`), one per thing Restate does (`BeginAttempt`, `Replay`, `Issue`, `Complete`, `Mismatch`, `ClosureRaises`, `Suspend`, `Resume`) |
| `SyncPool` | what the limiter promises (abstract): a bounded set of browsers, bounded for each bank | `browsers` is who is inside `acquire_sync_slot` |
| `SyncSlots` | `concurrency.py` and the semaphore it uses | `value`, `waiters` are the fields of `asyncio.Semaphore`, `ready` the resolved futures in the order the event loop will run them; a step runs from one real wait to the next, so `Ask`, `ResumeGlobal` may take both semaphores at once |
| `SyncJobs` | the life of job rows around callers, Restate and worker restarts | one action per database transaction or HTTP call: `StartSync` (read and check), `InsertJob`, `SendRun`, `MarkTriggerFailed`; `ReconcileRead` and `ReconcileWrite` are the two halves of one session, at read committed; `FlowStarts` ... are the moves `SyncWorkflow` makes. `cli`, `unseen`, `lost` and `late` record what the callers could not know; but for the choice between API and CLI no step depends on them |
| `LoginStep` | a sync from its request to the end of `step_login` | `start_sync`'s and the CLI's look at the row, the row that other requests rewrite, the choice of the code into `otp`, the pages of the bank, `detected` as `is_otp_required` takes it, the browser that every attempt opens and closes |
| `Extractor` | what the functions of `extractor.py`, with their callers, make of an LLM answer | an answer is a form and a body; `Outcome` is found, partial, the function's default, or an exception, for each goal |
| `Extraction` | the browser session: account loop, page loops, timeout, ways back, LLM budget, attempts | one action per await of `extract_all`; `trail` is the browser's history, whose last entry (`view`) is what it shows and decides whose rows a reading gets; `Found` is "by selector, or ask the LLM", `Answered`, `Ask` and `OverBudget` are `_ask`; `Hang` may strike at any await, and only `AccountTimeout` is a timeout |
| `ExtractStep` | the three transactions of `step_extract_all` with the schema's constraints, several jobs at once | `Scrape`, `PersistAccounts`, `PersistBatch`, `Finish`; `Scrapes` are readings of any set of accounts; `Conflict` is UNIQUE(job, account) or a missing parent row; `listed` is what `len(account_ids)` counts where the dashboard repeats a number (`Repeats`); `Refused` and `Fault` end an attempt |
| `ExtractOnce` | what the workflow relies on of the step extract_all (abstract): the result of an account is stored once for a job, all that an attempt stores at one time, and the answer's verdict is that of what this attempt stored | `stored` is the result of each account, `latest` what the attempt stored, `told` the verdict of what the step returned; `Forget` is an answer lost with its worker |
| `TransactionIds` | `external_id` over repeated syncs of a list that grows at its head | `ExternalId` keeps what the hash depends on: text, row, page |
| `BankUrls` | `normalize_url` and `bank_slug_from_url` | a URL is a record of what the two tell apart |
| `Connections` | find-or-create, create, delete, and what syncs write below a connection | one action per SELECT and per commit; `rows` is, for each connection, the tables that have rows of it; a deletion loads table by table (`LoadOrder`) and deletes at the flush what it loaded, under the foreign keys (`Parents`) |
| `SyncWorkflowProofs`, `SyncJobsProofs`, `LoginStepProofs`, `ConnectionsProofs`, `ExtractStepProofs`, `ExtractionProofs`, `TransactionIdsProofs`, `SyncSlotsProofs` | theorems about these modules | section 5 |
| `MC*` | instances for TLC, and the sentences of the repository that TLC refutes | |

How they compose. `SyncWorkflow` has `slot` as a local step that takes as long as it takes:
`SyncSlots` (`EveryoneServed`) says that it ends, and that it is the pool of `SyncPool`
(`ImplementsPool`, the pool instantiated with the syncs inside). It has `StepLogin` as success or
failure: `LoginStep` opens it up, together with the check of the code that `StartSync` of `SyncJobs`
stands for. It has `StepExtractAll` as one commit (`batch`): `ExtractStep` opens it up, and shows
that the batch is all or nothing (`CountersMatchLedger`, `OneBalancePerSuccess`) and that a second
one is refused where it lists an account again (`Conflict`). Attempts need not list the same
accounts, so that after a lost answer a second batch may pass as well as be refused: `MayClash` of
`SyncWorkflow`. What the workflow may take for granted is `ExtractOnce`, which `ExtractStep`
implements (`ImplementsContract`). `ExtractStep` takes what the browser read as any `Scrapes`:
`Extraction` says more of them (`OneResultEach`, `HistoryIsFaithful`), and `Extractor`, which it and
`LoginStep` extend, what an answer of the LLM is taken for.
`SyncWorkflow`, `SyncJobs` and `ExtractStep` have the deletion of a connection as one event:
`Connections` opens it up, and shows when it is one (`AnswersAreTrue`). `SyncJobs` reduces the
workflow to the moves of the row. `SyncWorkflow` refines the workflow's part of `JobLifecycle`
(`Lifecycle`); that caller, reconciliation and workflow together keep to its `Moves`, and where not,
is `RowsLiveTheirLives` of `SyncJobs`. External code
(Restate, asyncio's semaphore, PostgreSQL, the bank's pages, the LLM) is modelled by what the code
in `src/` uses of it and is marked external in each header and in the map.

Assumptions about Restate, on which the workflow's results rest: a closure that raises is
retried without bound (`ctx.run` is called without a retry policy and no step raises
`TerminalError`), so the `except` clause of `run()` sees local errors only; a replayed call is
matched with its journal entry by name; a superseded attempt writes nothing more.

## 3. Runs

Passing runs:

| Run | Asks | Bounds, and why they are enough |
|---|---|---|
| `workflow` | Are row, journal and verdict in step under crashes, retries, a passing deadline and deletion (`StatusFollowsJournal`, `VerdictIsBacked`, `Lifecycle`, `LateMeansNoBrowser`, `FirstCodeCounts`)? Does replay take the recorded way until the deadline has passed (`ReplayMatches`), and does every sync end unless a named cause keeps it (`EndsUnlessBlocked`)? | two faults: one can hit the retry of the other; a clock of 3 with a limit of 1: the deadline passes before, between and after the two checks; a right and a wrong code; both modes; a bank that is fine, refuses, or shows no accounts |
| `slots` | Is the limiter the pool it promises to be, are units conserved, lines kept, and everybody served? (`ImplementsPool`, `NoUnitLost`, `NoLostWakeUp`, `NoOvertaking`, `EveryoneServed`) | five syncs, three of one bank, three slots, two per bank: both semaphores have waiters at the same time; any task may be cancelled at any wait, and may come again |
| `jobs` | What stays true whatever overlaps or is lost (`RowsTrackFlows`, `PendingEnds`), and what has to have happened before two syncs of a connection are under way together, a failure reason is false, or a verdict is replaced (`TwoSyncsHaveACause`, `FalseFailuresHaveACause`, `RowsLiveTheirLives`)? | two requests, each from the API or the CLI: the properties speak of one job or of a pair; unbounded worker restarts; callers and workers may die at any point, replies be lost, invocations wait until their row is stale |
| `extract_rows` | Do counters, ledger, balances, results and summary agree, does a deleted connection stay deleted (`CountersMatchLedger` and others), and is each result stored once and the answer that of what was stored (`ImplementsContract`)? | two jobs, two accounts, two transaction ids that the jobs share, attempts that list any of the accounts, so that a retry may list the same, others, or some of each; a dashboard that may repeat a number, one fault, deletion; symmetric in jobs and transactions |
| `session` | Is a session complete, does an account get its own history without a gap and a balance that was read, is every account looked for from the dashboard, are LLM calls within the budget, and does it end unless the page hangs where nothing gives it up? | both adapters; links home that are found or not; two accounts of one page or of three under a cap of two, so that the cap, the end of the history and what is left in the browser's history all occur; a budget of 8 that runs out in the second account, after a login that used up its own; two attempts; answers in every form; a page that hangs at any await, and after the timeout goes on hanging or not |
| `login` | Is a sync that was given a code never without one, its own code never replaced, a login that returns a session, and does it return? (`AcceptedSyncHasCode`, `OwnCodeIsUsed`, `SuccessMeansSession`, `LoginEnds`) | two codes, a bank that may take a code once, one rewrite of the connection at any moment, two faults (lost attempts, untrue answers): a code can be spent in an attempt that is lost, and a stored code change in between |
| `ids_ledger` | Does the id lose nothing, and is an undisturbed re-sync a no-op? | two texts, so that equal rows occur; up to four rows on pages of two; three syncs; the page cap is out of play |
| `connections` | Has a user one connection for a bank, is what a request was told true, and does nobody touch or learn of another's rows? (`OnePerBank`, `AnswersAreTrue`, `OwnRowsOnly`) | two users, two requests at a time, two spellings for each of two banks, two connections of which one is synced: two creations can overlap, a deletion can meet a sync, a creation or another deletion between any two of its statements |

`CHECK_DEADLOCK FALSE` stands where the system stops: an invocation ended, a bound was reached. In
`slots` deadlock is checked: a sync that left may come again.

Every constant whose comment begins with "bound:" bounds the model and not the program (`MaxNow`,
`MaxFaults`, `MaxAttempts`, `MaxPosted`, `MaxSyncs`, `MaxRewrites`, `MaxIds`, `Synced`); the others
are settings or parameters of the environment. Where a module's types are proved for every value of
its constants the run does not check them again.

Runs that TLC refutes, each a sentence of the repository the code does not keep:

| Run | Sentence | What happens |
|---|---|---|
| `workflow_deadline_replay` | the deadline check "cannot interfere with Restate's journal replay" (`worker/workflow.py:127`) | it reads the wall clock in replayed code: after a crash, and past the limit, the replay asks for `mark_failed` where the journal has `login` |
| `workflow_crash_in_extract` | "replay resumes from the last completed step" (`worker/workflow.py:9`) | the batch is committed, the step is not journaled; each retry that lists one of its accounts inserts the same `(job_id, account_id)` row and is refused |
| `session_hang` | "prevents a hung bank page from holding semaphore slots" (`bank_adapters/base.py:147`) | the timeout gives the account up, and the session goes on with the same page: `navigate_to_dashboard` is outside `wait_for`, and `count()` has no timeout |
| `ids_duplicates` | "No duplicate transactions" (`src/README.md:128`) | the id contains the row's place, and a new posting moves every older row |

Behaviours the models show without a run of their own:

- Two requests for one connection can both pass the check "Reject if a sync is already in progress"
  (`api/routes/syncs.py:32`): check and insert are two transactions, and the CLI does not check
  (`unseen`). A reply of Restate that is lost fails a job whose workflow then sets it running again
  (`lost`), although `worker/workflow.py:18` says "workflow never started". An invocation that waited
  more than five minutes is declared "never started" by the worker that then runs it (`late`;
  `services/operations.py:139`). `TwoSyncsHaveACause`, `FalseFailuresHaveACause` and
  `RowsLiveTheirLives` name these three causes, and say that there is no other.
- `is_otp_required` makes the same False of a login that failed and of one that is through
  (`bank_adapters/heritage_bank/adapter.py:128`): the login step of a refused password returns
  success, although `detect_post_login_state` fails "explicitly rather than optimistically"
  (`agent/extractor.py:230`). `SuccessMeansSession` names it.
- The counter of LLM calls is a context variable, and each `ctx.run` closure is a task with a context
  of its own: what the login asks is not in the counter of the extraction, and the two together
  exceed what `agent/extractor.py:177` calls "calls per sync" (`asked`, `BudgetIsKept`).
- A step that raises is retried for ever and leaves its job `running`, although the contract in
  `worker/workflow.py:21` says `failed` (`Blocked` in `EndsUnlessBlocked`). So it is where the bank
  refused the password or the code: the login returns, and the extraction finds no account each
  time. So is a login that has no code (`Stuck` in `LoginEnds`): an empty code passes
  `start_sync`'s check, and a connection in webhook mode has none where the request is static. The
  wait for a code counts against the limit.
- Two creations at a time make two connections of one bank (`overlapped` in `OnePerBank`); outside
  the heritage bank a default port that is written out makes another one. A deletion that meets a
  running sync may fail with 500, and has then deleted nothing.
- An answer of the LLM that parses and is not what was asked for stands for an empty history, the
  end of the pages or a balance of 0 (`worst` in `HistoryIsFaithful`). A history longer than the cap
  is reported as extracted. Where no link home is found, and in the generic adapter always, the
  session goes back one entry of the browser's history: after an account that took several, or that
  was given up, it looks for the next one on the last one's pages (`Strayed` in
  `StartsFromDashboard`).
- The retry of a step whose batch was committed and whose answer was lost is refused where it lists
  an account again. Where it lists others it commits a second batch: the job's rows are then those of
  both, `accounts_synced` and the verdict those of the second (`ReturnMatchesRows` says `told =
  RowsOf(j)` only while nothing was lost).
- Each attempt of a step has the whole LLM budget again (`BudgetIsKept` counts attempts); accounts
  extracted before a crash inside a session are lost with it. The model leaves the login's own
  attempts out: `LoginCalls` is what the one that returned asked.
- A page that hangs in `get_accounts` or in the search for the link home is waited for as long as it
  hangs (`Stuck` in `SessionEnds`).
- An exception with an empty text (a bare timeout of a client) is stored as the success of an account
  without transactions and with a balance of 0: `steps.py:209` asks for the text
  (`HistoryIsFaithful`, the case of balance `"none"`).

Each property of a passing run has a mutant in `PROJECT.json`: a plausible mistake in the mapped
code (a missing `except BaseException`, a misspelt status, a counter that is not patched) under
which TLC refutes it. Mutant definitions stand right before the definitions they replace.

## 4. Fairness

- `SyncWorkflow!FairSpec`: weak fairness of `Handler` (Restate retries an invocation until it ends;
  `src/README.md` relies on it for spot interruptions) and of `AnswerOtp` (somebody sends a code in
  the end). Nothing is assumed of the clock, of crashes, faults and deletion.
- `SyncSlots!FairSpec`: the event loop resumes its next ready task; a browser section ends.
  Nobody has to ask or to be cancelled. That sections end is an assumption of the limiter: the
  timeouts of page operations and of `extract_account` give most of it, and `Stuck` of `Extraction`
  is where they do not, and where a page that hangs for good keeps a unit for good.
- `SyncJobs!FairSpec`: a living caller goes on, time passes, the worker is replaced now and then
  and comes back (deployments, spot instances): reconciliation happens only at start-up, so without
  this an orphan stays. Strong fairness of the two halves of reconciliation, because the worker goes
  down in between. Nothing is assumed of workflows: one that started may be retried for ever, so that
  its row stays active and its connection goes on answering 409; `PendingEnds` is about jobs that
  wait for their start.
- `LoginStep!FairSpec`: weak fairness of `Work`: Restate retries the login, and an attempt goes on by
  success or exception. Nobody has to send a code, nor to stop rewriting the connection.
- `Extraction!FairSpec`: a session goes on by success, exception or timeout where it can, which in
  `Stuck` it cannot. No fairness for `Retry`, nor for a hung page to answer again.

## 5. Proofs

The only assumptions are the named ones on the constants (`ConstantsAssumption`,
`LoginConstants`, `ExtractConstants`, ...), which every run evaluates.

`SyncWorkflowProofs` proves, for every set of codes, limit, clock bound and number of faults:

| Theorem | States |
|---|---|
| `TypeCorrect` | `Spec => []TypeOK` |
| `StatusInStep` | `Spec => []StatusFollowsJournal` |
| `VerdictsAreBacked` | `Spec => []VerdictIsBacked` |
| `ImplementsLifecycle` | `Spec => Lifecycle`, the refinement of `JobLifecycle`'s `WorkflowSpec` |
| `ReplayInTime` | `Spec => []ReplayMatches` |
| `LateNeverLogsIn` | `Spec => LateMeansNoBrowser` |
| `WrongCodeGetsNothing` | `Spec => FirstCodeCounts` |

The argument: the handler is deterministic up to its deadline checks, so each call but `mark_failed`
has one place in the journal (`Place`). `TypeOK` alone is not inductive, as `Crash` shortens the
journal: it needs `TailShape` (an unfinished entry exists and is the last). `JournalShape` and
`PcShape` tie journal and attempt to the places (`ShapeInv`, lemma `ShapeStep`).
`StatusFollowsJournal` and `VerdictIsBacked` are not inductive either: a closure that has run and is
not journaled is known only to `tail` and `pc`, and what the caught exception means is known only
where it was raised; `ResultShape`, `RowShape` and `OutcomeShape` say so, and with them the row is
inductive (`RowInv`, lemma `RowStep`, one case for each action). `Inv == ShapeInv /\ RowInv` holds
in every reachable state (`InvHolds`); the two safety theorems are projections of it. The refinement
uses `Inv` to see that a status that changes makes one of `WorkflowMoves`: retried closures write
what is there already. `ReplayInTime` adds `OneFailure`: as long as the deadline has not passed,
`mark_failed` stands only behind results that all failed.

The last two say that something is settled for good, and each has a part that every step keeps.
`TooLate` (the start time is journaled, the limit has passed, and the login is neither journaled nor
next) is kept because a completed `record_start_time` never runs again (`StartIsKept`), time does
not go back, and the only way to the login leads through the check; a login is called only where
`TooLate` does not hold. `OtpShape` ties the code in the journal to the one the promise was resolved
with, which no later code replaces, and an extraction that got through to a code the bank takes.

`SyncSlotsProofs` proves, for any finite set of syncs, any banks and capacities:

| Theorem | States |
|---|---|
| `TypeCorrect` | `Spec => []TypeOK` |
| `UnitsAreKept` | `Spec => []NoUnitLost` |
| `WakeUpsArrive` | `Spec => []NoLostWakeUp` |
| `LinesAreFair` | `Spec => NoOvertaking` |
| `TwoSemaphoresArePool` | `Spec => ImplementsPool`, the refinement of `SyncPool` |

None of them is inductive, because a unit on its way to a sync that was woken is in no counter.
`IInv` keeps the `Books` of each semaphore: the syncs of its line that are awake are the first ones,
and will run in the line's order (`Lined`); free units, syncs beyond the semaphore and syncs awake
in its line add up to its capacity; and where a unit is free and somebody waits, somebody of the
line is awake. `FreedBooks` and `LeftBooks` say what a release, and a sync that leaves its line, do
to the books: one that resumes, one cancelled in its sleep, and one cancelled with a unit on its way
to it.

`SyncJobsProofs` proves, for any number of requests:

| Theorem | States |
|---|---|
| `TypeCorrect`, `RowsTruthful` | `Spec => []TypeOK`, `Spec => []RowsTrackFlows` |
| `OneAtATime` | `Spec => []TwoSyncsHaveACause` |
| `FailuresAreTrue` | `Spec => []FalseFailuresHaveACause` |
| `RowsLive` | `Spec => RowsLiveTheirLives` |

All hold in every behaviour, whatever overlaps or is lost. `RowsTrackFlows` needs that a job whose
caller has not called Restate has no invocation (`TrackInv`). The other three rest on four more parts
(`CauseInv`): what the caller's place says of its job (`CallerInv`), that a row found by
reconciliation either has a late invocation or has none and never gets one (`StaleInv`), that a
verdict stands for a workflow that ended or never started unless its job is one of the odd ones
(`VerdictInv`), and that of two requests that may get under way one missed the other (`PairInv`):
whoever looked second would have seen the first and stopped, had the first not been between its check
and its insert, or the second come from the CLI.

`LoginStepProofs` proves, for any codes, client and number of rewrites and faults, `TypeCorrect`
(`TypeOK`, with the browser open exactly within an attempt), `AcceptedSyncsHaveCode`
(`AcceptedSyncHasCode`), `OwnCodesAreUsed` (`OwnCodeIsUsed`) and `SuccessIsSession`
(`SuccessMeansSession`). The step that could break one of them reads the local variable `otp`, set
attempts earlier from rows that may have changed since: `IInv` ties it to the sync and its code
(`Begun`), says what the check at the request still means while nobody rewrites the row
(`Checked`), and gives what the bank shows its reason (`Reason`).

`ConnectionsProofs` proves, for any users, URLs and number of requests, `TypeCorrect`, `OneEach`
(`OnePerBank`), `TrueAnswers` (`AnswersAreTrue`) and `Tenancy` (`OwnRowsOnly`). What a request
answers rests on what it read many statements before: `Known` holds of a request whatever happens,
`Current` and `Free` unless somebody wrote to its connection since, and `Whole` says that the rows
are closed under the foreign keys, so that a deletion of what was loaded is refused exactly when
something came in between. `OneEach` also needs what `Normalized` and `Slug` make of two spellings.

`ExtractStepProofs` proves, for any number of jobs and accounts and any finite set of transactions,
`TypeCorrect`, `CountersTrue` (`CountersMatchLedger`), `OneBalanceEach` (`OneBalancePerSuccess`),
`ReturnsMatchRows` (`ReturnMatchesRows`), `CountedExist` (`CountedAccountsExist`), `ResultsStored`
(`ResultsAreStored`), `DeletedGone` (`DeletedStaysGone`) and `StepKeepsContract`
(`ImplementsContract`, the refinement of `ExtractOnce`), with attempts that list any accounts. `Once`
says that a job has one result for an account. `JobOK` says what each stage of an attempt may rely
on: past the batch, that the job's rows for the accounts that it listed are what it read (`RowsAre`),
whatever other rows an attempt before it left. That a ledger is finite, without which nothing can be
counted, is `LedgerFinite`. In the refinement a batch stores results where there were none
(`BatchStores`), an attempt that ends forgets its own and not the rows (`AttemptForgets`), and what
is returned was counted from the rows of the attempt (`RowsAgree`), so that its verdict is theirs
(`FinishTells`): that counting the failed accounts and comparing the sets comes to the same is
`VerdictsAgree`.

`ExtractionProofs` proves, for any number of accounts, pages, calls and attempts, `TypeCorrect`,
`ResultsComplete` (`OneResultEach`), `HistoriesFaithful` (`HistoryIsFaithful`), `StartsAtDashboard`
(`StartsFromDashboard`) and `BudgetKept` (`BudgetIsKept`). `InStep` keeps the loop, what was read
and what the browser shows in step as long as no answer about the account was odd; `Shown` says that
the browser never was ahead of the loop, in any entry of its history (`Been`), odd answers or
not. The way back has two ends: where a link last led home (`homed`) the browser was at the
dashboard, and since then every account was `Tidy`, so that the entry before the one it shows is the
dashboard (`OneBack`), which is where `page.go_back` leads; `OnWay` carries this from the dashboard
through an account and back. The lemma `ExactIsFound` is where `Extractor` comes in: an answer as
asked for is never taken for a default, and one in a code block or in prose only by
`check_has_next_page`. For the budget, `Funded` bounds what was asked by what the login and each
attempt may ask, and says, where the LLM does all the looking, that what the accounts behind have
cost (`Paid`) and what the current one must have cost to be where it is (`Taken`) was asked in this
attempt (`Used`).

`TransactionIdsProofs` proves, for any texts, page size and numbers of postings and syncs,
`TypeCorrect`, `RowsAreKept` (`NothingLost`) and `RepeatAddsNothing` (`SyncIsIdempotent`). Counting
is done by matchings: `Kept` gives every row that has come into the pages read so far an id of its
own, and a page extends the matching by the rows it shows (`PageMatches`), because postings only
move rows to pages that are still to come. `Unmoved` and `IdsOf` say which ids an unmoved list has
given so far.

Only model-checked: the liveness properties `EndsUnlessBlocked`, `EveryoneServed`,
`PendingEnds`, `LoginEnds` and `SessionEnds`. They rest on fairness, hence on ENABLED, which
the prover does not handle.

## 6. Not modelled

- Parsing of amounts and dates (`parse_money`, `parse_date`): work on one string without state.
- API keys and the endpoints and commands that only read; where the user scopes a change it is in
  `Connections`.
- Prompts and DOM summaries, stealth settings and mouse paths, the file store of screenshots,
  logging, metrics, encryption: written or called, and nothing read back decides anything.
- Migrations and deployment: DDL run once before the program, and a declaration of resources. The
  constraints the DDL makes are modelled where statements run into them.
- What the models leave coarse: a flush of a session is one commit (nobody sees its statements
  apart at read committed, but for locks: two sessions that wait for each other's rows are not
  modelled); a connection has at most one row in each table of `Connections`; ids that the LLM
  gives are ids of the accounts in `ExtractStep`, in any selection, and an account that it names
  anew in every attempt is one more account there; a selector finds its element or not, by choice,
  and the bank's link home, where it is found, leads to the dashboard; a session that the bank
  ends between login and extraction is a bank that shows no accounts.

## 7. Plan

1. The workflow's side of `ExtractOnce`: that the `batch` of `SyncWorkflow` is its `stored` and the
   journaled answer its `told`.
2. The safety half of the liveness properties: that outside `Blocked` and `Stuck` every state that is
   not final has a next step that brings it closer to an end, as a measure over places.
3. Lock order between a deletion and the batches of a sync, if the statements are ever split over
   several flushes.
