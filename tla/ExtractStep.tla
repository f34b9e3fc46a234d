---------------------------- MODULE ExtractStep ----------------------------
(***************************************************************************)
(* The step extract_all (worker/steps.py) and the rows it leaves in the    *)
(* database: three transactions (accounts, the batch, the step row) after  *)
(* one browser session, for several jobs of one connection at once, with   *)
(* retries by the workflow and the deletion of the connection.             *)
(*                                                                         *)
(* External, modelled by what the statements rely on: PostgreSQL, where a  *)
(* session commits all its statements or none, UNIQUE(account, external    *)
(* id) and UNIQUE(job, account) hold, ON CONFLICT DO NOTHING skips rows    *)
(* that are there, and a row needs the rows it refers to.                  *)
(***************************************************************************)
EXTENDS Integers, FiniteSets

CONSTANTS
    Jobs,         \* sync jobs of the connection
    NumAccounts,  \* accounts of the customer at the bank
    Txns,         \* external ids of transactions, in every account
    MaxFaults,    \* bound: crashes and transient failures
    Deletable     \* whether the user may delete the connection

ASSUME ExtractConstants ==
    /\ NumAccounts \in Nat
    /\ IsFiniteSet(Txns)
    /\ MaxFaults \in Nat
    /\ Deletable \in BOOLEAN

Accounts == 1..NumAccounts

VARIABLES
    conn,      \* the connection, and with it the job rows, exist
    accounts,  \* rows of accounts
    ledger,    \* rows of transactions, with the job that inserted them
    balances,  \* rows of balances: how many each job captured of each account
    results,   \* rows of account_sync_results
    synced,    \* accounts_synced and transactions_synced of each job
    stage,     \* of each job's attempt
    scrape,    \* what it read in the browser, by account
    listed,    \* rows of the dashboard it read it from
    returned,  \* what the step returned to the workflow
    faults     \* so far

dbVars == <<accounts, ledger, balances, results, synced>>
vars == <<conn, dbVars, stage, scrape, listed, returned, faults>>

\* An account's extraction failed, or gave the transactions it shows.
Readings == [ok : {FALSE}, txns : {{}}] \cup [ok : {TRUE}, txns : SUBSET Txns]

\* The accounts an attempt lists are any: the lists of all adapters drop entries
\* without an id, wherever they stand, and the LLM answers what it answers.
Scrapes == UNION {[S -> Readings] : S \in SUBSET Accounts}

NoScrape == [a \in {} |-> 0]
NotReturned == [found |-> 0, errors |-> 0]

Init ==
    /\ conn = TRUE
    /\ accounts = {} /\ ledger = {} /\ results = {}
    /\ balances = [j \in Jobs |-> [a \in Accounts |-> 0]]
    /\ synced = [j \in Jobs |-> [accounts |-> 0, txns |-> 0]]
    /\ stage = [j \in Jobs |-> "idle"]
    /\ scrape = [j \in Jobs |-> NoScrape]
    /\ listed = [j \in Jobs |-> 0]
    /\ returned = [j \in Jobs |-> NotReturned]
    /\ faults = 0

Seen(j) == DOMAIN scrape[j]
Good(j) == {a \in Seen(j) : scrape[j][a].ok}
Errors(j) == Cardinality(Seen(j) \ Good(j))

Known(a, t) == \E row \in ledger : row.account = a /\ row.txn = t

\* The transactions of account a that the batch of job j inserts.
Fresh(j, a) == {t \in scrape[j][a].txns : ~Known(a, t)}

\* RETURNING of the transaction inserts.
Inserts(j) == UNION {{[account |-> a, txn |-> t] : t \in Fresh(j, a)} : a \in Good(j)}

\* Mutant of ResultRow: `transactions_inserted` is left at what was found.
ResultRowUnpatched(j, a) ==
    [job |-> j, account |-> a, ok |-> scrape[j][a].ok,
     inserted |-> Cardinality(scrape[j][a].txns)]

ResultRow(j, a) ==
    [job |-> j, account |-> a, ok |-> scrape[j][a].ok,
     inserted |-> IF scrape[j][a].ok THEN Cardinality(Fresh(j, a)) ELSE 0]

HasResult(j, a) == \E row \in results : row.job = j /\ row.account = a

-----------------------------------------------------------------------------
\* The attempt is over, with an exception or with its process.
AttemptEnds(j) ==
    /\ stage' = [stage EXCEPT ![j] = "idle"]
    /\ scrape' = [scrape EXCEPT ![j] = NoScrape]
    /\ listed' = [listed EXCEPT ![j] = 0]
    /\ UNCHANGED <<conn, dbVars, returned>>

\* The browser session.  Without accounts the step raises.  A dashboard may have
\* two rows for an account.
Scrape(j) ==
    /\ stage[j] = "idle"
    /\ \E reading \in Scrapes :
        /\ reading # NoScrape
        /\ scrape' = [scrape EXCEPT ![j] = reading]
        /\ \E repeated \in 0..1 :
             listed' = [listed EXCEPT ![j] = Cardinality(DOMAIN reading) + repeated]
    /\ stage' = [stage EXCEPT ![j] = "scraped"]
    /\ UNCHANGED <<conn, dbVars, returned, faults>>

\* The upsert would touch a row twice, which PostgreSQL refuses.
Repeats(j) == listed[j] # Cardinality(Seen(j))

\* What _persist_accounts writes, in one transaction.
Persisted(j, stored, count) ==
    /\ stage[j] = "scraped"
    /\ conn
    /\ accounts' = accounts \cup stored
    /\ synced' = [synced EXCEPT ![j].accounts = count]
    /\ stage' = [stage EXCEPT ![j] = "persisted"]
    /\ UNCHANGED <<conn, ledger, balances, results, scrape, listed, returned, faults>>

\* Mutants of PersistAccounts: accounts that failed are left out; the upsert lets
\* a second row of an account pass.
PersistAccountsGoodOnly(j) == ~Repeats(j) /\ Persisted(j, Good(j), listed[j])
PersistAccountsRepeated(j) == Persisted(j, Seen(j), listed[j])

\* _persist_accounts: upsert, and the job's counter.
PersistAccounts(j) == ~Repeats(j) /\ Persisted(j, Seen(j), listed[j])

\* Mutants of Conflict: no UNIQUE(job, account); rows without their parents.
NoConflict(j) == ~conn
ConflictByResults(j) == \E a \in Seen(j) : HasResult(j, a)

\* The batch meets a result row of this job, or rows it refers to are gone.
Conflict(j) == ~conn \/ \E a \in Seen(j) : HasResult(j, a)

\* The batch transaction: transactions, counter, balances and results.
PersistBatch(j) ==
    /\ stage[j] = "persisted"
    /\ ~Conflict(j)
    /\ ledger' = ledger \cup {[account |-> row.account, txn |-> row.txn, job |-> j] :
                                row \in Inserts(j)}
    /\ synced' = [synced EXCEPT ![j].txns = @ + Cardinality(Inserts(j))]
    /\ balances' = [balances EXCEPT ![j] =
                        [a \in Accounts |-> IF a \in Good(j) THEN @[a] + 1 ELSE @[a]]]
    /\ results' = results \cup {ResultRow(j, a) : a \in Seen(j)}
    /\ stage' = [stage EXCEPT ![j] = "batched"]
    /\ UNCHANGED <<conn, accounts, scrape, listed, returned, faults>>

\* Mutant of Finish: the step returns the accounts that went well.
FinishGoodOnly(j) ==
    /\ stage[j] = "batched"
    /\ conn
    /\ stage' = [stage EXCEPT ![j] = "returned"]
    /\ returned' = [returned EXCEPT ![j] =
                        [found |-> Cardinality(Good(j)), errors |-> Errors(j)]]
    /\ UNCHANGED <<conn, dbVars, scrape, listed, faults>>

\* The step row, and the result for the workflow.
Finish(j) ==
    /\ stage[j] = "batched"
    /\ conn
    /\ stage' = [stage EXCEPT ![j] = "returned"]
    /\ returned' = [returned EXCEPT ![j] =
                        [found |-> listed[j], errors |-> Errors(j)]]
    /\ UNCHANGED <<conn, dbVars, scrape, listed, faults>>

\* A statement is refused by the database.
Refused(j) ==
    /\ \/ stage[j] = "scraped" /\ (~conn \/ Repeats(j))
       \/ stage[j] = "persisted" /\ Conflict(j)
       \/ stage[j] = "batched" /\ ~conn
    /\ AttemptEnds(j)
    /\ UNCHANGED faults

\* The worker dies or a session fails before its commit; Restate retries.
Fault(j) ==
    /\ faults < MaxFaults
    /\ stage[j] \notin {"idle", "returned"}
    /\ faults' = faults + 1
    /\ AttemptEnds(j)

\* DELETE /connections/{id} deletes the rows one by one, children first.
DeleteConnection ==
    /\ Deletable /\ conn
    /\ conn' = FALSE
    /\ accounts' = {} /\ ledger' = {} /\ results' = {}
    /\ balances' = [j \in Jobs |-> [a \in Accounts |-> 0]]
    /\ synced' = [j \in Jobs |-> [accounts |-> 0, txns |-> 0]]
    /\ UNCHANGED <<stage, scrape, listed, returned, faults>>

Next == \/ \E j \in Jobs : Scrape(j) \/ PersistAccounts(j) \/ PersistBatch(j) \/ Finish(j)
                           \/ Refused(j) \/ Fault(j)
        \/ DeleteConnection

Spec == Init /\ [][Next]_vars
-----------------------------------------------------------------------------
(* Safety                                                                  *)

TypeOK ==
    /\ conn \in BOOLEAN
    /\ accounts \subseteq Accounts
    /\ ledger \subseteq [account : Accounts, txn : Txns, job : Jobs]
    /\ balances \in [Jobs -> [Accounts -> Nat]]
    /\ results \subseteq [job : Jobs, account : Accounts, ok : BOOLEAN, inserted : Nat]
    /\ synced \in [Jobs -> [accounts : 0..NumAccounts, txns : Nat]]
    /\ stage \in [Jobs -> {"idle", "scraped", "persisted", "batched", "returned"}]
    /\ scrape \in [Jobs -> Scrapes]
    /\ listed \in [Jobs -> 0..(NumAccounts + 1)]
    /\ returned \in [Jobs -> [found : 0..NumAccounts, errors : 0..NumAccounts]]
    /\ faults \in 0..MaxFaults

RowsOf(j) == {row \in results : row.job = j}

\* A job's transactions_synced is the number of ledger rows it inserted, and
\* transactions_inserted of each of its results the number of those of the
\* account, with none left over, whatever other jobs insert at the same time and
\* however often the step is retried.
CountersMatchLedger ==
    \A j \in Jobs :
        LET Inserted(a) == {row \in ledger : row.job = j /\ row.account = a}
        IN  /\ synced[j].txns = Cardinality({row \in ledger : row.job = j})
            /\ \A row \in RowsOf(j) : row.inserted = Cardinality(Inserted(row.account))
            /\ \A a \in Accounts : Inserted(a) # {} => HasResult(j, a)

\* A retry adds no second balance: each account has one snapshot for every
\* result row that reports success and none for the others.
OneBalancePerSuccess ==
    \A j \in Jobs, a \in Accounts :
        balances[j][a] = Cardinality({row \in RowsOf(j) : row.account = a /\ row.ok})

\* What the workflow is told, and draws its verdict from, is what the rows say of
\* the accounts that the attempt listed.  They are all rows of the job unless an
\* earlier attempt was lost after its batch and had listed other accounts.
ReturnMatchesRows ==
    \A j \in Jobs : conn /\ stage[j] = "returned" =>
        LET told == {row \in RowsOf(j) : row.account \in Seen(j)}
        IN  /\ returned[j].found = Cardinality(told)
            /\ returned[j].found = synced[j].accounts
            /\ returned[j].errors = Cardinality({row \in told : ~row.ok})
            /\ faults = 0 => told = RowsOf(j)

\* From its first transaction on, an attempt's accounts_synced is the number of
\* different accounts that it listed, and each of them has a row: none counts
\* twice, however often the dashboard lists it.
CountedAccountsExist ==
    \A j \in Jobs : conn /\ stage[j] \in {"persisted", "batched", "returned"} =>
        /\ synced[j].accounts = Cardinality(Seen(j))
        /\ Seen(j) \subseteq accounts

\* A result row stands for rows that are there: its account is persisted, and
\* a successful one has everything its page showed in the ledger.
ResultsAreStored ==
    /\ \A row \in results : row.account \in accounts
    /\ \A row \in ledger : row.account \in accounts
    /\ \A j \in Jobs : conn /\ stage[j] \in {"batched", "returned"} =>
            \A a \in Good(j) : \A t \in scrape[j][a].txns : Known(a, t)

\* No attempt that was under way brings rows of a deleted connection back.
DeletedStaysGone ==
    ~conn => accounts = {} /\ ledger = {} /\ results = {}
             /\ \A j \in Jobs, a \in Accounts : balances[j][a] = 0

\* What run() makes of a number of accounts and of errors among them.
Verdict(found, errors) == IF errors = 0 THEN "clean"
                          ELSE IF errors >= found THEN "all_failed" ELSE "some_failed"

Stored == [j \in Jobs |-> [a \in Accounts |->
              IF ~HasResult(j, a) THEN "nothing"
              ELSE IF \E row \in RowsOf(j) : row.account = a /\ row.ok THEN "ok" ELSE "failed"]]

Latest == [j \in Jobs |-> IF stage[j] \in {"batched", "returned"} THEN Seen(j) ELSE {}]

Told == [j \in Jobs |-> IF stage[j] # "returned" THEN "nothing"
                        ELSE Verdict(returned[j].found, returned[j].errors)]

\* Whatever is retried and whoever else writes, the result of an account is
\* stored once for a job and never changed while its connection exists, and the
\* verdict that the workflow acts on is that of what the attempt stored.
Contract == INSTANCE ExtractOnce WITH exists <- conn, stored <- Stored, latest <- Latest,
                                      told <- Told
ImplementsContract == Contract!Spec
=============================================================================
