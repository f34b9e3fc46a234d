------------------------- MODULE ExtractStepProofs -------------------------
(***************************************************************************)
(* Theorems about ExtractStep, for any number of jobs, accounts and        *)
(* transactions.                                                           *)
(*                                                                         *)
(* What a job returns and its rows are told apart by three transactions    *)
(* and any number of attempts: IInv says what each stage of an attempt may *)
(* rely on (JobOK), and that a job has at most one result for an account   *)
(* (Once) and no ledger row of an account without one (in                  *)
(* CountersMatchLedger), so that a second batch of the job adds rows for   *)
(* other accounts only, and nothing to what is counted already.            *)
(***************************************************************************)
EXTENDS ExtractStep, FiniteSetTheorems, TLAPS

Succeeded(j, a) == \E row \in results : row.job = j /\ row.account = a /\ row.ok

Once == \A r, q \in results : r.job = q.job /\ r.account = q.account => r = q

Balanced == \A j \in Jobs, a \in Accounts :
                balances[j][a] = IF Succeeded(j, a) THEN 1 ELSE 0

Foreign == /\ \A row \in results : row.account \in accounts
           /\ \A row \in ledger : row.account \in accounts

\* Job j has a row for each account that it saw, with its outcome.
RowsAre(j) ==
    /\ \A row \in results : row.job = j /\ row.account \in Seen(j) =>
            row.ok = scrape[j][row.account].ok
    /\ \A a \in Seen(j) : HasResult(j, a)

\* What the attempt of job j has done so far is there, and as long as nothing
\* was lost nothing else is.
JobOK(j) ==
    /\ stage[j] # "idle" => Seen(j) # {}
    /\ conn /\ stage[j] \in {"persisted", "batched", "returned"} =>
            /\ Seen(j) \subseteq accounts
            /\ synced[j].accounts = listed[j] /\ listed[j] = Cardinality(Seen(j))
    /\ conn /\ stage[j] \in {"batched", "returned"} =>
            RowsAre(j) /\ \A a \in Good(j) : \A t \in scrape[j][a].txns : Known(a, t)
    /\ conn /\ stage[j] = "returned" =>
            returned[j].found = listed[j] /\ returned[j].errors = Errors(j)
    /\ conn /\ faults = 0 => \A row \in results : row.job = j =>
            stage[j] \in {"batched", "returned"} /\ row.account \in Seen(j)

IInv == /\ TypeOK
        /\ Once /\ Balanced /\ Foreign
        /\ DeletedStaysGone /\ CountersMatchLedger
        /\ \A j \in Jobs : JobOK(j)

-----------------------------------------------------------------------------
(* Finite sets                                                             *)

LEMMA AccountsFinite == \A S \in SUBSET Accounts :
                            /\ IsFiniteSet(S) /\ Cardinality(S) \in 0..NumAccounts
                            /\ \A T \in SUBSET S : Cardinality(T) <= Cardinality(S)
  <1>1. IsFiniteSet(Accounts) /\ Cardinality(Accounts) = NumAccounts
    BY FS_Interval, ExtractConstants DEF Accounts
  <1> QED
    BY <1>1, FS_Subset, FS_CardinalityType, ExtractConstants

\* A scrape is of accounts.
LEMMA ScrapeFacts ==
  ASSUME NEW reading \in Scrapes
  PROVE  /\ DOMAIN reading \subseteq Accounts
         /\ reading # NoScrape => DOMAIN reading # {}
         /\ \A a \in DOMAIN reading : /\ reading[a].ok \in BOOLEAN
                                      /\ reading[a].txns \subseteq Txns
  <1>1. PICK S \in SUBSET Accounts : reading \in [S -> Readings]
    BY DEF Scrapes
  <1>2. \A x \in Readings : x.ok \in BOOLEAN /\ x.txns \subseteq Txns
    BY DEF Readings
  <1>3. S = {} => reading = NoScrape
    <2>1. S = {} => reading = [a \in S |-> reading[a]]
      BY <1>1
    <2> QED
      BY <2>1 DEF NoScrape
  <1> QED
    BY <1>1, <1>2, <1>3

LEMMA NoScrapeTyped == NoScrape \in Scrapes /\ DOMAIN NoScrape = {}
  <1>1. NoScrape \in [{} -> Readings] /\ {} \in SUBSET Accounts
    BY DEF NoScrape
  <1> QED
    BY <1>1 DEF Scrapes, NoScrape

\* The ledger rows of a job are finitely many.
LEMMA LedgerFinite ==
  ASSUME TypeOK, NEW j \in Jobs
  PROVE  IsFiniteSet({row \in ledger : row.job = j})
  <1> DEFINE Rows == {row \in ledger : row.job = j}
             Pairs == Accounts \X Txns
             f == [row \in Rows |-> <<row.account, row.txn>>]
  <1>1. IsFiniteSet(Pairs)
    BY AccountsFinite, ExtractConstants, FS_Product
  <1>2. ledger \subseteq [account : Accounts, txn : Txns, job : Jobs]
    BY DEF TypeOK
  <1>3. \A row \in Rows : row = [account |-> row.account, txn |-> row.txn, job |-> j]
    BY <1>2
  <1>4. f \in Injection(Rows, Pairs)
    <2>1. f \in [Rows -> Pairs]
      BY <1>2
    <2>2. ASSUME NEW r \in Rows, NEW q \in Rows, f[r] = f[q] PROVE r = q
      <3>1. r.account = q.account /\ r.txn = q.txn
        BY <2>2
      <3> QED
        BY <1>3, <3>1
    <2> QED
      BY <2>1, <2>2 DEF Injection, IsInjective
  <1> QED
    BY <1>1, <1>4, FS_Injection

\* The rows a batch inserts are finitely many.
LEMMA InsertsFinite ==
  ASSUME TypeOK, NEW j \in Jobs
  PROVE  IsFiniteSet(Inserts(j)) /\ Cardinality(Inserts(j)) \in Nat
  <1> DEFINE Pairs == Accounts \X Txns
             Rows == [account : Accounts, txn : Txns]
             f == [p \in Pairs |-> [account |-> p[1], txn |-> p[2]]]
  <1>1. IsFiniteSet(Accounts) /\ IsFiniteSet(Txns)
    BY AccountsFinite, ExtractConstants
  <1>2. IsFiniteSet(Pairs)
    BY <1>1, FS_Product
  <1>3. f \in Surjection(Pairs, Rows)
    <2>1. f \in [Pairs -> Rows]
      OBVIOUS
    <2>2. ASSUME NEW row \in Rows PROVE \E p \in Pairs : f[p] = row
      <3>1. <<row.account, row.txn>> \in Pairs
        OBVIOUS
      <3>2. f[<<row.account, row.txn>>] = row
        BY <3>1
      <3> QED
        BY <3>1, <3>2
    <2> QED
      BY <2>1, <2>2 DEF Surjection
  <1>4. IsFiniteSet(Rows)
    BY <1>2, <1>3, FS_Surjection
  <1>5. Inserts(j) \subseteq Rows
    <2>1. scrape[j] \in Scrapes
      BY DEF TypeOK
    <2> QED
      BY <2>1, ScrapeFacts DEF Inserts, Good, Seen, Fresh
  <1> QED
    BY <1>4, <1>5, FS_Subset, FS_CardinalityType

\* The accounts of a job's rows, counted.
LEMMA RowsCounted ==
  ASSUME NEW R, NEW S, IsFiniteSet(S), \A row \in R : row.account \in S,
         \A a \in S : \E row \in R : row.account = a,
         \A r, q \in R : r.account = q.account => r = q
  PROVE  IsFiniteSet(R) /\ Cardinality(R) = Cardinality(S)
  <1> DEFINE f == [row \in R |-> row.account]
  <1>1. f \in Injection(R, S) /\ f \in Surjection(R, S)
    BY DEF Injection, Surjection, IsInjective
  <1> QED
    BY <1>1, FS_Injection

\* A batch adds one ledger row for each transaction it inserts, and for each
\* account as many as were fresh.
LEMMA BatchRows ==
  ASSUME TypeOK, NEW j \in Jobs
  PROVE  LET txns == {[account |-> row.account, txn |-> row.txn, job |-> j] : row \in Inserts(j)}
         IN  /\ IsFiniteSet(txns) /\ Cardinality(txns) = Cardinality(Inserts(j))
             /\ \A a \in Good(j) : Cardinality({row \in txns : row.account = a})
                                      = Cardinality(Fresh(j, a))
             /\ \A row \in txns : row.job = j /\ row.account \in Good(j)
  <1> DEFINE txns == {[account |-> row.account, txn |-> row.txn, job |-> j] : row \in Inserts(j)}
  <1>1. \A row \in Inserts(j) : /\ row = [account |-> row.account, txn |-> row.txn]
                                /\ row.account \in Good(j)
                                /\ row.txn \in Fresh(j, row.account)
    BY DEF Inserts
  <1>2. \A a \in Good(j) : \A t \in Fresh(j, a) : [account |-> a, txn |-> t] \in Inserts(j)
    BY DEF Inserts
  <1>3. IsFiniteSet(txns) /\ Cardinality(txns) = Cardinality(Inserts(j))
    <2> DEFINE f == [row \in Inserts(j) |->
                       [account |-> row.account, txn |-> row.txn, job |-> j]]
    <2>1. f \in [Inserts(j) -> txns] /\ \A y \in txns : \E row \in Inserts(j) : f[row] = y
      OBVIOUS
    <2>2. ASSUME NEW r \in Inserts(j), NEW q \in Inserts(j), f[r] = f[q] PROVE r = q
      <3>1. f[r].account = r.account /\ f[r].txn = r.txn /\ f[q].account = q.account /\ f[q].txn = q.txn
        OBVIOUS
      <3> HIDE DEF f
      <3> QED
        BY <1>1, <2>2, <3>1
    <2> HIDE DEF f, txns
    <2>3. f \in Bijection(Inserts(j), txns)
      BY <2>1, <2>2 DEF Bijection, Injection, Surjection, IsInjective
    <2> QED
      BY <2>3, InsertsFinite, FS_Bijection DEF ExistsBijection
  <1>4. ASSUME NEW a \in Good(j)
        PROVE  Cardinality({row \in txns : row.account = a}) = Cardinality(Fresh(j, a))
    <2> DEFINE S == {row \in txns : row.account = a}
               f == [t \in Fresh(j, a) |-> [account |-> a, txn |-> t, job |-> j]]
    <2>1. \A t \in Fresh(j, a) : f[t] \in S /\ f[t].txn = t
      <3> TAKE t \in Fresh(j, a)
      <3> DEFINE r == [account |-> a, txn |-> t]
      <3>1. r \in Inserts(j) /\ r.account = a /\ r.txn = t
        BY <1>2
      <3> HIDE DEF r
      <3>2. [account |-> r.account, txn |-> r.txn, job |-> j] \in txns
        BY <3>1
      <3>3. f[t] = [account |-> a, txn |-> t, job |-> j]
        OBVIOUS
      <3> HIDE DEF txns
      <3> QED
        BY <3>1, <3>2, <3>3
    <2>2. \A row \in S : row.txn \in Fresh(j, a) /\ f[row.txn] = row
      BY <1>1
    <2>3. f \in [Fresh(j, a) -> S]
      BY <2>1
    <2> HIDE DEF f, S
    <2>4. f \in Bijection(Fresh(j, a), S)
      BY <2>1, <2>2, <2>3 DEF Bijection, Injection, Surjection, IsInjective
    <2>5. IsFiniteSet(Fresh(j, a))
      <3>1. scrape[j] \in Scrapes /\ a \in DOMAIN scrape[j]
        BY DEF TypeOK, Good, Seen
      <3>2. Fresh(j, a) \in SUBSET Txns
        BY <3>1, ScrapeFacts DEF Fresh
      <3> QED
        BY <3>2, FS_Subset, ExtractConstants
    <2>6. Cardinality(S) = Cardinality(Fresh(j, a))
      BY <2>4, <2>5, FS_Bijection DEF ExistsBijection
    <2> QED
      BY <2>6 DEF S
  <1>5. \A row \in txns : row.job = j /\ row.account \in Good(j)
    BY <1>1
  <1> QED
    BY <1>3, <1>4, <1>5

-----------------------------------------------------------------------------
(* Steps of one job                                                        *)

LEMMA InitIInv == Init => IInv
  <1> SUFFICES ASSUME Init PROVE IInv
    OBVIOUS
  <1>1. TypeOK
    <2>1. scrape \in [Jobs -> Scrapes]
      BY NoScrapeTyped DEF Init
    <2>2. returned \in [Jobs -> [found : 0..NumAccounts, errors : 0..NumAccounts]]
      BY ExtractConstants DEF Init, NotReturned
    <2>3. synced \in [Jobs -> [accounts : 0..NumAccounts, txns : Nat]]
      BY ExtractConstants DEF Init
    <2> QED
      BY <2>1, <2>2, <2>3, ExtractConstants DEF Init, TypeOK
  <1>2. Once /\ Foreign /\ DeletedStaysGone
    BY DEF Init, Once, Foreign, DeletedStaysGone
  <1>3. Balanced
    BY DEF Init, Balanced, Succeeded
  <1>5. \A j \in Jobs : JobOK(j)
    BY DEF Init, JobOK
  <1>6. CountersMatchLedger
    BY FS_EmptySet DEF Init, CountersMatchLedger, RowsOf
  <1> QED
    BY <1>1, <1>2, <1>3, <1>5, <1>6 DEF IInv

\* Another job's step leaves what this one relies on.
LEMMA OtherJob ==
  ASSUME NEW i \in Jobs, JobOK(i), conn' = conn,
         stage'[i] = stage[i], scrape'[i] = scrape[i], listed'[i] = listed[i],
         returned'[i] = returned[i], synced'[i].accounts = synced[i].accounts,
         faults' = 0 => faults = 0, accounts \subseteq accounts', ledger \subseteq ledger',
         \A row : row \in results /\ row.job = i <=> row \in results' /\ row.job = i
  PROVE  JobOK(i)'
  <1>1. Seen(i)' = Seen(i) /\ Good(i)' = Good(i) /\ Errors(i)' = Errors(i)
    BY DEF Seen, Good, Errors
  <1>2. \A a : HasResult(i, a) => HasResult(i, a)'
    BY DEF HasResult
  <1>3. RowsAre(i) => RowsAre(i)'
    BY <1>1, <1>2 DEF RowsAre
  <1>4. \A a, t : Known(a, t) => Known(a, t)'
    BY DEF Known
  <1> QED
    BY <1>1, <1>3, <1>4 DEF JobOK

\* What is said of the rows holds as long as they are as they are.
LEMMA SameRows ==
  ASSUME IInv, UNCHANGED <<conn, accounts, ledger, results, balances>>,
         \A j \in Jobs : synced'[j] = synced[j]
  PROVE  /\ Once' /\ Balanced' /\ Foreign' /\ DeletedStaysGone'
         /\ CountersMatchLedger'
  <1>1. Once' /\ Foreign' /\ DeletedStaysGone'
    BY DEF IInv, Once, Foreign, DeletedStaysGone
  <1>2. Balanced'
    BY DEF IInv, Balanced, Succeeded
  <1>3. CountersMatchLedger'
    BY DEF IInv, CountersMatchLedger, RowsOf, HasResult
  <1> QED
    BY <1>1, <1>2, <1>3

\* A job's step that leaves the rows.
LEMMA RowsLeft ==
  ASSUME IInv, NEW j \in Jobs, UNCHANGED <<conn, dbVars>>, TypeOK', JobOK(j)',
         faults' = 0 => faults = 0,
         \A i \in Jobs \ {j} : /\ stage'[i] = stage[i] /\ scrape'[i] = scrape[i]
                               /\ listed'[i] = listed[i] /\ returned'[i] = returned[i]
  PROVE  IInv'
  <1>1. \A i \in Jobs \ {j} : JobOK(i)'
    BY OtherJob DEF IInv, dbVars
  <1> QED
    BY <1>1, SameRows DEF IInv, dbVars

LEMMA AttemptEndsKeeps ==
  ASSUME IInv, NEW j \in Jobs, AttemptEnds(j), faults' \in 0..MaxFaults,
         conn /\ faults' = 0 => faults = 0 /\ stage[j] \notin {"batched", "returned"},
         faults' = 0 => faults = 0
  PROVE  IInv'
  <1>1. TypeOK'
    <2>1. scrape' \in [Jobs -> Scrapes] /\ listed' \in [Jobs -> 0..(NumAccounts + 1)]
      BY NoScrapeTyped, ExtractConstants DEF IInv, TypeOK, AttemptEnds
    <2> QED
      BY <2>1 DEF IInv, TypeOK, AttemptEnds, dbVars
  <1>2. stage'[j] = "idle"
    BY DEF AttemptEnds, IInv, TypeOK
  <1>3. JobOK(j)'
    BY <1>2 DEF JobOK, IInv, AttemptEnds, dbVars
  <1>4. \A i \in Jobs \ {j} : /\ stage'[i] = stage[i] /\ scrape'[i] = scrape[i]
                              /\ listed'[i] = listed[i] /\ returned'[i] = returned[i]
    BY DEF AttemptEnds, IInv, TypeOK
  <1> QED
    BY <1>1, <1>3, <1>4, RowsLeft DEF AttemptEnds

LEMMA ScrapeKeeps == ASSUME IInv, NEW j \in Jobs, Scrape(j) PROVE IInv'
  <1>1. PICK reading \in Scrapes, repeated \in 0..1 :
          /\ reading # NoScrape
          /\ scrape' = [scrape EXCEPT ![j] = reading]
          /\ listed' = [listed EXCEPT ![j] = Cardinality(DOMAIN reading) + repeated]
    BY DEF Scrape
  <1>2. /\ stage' = [stage EXCEPT ![j] = "scraped"]
        /\ UNCHANGED <<conn, dbVars, returned, faults>>
    BY DEF Scrape
  <1>3. Cardinality(DOMAIN reading) \in 0..NumAccounts
    BY ScrapeFacts, AccountsFinite
  <1>4. Cardinality(DOMAIN reading) + repeated \in 0..(NumAccounts + 1)
    BY <1>3, ExtractConstants
  <1>5. TypeOK'
    BY <1>1, <1>2, <1>4 DEF IInv, TypeOK, dbVars
  <1>6. stage'[j] = "scraped" /\ scrape'[j] = reading
    BY <1>1, <1>2 DEF IInv, TypeOK
  <1>7. JobOK(j)'
    <2>1. stage[j] = "idle"
      BY DEF Scrape
    <2> QED
      BY <1>1, <1>2, <1>6, <2>1, ScrapeFacts DEF JobOK, Seen, IInv, dbVars
  <1>8. \A i \in Jobs \ {j} : /\ stage'[i] = stage[i] /\ scrape'[i] = scrape[i]
                              /\ listed'[i] = listed[i] /\ returned'[i] = returned[i]
    BY <1>1, <1>2 DEF IInv, TypeOK
  <1> QED
    BY <1>2, <1>5, <1>7, <1>8, RowsLeft

LEMMA FinishKeeps == ASSUME IInv, NEW j \in Jobs, Finish(j) PROVE IInv'
  <1>1. /\ stage[j] = "batched" /\ conn
        /\ stage' = [stage EXCEPT ![j] = "returned"]
        /\ returned' = [returned EXCEPT ![j] = [found |-> listed[j], errors |-> Errors(j)]]
        /\ UNCHANGED <<conn, dbVars, scrape, listed, faults>>
    BY DEF Finish
  <1>2. Seen(j) \subseteq Accounts /\ Seen(j) \ Good(j) \subseteq Accounts
    BY ScrapeFacts DEF IInv, TypeOK, Seen
  <1>3. listed[j] \in 0..NumAccounts /\ Errors(j) \in 0..NumAccounts
    BY <1>1, <1>2, AccountsFinite DEF IInv, JobOK, Errors
  <1>4. TypeOK'
    BY <1>1, <1>3 DEF IInv, TypeOK, dbVars
  <1>5. stage'[j] = "returned" /\ returned'[j] = [found |-> listed[j], errors |-> Errors(j)]
    BY <1>1 DEF IInv, TypeOK
  <1>6. Seen(j)' = Seen(j) /\ Good(j)' = Good(j) /\ Errors(j)' = Errors(j)
    BY <1>1 DEF Seen, Good, Errors
  <1>7. JobOK(j)'
    <2>1. RowsAre(j)'
      BY <1>1, <1>6 DEF IInv, JobOK, RowsAre, HasResult, dbVars
    <2>2. \A a, t : Known(a, t)' = Known(a, t)
      BY <1>1 DEF Known, dbVars
    <2> QED
      BY <1>1, <1>5, <1>6, <2>1, <2>2 DEF IInv, JobOK, dbVars
  <1>8. \A i \in Jobs \ {j} : /\ stage'[i] = stage[i] /\ scrape'[i] = scrape[i]
                              /\ listed'[i] = listed[i] /\ returned'[i] = returned[i]
    BY <1>1 DEF IInv, TypeOK
  <1> QED
    BY <1>1, <1>4, <1>7, <1>8, RowsLeft

-----------------------------------------------------------------------------
(* Steps that write                                                        *)

LEMMA PersistKeeps == ASSUME IInv, NEW j \in Jobs, PersistAccounts(j) PROVE IInv'
  <1>1. /\ stage[j] = "scraped" /\ conn /\ listed[j] = Cardinality(Seen(j))
        /\ accounts' = accounts \cup Seen(j)
        /\ synced' = [synced EXCEPT ![j].accounts = listed[j]]
        /\ stage' = [stage EXCEPT ![j] = "persisted"]
        /\ UNCHANGED <<conn, ledger, balances, results, scrape, listed, returned, faults>>
    BY DEF PersistAccounts, Persisted, Repeats
  <1>2. Seen(j) \subseteq Accounts /\ listed[j] \in 0..NumAccounts
    BY <1>1, ScrapeFacts, AccountsFinite DEF IInv, TypeOK, Seen
  <1>3. accounts' \in SUBSET Accounts
    BY <1>1, <1>2 DEF IInv, TypeOK
  <1>4. synced' \in [Jobs -> [accounts : 0..NumAccounts, txns : Nat]]
    BY <1>1, <1>2 DEF IInv, TypeOK
  <1>5. TypeOK'
    BY <1>1, <1>3, <1>4 DEF IInv, TypeOK
  <1>6. /\ synced'[j].accounts = listed[j] /\ stage'[j] = "persisted"
        /\ \A i \in Jobs \ {j} : synced'[i] = synced[i] /\ stage'[i] = stage[i]
    BY <1>1 DEF IInv, TypeOK
  <1>7. Seen(j)' = Seen(j)
    BY <1>1 DEF Seen
  <1>8. JobOK(j)'
    BY <1>1, <1>6, <1>7 DEF IInv, JobOK
  <1>9. \A i \in Jobs \ {j} : JobOK(i)'
    BY <1>1, <1>6, OtherJob DEF IInv
  <1>10. Once' /\ Balanced' /\ Foreign' /\ DeletedStaysGone'
    <2>1. Once' /\ Foreign'
      BY <1>1 DEF IInv, Once, Foreign
    <2>2. Balanced'
      BY <1>1 DEF IInv, Balanced, Succeeded
    <2> QED
      BY <1>1, <2>1, <2>2 DEF DeletedStaysGone
  <1>12. CountersMatchLedger'
    <2>1. \A i \in Jobs : synced'[i].txns = synced[i].txns
      BY <1>1 DEF IInv, TypeOK
    <2> QED
      BY <1>1, <2>1 DEF IInv, CountersMatchLedger, RowsOf, HasResult
  <1> QED
    BY <1>5, <1>8, <1>9, <1>10, <1>12 DEF IInv

LEMMA BatchKeeps == ASSUME IInv, NEW j \in Jobs, PersistBatch(j) PROVE IInv'
  <1> DEFINE rows == {ResultRow(j, a) : a \in Seen(j)}
             txns == {[account |-> row.account, txn |-> row.txn, job |-> j] : row \in Inserts(j)}
  <1>1. /\ stage[j] = "persisted" /\ conn /\ \A a \in Seen(j) : ~HasResult(j, a)
        /\ ledger' = ledger \cup txns
        /\ synced' = [synced EXCEPT ![j].txns = @ + Cardinality(Inserts(j))]
        /\ balances' = [balances EXCEPT ![j] =
                            [a \in Accounts |-> IF a \in Good(j) THEN @[a] + 1 ELSE @[a]]]
        /\ results' = results \cup rows
        /\ stage' = [stage EXCEPT ![j] = "batched"]
        /\ UNCHANGED <<conn, accounts, scrape, listed, returned, faults>>
    BY DEF PersistBatch, Conflict
  <1>2. /\ scrape[j] \in Scrapes /\ Seen(j) \subseteq Accounts /\ Seen(j) \subseteq accounts
        /\ Seen(j) # {} /\ Good(j) \subseteq Seen(j)
        /\ \A a \in Seen(j) : scrape[j][a].ok \in BOOLEAN /\ scrape[j][a].txns \subseteq Txns
    <2>1. scrape[j] \in Scrapes
      BY DEF IInv, TypeOK
    <2>2. Seen(j) \subseteq accounts /\ Seen(j) # {}
      BY <1>1 DEF IInv, JobOK
    <2> QED
      BY <2>1, <2>2, ScrapeFacts DEF Seen, Good
  <1>3. \A row \in results : row.job = j => row.account \notin Seen(j)
    BY <1>1 DEF HasResult
  <1>4. \A a \in Seen(j) : /\ ResultRow(j, a).job = j /\ ResultRow(j, a).account = a
                           /\ ResultRow(j, a).ok = scrape[j][a].ok
    BY DEF ResultRow
  <1>5. rows \subseteq [job : Jobs, account : Accounts, ok : BOOLEAN, inserted : Nat]
    <2> SUFFICES ASSUME NEW a \in Seen(j)
                 PROVE  ResultRow(j, a) \in [job : Jobs, account : Accounts, ok : BOOLEAN,
                                              inserted : Nat]
      OBVIOUS
    <2>1. Fresh(j, a) \subseteq Txns
      BY <1>2 DEF Fresh
    <2>2. Cardinality(Fresh(j, a)) \in Nat
      BY <2>1, FS_Subset, FS_CardinalityType, ExtractConstants
    <2>3. (IF scrape[j][a].ok THEN Cardinality(Fresh(j, a)) ELSE 0) \in Nat
      BY <2>2
    <2> QED
      BY <1>2, <2>3 DEF ResultRow
  <1>6. txns \subseteq [account : Accounts, txn : Txns, job : Jobs]
    <2>1. \A row \in Inserts(j) : row.account \in Good(j) /\ row.txn \in Txns
      BY <1>2 DEF Inserts, Fresh
    <2> QED
      BY <1>2, <2>1
  <1>7. TypeOK'
    <2>1. results' \subseteq [job : Jobs, account : Accounts, ok : BOOLEAN, inserted : Nat]
      BY <1>1, <1>5 DEF IInv, TypeOK
    <2>2. ledger' \subseteq [account : Accounts, txn : Txns, job : Jobs]
      BY <1>1, <1>6 DEF IInv, TypeOK
    <2>3. synced' \in [Jobs -> [accounts : 0..NumAccounts, txns : Nat]]
      <3> DEFINE n == Cardinality(Inserts(j))
                 Row == [accounts : 0..NumAccounts, txns : Nat]
      <3>1. n \in Nat
        BY InsertsFinite DEF IInv
      <3>2. synced \in [Jobs -> Row]
        BY DEF IInv, TypeOK
      <3>3. synced' = [synced EXCEPT ![j].txns = @ + n]
        BY <1>1
      <3> HIDE DEF n
      <3>4. synced[j] \in Row /\ synced[j].txns + n \in Nat
        BY <3>1, <3>2
      <3>5. [synced[j] EXCEPT !.txns = @ + n] \in Row
        BY <3>4
      <3>6. synced' = [synced EXCEPT ![j] = [synced[j] EXCEPT !.txns = @ + n]]
        BY <3>2, <3>3
      <3> HIDE DEF Row
      <3>7. synced' \in [Jobs -> Row]
        BY <3>2, <3>5, <3>6
      <3> QED
        BY <3>7 DEF Row
    <2>4. balances' \in [Jobs -> [Accounts -> Nat]]
      BY <1>1 DEF IInv, TypeOK
    <2> QED
      BY <1>1, <2>1, <2>2, <2>3, <2>4 DEF IInv, TypeOK
  <1>8. /\ stage'[j] = "batched" /\ \A i \in Jobs \ {j} : stage'[i] = stage[i]
        /\ \A i \in Jobs : synced'[i].accounts = synced[i].accounts
    BY <1>1 DEF IInv, TypeOK
  <1>9. \A i \in Jobs \ {j} :
            \A row : row \in results /\ row.job = i <=> row \in results' /\ row.job = i
    BY <1>1, <1>4
  <1>10. \A i \in Jobs \ {j} : JobOK(i)'
    BY <1>1, <1>8, <1>9, OtherJob DEF IInv
  <1>11. Seen(j)' = Seen(j) /\ Good(j)' = Good(j)
    BY <1>1 DEF Seen, Good
  <1>12. \A a \in Seen(j) : HasResult(j, a)'
    BY <1>1, <1>4 DEF HasResult
  <1>13. JobOK(j)'
    <2>1. RowsAre(j)'
      <3>1. \A row \in results' : row.job = j /\ row.account \in Seen(j) =>
                row.ok = scrape[j][row.account].ok
        BY <1>1, <1>3, <1>4
      <3> QED
        BY <1>1, <1>11, <1>12, <3>1 DEF RowsAre
    <2>2. ASSUME NEW a \in Good(j), NEW t \in scrape[j][a].txns PROVE Known(a, t)'
      <3>1. CASE Known(a, t)
        BY <1>1, <3>1 DEF Known
      <3>2. CASE ~Known(a, t)
        <4>1. [account |-> a, txn |-> t] \in Inserts(j)
          BY <2>2, <3>2 DEF Inserts, Fresh
        <4>2. [account |-> a, txn |-> t, job |-> j] \in ledger'
          BY <1>1, <4>1
        <4> QED
          BY <4>2 DEF Known
      <3> QED
        BY <3>1, <3>2
    <2>3. synced'[j].accounts = listed'[j] /\ listed'[j] = Cardinality(Seen(j))
      BY <1>1, <1>8 DEF IInv, JobOK
    <2>4. ASSUME faults = 0, NEW row \in results', row.job = j PROVE row.account \in Seen(j)
      <3>1. \A r \in results : r.job # j
        BY <1>1, <2>4 DEF IInv, JobOK
      <3> QED
        BY <1>1, <1>4, <2>4, <3>1
    <2> QED
      BY <1>1, <1>2, <1>8, <1>11, <2>1, <2>2, <2>3, <2>4 DEF JobOK
  <1>14. Once'
    BY <1>1, <1>3, <1>4 DEF IInv, Once
  <1>16. Foreign'
    <2>1. \A row \in txns : row.account \in accounts
      BY <1>2 DEF Inserts
    <2>2. \A row \in rows : row.account \in accounts
      BY <1>2, <1>4
    <2> QED
      BY <1>1, <2>1, <2>2 DEF IInv, Foreign
  <1>17. Balanced'
    <2> SUFFICES ASSUME NEW i \in Jobs, NEW a \in Accounts
                 PROVE  balances'[i][a] = IF Succeeded(i, a)' THEN 1 ELSE 0
      BY DEF Balanced
    <2>1. CASE i # j
      <3>1. Succeeded(i, a)' <=> Succeeded(i, a)
        BY <1>9, <2>1 DEF Succeeded
      <3>2. balances'[i] = balances[i]
        BY <1>1, <2>1 DEF IInv, TypeOK
      <3> QED
        BY <3>1, <3>2 DEF IInv, Balanced
    <2>2. CASE i = j
      <3>1. balances'[j][a] = IF a \in Good(j) THEN balances[j][a] + 1 ELSE balances[j][a]
        BY <1>1 DEF IInv, TypeOK
      <3>2. balances[j][a] = IF Succeeded(j, a) THEN 1 ELSE 0
        BY DEF IInv, Balanced
      <3>3. CASE a \in Good(j)
        <4>1. a \in Seen(j) /\ scrape[j][a].ok
          BY <3>3 DEF Good
        <4>2. ~Succeeded(j, a)
          BY <1>3, <4>1 DEF Succeeded
        <4>3. ResultRow(j, a) \in results'
          BY <1>1, <4>1
        <4>4. Succeeded(j, a)'
          BY <1>4, <4>1, <4>3 DEF Succeeded
        <4> QED
          BY <2>2, <3>1, <3>2, <3>3, <4>2, <4>4
      <3>4. CASE a \notin Good(j)
        <4>1. Succeeded(j, a) => Succeeded(j, a)'
          BY <1>1 DEF Succeeded
        <4>2. Succeeded(j, a)' => Succeeded(j, a)
          BY <1>1, <1>4, <3>4 DEF Succeeded, Good
        <4> QED
          BY <2>2, <3>1, <3>2, <3>4, <4>1, <4>2
      <3> QED
        BY <3>3, <3>4
    <2> QED
      BY <2>1, <2>2
  <1>18. DeletedStaysGone'
    BY <1>1 DEF DeletedStaysGone
  <1>19. CountersMatchLedger'
    <2> DEFINE Inserted(i, a) == {row \in ledger : row.job = i /\ row.account = a}
    <2>0. \A i \in Jobs :
            /\ synced[i].txns = Cardinality({row \in ledger : row.job = i})
            /\ \A row \in RowsOf(i) : row.inserted = Cardinality(Inserted(i, row.account))
            /\ \A a \in Accounts : Inserted(i, a) # {} => HasResult(i, a)
      BY DEF IInv, CountersMatchLedger
    <2>1. \A row \in ledger : row.job = j => row.account \notin Seen(j)
      <3> SUFFICES ASSUME NEW row \in ledger, row.job = j, row.account \in Seen(j) PROVE FALSE
        OBVIOUS
      <3>1. row.account \in Accounts /\ row \in Inserted(j, row.account)
        BY DEF IInv, TypeOK
      <3>2. HasResult(j, row.account)
        BY <2>0, <3>1
      <3> QED
        BY <1>1, <3>2
    <2>2. /\ IsFiniteSet(txns) /\ Cardinality(txns) = Cardinality(Inserts(j))
          /\ \A a \in Good(j) : Cardinality({row \in txns : row.account = a})
                                   = Cardinality(Fresh(j, a))
          /\ \A row \in txns : row.job = j /\ row.account \in Good(j)
      BY BatchRows DEF IInv
    <2> HIDE DEF txns, rows
    <2>3. ASSUME NEW i \in Jobs \ {j}
          PROVE  /\ synced'[i].txns = Cardinality({row \in ledger' : row.job = i})
                 /\ \A row \in RowsOf(i)' : row.inserted = Cardinality(Inserted(i, row.account)')
                 /\ \A a \in Accounts : Inserted(i, a)' # {} => HasResult(i, a)'
      <3>1. {row \in ledger' : row.job = i} = {row \in ledger : row.job = i}
        BY <1>1, <2>2
      <3>2. \A a : Inserted(i, a)' = Inserted(i, a)
        BY <1>1, <2>2
      <3>3. RowsOf(i)' = RowsOf(i) /\ \A a : HasResult(i, a) => HasResult(i, a)'
        BY <1>1, <1>9 DEF RowsOf, HasResult
      <3>4. synced'[i] = synced[i]
        BY <1>1 DEF IInv, TypeOK
      <3> QED
        BY <2>0, <3>1, <3>2, <3>3, <3>4
    <2>4. synced'[j].txns = Cardinality({row \in ledger' : row.job = j})
      <3> DEFINE old == {row \in ledger : row.job = j}
      <3>1. {row \in ledger' : row.job = j} = old \cup txns /\ old \cap txns = {}
        BY <1>1, <1>2, <2>1, <2>2
      <3>2. IsFiniteSet(old)
        BY LedgerFinite DEF IInv
      <3>3. IsFiniteSet(txns)
        BY <2>2
      <3>4. Cardinality(old \cup txns) = Cardinality(old) + Cardinality(txns)
        <4>1. /\ Cardinality(old) \in Nat /\ Cardinality(txns) \in Nat
              /\ Cardinality(old \cap txns) = 0
          BY <3>1, <3>2, <3>3, FS_CardinalityType, FS_EmptySet
        <4>2. Cardinality(old \cup txns) =
                Cardinality(old) + Cardinality(txns) - Cardinality(old \cap txns)
          BY <3>2, <3>3, FS_Union
        <4> QED
          BY <4>1, <4>2
      <3>5. synced'[j].txns = synced[j].txns + Cardinality(Inserts(j))
        BY <1>1 DEF IInv, TypeOK
      <3>6. synced[j].txns = Cardinality(old)
        BY <2>0
      <3> QED
        BY <2>2, <3>1, <3>4, <3>5, <3>6
    <2>5. \A a \in Seen(j) : Inserted(j, a)' = {row \in txns : row.account = a}
      BY <1>1, <2>1, <2>2
    <2>6. ASSUME NEW row \in RowsOf(j)' PROVE row.inserted = Cardinality(Inserted(j, row.account)')
      <3>1. CASE row \in results
        <4>1. row \in RowsOf(j) /\ row.account \notin Seen(j)
          BY <1>3, <3>1 DEF RowsOf
        <4>2. Inserted(j, row.account)' = Inserted(j, row.account)
          BY <1>1, <1>2, <2>2, <4>1
        <4>3. row.inserted = Cardinality(Inserted(j, row.account))
          BY <2>0, <4>1
        <4> HIDE DEF Inserted
        <4> QED
          BY <4>2, <4>3
      <3>2. CASE row \notin results
        <4>1. PICK a \in Seen(j) : row = ResultRow(j, a)
          BY <1>1, <3>2 DEF RowsOf, rows
        <4>2. /\ row.account = a
              /\ row.inserted = IF scrape[j][a].ok THEN Cardinality(Fresh(j, a)) ELSE 0
          BY <4>1 DEF ResultRow
        <4>3. CASE scrape[j][a].ok
          <5>1. a \in Good(j)
            BY <4>3 DEF Good
          <5> QED
            BY <2>2, <2>5, <4>2, <4>3, <5>1
        <4>4. CASE ~scrape[j][a].ok
          <5>1. a \notin Good(j)
            BY <4>4 DEF Good
          <5>2. Inserted(j, a)' = {}
            BY <2>2, <2>5, <5>1
          <5> QED
            BY <4>2, <4>4, <5>2, FS_EmptySet
        <4> QED
          BY <4>3, <4>4
      <3> QED
        BY <3>1, <3>2
    <2>7. ASSUME NEW a \in Accounts, Inserted(j, a)' # {} PROVE HasResult(j, a)'
      <3>1. PICK row \in ledger' : row.job = j /\ row.account = a
        BY <2>7
      <3>2. CASE row \in ledger
        <4>1. Inserted(j, a) # {}
          BY <3>1, <3>2
        <4>2. HasResult(j, a)
          BY <2>0, <4>1
        <4> QED
          BY <1>1, <4>2 DEF HasResult
      <3>3. CASE row \in txns
        BY <1>2, <1>12, <2>2, <3>1, <3>3
      <3> QED
        BY <1>1, <3>2, <3>3
    <2>8. ASSUME NEW i \in Jobs
          PROVE  /\ synced'[i].txns = Cardinality({row \in ledger' : row.job = i})
                 /\ \A row \in RowsOf(i)' : row.inserted = Cardinality(Inserted(i, row.account)')
                 /\ \A a \in Accounts : Inserted(i, a)' # {} => HasResult(i, a)'
      <3>1. CASE i # j
        BY <2>3, <3>1
      <3>2. CASE i = j
        <4>1. \A row \in RowsOf(j)' : row.inserted = Cardinality(Inserted(j, row.account)')
          BY <2>6
        <4> HIDE DEF Inserted
        <4> QED
          BY <2>4, <2>7, <3>2, <4>1
      <3> QED
        BY <3>1, <3>2
    <2> QED
      BY <2>8 DEF CountersMatchLedger
  <1> QED
    BY <1>7, <1>10, <1>13, <1>14, <1>16, <1>17, <1>18, <1>19 DEF IInv

LEMMA DeleteKeeps == ASSUME IInv, DeleteConnection PROVE IInv'
  <1>1. /\ conn' = FALSE /\ accounts' = {} /\ ledger' = {} /\ results' = {}
        /\ balances' = [j \in Jobs |-> [a \in Accounts |-> 0]]
        /\ synced' = [j \in Jobs |-> [accounts |-> 0, txns |-> 0]]
        /\ UNCHANGED <<stage, scrape, listed, returned, faults>>
    BY DEF DeleteConnection
  <1>2. TypeOK'
    <2>1. synced' \in [Jobs -> [accounts : 0..NumAccounts, txns : Nat]]
      BY <1>1, ExtractConstants
    <2> QED
      BY <1>1, <2>1 DEF IInv, TypeOK
  <1>3. Once' /\ Foreign' /\ DeletedStaysGone'
    BY <1>1 DEF Once, Foreign, DeletedStaysGone
  <1>4. Balanced'
    BY <1>1 DEF Balanced, Succeeded
  <1>5. \A j \in Jobs : JobOK(j)'
    BY <1>1 DEF IInv, JobOK, Seen
  <1>6. CountersMatchLedger'
    BY <1>1, FS_EmptySet DEF CountersMatchLedger, RowsOf
  <1> QED
    BY <1>2, <1>3, <1>4, <1>5, <1>6 DEF IInv

LEMMA StepIInv == IInv /\ [Next]_vars => IInv'
  <1> SUFFICES ASSUME IInv, [Next]_vars PROVE IInv'
    OBVIOUS
  <1>1. ASSUME NEW j \in Jobs, Refused(j) PROVE IInv'
    BY <1>1, AttemptEndsKeeps, ExtractConstants DEF Refused, IInv, TypeOK
  <1>2. ASSUME NEW j \in Jobs, Fault(j) PROVE IInv'
    <2>1. faults' \in 0..MaxFaults /\ faults' # 0
      BY <1>2, ExtractConstants DEF Fault, IInv, TypeOK
    <2> QED
      BY <1>2, <2>1, AttemptEndsKeeps DEF Fault
  <1>3. CASE UNCHANGED vars
    <2>1. TypeOK'
      BY <1>3 DEF IInv, TypeOK, vars, dbVars
    <2>2. \A j \in Jobs : JobOK(j)'
      BY <1>3, OtherJob DEF IInv, vars, dbVars
    <2> QED
      BY <1>3, <2>1, <2>2, SameRows DEF IInv, vars, dbVars
  <1> QED
    BY <1>1, <1>2, <1>3, ScrapeKeeps, PersistKeeps, BatchKeeps, FinishKeeps, DeleteKeeps DEF Next

-----------------------------------------------------------------------------
(* The theorems                                                            *)

\* The strengthening of the properties below is an invariant.
THEOREM Invariance == Spec => []IInv
  BY InitIInv, StepIInv, PTL DEF Spec

\* Every variable keeps its type.
THEOREM TypeCorrect == Spec => []TypeOK
  <1>1. IInv => TypeOK
    BY DEF IInv
  <1> QED
    BY <1>1, Invariance, PTL

\* Each success of a job has one snapshot of the balance, however often the step
\* was tried.
THEOREM OneBalanceEach == Spec => []OneBalancePerSuccess
  <1>1. IInv => OneBalancePerSuccess
    <2> SUFFICES ASSUME IInv, NEW j \in Jobs, NEW a \in Accounts
                 PROVE  balances[j][a] =
                            Cardinality({row \in RowsOf(j) : row.account = a /\ row.ok})
      BY DEF OneBalancePerSuccess
    <2> DEFINE good == {row \in RowsOf(j) : row.account = a /\ row.ok}
    <2>1. CASE Succeeded(j, a)
      <3>1. PICK row \in results : row.job = j /\ row.account = a /\ row.ok
        BY <2>1 DEF Succeeded
      <3>2. good = {row}
        BY <3>1 DEF IInv, Once, RowsOf
      <3> QED
        BY <2>1, <3>2, FS_Singleton DEF IInv, Balanced
    <2>2. CASE ~Succeeded(j, a)
      <3>1. good = {}
        BY <2>2 DEF Succeeded, RowsOf
      <3> QED
        BY <2>2, <3>1, FS_EmptySet DEF IInv, Balanced
    <2> QED
      BY <2>1, <2>2
  <1> QED
    BY <1>1, Invariance, PTL

\* The rows of a job that returned agree with what it returned.
LEMMA RowsAgree == IInv => ReturnMatchesRows
  <1> SUFFICES ASSUME IInv, NEW j \in Jobs, conn, stage[j] = "returned"
               PROVE  LET told == {row \in RowsOf(j) : row.account \in Seen(j)}
                      IN  /\ returned[j].found = Cardinality(told)
                          /\ returned[j].found = synced[j].accounts
                          /\ returned[j].errors = Cardinality({row \in told : ~row.ok})
                          /\ faults = 0 => told = RowsOf(j)
    BY DEF ReturnMatchesRows
  <1> DEFINE told == {row \in RowsOf(j) : row.account \in Seen(j)}
  <1>0. faults = 0 => told = RowsOf(j)
    BY DEF IInv, JobOK, RowsOf
  <1>1. /\ returned[j].found = Cardinality(Seen(j)) /\ returned[j].found = synced[j].accounts
        /\ returned[j].errors = Cardinality(Seen(j) \ Good(j))
        /\ RowsAre(j)
    BY DEF IInv, JobOK, Errors
  <1>2. IsFiniteSet(Seen(j)) /\ IsFiniteSet(Seen(j) \ Good(j))
    BY ScrapeFacts, AccountsFinite DEF IInv, TypeOK, Seen
  <1>3. Cardinality(told) = Cardinality(Seen(j))
    <2>1. /\ \A row \in told : row.account \in Seen(j)
          /\ \A a \in Seen(j) : \E row \in told : row.account = a
          /\ \A r, q \in told : r.account = q.account => r = q
      BY <1>1 DEF RowsAre, RowsOf, HasResult, IInv, Once
    <2> QED
      BY <1>2, <2>1, RowsCounted
  <1>4. Cardinality({row \in told : ~row.ok}) = Cardinality(Seen(j) \ Good(j))
    <2> DEFINE bad == {row \in told : ~row.ok}
    <2>1. \A row \in told : row.account \in Seen(j) /\ row.ok = scrape[j][row.account].ok
      BY <1>1 DEF RowsAre, RowsOf
    <2>2. \A row \in bad : row.account \in Seen(j) \ Good(j)
      BY <2>1, Zenon DEF Good
    <2>3. \A a \in Seen(j) \ Good(j) : \E row \in bad : row.account = a
      <3> SUFFICES ASSUME NEW a \in Seen(j) \ Good(j) PROVE \E row \in bad : row.account = a
        OBVIOUS
      <3>1. PICK row \in told : row.account = a
        BY <1>1 DEF RowsAre, HasResult, RowsOf
      <3>2. ~scrape[j][a].ok
        BY DEF Good
      <3>3. ~row.ok
        BY <2>1, <3>1, <3>2
      <3> QED
        BY <3>1, <3>3
    <2>4. \A r, q \in bad : r.account = q.account => r = q
      BY DEF IInv, Once, RowsOf
    <2> QED
      BY <1>2, <2>2, <2>3, <2>4, RowsCounted
  <1> QED
    BY <1>0, <1>1, <1>3, <1>4

\* What the workflow is told of a step is what the rows say.
THEOREM ReturnsMatchRows == Spec => []ReturnMatchesRows
  BY Invariance, RowsAgree, PTL

\* A job's counters, in its row and in its results, are the ledger rows that it
\* inserted, none missed and none counted twice.
THEOREM CountersTrue == Spec => []CountersMatchLedger
  <1>1. IInv => CountersMatchLedger
    BY DEF IInv
  <1> QED
    BY <1>1, Invariance, PTL

\* While an attempt is past its first transaction accounts_synced counts the
\* accounts that it listed, each once, and they are stored.
THEOREM CountedExist == Spec => []CountedAccountsExist
  <1>1. IInv => CountedAccountsExist
    BY DEF IInv, JobOK, CountedAccountsExist
  <1> QED
    BY <1>1, Invariance, PTL

\* What a result row stands for is there.
THEOREM ResultsStored == Spec => []ResultsAreStored
  <1>1. IInv => ResultsAreStored
    BY DEF IInv, Foreign, JobOK, ResultsAreStored
  <1> QED
    BY <1>1, Invariance, PTL

\* Nothing of a deleted connection comes back.
THEOREM DeletedGone == Spec => []DeletedStaysGone
  <1>1. IInv => DeletedStaysGone
    BY DEF IInv
  <1> QED
    BY <1>1, Invariance, PTL

-----------------------------------------------------------------------------
(* The contract                                                            *)

\* Steps that change neither results nor the place of any attempt after its batch.
LEMMA Quiet ==
  ASSUME UNCHANGED <<conn, results, returned>>,
         \A i \in Jobs : /\ stage'[i] = "returned" <=> stage[i] = "returned"
                         /\ stage'[i] = "batched" <=> stage[i] = "batched"
                         /\ stage[i] \in {"batched", "returned"} => scrape'[i] = scrape[i]
  PROVE  UNCHANGED Contract!vars
  <1>1. Stored' = Stored
    BY DEF Stored, RowsOf, HasResult
  <1>2. Told' = Told
    BY DEF Told
  <1>3. Latest' = Latest
    BY DEF Latest, Seen
  <1> QED
    BY <1>1, <1>2, <1>3 DEF Contract!vars

\* An attempt ends: what it stored is forgotten, if it had stored anything.
LEMMA AttemptForgets ==
  ASSUME IInv, NEW j \in Jobs, AttemptEnds(j), stage[j] # "returned"
  PROVE  Contract!Forget(j) \/ UNCHANGED Contract!vars
  <1>1. /\ UNCHANGED <<conn, results, returned>>
        /\ stage' = [stage EXCEPT ![j] = "idle"] /\ scrape' = [scrape EXCEPT ![j] = NoScrape]
    BY DEF AttemptEnds, dbVars
  <1>2. /\ stage'[j] = "idle"
        /\ \A i \in Jobs \ {j} : stage'[i] = stage[i] /\ scrape'[i] = scrape[i]
    BY <1>1 DEF IInv, TypeOK
  <1>3. CASE stage[j] # "batched"
    BY <1>1, <1>2, <1>3, Quiet
  <1>4. CASE stage[j] = "batched"
    <2>1. Latest[j] # {} /\ Told[j] = "nothing"
      BY <1>4 DEF Latest, Told, IInv, JobOK
    <2>2. Latest' = [Latest EXCEPT ![j] = {}]
      BY <1>2 DEF Latest, Seen
    <2>3. Told' = Told
      BY <1>1, <1>2, <1>4 DEF Told
    <2>4. Stored' = Stored
      BY <1>1 DEF Stored, RowsOf, HasResult
    <2> QED
      BY <1>1, <2>1, <2>2, <2>3, <2>4 DEF Contract!Forget
  <1> QED
    BY <1>3, <1>4

LEMMA BatchStores ==
  ASSUME IInv, NEW j \in Jobs, PersistBatch(j)
  PROVE  Contract!Store(j)
  <1> DEFINE rows == {ResultRow(j, a) : a \in Seen(j)}
             result == [a \in Seen(j) |-> IF scrape[j][a].ok THEN "ok" ELSE "failed"]
  <1>1. /\ stage[j] = "persisted" /\ conn /\ \A a \in Seen(j) : ~HasResult(j, a)
        /\ results' = results \cup rows
        /\ stage' = [stage EXCEPT ![j] = "batched"]
        /\ UNCHANGED <<conn, returned, scrape>>
    BY DEF PersistBatch, Conflict
  <1>2. /\ Seen(j) # {} /\ Seen(j) \subseteq Accounts
        /\ stage \in [Jobs -> {"idle", "scraped", "persisted", "batched", "returned"}]
    BY <1>1, ScrapeFacts DEF IInv, TypeOK, JobOK, Seen
  <1>3. \A a \in Seen(j) : /\ ResultRow(j, a).job = j /\ ResultRow(j, a).account = a
                           /\ ResultRow(j, a).ok = scrape[j][a].ok
    BY DEF ResultRow
  <1> HIDE DEF rows
  <1>4. \A row \in rows : \E a \in Seen(j) : row = ResultRow(j, a)
    BY DEF rows
  <1>5. ASSUME NEW a \in Seen(j)
        PROVE  Stored[j][a] = "nothing" /\ Stored'[j][a] = result[a]
    <2>1. Stored[j][a] = "nothing"
      BY <1>1, <1>2 DEF Stored
    <2>2. ResultRow(j, a) \in results'
      BY <1>1 DEF rows
    <2>3. HasResult(j, a)'
      BY <1>3, <2>2 DEF HasResult
    <2>4. (\E row \in RowsOf(j)' : row.account = a /\ row.ok) <=> scrape[j][a].ok
      <3>1. \A row \in RowsOf(j)' : row.account = a => row = ResultRow(j, a)
        BY <1>1, <1>3, <1>4 DEF RowsOf, HasResult
      <3>2. ResultRow(j, a) \in RowsOf(j)'
        BY <1>3, <2>2 DEF RowsOf
      <3> QED
        BY <1>3, <3>1, <3>2
    <2>5. Stored'[j][a] = IF scrape[j][a].ok THEN "ok" ELSE "failed"
      BY <1>2, <2>3, <2>4 DEF Stored
    <2> QED
      BY <2>1, <2>5
  <1>6. ASSUME NEW a \in Accounts \ Seen(j)
        PROVE  Stored'[j][a] = Stored[j][a]
    <2>1. \A row : row.job = j /\ row.account = a => (row \in results' <=> row \in results)
      BY <1>1, <1>3, <1>4
    <2> QED
      BY <2>1 DEF Stored, RowsOf, HasResult
  <1>7. ASSUME NEW i \in Jobs \ {j}, NEW a \in Accounts
        PROVE  Stored'[i][a] = Stored[i][a]
    <2>1. \A row : row.job = i => (row \in results' <=> row \in results)
      BY <1>1, <1>3, <1>4
    <2> QED
      BY <2>1 DEF Stored, RowsOf, HasResult
  <1>8. Stored' = [Stored EXCEPT ![j] =
                      [a \in Accounts |-> IF a \in Seen(j) THEN result[a] ELSE @[a]]]
    <2> DEFINE F(i, a) == Stored'[i][a]
    <2>1. Stored' = [i \in Jobs |-> [a \in Accounts |-> F(i, a)]]
      BY DEF Stored
    <2>2. Stored = [i \in Jobs |-> [a \in Accounts |-> Stored[i][a]]]
      BY DEF Stored
    <2> HIDE DEF result
    <2>3. \A i \in Jobs, a \in Accounts :
             F(i, a) = IF i = j /\ a \in Seen(j) THEN result[a] ELSE Stored[i][a]
      BY <1>5, <1>6, <1>7
    <2> HIDE DEF F
    <2> QED
      BY <2>1, <2>2, <2>3
  <1>9. Told[j] = "nothing" /\ Told' = Told
    BY <1>1, <1>2 DEF Told
  <1>10. Latest[j] = {} /\ Latest' = [Latest EXCEPT ![j] = Seen(j)]
    BY <1>1, <1>2 DEF Latest, Seen
  <1>11. result \in [Seen(j) -> {"ok", "failed"}] /\ Seen(j) \in (SUBSET Accounts) \ {{}}
    BY <1>2
  <1> HIDE DEF result
  <1> QED
    BY <1>1, <1>5, <1>8, <1>9, <1>10, <1>11 DEF Contract!Store

\* Counting the failed accounts and comparing the sets comes to the same.
LEMMA VerdictsAgree ==
  ASSUME NEW S \in SUBSET Accounts, NEW T \in SUBSET S
  PROVE  Verdict(Cardinality(S), Cardinality(T)) =
            IF T = {} THEN "clean" ELSE IF T = S THEN "all_failed" ELSE "some_failed"
  <1>1. IsFiniteSet(S) /\ IsFiniteSet(T)
    BY AccountsFinite
  <1>2. /\ Cardinality(S) \in Nat /\ Cardinality(T) \in Nat
        /\ Cardinality(T) <= Cardinality(S)
        /\ Cardinality(T) = Cardinality(S) => T = S
    BY <1>1, FS_Subset, FS_CardinalityType
  <1>3. Cardinality(T) = 0 <=> T = {}
    BY <1>1, FS_EmptySet
  <1> QED
    BY <1>2, <1>3 DEF Verdict

LEMMA FinishTells ==
  ASSUME IInv, NEW j \in Jobs, Finish(j)
  PROVE  Contract!Tell(j)
  <1>1. /\ stage[j] = "batched" /\ conn /\ conn' = conn /\ results' = results
        /\ stage' = [stage EXCEPT ![j] = "returned"] /\ scrape' = scrape
        /\ returned' = [returned EXCEPT ![j] = [found |-> listed[j], errors |-> Errors(j)]]
    BY DEF Finish, dbVars
  <1>2. /\ Seen(j) # {} /\ RowsAre(j) /\ listed[j] = Cardinality(Seen(j))
        /\ Seen(j) \in SUBSET Accounts
        /\ stage'[j] = "returned"
        /\ returned'[j] = [found |-> Cardinality(Seen(j)), errors |-> Errors(j)]
        /\ \A i \in Jobs \ {j} : stage'[i] = stage[i] /\ returned'[i] = returned[i]
    BY <1>1, ScrapeFacts DEF IInv, TypeOK, JobOK, Seen
  <1>3. Stored' = Stored
    BY <1>1 DEF RowsOf, HasResult, Stored
  <1>4. Latest' = Latest /\ Latest[j] = Seen(j)
    BY <1>1, <1>2 DEF Latest, Seen
  <1>5. ASSUME NEW a \in Seen(j) PROVE Stored[j][a] = "failed" <=> ~scrape[j][a].ok
    <2>1. HasResult(j, a) /\ \A row \in RowsOf(j) : row.account = a => row.ok = scrape[j][a].ok
      BY <1>2 DEF RowsAre, RowsOf
    <2>2. (\E row \in RowsOf(j) : row.account = a /\ row.ok) <=> scrape[j][a].ok
      BY <2>1 DEF HasResult, RowsOf
    <2>3. Stored[j][a] = IF scrape[j][a].ok THEN "ok" ELSE "failed"
      BY <1>2, <2>1, <2>2 DEF Stored
    <2> QED
      BY <2>3
  <1>6. Contract!Failed(j) = Seen(j) \ Good(j)
    BY <1>4, <1>5 DEF Contract!Failed, Good
  <1>7. Told'[j] = Contract!Verdict(j)
    <2>1. Told'[j] = Verdict(Cardinality(Seen(j)), Cardinality(Seen(j) \ Good(j)))
      BY <1>2 DEF Told, Errors
    <2>2. Seen(j) \ Good(j) \in SUBSET Seen(j)
      OBVIOUS
    <2>3. Told'[j] = IF Seen(j) \ Good(j) = {} THEN "clean"
                     ELSE IF Seen(j) \ Good(j) = Seen(j) THEN "all_failed" ELSE "some_failed"
      BY <1>2, <2>1, <2>2, VerdictsAgree
    <2> QED
      BY <1>4, <1>6, <2>3 DEF Contract!Verdict
  <1>8. Told[j] = "nothing" /\ Told' = [Told EXCEPT ![j] = Contract!Verdict(j)]
    <2> DEFINE v == Contract!Verdict(j)
    <2>1. Told'[j] = v
      BY <1>7
    <2> HIDE DEF v
    <2>2. Told[j] = "nothing"
      BY <1>1 DEF Told
    <2>3. \A i \in Jobs \ {j} : Told'[i] = Told[i]
      BY <1>2 DEF Told
    <2>4. Told = [i \in Jobs |-> Told[i]] /\ Told' = [i \in Jobs |-> Told'[i]]
      BY DEF Told
    <2>5. Told' = [Told EXCEPT ![j] = v]
      BY <2>1, <2>3, <2>4
    <2> QED
      BY <2>2, <2>5 DEF v
  <1> QED
    BY <1>1, <1>2, <1>3, <1>4, <1>8 DEF Contract!Tell

LEMMA ContractStep ==
  ASSUME IInv, [Next]_vars
  PROVE  [Contract!Next]_(Contract!vars)
  <1>t. stage \in [Jobs -> {"idle", "scraped", "persisted", "batched", "returned"}]
    BY DEF IInv, TypeOK
  <1>1. ASSUME NEW j \in Jobs, Scrape(j) \/ PersistAccounts(j)
        PROVE  UNCHANGED Contract!vars
    <2>1. UNCHANGED <<conn, results, returned>> /\ stage[j] \in {"idle", "scraped"}
      BY <1>1 DEF Scrape, PersistAccounts, Persisted, dbVars
    <2>2. \E next \in {"scraped", "persisted"} : stage' = [stage EXCEPT ![j] = next]
      BY <1>1 DEF Scrape, PersistAccounts, Persisted
    <2>3. \E reading : scrape' = [scrape EXCEPT ![j] = reading] \/ scrape' = scrape
      BY <1>1 DEF Scrape, PersistAccounts, Persisted
    <2>4. scrape \in [Jobs -> Scrapes]
      BY DEF IInv, TypeOK
    <2>5. \A i \in Jobs : /\ stage'[i] = "returned" <=> stage[i] = "returned"
                          /\ stage'[i] = "batched" <=> stage[i] = "batched"
                          /\ stage[i] \in {"batched", "returned"} => scrape'[i] = scrape[i]
      BY <1>t, <2>1, <2>2, <2>3, <2>4
    <2> QED
      BY <2>1, <2>5, Quiet
  <1>2. CASE DeleteConnection
    <2>1. /\ conn /\ conn' = FALSE /\ results' = {}
          /\ stage' = stage /\ returned' = returned /\ scrape' = scrape
      BY <1>2 DEF DeleteConnection
    <2>2. /\ Stored' = [j \in Jobs |-> [a \in Accounts |-> "nothing"]]
          /\ Told' = Told /\ Latest' = Latest
      BY <2>1 DEF Stored, RowsOf, HasResult, Told, Latest, Seen
    <2> QED
      BY <2>1, <2>2 DEF Contract!Delete, Contract!Next
  <1>3. CASE UNCHANGED vars
    BY <1>3, Quiet DEF vars, dbVars
  <1>4. ASSUME NEW j \in Jobs, Refused(j) \/ Fault(j)
        PROVE  Contract!Forget(j) \/ UNCHANGED Contract!vars
    BY <1>4, AttemptForgets DEF Refused, Fault
  <1> QED
    BY <1>1, <1>2, <1>3, <1>4, BatchStores, FinishTells DEF Next, Contract!Next

\* The three transactions of the step, run by any number of jobs and as often as
\* it takes, implement what the workflow relies on, also where attempts list
\* different accounts.
THEOREM StepKeepsContract == Spec => ImplementsContract
  <1>1. Init => Contract!Init
    BY DEF Init, Contract!Init, Stored, Told, Latest, RowsOf, HasResult
  <1> QED
    BY <1>1, ContractStep, Invariance, PTL DEF Spec, ImplementsContract, Contract!Spec
=============================================================================
