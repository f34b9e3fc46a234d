--------------------------- MODULE TransactionIds ---------------------------
(***************************************************************************)
(* Identity of scraped transactions: parse_transaction_row of the Heritage *)
(* adapter derives external_id from a row's text and its place (row index  *)
(* and page), the ledger keeps one row for each external_id, and syncs     *)
(* read the bank's paginated list, newest first, again and again while the *)
(* bank goes on posting.                                                   *)
(*                                                                         *)
(* A transaction is its text: date, description, amount and balance.       *)
(***************************************************************************)
EXTENDS Integers, SequencesExt

CONSTANTS
    Texts,      \* texts of transactions
    PageSize,   \* rows on a page of the bank's list
    MaxPages,   \* settings.max_pages_per_account
    MaxPosted,  \* bound: transactions the bank posts
    MaxSyncs    \* bound: syncs

ASSUME IdsConstants ==
    /\ PageSize \in Nat \ {0}
    /\ MaxPages \in Nat \ {0}
    /\ MaxPosted \in 0..PageSize * MaxPages  \* the page cap plays no part here
    /\ MaxSyncs \in Nat

VARIABLES
    bank,       \* the bank's list
    page,       \* page_num of the sync that is reading, or 0
    collected,  \* external ids it has so far
    ledger,     \* external ids of the rows of transactions
    syncs,      \* syncs so far
    before,     \* the bank's list when the sync began
    covered     \* the bank's list when the last undisturbed sync read it

ghosts == <<before, covered>>
vars == <<bank, page, collected, ledger, syncs, ghosts>>

Init ==
    /\ bank \in UNION {[1..n -> Texts] : n \in 0..MaxPosted}
    /\ page = 0 /\ collected = {} /\ ledger = {} /\ syncs = 0
    /\ before = <<>> /\ covered = <<>>

\* Mutants of ExternalId: the page is not part of the source; every sync has
\* ids of its own.
ExternalIdNoPage(text, row, pageNum) == [text |-> text, row |-> row, page |-> 1]
ExternalIdPerSync(text, row, pageNum) ==
    [text |-> text, row |-> row, page |-> pageNum + syncs * MaxPages]

\* sha256 over the texts, the row index and the page number.
ExternalId(text, row, pageNum) == [text |-> text, row |-> row, page |-> pageNum]

First == (page - 1) * PageSize
RowsShown == {row \in 0..PageSize - 1 : First + row + 1 <= Len(bank)}
HasNextPage == First + PageSize < Len(bank)

-----------------------------------------------------------------------------
Post(text) ==
    /\ Len(bank) < MaxPosted
    /\ bank' = <<text>> \o bank
    /\ UNCHANGED <<page, collected, ledger, syncs, ghosts>>

StartSync ==
    /\ page = 0
    /\ syncs < MaxSyncs
    /\ page' = 1 /\ collected' = {} /\ syncs' = syncs + 1
    /\ before' = bank
    /\ UNCHANGED <<bank, ledger, covered>>

\* A turn of get_transactions; the last one is followed by the insert, which
\* skips the ids that are there.
ReadPage ==
    /\ page > 0
    /\ LET ids == {ExternalId(bank[First + row + 1], row, page) : row \in RowsShown} IN
       IF HasNextPage /\ page < MaxPages
         THEN /\ page' = page + 1
              /\ collected' = collected \cup ids
              /\ UNCHANGED <<ledger, covered>>
         ELSE /\ page' = 0
              /\ ledger' = ledger \cup collected \cup ids
              /\ collected' = {}
              /\ covered' = IF bank = before THEN bank ELSE covered
    /\ UNCHANGED <<bank, syncs, before>>

Next == (\E text \in Texts : Post(text)) \/ StartSync \/ ReadPage

Spec == Init /\ [][Next]_vars
-----------------------------------------------------------------------------
(* Safety                                                                  *)

Ids == [text : Texts, row : 0..PageSize - 1, page : 1..MaxPages]

TypeOK ==
    /\ bank \in Seq(Texts) /\ Len(bank) <= MaxPosted
    /\ page \in 0..MaxPages
    /\ collected \subseteq Ids /\ ledger \subseteq Ids
    /\ syncs \in 0..MaxSyncs
    /\ before \in Seq(Texts) /\ covered \in Seq(Texts)

Occurrences(list, text) == Cardinality({i \in 1..Len(list) : list[i] = text})
LedgerRows(text) == Cardinality({id \in ledger : id.text = text})

\* No transaction is lost, neither two that read the same on the page nor one
\* that moves to another page while the sync reads: once a sync is through,
\* the ledger has as many rows of each text as the bank had when it began.
NothingLost ==
    page = 0 => \A text \in Texts : LedgerRows(text) >= Occurrences(before, text)

\* Syncing again while the bank's list is as it was adds nothing.
SyncIsIdempotent ==
    [][page > 0 /\ page' = 0 /\ covered # <<>> /\ bank = before /\ bank = covered
        => ledger' = ledger]_vars
=============================================================================
