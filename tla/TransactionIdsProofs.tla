------------------------ MODULE TransactionIdsProofs ------------------------
(***************************************************************************)
(* Theorems about TransactionIds, for any texts, page size and number of   *)
(* postings and syncs.                                                     *)
(*                                                                         *)
(* While a sync reads, the list as it was when it began (before) moves     *)
(* down by what the bank posts (Grown).  That no row is lost by it is said *)
(* by matchings: Kept matches every row that has come into the pages read  *)
(* so far with an id of its own, and a page extends the matching by the    *)
(* rows it shows, because rows only move to pages that are still to come.  *)
(* That nothing is added to an unmoved list needs the ids of a whole list  *)
(* (IdsOf), page by page.                                                  *)
(***************************************************************************)
EXTENDS TransactionIds, FiniteSetTheorems, TLAPS

Off(p) == (p - 1) * PageSize

\* The ids that reading the whole of a list gives.
IdsOf(list) == {id \in Ids : /\ Off(id.page) + id.row + 1 <= Len(list)
                             /\ id.text = list[Off(id.page) + id.row + 1]}
PageIds == {ExternalId(bank[First + row + 1], row, page) : row \in RowsShown}

Shift == Len(bank) - Len(before)

\* f gives each of the first n rows of before an id of its own among ids.
Matches(f, n, ids) == /\ f \in [1..n -> ids]
                      /\ \A i \in 1..n : f[i].text = before[i]
                      /\ \A i, k \in 1..n : f[i] = f[k] => i = k
Matched(n, ids) == \E f : Matches(f, n, ids)

Grown == Shift >= 0 /\ \A i \in 1..Len(before) : bank[i + Shift] = before[i]

Kept == /\ page > 0 => \A n \in 0..Len(before) : n + Shift <= First => Matched(n, collected)
        /\ page = 0 => Matched(Len(before), ledger)

Unmoved == page > 0 /\ bank = before => collected = {id \in IdsOf(bank) : id.page < page}

IInv == /\ TypeOK /\ Grown
        /\ \A id \in collected : id.page < page
        /\ IsFiniteSet(collected) /\ IsFiniteSet(ledger)
        /\ Kept /\ Unmoved /\ IdsOf(covered) \subseteq ledger

-----------------------------------------------------------------------------
(* Pages                                                                   *)

LEMMA OffStep ==
  ASSUME NEW p \in Nat
  PROVE  Off(p) \in Int /\ Off(p + 1) = Off(p) + PageSize /\ Off(1) = 0
  <1>1. PageSize \in Nat
    BY IdsConstants
  <1> QED
    BY <1>1 DEF Off

LEMMA OffGrows ==
  ASSUME NEW p \in Nat, NEW q \in Nat, p < q
  PROVE  Off(p) + PageSize <= Off(q)
  <1> DEFINE d == q - p - 1
  <1>1. PageSize \in Nat /\ d \in Nat /\ q - 1 = p + d
    BY IdsConstants
  <1>2. d * PageSize \in Nat
    BY <1>1
  <1>3. (p + d) * PageSize = p * PageSize + d * PageSize
    BY <1>1
  <1>4. p * PageSize = (p - 1) * PageSize + PageSize
    BY <1>1
  <1>5. p * PageSize \in Int /\ (p - 1) * PageSize \in Int
    BY <1>1
  <1>6. Off(q) = (p + d) * PageSize /\ Off(p) = (p - 1) * PageSize
    BY <1>1 DEF Off
  <1> HIDE DEF d
  <1> QED
    BY <1>1, <1>2, <1>3, <1>4, <1>5, <1>6

\* What the loop knows of its page.
LEMMA PageFacts ==
  ASSUME TypeOK
  PROVE  /\ First = Off(page) /\ First \in Int /\ PageSize \in Nat \ {0}
         /\ page > 0 => First >= 0
         /\ Len(bank) \in Nat /\ Len(before) \in Nat /\ page \in Nat /\ page <= MaxPages
         /\ MaxPages \in Nat /\ Len(bank) <= Off(MaxPages) + PageSize
  <1>1. page \in Nat /\ PageSize \in Nat \ {0} /\ MaxPages \in Nat \ {0} /\ page <= MaxPages
    BY IdsConstants DEF TypeOK
  <1>2. First = Off(page)
    BY DEF First, Off
  <1>3. page > 0 => First >= 0
    <2>1. CASE page = 1
      BY <1>1, <1>2, <2>1, OffStep
    <2>2. CASE page > 1
      BY <1>1, <1>2, <2>2, OffStep, OffGrows
    <2> QED
      BY <1>1, <2>1, <2>2
  <1>4. Off(MaxPages) + PageSize = PageSize * MaxPages
    <2>1. MaxPages * PageSize = (MaxPages - 1) * PageSize + PageSize
      BY <1>1
    <2> QED
      BY <1>1, <2>1 DEF Off
  <1>5. Len(bank) \in Nat /\ Len(before) \in Nat /\ Len(bank) <= MaxPosted
    BY DEF TypeOK
  <1> QED
    BY <1>1, <1>2, <1>3, <1>4, <1>5, OffStep, IdsConstants

LEMMA PageIdsFacts ==
  ASSUME TypeOK, page > 0
  PROVE  /\ PageIds = {id \in IdsOf(bank) : id.page = page}
         /\ PageIds \subseteq Ids /\ IsFiniteSet(PageIds)
  <1>1. ASSUME NEW row \in RowsShown
        PROVE  /\ ExternalId(bank[First + row + 1], row, page) \in Ids
               /\ First + row + 1 \in 1..Len(bank) /\ row \in 0..PageSize - 1
    <2>1. First + row + 1 \in 1..Len(bank) /\ row \in 0..PageSize - 1
      BY PageFacts DEF RowsShown
    <2>2. bank[First + row + 1] \in Texts
      BY <2>1 DEF TypeOK
    <2> QED
      BY <2>1, <2>2, PageFacts DEF ExternalId, Ids, TypeOK
  <1>2. PageIds = {id \in IdsOf(bank) : id.page = page}
    <2>1. ASSUME NEW id \in PageIds PROVE id \in IdsOf(bank) /\ id.page = page
      <3>1. PICK row \in RowsShown : id = ExternalId(bank[First + row + 1], row, page)
        BY <2>1 DEF PageIds
      <3>2. id \in Ids /\ id.text = bank[First + row + 1] /\ id.row = row /\ id.page = page
        BY <1>1, <3>1 DEF ExternalId
      <3> QED
        BY <1>1, <3>2, PageFacts DEF IdsOf
    <2>2. ASSUME NEW id \in IdsOf(bank), id.page = page PROVE id \in PageIds
      <3>1. /\ id \in Ids /\ id.row \in RowsShown
            /\ id.text = bank[First + id.row + 1]
        BY <2>2, PageFacts DEF IdsOf, Ids, RowsShown
      <3>2. id = ExternalId(bank[First + id.row + 1], id.row, page)
        BY <2>2, <3>1 DEF ExternalId, Ids
      <3> QED
        BY <3>1, <3>2 DEF PageIds
    <2> QED
      BY <2>1, <2>2 DEF IdsOf
  <1>3. IsFiniteSet(PageIds)
    <2> DEFINE f == [id \in PageIds |-> id.row]
               Rows == 0..PageSize - 1
    <2>1. f \in [PageIds -> Rows]
      BY <1>2 DEF IdsOf, Ids
    <2>2. ASSUME NEW a \in PageIds, NEW b \in PageIds, a.row = b.row PROVE a = b
      <3>1. a \in Ids /\ b \in Ids /\ a.page = b.page /\ a.text = b.text
        BY <1>2, <2>2 DEF IdsOf
      <3> QED
        BY <2>2, <3>1 DEF Ids
    <2>3. f \in Injection(PageIds, Rows)
      BY <2>1, <2>2 DEF Injection, IsInjective
    <2>4. IsFiniteSet(Rows)
      BY PageFacts, FS_Interval
    <2> HIDE DEF f, Rows
    <2> QED
      BY <2>3, <2>4, FS_Injection
  <1> QED
    BY <1>2, <1>3 DEF IdsOf

-----------------------------------------------------------------------------
(* Matchings                                                               *)

LEMMA MatchedNothing == \A ids : Matched(0, ids)
  <1> SUFFICES ASSUME NEW ids PROVE Matched(0, ids)
    OBVIOUS
  <1> DEFINE f == [i \in 1..0 |-> {}]
  <1>1. f \in [1..0 -> ids] /\ \A i \in 1..0 : FALSE
    OBVIOUS
  <1> HIDE DEF f
  <1>2. Matches(f, 0, ids)
    BY <1>1 DEF Matches
  <1> QED
    BY <1>2 DEF Matched

LEMMA MatchedMore ==
  ASSUME NEW n, NEW small, NEW ids, small \subseteq ids, Matched(n, small)
  PROVE  Matched(n, ids)
  <1>1. PICK f : Matches(f, n, small)
    BY DEF Matched
  <1>2. Matches(f, n, ids)
    BY <1>1 DEF Matches
  <1> QED
    BY <1>2 DEF Matched

\* A page adds the rows it shows to the matching.
LEMMA PageMatches ==
  ASSUME IInv, page > 0, NEW n \in 0..Len(before), n + Shift <= First + PageSize
  PROVE  Matched(n, collected \cup PageIds)
  <1> DEFINE m == IF n + Shift <= First THEN n ELSE IF First <= Shift THEN 0 ELSE First - Shift
  <1>1. /\ First \in Nat /\ Shift \in Nat /\ PageSize \in Nat \ {0}
        /\ Len(bank) \in Nat /\ Len(before) \in Nat /\ Len(bank) = Len(before) + Shift
    BY PageFacts DEF IInv, Grown, Shift
  <1>2. /\ m \in 0..n
        /\ m = 0 \/ m + Shift <= First
        /\ \A i \in 1..n : i > m => i + Shift > First
    BY <1>1
  <1>3. \A i \in 1..n : i > m => /\ i + Shift - First - 1 \in RowsShown
                              /\ First + (i + Shift - First - 1) + 1 = i + Shift
                              /\ bank[i + Shift] = before[i]
    BY <1>1, <1>2 DEF RowsShown, IInv, Grown
  <1>4. Matched(m, collected)
    BY <1>1, <1>2, MatchedNothing DEF IInv, Kept
  <1> HIDE DEF m
  <1>5. PICK f : Matches(f, m, collected)
    BY <1>4 DEF Matched
  <1> DEFINE Row(i) == i + Shift - First - 1
             Id(i) == ExternalId(before[i], Row(i), page)
             g == [i \in 1..n |-> IF i <= m THEN f[i] ELSE Id(i)]
  <1>6. ASSUME NEW i \in 1..n, i > m
        PROVE  /\ Id(i) \in PageIds /\ Id(i).text = before[i]
               /\ Id(i).row = Row(i) /\ Id(i).page = page
    BY <1>3, <1>6 DEF PageIds, ExternalId
  <1>7. ASSUME NEW i \in 1..n, i <= m
        PROVE  i \in 1..m /\ f[i] \in collected /\ f[i].text = before[i] /\ f[i].page < page
    BY <1>2, <1>5, <1>7 DEF Matches, IInv
  <1>8. \A i \in 1..n : \/ i <= m /\ g[i] = f[i] /\ g[i].page < page
                        \/ i > m /\ g[i] = Id(i) /\ g[i].page = page /\ g[i].row = Row(i)
    BY <1>2, <1>6, <1>7
  <1>9. g \in [1..n -> collected \cup PageIds] /\ \A i \in 1..n : g[i].text = before[i]
    BY <1>2, <1>6, <1>7
  <1>10. ASSUME NEW i \in 1..n, NEW k \in 1..n, g[i] = g[k] PROVE i = k
    <2> HIDE DEF g, Id
    <2>1. page \in Nat /\ \A id \in collected : id.page < page
      BY PageFacts DEF IInv
    <2>2. CASE i <= m /\ k <= m
      <3>1. f[i] = f[k] /\ i \in 1..m /\ k \in 1..m
        BY <1>2, <1>7, <1>8, <1>10, <2>2
      <3> QED
        BY <1>5, <3>1 DEF Matches
    <2>3. CASE i > m /\ k > m
      <3>1. Row(i) = Row(k)
        BY <1>2, <1>8, <1>10, <2>3
      <3> QED
        BY <1>1, <3>1
    <2>4. CASE i <= m /\ k > m
      <3>1. g[i].page < page /\ g[k].page = page
        BY <1>2, <1>8, <2>4
      <3> QED
        BY <1>10, <3>1, <2>1
    <2>5. CASE i > m /\ k <= m
      <3>1. g[k].page < page /\ g[i].page = page
        BY <1>2, <1>8, <2>5
      <3> QED
        BY <1>10, <3>1, <2>1
    <2> QED
      BY <1>2, <2>2, <2>3, <2>4, <2>5
  <1> HIDE DEF g
  <1>11. Matches(g, n, collected \cup PageIds)
    BY <1>9, <1>10 DEF Matches
  <1> QED
    BY <1>11 DEF Matched

\* What a matching is for.
LEMMA MatchedCounts ==
  ASSUME NEW text, IsFiniteSet(ledger), before \in Seq(Texts), Matched(Len(before), ledger)
  PROVE  LedgerRows(text) >= Occurrences(before, text)
  <1> DEFINE S == {i \in 1..Len(before) : before[i] = text}
             T == {id \in ledger : id.text = text}
  <1>1. PICK f : Matches(f, Len(before), ledger)
    BY DEF Matched
  <1> DEFINE g == [i \in S |-> f[i]]
  <1>2. g \in [S -> T] /\ \A a, b \in S : g[a] = g[b] => a = b
    BY <1>1 DEF Matches
  <1>3. g \in Injection(S, T)
    BY <1>2 DEF Injection, IsInjective
  <1>4. IsFiniteSet(T)
    BY FS_Subset
  <1> HIDE DEF S, T, g
  <1>5. Cardinality(S) <= Cardinality(T) /\ IsFiniteSet(S)
    BY <1>3, <1>4, FS_Injection
  <1>6. Cardinality(S) \in Nat /\ Cardinality(T) \in Nat
    BY <1>4, <1>5, FS_CardinalityType
  <1> QED
    BY <1>5, <1>6 DEF LedgerRows, Occurrences, S, T

-----------------------------------------------------------------------------
(* Every step                                                              *)

LEMMA InitIInv == Init => IInv
  <1> SUFFICES ASSUME Init PROVE IInv
    OBVIOUS
  <1>1. TypeOK
    <2>1. PICK n \in 0..MaxPosted : bank \in [1..n -> Texts]
      BY DEF Init
    <2>2. n \in Nat /\ n <= MaxPosted
      BY <2>1, IdsConstants
    <2>3. bank \in Seq(Texts) /\ Len(bank) = n
      BY <2>1, <2>2
    <2> QED
      BY <2>2, <2>3, IdsConstants DEF Init, TypeOK
  <1>2. Len(before) = 0 /\ page = 0 /\ collected = {} /\ ledger = {} /\ covered = <<>>
    BY DEF Init
  <1>3. Grown
    BY <1>1, <1>2 DEF Grown, Shift, TypeOK
  <1>4. IdsOf(covered) = {}
    <2>1. ASSUME NEW id \in IdsOf(covered) PROVE FALSE
      <3>1. id \in Ids /\ Off(id.page) + id.row + 1 <= 0
        BY <1>2, <2>1 DEF IdsOf
      <3>2. id.page \in Nat /\ id.page >= 1 /\ id.row \in Nat /\ PageSize \in Nat
        BY <3>1, IdsConstants DEF Ids
      <3>3. Off(id.page) >= 0
        <4>1. id.page > 1 => Off(1) + PageSize <= Off(id.page)
          BY <3>2, OffGrows
        <4>2. Off(1) = 0 /\ Off(id.page) \in Int
          BY <3>2, OffStep
        <4>3. id.page = 1 \/ id.page > 1
          BY <3>2
        <4> QED
          BY <3>2, <4>1, <4>2, <4>3
      <3>4. Off(id.page) \in Int
        BY <3>2, OffStep
      <3> QED
        BY <3>1, <3>2, <3>3, <3>4
    <2> QED
      BY <2>1
  <1>5. Kept /\ Unmoved
    BY <1>2, MatchedNothing DEF Kept, Unmoved
  <1> QED
    BY <1>1, <1>2, <1>3, <1>4, <1>5, FS_EmptySet DEF IInv

LEMMA PostKeeps == ASSUME IInv, NEW text \in Texts, Post(text) PROVE IInv'
  <1>1. /\ bank' = <<text>> \o bank /\ Len(bank) < MaxPosted
        /\ UNCHANGED <<page, collected, ledger, syncs, before, covered>>
    BY DEF Post, ghosts
  <1>2. /\ bank' \in Seq(Texts) /\ Len(bank') = Len(bank) + 1 /\ Len(bank) \in Nat
        /\ \A i \in 1..Len(bank) : bank'[i + 1] = bank[i]
    BY <1>1 DEF IInv, TypeOK
  <1>3. TypeOK'
    BY <1>1, <1>2, IdsConstants DEF IInv, TypeOK, Ids
  <1>4. /\ Shift' = Shift + 1 /\ Shift \in Nat
        /\ Len(before) \in Nat /\ Len(bank) = Len(before) + Shift
    BY <1>1, <1>2, PageFacts DEF Shift, IInv, Grown
  <1>5. Grown'
    <2> SUFFICES ASSUME NEW i \in 1..Len(before) PROVE bank'[i + Shift'] = before[i]
      BY <1>1, <1>4 DEF Grown
    <2>1. i + Shift \in 1..Len(bank) /\ i + Shift' = (i + Shift) + 1
      BY <1>4
    <2> QED
      BY <1>2, <2>1 DEF IInv, Grown
  <1>6. Kept'
    <2>1. First' = First /\ First \in Int
      BY <1>1, PageFacts DEF First, IInv
    <2>2. \A n \in 0..Len(before) : n + Shift' <= First => n + Shift <= First
      BY <1>4, <2>1
    <2>3. (page = 0 => Matched(Len(before), ledger))'
      BY <1>1 DEF IInv, Kept, Matched, Matches
    <2>4. ASSUME NEW n \in 0..Len(before), page > 0, n + Shift' <= First
          PROVE  Matched(n, collected)'
      <3>1. Matched(n, collected)
        BY <2>2, <2>4 DEF IInv, Kept
      <3> QED
        BY <1>1, <3>1 DEF Matched, Matches
    <2> QED
      BY <1>1, <2>1, <2>3, <2>4 DEF Kept
  <1>7. Unmoved'
    <2>1. bank' # before
      BY <1>2, <1>4
    <2> QED
      BY <1>1, <2>1 DEF Unmoved
  <1>8. (IdsOf(covered) \subseteq ledger)'
    BY <1>1 DEF IInv, IdsOf, Ids, Off
  <1> QED
    BY <1>1, <1>3, <1>5, <1>6, <1>7, <1>8 DEF IInv

LEMMA StartKeeps == ASSUME IInv, StartSync PROVE IInv'
  <1>1. /\ page = 0 /\ page' = 1 /\ collected' = {} /\ syncs' = syncs + 1 /\ before' = bank
        /\ syncs < MaxSyncs /\ UNCHANGED <<bank, ledger, covered>>
    BY DEF StartSync
  <1>2. TypeOK'
    BY <1>1, IdsConstants DEF IInv, TypeOK, Ids
  <1>3. Len(bank) \in Nat /\ Shift' = 0
    BY <1>1, PageFacts DEF IInv, Shift
  <1>4. First' = 0
    BY <1>1, IdsConstants DEF First
  <1>5. Grown'
    BY <1>1, <1>3 DEF Grown
  <1>6. Kept'
    <2>1. ASSUME NEW n \in 0..Len(bank), n + Shift' <= 0 PROVE Matched(n, collected)'
      <3>1. n = 0
        BY <1>3, <2>1
      <3> QED
        BY <3>1, MatchedNothing DEF Matched, Matches
    <2> QED
      BY <1>1, <1>4, <2>1 DEF Kept
  <1>7. Unmoved'
    BY <1>1 DEF Unmoved, IdsOf, Ids
  <1>8. (IdsOf(covered) \subseteq ledger)'
    BY <1>1 DEF IInv, IdsOf, Ids, Off
  <1> QED
    BY <1>1, <1>2, <1>5, <1>6, <1>7, <1>8, FS_EmptySet DEF IInv

\* A page that is followed by another.
LEMMA TurnKeeps == ASSUME IInv, ReadPage, HasNextPage, page < MaxPages PROVE IInv'
  <1>1. /\ page > 0 /\ page' = page + 1 /\ collected' = collected \cup PageIds
        /\ UNCHANGED <<bank, ledger, covered, syncs, before>>
    BY DEF ReadPage, PageIds
  <1>2. /\ PageIds = {id \in IdsOf(bank) : id.page = page} /\ PageIds \subseteq Ids
        /\ IsFiniteSet(PageIds)
    BY <1>1, PageIdsFacts DEF IInv
  <1>3. /\ page \in Nat /\ MaxPages \in Nat /\ First \in Int /\ PageSize \in Nat
        /\ First' = First + PageSize
    <2>1. First = Off(page) /\ First' = Off(page + 1)
      BY <1>1 DEF First, Off
    <2> QED
      BY <2>1, PageFacts, OffStep DEF IInv
  <1>4. TypeOK'
    BY <1>1, <1>2, <1>3 DEF IInv, TypeOK, Ids
  <1>5. Grown' /\ Shift' = Shift
    BY <1>1 DEF IInv, Grown, Shift
  <1>6. \A id \in collected' : id.page < page'
    <2>1. \A id \in collected : id.page < page /\ id \in Ids
      BY DEF IInv, TypeOK
    <2>2. \A id \in PageIds : id.page = page
      BY <1>2
    <2>3. \A id \in Ids : id.page \in Nat
      BY <1>3 DEF Ids
    <2> QED
      BY <1>1, <1>3, <2>1, <2>2, <2>3
  <1>7. Kept'
    <2>1. ASSUME NEW n \in 0..Len(before), n + Shift <= First + PageSize
          PROVE  Matched(n, collected)'
      <3>1. Matched(n, collected \cup PageIds)
        BY <1>1, <2>1, PageMatches
      <3> QED
        BY <1>1, <3>1 DEF Matched, Matches
    <2>2. page' # 0 /\ before' = before /\ Len(before) \in Nat
      BY <1>1, <1>3, PageFacts DEF IInv
    <2>3. ASSUME NEW n \in 0..Len(before'), n + Shift' <= First' PROVE Matched(n, collected)'
      <3>1. n \in 0..Len(before) /\ n + Shift <= First + PageSize
        BY <1>3, <1>5, <2>2, <2>3
      <3> QED
        BY <2>1, <3>1
    <2> QED
      BY <2>2, <2>3 DEF Kept
  <1>8. Unmoved'
    <2> SUFFICES ASSUME bank = before
                 PROVE  collected' = {id \in IdsOf(bank) : id.page < page'}
      BY <1>1 DEF Unmoved, IdsOf, Ids, Off
    <2>1. collected = {id \in IdsOf(bank) : id.page < page}
      BY <1>1 DEF IInv, Unmoved
    <2>2. \A id \in IdsOf(bank) : id.page < page' <=> id.page < page \/ id.page = page
      BY <1>1, <1>3 DEF IdsOf, Ids
    <2> QED
      BY <1>1, <1>2, <2>1, <2>2
  <1>9. (IdsOf(covered) \subseteq ledger)'
    BY <1>1 DEF IInv, IdsOf, Ids, Off
  <1>10. IsFiniteSet(collected') /\ IsFiniteSet(ledger')
    BY <1>1, <1>2, FS_Union DEF IInv
  <1> QED
    BY <1>4, <1>5, <1>6, <1>7, <1>8, <1>9, <1>10 DEF IInv

\* The last page reaches the end of the list, and an unmoved list has been
\* read as a whole.
LEMMA LastPage ==
  ASSUME IInv, page > 0, ~(HasNextPage /\ page < MaxPages)
  PROVE  /\ Len(bank) <= First + PageSize
         /\ bank = before => IdsOf(bank) = collected \cup PageIds
  <1>1. /\ First = Off(page) /\ First \in Int /\ PageSize \in Nat /\ Len(bank) \in Nat
        /\ page \in Nat /\ page <= MaxPages /\ MaxPages \in Nat
        /\ Len(bank) <= Off(MaxPages) + PageSize
    BY PageFacts DEF IInv
  <1>2. Len(bank) <= First + PageSize
    <2>1. CASE page = MaxPages
      BY <1>1, <2>1
    <2>2. CASE ~HasNextPage
      BY <1>1, <2>2 DEF HasNextPage
    <2> QED
      BY <1>1, <2>1, <2>2
  <1>3. ASSUME bank = before PROVE IdsOf(bank) = collected \cup PageIds
    <2>1. ASSUME NEW id \in IdsOf(bank) PROVE id.page <= page
      <3>1. /\ id.page \in Nat /\ id.row \in Nat /\ Off(id.page) + id.row + 1 <= Len(bank)
        BY <2>1, <1>1 DEF IdsOf, Ids
      <3>2. Off(id.page) \in Int
        BY <3>1, OffStep
      <3>3. page < id.page => First + PageSize <= Off(id.page)
        BY <1>1, <3>1, OffGrows
      <3> QED
        BY <1>1, <1>2, <3>1, <3>2, <3>3
    <2>2. collected = {id \in IdsOf(bank) : id.page < page}
      BY <1>3 DEF IInv, Unmoved
    <2>3. PageIds = {id \in IdsOf(bank) : id.page = page}
      BY PageIdsFacts DEF IInv
    <2>4. \A id \in IdsOf(bank) : id.page \in Nat
      BY <1>1 DEF IdsOf, Ids
    <2>5. \A id \in IdsOf(bank) : id.page < page \/ id.page = page
      BY <1>1, <2>1, <2>4
    <2> QED
      BY <2>2, <2>3, <2>5
  <1> QED
    BY <1>2, <1>3

LEMMA EndKeeps == ASSUME IInv, ReadPage, ~(HasNextPage /\ page < MaxPages) PROVE IInv'
  <1>1. /\ page > 0 /\ page' = 0 /\ ledger' = ledger \cup collected \cup PageIds /\ collected' = {}
        /\ covered' = IF bank = before THEN bank ELSE covered
        /\ UNCHANGED <<bank, syncs, before>>
    BY DEF ReadPage, PageIds
  <1>2. PageIds \subseteq Ids /\ IsFiniteSet(PageIds)
    BY <1>1, PageIdsFacts DEF IInv
  <1>3. TypeOK'
    BY <1>1, <1>2, IdsConstants DEF IInv, TypeOK, Ids
  <1>4. Grown'
    BY <1>1 DEF IInv, Grown, Shift
  <1>5. Kept'
    <2>1. Len(before) \in 0..Len(before) /\ Len(before) + Shift = Len(bank)
      BY PageFacts DEF IInv, Shift
    <2>2. Matched(Len(before), collected \cup PageIds)
      BY <1>1, <2>1, LastPage, PageMatches
    <2>3. Matched(Len(before), ledger \cup collected \cup PageIds)
      BY <2>2, MatchedMore
    <2> QED
      BY <1>1, <2>3 DEF Kept, Matched, Matches
  <1>6. Unmoved'
    BY <1>1 DEF Unmoved
  <1>7. IdsOf(covered') \subseteq ledger'
    BY <1>1, LastPage DEF IInv
  <1>8. IsFiniteSet(collected') /\ IsFiniteSet(ledger')
    BY <1>1, <1>2, FS_Union, FS_EmptySet DEF IInv
  <1> QED
    BY <1>1, <1>3, <1>4, <1>5, <1>6, <1>7, <1>8 DEF IInv, IdsOf, Ids, Off

LEMMA StepIInv == IInv /\ [Next]_vars => IInv'
  <1> SUFFICES ASSUME IInv, [Next]_vars PROVE IInv'
    OBVIOUS
  <1>1. CASE ReadPage
    BY <1>1, TurnKeeps, EndKeeps
  <1>2. CASE UNCHANGED vars
    <2>1. UNCHANGED <<bank, page, collected, ledger, syncs, before, covered>>
      BY <1>2 DEF vars, ghosts
    <2>2. TypeOK' /\ Grown'
      BY <2>1 DEF IInv, TypeOK, Ids, Grown, Shift
    <2>3. Kept'
      BY <2>1 DEF IInv, Kept, Matched, Matches, Shift, First
    <2>4. Unmoved' /\ (IdsOf(covered) \subseteq ledger)'
      BY <2>1 DEF IInv, Unmoved, IdsOf, Ids, Off
    <2> QED
      BY <2>1, <2>2, <2>3, <2>4 DEF IInv
  <1> QED
    BY <1>1, <1>2, PostKeeps, StartKeeps DEF Next

-----------------------------------------------------------------------------
(* Theorems                                                                *)

THEOREM Invariance == Spec => []IInv
  <1> QED
    BY InitIInv, StepIInv, PTL DEF Spec

\* Every id is of a row and a page that the bank shows.
THEOREM TypeCorrect == Spec => []TypeOK
  <1>1. IInv => TypeOK
    BY DEF IInv
  <1> QED
    BY Invariance, <1>1, PTL

\* However the bank's list moves while syncs read it, as long as it fits the
\* pages the cap allows, each row the bank had when a sync began has a row of
\* its own in the ledger when the sync is through.
THEOREM RowsAreKept == Spec => []NothingLost
  <1>1. IInv => NothingLost
    BY MatchedCounts DEF IInv, Kept, TypeOK, NothingLost
  <1> QED
    BY Invariance, <1>1, PTL

\* Reading an unmoved list again adds nothing.
THEOREM RepeatAddsNothing == Spec => SyncIsIdempotent
  <1>1. ASSUME IInv, [Next]_vars, page > 0, page' = 0, bank = before, bank = covered
        PROVE  ledger' = ledger
    <2>1. page \in Nat /\ page # 0 /\ page' = 0
      BY <1>1, PageFacts DEF IInv
    <2>2. ReadPage
      <3>1. ASSUME NEW text \in Texts, Post(text) PROVE FALSE
        BY <2>1, <3>1 DEF Post
      <3>2. ~StartSync /\ ~UNCHANGED vars
        BY <2>1 DEF StartSync, vars
      <3> QED
        BY <1>1, <3>1, <3>2 DEF Next
    <2>3. ~(HasNextPage /\ page < MaxPages)
      <3>1. HasNextPage /\ page < MaxPages => page' = page + 1
        BY <2>2 DEF ReadPage
      <3> QED
        BY <2>1, <3>1
    <2>4. ledger' = ledger \cup collected \cup PageIds
      BY <2>2, <2>3 DEF ReadPage, PageIds
    <2>5. collected \cup PageIds \subseteq ledger
      BY <1>1, <2>2, <2>3, LastPage DEF IInv, ReadPage
    <2> QED
      BY <2>4, <2>5
  <1> QED
    BY Invariance, <1>1, PTL DEF Spec, SyncIsIdempotent

=============================================================================
