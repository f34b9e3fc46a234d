-------------------------- MODULE SyncSlotsProofs --------------------------
(***************************************************************************)
(* Theorems about SyncSlots, for any syncs, banks and limits.              *)
(*                                                                         *)
(* The heart of the inductive invariant is what holds of each semaphore    *)
(* (Books): the syncs awake in its line are the first of it, they stand in *)
(* the event loop's queue in the order of the line, and the free units,    *)
(* those of the syncs beyond and those handed to the ones awake make up    *)
(* the capacity.  A step is a few moves of these books: one joins a line,  *)
(* one leaves it, the next are woken.                                      *)
(***************************************************************************)
EXTENDS SyncSlots, FiniteSetTheorems, SequenceTheorems, TLAPS

-----------------------------------------------------------------------------
(* Sequences without repetition                                            *)

Distinct(q) == \A i, j \in 1..Len(q) : q[i] = q[j] => i = j

\* Sequence q without its p-th element.
Without(q, p) == SubSeq(q, 1, p - 1) \o SubSeq(q, p + 1, Len(q))

LEMMA MinOfOne == ASSUME NEW n \in Int PROVE Min({n}) = n
BY DEF Min

\* RemoveFirst takes an element out at the one place it has.
LEMMA RemovedAt ==
    ASSUME NEW q \in Seq(Syncs), Distinct(q), NEW p \in 1..Len(q)
    PROVE  RemoveFirst(q, q[p]) = Without(q, p)
<1>1. {i \in 1..Len(q) : q[i] = q[p]} = {p}
  BY DEF Distinct
<1>2. SelectInSeq(q, LAMBDA v : v = q[p]) = p
  BY <1>1, MinOfOne DEF SelectInSeq
<1> QED
  BY <1>2 DEF RemoveFirst, RemoveAt, Without

LEMMA NotRemoved ==
    ASSUME NEW q \in Seq(Syncs), NEW s, s \notin ToSet(q)
    PROVE  RemoveFirst(q, s) = q
BY DEF RemoveFirst, ToSet

\* What Without leaves, by place and by membership and order.
LEMMA WithoutFacts ==
    ASSUME NEW q \in Seq(Syncs), NEW p \in 1..Len(q)
    PROVE  /\ Without(q, p) \in Seq(Syncs)
           /\ Len(Without(q, p)) = Len(q) - 1
           /\ \A i \in 1..Len(q) - 1 : Without(q, p)[i] = q[IF i < p THEN i ELSE i + 1]
<1> DEFINE a == SubSeq(q, 1, p - 1)
           b == SubSeq(q, p + 1, Len(q))
<1>1. a \in Seq(Syncs) /\ Len(a) = p - 1 /\ \A i \in 1..p - 1 : a[i] = q[i]
  BY SubSeqProperties, ElementOfSeq
<1>2. b \in Seq(Syncs) /\ Len(b) = Len(q) - p /\ \A i \in 1..Len(q) - p : b[i] = q[p + i]
  <2>1. \A i \in p + 1..Len(q) : q[i] \in Syncs
    BY ElementOfSeq
  <2> QED
    BY <2>1, SubSeqProperties
<1> HIDE DEF a, b
<1>3. /\ a \o b \in Seq(Syncs) /\ Len(a \o b) = Len(q) - 1
      /\ \A i \in 1..Len(q) - 1 : (a \o b)[i] = IF i <= p - 1 THEN a[i] ELSE b[i - (p - 1)]
  BY <1>1, <1>2, ConcatProperties
<1>4. \A i \in 1..Len(q) - 1 : (a \o b)[i] = q[IF i < p THEN i ELSE i + 1]
  BY <1>1, <1>2, <1>3
<1> QED
  BY <1>3, <1>4 DEF Without, a, b

In(q, s) == \E i \in 1..Len(q) : q[i] = s
Before(q, s, t) == \E m, n \in 1..Len(q) : m < n /\ q[m] = s /\ q[n] = t

LEMMA WithoutSame ==
    ASSUME NEW q \in Seq(Syncs), Distinct(q), NEW p \in 1..Len(q)
    PROVE  /\ Distinct(Without(q, p))
           /\ \A s : In(Without(q, p), s) <=> In(q, s) /\ s # q[p]
           /\ \A s, t : Before(q, s, t) /\ s # q[p] /\ t # q[p] => Before(Without(q, p), s, t)
<1> DEFINE r == Without(q, p)
<1>1. /\ r \in Seq(Syncs) /\ Len(r) = Len(q) - 1
      /\ \A i \in 1..Len(q) - 1 : r[i] = q[IF i < p THEN i ELSE i + 1]
  BY WithoutFacts
<1> HIDE DEF r
<1>2. Len(q) \in Nat
  OBVIOUS
<1>3. \A i \in 1..Len(q) - 1 : i < p => r[i] = q[i]
  BY <1>1, <1>2
<1>4. \A i \in 1..Len(q) : p < i => i - 1 \in 1..Len(q) - 1 /\ r[i - 1] = q[i]
  BY <1>1, <1>2
<1>5. Distinct(r)
  <2> SUFFICES ASSUME NEW i \in 1..Len(r), NEW j \in 1..Len(r), r[i] = r[j] PROVE i = j
    BY DEF Distinct
  <2> DEFINE to(k) == IF k < p THEN k ELSE k + 1
  <2>1. /\ to(i) \in 1..Len(q) /\ to(j) \in 1..Len(q)
        /\ r[i] = q[to(i)] /\ r[j] = q[to(j)]
    BY <1>1, <1>2
  <2>2. to(i) = to(j)
    BY <2>1 DEF Distinct
  <2> QED
    BY <1>1, <1>2, <2>2
<1>6. ASSUME NEW s PROVE In(r, s) <=> In(q, s) /\ s # q[p]
  <2>1. ASSUME NEW i \in 1..Len(r), r[i] = s PROVE In(q, s) /\ s # q[p]
    <3> DEFINE to == IF i < p THEN i ELSE i + 1
    <3>1. to \in 1..Len(q) /\ to # p
      BY <1>1, <1>2
    <3>2. q[to] = s
      BY <1>1, <2>1
    <3> QED
      BY <3>1, <3>2 DEF In, Distinct
  <2>2. ASSUME NEW i \in 1..Len(q), q[i] = s, s # q[p] PROVE In(r, s)
    <3>1. i < p \/ p < i
      BY <2>2
    <3> QED
      BY <1>1, <1>2, <1>3, <1>4, <2>2, <3>1 DEF In
  <2> QED
    BY <2>1, <2>2 DEF In
<1>7. ASSUME NEW s, NEW t, NEW m \in 1..Len(q), NEW n \in 1..Len(q),
             m < n, q[m] = s, q[n] = t, s # q[p], t # q[p]
      PROVE  Before(r, s, t)
  <2>1. m # p /\ n # p
    BY <1>7
  <2>2. CASE n < p
    <3>1. m \in 1..Len(r) /\ n \in 1..Len(r) /\ m < p
      BY <1>1, <1>2, <1>7, <2>2
    <3>2. r[m] = s /\ r[n] = t
      BY <1>1, <1>3, <1>7, <2>2, <3>1
    <3> QED
      BY <1>7, <3>1, <3>2 DEF Before
  <2>3. CASE m < p /\ p < n
    <3>1. m \in 1..Len(r) /\ n - 1 \in 1..Len(r) /\ m < n - 1
      BY <1>1, <1>2, <2>3
    <3>2. r[m] = s /\ r[n - 1] = t
      BY <1>1, <1>3, <1>4, <1>7, <2>3, <3>1
    <3> QED
      BY <3>1, <3>2 DEF Before
  <2>4. CASE p < m
    <3>1. m - 1 \in 1..Len(r) /\ n - 1 \in 1..Len(r) /\ m - 1 < n - 1 /\ p < n
      BY <1>1, <1>2, <1>7, <2>4
    <3>2. r[m - 1] = s /\ r[n - 1] = t
      BY <1>4, <1>7, <2>4, <3>1
    <3> QED
      BY <3>1, <3>2 DEF Before
  <2> QED
    BY <1>7, <2>1, <2>2, <2>3, <2>4
<1> QED
  BY <1>5, <1>6, <1>7 DEF r, Before

LEMMA ConcatSame ==
    ASSUME NEW q \in Seq(Syncs), NEW u \in Seq(Syncs)
    PROVE  /\ \A s : In(q \o u, s) <=> In(q, s) \/ In(u, s)
           /\ \A s, t : Before(q, s, t) \/ (In(q, s) /\ In(u, t)) \/ Before(u, s, t)
                            => Before(q \o u, s, t)
           /\ Distinct(q) /\ Distinct(u) /\ (\A i \in 1..Len(u) : ~In(q, u[i]))
                => Distinct(q \o u)
<1> DEFINE r == q \o u
<1>1. /\ r \in Seq(Syncs) /\ Len(r) = Len(q) + Len(u) /\ Len(q) \in Nat /\ Len(u) \in Nat
      /\ \A i \in 1..Len(q) + Len(u) : r[i] = IF i <= Len(q) THEN q[i] ELSE u[i - Len(q)]
  BY ConcatProperties
<1> HIDE DEF r
<1>2. \A i \in 1..Len(q) : i \in 1..Len(r) /\ r[i] = q[i]
  <2> TAKE i \in 1..Len(q)
  <2>1. i \in 1..Len(q) + Len(u) /\ i <= Len(q)
    BY <1>1
  <2> QED
    BY <1>1, <2>1
<1>3. \A i \in 1..Len(u) : Len(q) + i \in 1..Len(r) /\ r[Len(q) + i] = u[i]
  <2> TAKE i \in 1..Len(u)
  <2>1. Len(q) + i \in 1..Len(q) + Len(u) /\ ~(Len(q) + i <= Len(q)) /\ (Len(q) + i) - Len(q) = i
    BY <1>1
  <2> QED
    BY <1>1, <2>1
<1>4. \A i \in 1..Len(r) : i \in 1..Len(q) \/ \E k \in 1..Len(u) : i = Len(q) + k
  <2> TAKE i \in 1..Len(r)
  <2>1. CASE i <= Len(q)
    BY <1>1, <2>1
  <2>2. CASE i > Len(q)
    <3>1. i - Len(q) \in 1..Len(u) /\ i = Len(q) + (i - Len(q))
      BY <1>1, <2>2
    <3> QED
      BY <3>1
  <2> QED
    BY <1>1, <2>1, <2>2
<1>5. ASSUME NEW s PROVE In(r, s) <=> In(q, s) \/ In(u, s)
  <2>1. In(q, s) \/ In(u, s) => In(r, s)
    BY <1>2, <1>3 DEF In
  <2>2. ASSUME NEW i \in 1..Len(r), r[i] = s PROVE In(q, s) \/ In(u, s)
    <3>1. i \in 1..Len(q) \/ \E k \in 1..Len(u) : i = Len(q) + k
      BY <1>4
    <3> QED
      BY <1>2, <1>3, <2>2, <3>1 DEF In
  <2> QED
    BY <2>1, <2>2 DEF In
<1>6. ASSUME NEW s, NEW t, Before(q, s, t) PROVE Before(r, s, t)
  BY <1>2, <1>6 DEF Before
<1>7. ASSUME NEW s, NEW t, In(q, s), In(u, t) PROVE Before(r, s, t)
  <2>1. PICK m \in 1..Len(q) : q[m] = s
    BY <1>7 DEF In
  <2>2. PICK n \in 1..Len(u) : u[n] = t
    BY <1>7 DEF In
  <2>3. m < Len(q) + n
    BY <1>1
  <2> QED
    BY <1>2, <1>3, <2>1, <2>2, <2>3 DEF Before
<1>8. ASSUME NEW s, NEW t, Before(u, s, t) PROVE Before(r, s, t)
  <2>1. PICK m \in 1..Len(u), n \in 1..Len(u) : m < n /\ u[m] = s /\ u[n] = t
    BY <1>8 DEF Before
  <2>2. Len(q) + m < Len(q) + n
    BY <1>1, <2>1
  <2> QED
    BY <1>3, <2>1, <2>2 DEF Before
<1>9. ASSUME Distinct(q), Distinct(u), \A i \in 1..Len(u) : ~In(q, u[i])
      PROVE  Distinct(r)
  <2> SUFFICES ASSUME NEW i \in 1..Len(r), NEW j \in 1..Len(r), r[i] = r[j] PROVE i = j
    BY DEF Distinct
  <2>1. CASE i <= Len(q) /\ j <= Len(q)
    BY <1>1, <1>9, <2>1 DEF Distinct
  <2>2. CASE i > Len(q) /\ j > Len(q)
    <3>1. /\ i - Len(q) \in 1..Len(u) /\ j - Len(q) \in 1..Len(u)
          /\ u[i - Len(q)] = u[j - Len(q)]
      BY <1>1, <2>2
    <3>2. i - Len(q) = j - Len(q)
      BY <1>9, <3>1 DEF Distinct
    <3> QED
      BY <1>1, <3>2
  <2>a. ASSUME NEW m \in 1..Len(r), NEW n \in 1..Len(r), m <= Len(q), n > Len(q)
        PROVE  r[m] # r[n]
    <3>1. m \in 1..Len(q) /\ n - Len(q) \in 1..Len(u)
      BY <1>1, <2>a
    <3>2. r[m] = q[m] /\ r[n] = u[n - Len(q)]
      BY <1>1, <2>a, <3>1
    <3> QED
      BY <1>9, <3>1, <3>2 DEF In
  <2>3. CASE i <= Len(q) /\ j > Len(q)
    BY <2>3, <2>a
  <2>4. CASE i > Len(q) /\ j <= Len(q)
    BY <2>4, <2>a
  <2> QED
    BY <1>1, <2>1, <2>2, <2>3, <2>4
<1> QED
  BY <1>5, <1>6, <1>7, <1>8, <1>9 DEF r

-----------------------------------------------------------------------------
(* One line and the queue of the event loop                                *)

\* The first w in line are awake, the others sleep.
Awake(line, rdy, w) ==
    /\ w \in 0..Len(line)
    /\ \A i \in 1..Len(line) : In(rdy, line[i]) <=> i <= w

\* Who is awake has everybody before him in line before him in the loop's queue.
InOrder(line, rdy) ==
    \A i, j \in 1..Len(line) :
        i < j /\ In(rdy, line[j]) => Before(rdy, line[i], line[j])

Lined(line, rdy, w) ==
    /\ line \in Seq(Syncs) /\ rdy \in Seq(Syncs)
    /\ Distinct(line) /\ Distinct(rdy)
    /\ Awake(line, rdy, w)
    /\ InOrder(line, rdy)

\* A newcomer sleeps at the end of the line.
LEMMA Queued ==
    ASSUME NEW line, NEW rdy, NEW w, Lined(line, rdy, w),
           NEW s \in Syncs, ~In(line, s), ~In(rdy, s)
    PROVE  Lined(Append(line, s), rdy, w)
<1> DEFINE new == Append(line, s)
<1>1. /\ new \in Seq(Syncs) /\ Len(new) = Len(line) + 1 /\ Len(line) \in Nat
      /\ \A i \in 1..Len(line) : new[i] = line[i]
      /\ new[Len(line) + 1] = s
  BY AppendProperties DEF Lined
<1> HIDE DEF new
<1>2. Distinct(new)
  BY <1>1 DEF Distinct, In, Lined
<1>3. Awake(new, rdy, w)
  BY <1>1 DEF Awake, Lined
<1>4. InOrder(new, rdy)
  <2> SUFFICES ASSUME NEW i \in 1..Len(new), NEW j \in 1..Len(new), i < j, In(rdy, new[j])
               PROVE  Before(rdy, new[i], new[j])
    BY DEF InOrder
  <2>1. j # Len(line) + 1
    BY <1>1
  <2>2. i \in 1..Len(line) /\ j \in 1..Len(line)
    BY <1>1, <2>1
  <2> QED
    BY <1>1, <2>2 DEF InOrder, Lined
<1> QED
  BY <1>1, <1>2, <1>3, <1>4 DEF Lined, new

\* One who is not in line goes from the loop's queue.
LEMMA OtherGone ==
    ASSUME NEW line, NEW rdy, NEW w, Lined(line, rdy, w),
           NEW n \in 1..Len(rdy), ~In(line, rdy[n])
    PROVE  Lined(line, Without(rdy, n), w)
<1>1. \A i \in 1..Len(line) : line[i] # rdy[n]
  BY DEF In
<1>2. Without(rdy, n) \in Seq(Syncs)
  BY WithoutFacts DEF Lined
<1> QED
  BY <1>1, <1>2, WithoutSame DEF Lined, Awake, InOrder

\* Others are woken.
LEMMA OthersWoken ==
    ASSUME NEW line, NEW rdy, NEW w, Lined(line, rdy, w),
           NEW up \in Seq(Syncs), Distinct(up),
           \A i \in 1..Len(up) : ~In(rdy, up[i]) /\ ~In(line, up[i])
    PROVE  Lined(line, rdy \o up, w)
<1>1. \A i \in 1..Len(line) : ~In(up, line[i])
  BY DEF In
<1>2. rdy \o up \in Seq(Syncs)
  BY ConcatProperties DEF Lined
<1> QED
  BY <1>1, <1>2, ConcatSame DEF Lined, Awake, InOrder

\* The p-th in line, who is asleep, goes.
LEMMA SleeperGone ==
    ASSUME NEW line, NEW rdy, NEW w, Lined(line, rdy, w), NEW p \in w + 1..Len(line)
    PROVE  Lined(Without(line, p), rdy, w)
<1> DEFINE new == Without(line, p)
<1>1. w \in Nat /\ Len(line) \in Nat /\ p \in 1..Len(line) /\ w <= Len(line) - 1
  BY DEF Lined, Awake
<1>2. /\ new \in Seq(Syncs) /\ Len(new) = Len(line) - 1 /\ Distinct(new)
      /\ \A i \in 1..Len(line) - 1 : new[i] = line[IF i < p THEN i ELSE i + 1]
  BY <1>1, WithoutFacts, WithoutSame DEF Lined
<1> HIDE DEF new
<1>3. Awake(new, rdy, w)
  <2>1. \A i \in 1..Len(line) : In(rdy, line[i]) <=> i <= w
    BY DEF Awake, Lined
  <2>2. ASSUME NEW i \in 1..Len(new) PROVE In(rdy, new[i]) <=> i <= w
    <3>1. CASE i < p
      <4>1. new[i] = line[i] /\ i \in 1..Len(line)
        BY <1>1, <1>2, <3>1
      <4> QED
        BY <2>1, <4>1
    <3>2. CASE ~(i < p)
      <4>0. i \in 1..Len(line) - 1 /\ w < p /\ w \in Nat
        BY <1>1, <1>2
      <4>1. new[i] = line[i + 1]
        BY <1>2, <3>2, <4>0
      <4>2. i + 1 \in 1..Len(line) /\ ~(i <= w) /\ ~(i + 1 <= w)
        BY <1>1, <3>2, <4>0
      <4> QED
        BY <2>1, <4>1, <4>2
    <3> QED
      BY <3>1, <3>2
  <2>3. w \in 0..Len(new)
    BY <1>1, <1>2
  <2> QED
    BY <2>2, <2>3 DEF Awake
<1>4. InOrder(new, rdy)
  <2> SUFFICES ASSUME NEW i \in 1..Len(new), NEW j \in 1..Len(new), i < j, In(rdy, new[j])
               PROVE  Before(rdy, new[i], new[j])
    BY DEF InOrder
  <2> DEFINE to(k) == IF k < p THEN k ELSE k + 1
  <2>n. i \in 1..Len(line) - 1 /\ j \in 1..Len(line) - 1
    BY <1>2
  <2>0. /\ to(i) \in 1..Len(line) /\ to(j) \in 1..Len(line) /\ to(i) < to(j)
        /\ new[i] = line[to(i)] /\ new[j] = line[to(j)]
    <3>1. to(i) \in 1..Len(line) /\ to(j) \in 1..Len(line) /\ to(i) < to(j)
      BY <1>1, <2>n
    <3> QED
      BY <1>2, <2>n, <3>1
  <2>1. PICK k \in 1..Len(line), m \in 1..Len(line) :
             k < m /\ new[i] = line[k] /\ new[j] = line[m]
    BY <2>0
  <2> QED
    BY <2>1 DEF InOrder, Lined
<1> QED
  BY <1>2, <1>3, <1>4 DEF Lined, new

\* The p-th in line, who is awake, goes from both.
LEMMA WokenGone ==
    ASSUME NEW line, NEW rdy, NEW w, Lined(line, rdy, w),
           NEW p \in 1..w, NEW n \in 1..Len(rdy), rdy[n] = line[p]
    PROVE  Lined(Without(line, p), Without(rdy, n), w - 1)
<1> DEFINE new == Without(line, p)
           rest == Without(rdy, n)
<1>1. w \in Nat /\ Len(line) \in Nat /\ p \in 1..Len(line) /\ w <= Len(line) /\ w >= 1
  BY DEF Lined, Awake
<1>2. /\ new \in Seq(Syncs) /\ Len(new) = Len(line) - 1 /\ Distinct(new)
      /\ \A i \in 1..Len(line) - 1 : new[i] = line[IF i < p THEN i ELSE i + 1]
  BY <1>1, WithoutFacts, WithoutSame DEF Lined
<1>3. /\ rest \in Seq(Syncs) /\ Distinct(rest)
      /\ \A s : In(rest, s) <=> In(rdy, s) /\ s # line[p]
      /\ \A s, t : Before(rdy, s, t) /\ s # line[p] /\ t # line[p] => Before(rest, s, t)
  <2>1. rdy \in Seq(Syncs) /\ Distinct(rdy)
    BY DEF Lined
  <2>2. rest \in Seq(Syncs)
    BY <2>1, WithoutFacts
  <2>3. /\ Distinct(rest)
        /\ \A s : In(rest, s) <=> In(rdy, s) /\ s # rdy[n]
        /\ \A s, t : Before(rdy, s, t) /\ s # rdy[n] /\ t # rdy[n] => Before(rest, s, t)
    BY <2>1, WithoutSame
  <2> HIDE DEF rest
  <2> QED
    BY <2>2, <2>3
<1> HIDE DEF new, rest
<1>4. \A i \in 1..Len(new) : new[i] # line[p]
  <2>1. ~In(new, line[p])
    BY <1>1, WithoutSame DEF Lined, new
  <2> QED
    BY <2>1 DEF In
<1>5. Awake(new, rest, w - 1)
  <2>1. \A i \in 1..Len(line) : In(rdy, line[i]) <=> i <= w
    BY DEF Awake, Lined
  <2>2. ASSUME NEW i \in 1..Len(new) PROVE In(rest, new[i]) <=> i <= w - 1
    <3>0. In(rest, new[i]) <=> In(rdy, new[i])
      BY <1>3, <1>4
    <3>1. CASE i < p
      <4>1. new[i] = line[i] /\ i \in 1..Len(line) /\ i <= w /\ i <= w - 1
        BY <1>1, <1>2, <3>1
      <4> QED
        BY <2>1, <3>0, <4>1
    <3>2. CASE ~(i < p)
      <4>0. i \in 1..Len(line) - 1
        BY <1>1, <1>2
      <4>1. new[i] = line[i + 1]
        BY <1>2, <3>2, <4>0
      <4>2. i + 1 \in 1..Len(line) /\ (i <= w - 1 <=> i + 1 <= w)
        BY <1>1, <4>0
      <4> QED
        BY <2>1, <3>0, <4>1, <4>2
    <3> QED
      BY <3>1, <3>2
  <2>3. w - 1 \in 0..Len(new)
    BY <1>1, <1>2
  <2> QED
    BY <2>2, <2>3 DEF Awake
<1>6. InOrder(new, rest)
  <2> SUFFICES ASSUME NEW i \in 1..Len(new), NEW j \in 1..Len(new), i < j, In(rest, new[j])
               PROVE  Before(rest, new[i], new[j])
    BY DEF InOrder
  <2> DEFINE to(k) == IF k < p THEN k ELSE k + 1
  <2>n. i \in 1..Len(line) - 1 /\ j \in 1..Len(line) - 1
    BY <1>2
  <2>0. /\ to(i) \in 1..Len(line) /\ to(j) \in 1..Len(line) /\ to(i) < to(j)
        /\ new[i] = line[to(i)] /\ new[j] = line[to(j)]
    <3>1. to(i) \in 1..Len(line) /\ to(j) \in 1..Len(line) /\ to(i) < to(j)
      BY <1>1, <2>n
    <3> QED
      BY <1>2, <2>n, <3>1
  <2>1. PICK k \in 1..Len(line), m \in 1..Len(line) :
             k < m /\ new[i] = line[k] /\ new[j] = line[m]
    BY <2>0
  <2>2. Before(rdy, line[k], line[m])
    BY <1>3, <2>1 DEF InOrder, Lined
  <2> QED
    BY <1>3, <1>4, <2>1, <2>2
<1> QED
  BY <1>2, <1>3, <1>5, <1>6 DEF Lined, new, rest

\* The next k sleepers are woken.
LEMMA NextWoken ==
    ASSUME NEW line, NEW rdy, NEW w, Lined(line, rdy, w), NEW k \in 0..Len(line) - w,
           NEW up \in Seq(Syncs), Len(up) = k, \A i \in 1..k : up[i] = line[w + i]
    PROVE  Lined(line, rdy \o up, w + k) /\ Distinct(up)
<1>1. w \in Nat /\ Len(line) \in Nat /\ k \in Nat /\ w + k <= Len(line)
  BY DEF Lined, Awake
<1>t. \A i \in 1..k : w + i \in 1..Len(line) /\ w + i > w /\ up[i] = line[w + i]
  BY <1>1
<1>2. Distinct(up)
  <2> SUFFICES ASSUME NEW i \in 1..k, NEW j \in 1..k, up[i] = up[j] PROVE i = j
    BY DEF Distinct
  <2>1. w + i = w + j
    BY <1>t DEF Distinct, Lined
  <2> QED
    BY <1>1, <2>1
<1>3. \A i \in 1..Len(up) : ~In(rdy, up[i])
  <2> TAKE i \in 1..Len(up)
  <2>1. ~(w + i <= w)
    BY <1>1
  <2> QED
    BY <1>t, <2>1 DEF Awake, Lined
<1>4. rdy \o up \in Seq(Syncs) /\ Distinct(rdy \o up)
  BY <1>2, <1>3, ConcatProperties, ConcatSame DEF Lined
<1>5. \A i \in 1..Len(line) : In(up, line[i]) <=> i \in w + 1..w + k
  <2> TAKE i \in 1..Len(line)
  <2>1. ASSUME NEW j \in 1..k, up[j] = line[i] PROVE i \in w + 1..w + k
    <3>1. w + j = i
      BY <1>t, <2>1 DEF Distinct, Lined
    <3> QED
      BY <1>1, <3>1
  <2>2. ASSUME i \in w + 1..w + k PROVE In(up, line[i])
    <3>1. i - w \in 1..k /\ up[i - w] = line[w + (i - w)] /\ w + (i - w) = i
      BY <1>1, <2>2
    <3> QED
      BY <3>1 DEF In
  <2> QED
    BY <2>1, <2>2 DEF In
<1>6. Awake(line, rdy \o up, w + k)
  BY <1>1, <1>5, ConcatSame DEF Awake, Lined
<1>7. InOrder(line, rdy \o up)
  <2> SUFFICES ASSUME NEW i \in 1..Len(line), NEW j \in 1..Len(line), i < j,
                      In(rdy \o up, line[j])
               PROVE  Before(rdy \o up, line[i], line[j])
    BY DEF InOrder
  <2>1. CASE j <= w
    BY <1>1, <2>1, ConcatSame DEF InOrder, Awake, Lined
  <2>2. CASE i <= w /\ j > w
    BY <1>1, <1>5, <2>2, ConcatSame DEF Awake, Lined
  <2>3. CASE i > w
    <3>1. j \in w + 1..w + k
      BY <1>1, <1>5, <2>3, ConcatSame DEF Awake, Lined
    <3>2. /\ i - w \in 1..k /\ j - w \in 1..k /\ i - w < j - w
          /\ up[i - w] = line[i] /\ up[j - w] = line[j]
      BY <1>1, <2>3, <3>1
    <3>3. Before(up, line[i], line[j])
      BY <3>2 DEF Before
    <3> QED
      BY <3>3, ConcatSame DEF Lined
  <2> QED
    BY <1>1, <2>1, <2>2, <2>3
<1> QED
  BY <1>2, <1>4, <1>6, <1>7 DEF Lined

\* release() and the loop at the end of acquire() wake the next sleepers in line.
LEMMA NextUpIs ==
    ASSUME NEW line \in Seq(Syncs), NEW w \in 0..Len(line), NEW k \in Nat,
           \A i \in 1..Len(line) : Woken(line[i]) <=> i <= w
    PROVE  \E m \in 0..Len(line) - w :
             /\ m <= k /\ (m = k \/ m = Len(line) - w)
             /\ NextUp(line, k) \in Seq(Syncs)
             /\ Len(NextUp(line, k)) = m
             /\ \A i \in 1..m : NextUp(line, k)[i] = line[w + i]
<1> DEFINE open == {i \in DOMAIN line : ~Woken(line[i])}
           upTo(i) == {j \in open : j <= i}
           nth(n) == CHOOSE i \in open : Cardinality(upTo(i)) = n
<1>1. Len(line) \in Nat /\ w \in Nat
  OBVIOUS
<1>2. open = w + 1..Len(line)
  BY <1>1
<1>c. \A i \in w..Len(line) : Cardinality(w + 1..i) = i - w
  <2> TAKE i \in w..Len(line)
  <2>1. w + 1 \in Int /\ i \in Int
    BY <1>1
  <2>2. Cardinality(w + 1..i) = IF w + 1 > i THEN 0 ELSE i - (w + 1) + 1
    BY <2>1, FS_Interval
  <2> QED
    BY <1>1, <2>2
<1>3. Cardinality(open) = Len(line) - w
  <2> HIDE DEF open
  <2> QED
    BY <1>1, <1>2, <1>c
<1>4. \A i \in open : Cardinality(upTo(i)) = i - w
  <2> TAKE i \in open
  <2>1. upTo(i) = w + 1..i /\ i \in w..Len(line)
    BY <1>1, <1>2
  <2> HIDE DEF upTo
  <2> QED
    BY <1>c, <2>1
<1> HIDE DEF upTo
<1>5. \A n \in 1..Len(line) - w : nth(n) = w + n
  <2> TAKE n \in 1..Len(line) - w
  <2>1. w + n \in open /\ Cardinality(upTo(w + n)) = n
    BY <1>1, <1>2, <1>4
  <2>2. \A i \in open : Cardinality(upTo(i)) = n => i = w + n
    BY <1>1, <1>2, <1>4
  <2> QED
    BY <2>1, <2>2
<1> DEFINE m == Min({k, Cardinality(open)})
<1>6. /\ m \in 0..Len(line) - w /\ m <= k
      /\ m = k \/ m = Len(line) - w
  <2>1. k <= Len(line) - w => m = k
    BY <1>1, <1>3 DEF Min
  <2>2. k > Len(line) - w => m = Len(line) - w
    BY <1>1, <1>3 DEF Min
  <2> QED
    BY <1>1, <2>1, <2>2
<1>7. NextUp(line, k) = [n \in 1..m |-> line[nth(n)]]
  BY DEF NextUp, upTo
<1> HIDE DEF m, nth, open
<1>8. \A n \in 1..m : w + n \in 1..Len(line) /\ nth(n) = w + n
  BY <1>1, <1>5, <1>6
<1>9. NextUp(line, k) = [n \in 1..m |-> line[w + n]]
  BY <1>7, <1>8
<1> DEFINE up == [n \in 1..m |-> line[w + n]]
<1>10. up \in [1..m -> Syncs]
  BY <1>8, ElementOfSeq
<1>11. up \in Seq(Syncs) /\ Len(up) = m
  <2>1. m \in Nat
    BY <1>1, <1>6
  <2> QED
    BY <1>10, <2>1, SeqDef, LenProperties
<1> QED
  BY <1>6, <1>9, <1>11

LEMMA WokenIsIn == ASSUME NEW s PROVE ready \in Seq(Syncs) => (Woken(s) <=> In(ready, s))
BY DEF Woken, ToSet, In

\* The books of a semaphore: its free units, those of the syncs beyond it and
\* those handed to the ones awake in its line make up its capacity; nobody
\* sleeps beside a free unit unless somebody in line is awake.
Books(line, rdy, v, n, cap) ==
    \E w \in 0..Len(line) :
        /\ Lined(line, rdy, w)
        /\ v \in Nat /\ n \in Nat
        /\ v + n + w = cap
        /\ v > 0 /\ line # <<>> => w > 0

\* Those who are woken come from the line.
FromLine(up, line) ==
    /\ up \in Seq(Syncs) /\ Distinct(up)
    /\ \A i \in 1..Len(up) : In(line, up[i]) /\ ~In(ready, up[i])

\* A line wakes its next sleepers.
LEMMA Wakes ==
    ASSUME NEW line, NEW rdy, NEW w, Lined(line, rdy, w), NEW k \in Nat,
           \A i \in 1..Len(line) : Woken(line[i]) <=> In(rdy, line[i]),
           ready \in Seq(Syncs)
    PROVE  \E m \in 0..Len(line) - w :
             /\ m <= k /\ (m = k \/ m = Len(line) - w)
             /\ Len(NextUp(line, k)) = m
             /\ FromLine(NextUp(line, k), line)
             /\ Lined(line, rdy \o NextUp(line, k), w + m)
<1>1. line \in Seq(Syncs) /\ w \in 0..Len(line) /\ w \in Nat /\ Len(line) \in Nat
  BY DEF Lined, Awake
<1>2. \A i \in 1..Len(line) : Woken(line[i]) <=> i <= w
  BY DEF Lined, Awake
<1>3. PICK m \in 0..Len(line) - w :
         /\ m <= k /\ (m = k \/ m = Len(line) - w)
         /\ NextUp(line, k) \in Seq(Syncs)
         /\ Len(NextUp(line, k)) = m
         /\ \A i \in 1..m : NextUp(line, k)[i] = line[w + i]
  BY <1>1, <1>2, NextUpIs
<1>4. Lined(line, rdy \o NextUp(line, k), w + m) /\ Distinct(NextUp(line, k))
  BY <1>3, NextWoken
<1>5. ASSUME NEW i \in 1..m
      PROVE  In(line, NextUp(line, k)[i]) /\ ~In(ready, NextUp(line, k)[i])
  <2>1. w + i \in 1..Len(line) /\ ~(w + i <= w)
    BY <1>1
  <2>2. ~Woken(line[w + i])
    BY <1>2, <2>1
  <2> QED
    BY <1>3, <2>1, <2>2, WokenIsIn DEF In
<1> QED
  BY <1>3, <1>4, <1>5 DEF FromLine

\* release() by one who is beyond the semaphore.
LEMMA FreedBooks ==
    ASSUME NEW line, NEW rdy, NEW v, NEW n, NEW cap, Books(line, rdy, v, n, cap),
           \A i \in 1..Len(line) : Woken(line[i]) <=> In(rdy, line[i]),
           ready \in Seq(Syncs), n > 0, cap \in Nat
    PROVE  /\ FromLine(NextUp(line, 1), line)
           /\ Books(line, rdy \o NextUp(line, 1), v + 1 - Len(NextUp(line, 1)), n - 1, cap)
<1>1. PICK w \in 0..Len(line) : /\ Lined(line, rdy, w)
                                /\ v \in Nat /\ n \in Nat
                                /\ v + n + w = cap
                                /\ v > 0 /\ line # <<>> => w > 0
  BY DEF Books
<1>2. line \in Seq(Syncs)
  BY <1>1 DEF Lined
<1>3. PICK m \in 0..Len(line) - w :
             /\ m <= 1 /\ (m = 1 \/ m = Len(line) - w)
             /\ Len(NextUp(line, 1)) = m
             /\ FromLine(NextUp(line, 1), line)
             /\ Lined(line, rdy \o NextUp(line, 1), w + m)
  BY <1>1, Wakes
<1>4. w + m \in 0..Len(line) /\ v + 1 - m \in Nat /\ n - 1 \in Nat
      /\ (v + 1 - m) + (n - 1) + (w + m) = cap
  BY <1>1, <1>2, <1>3
<1>5. v + 1 - m > 0 /\ line # <<>> => w + m > 0
  <2>1. line # <<>> => Len(line) > 0
    BY <1>2
  <2> QED
    BY <1>1, <1>2, <1>3, <2>1
<1> QED
  BY <1>3, <1>4, <1>5 DEF Books

\* One leaves the line, and the spare units go on to the next in it.  gone is
\* the loop's queue without him.
LEMMA LeftBooks ==
    ASSUME NEW line, NEW w \in 0..Len(line), Lined(line, ready, w), NEW p \in 1..Len(line),
           NEW gone, NEW left \in Nat, NEW spare \in Nat, NEW n \in Nat, NEW cap \in Nat,
           spare + n + left = cap,
           \/ p > w /\ gone = ready /\ left = w
           \/ /\ p <= w /\ left = w - 1
              /\ \E i \in 1..Len(ready) : ready[i] = line[p] /\ gone = Without(ready, i)
    PROVE  LET up == NextUp(Without(line, p), spare)
           IN  /\ FromLine(up, Without(line, p))
               /\ Books(Without(line, p), gone \o up, spare - Len(up), n, cap)
<1> DEFINE rest == Without(line, p)
<1>1. ready \in Seq(Syncs) /\ line \in Seq(Syncs) /\ Distinct(line) /\ Distinct(ready)
  BY DEF Lined
<1>2. Lined(rest, gone, left)
  <2>1. CASE p > w
    BY <2>1, SleeperGone
  <2>2. CASE p <= w
    <3>1. PICK i \in 1..Len(ready) : ready[i] = line[p] /\ gone = Without(ready, i)
      BY <2>2
    <3>2. p \in 1..w /\ left = w - 1
      BY <2>2
    <3> QED
      BY <3>1, <3>2, WokenGone
  <2> QED
    BY <2>1, <2>2
<1>3. \A s : In(rest, s) => s # line[p]
  BY <1>1, WithoutSame
<1>4. \A s : s # line[p] => (In(gone, s) <=> In(ready, s))
  BY <1>1, WithoutSame
<1>5. \A i \in 1..Len(rest) : Woken(rest[i]) <=> In(gone, rest[i])
  BY <1>1, <1>3, <1>4, WokenIsIn DEF In
<1> HIDE DEF rest
<1>6. PICK m \in 0..Len(rest) - left :
             /\ m <= spare /\ (m = spare \/ m = Len(rest) - left)
             /\ Len(NextUp(rest, spare)) = m
             /\ FromLine(NextUp(rest, spare), rest)
             /\ Lined(rest, gone \o NextUp(rest, spare), left + m)
  BY <1>1, <1>2, <1>5, Wakes
<1>7. /\ left + m \in 0..Len(rest) /\ spare - m \in Nat
      /\ (spare - m) + n + (left + m) = cap
  BY <1>2, <1>6 DEF Lined
<1>8. spare - m > 0 /\ rest # <<>> => left + m > 0
  <2>1. rest \in Seq(Syncs) /\ (rest # <<>> => Len(rest) > 0)
    BY <1>2 DEF Lined
  <2> QED
    BY <1>6, <2>1
<1>9. Books(rest, gone \o NextUp(rest, spare), spare - m, n, cap)
  BY <1>6, <1>7, <1>8 DEF Books
<1> QED
  BY <1>6, <1>9 DEF rest

\* The other steps of the books.
LEMMA QueuedBooks ==
    ASSUME NEW line, NEW rdy, NEW v, NEW n, NEW cap, Books(line, rdy, v, n, cap),
           NEW s \in Syncs, ~In(line, s), ~In(rdy, s), v = 0 \/ line # <<>>
    PROVE  Books(Append(line, s), rdy, v, n, cap)
<1>1. PICK w \in 0..Len(line) : /\ Lined(line, rdy, w)
                                /\ v \in Nat /\ n \in Nat
                                /\ v + n + w = cap
                                /\ v > 0 /\ line # <<>> => w > 0
  BY DEF Books
<1>2. Lined(Append(line, s), rdy, w)
  BY <1>1, Queued
<1>3. w \in 0..Len(Append(line, s))
  BY <1>2 DEF Lined, Awake
<1> QED
  BY <1>1, <1>2, <1>3 DEF Books

LEMMA TakenBooks ==
    ASSUME NEW line, NEW rdy, NEW v, NEW n, NEW cap, Books(line, rdy, v, n, cap),
           v # 0, line = <<>>
    PROVE  Books(line, rdy, v - 1, n + 1, cap)
BY DEF Books

LEMMA GoneBooks ==
    ASSUME NEW line, NEW rdy, NEW v, NEW n, NEW cap, Books(line, rdy, v, n, cap),
           NEW i \in 1..Len(rdy), ~In(line, rdy[i])
    PROVE  Books(line, Without(rdy, i), v, n, cap)
BY OtherGone DEF Books

LEMMA WokenBooks ==
    ASSUME NEW line, NEW rdy, NEW v, NEW n, NEW cap, Books(line, rdy, v, n, cap),
           NEW up \in Seq(Syncs), Distinct(up),
           \A i \in 1..Len(up) : ~In(rdy, up[i]) /\ ~In(line, up[i])
    PROVE  Books(line, rdy \o up, v, n, cap)
BY OthersWoken DEF Books

LEMMA BooksTypes ==
    ASSUME NEW line, NEW rdy, NEW v, NEW n, NEW cap, Books(line, rdy, v, n, cap)
    PROVE  /\ line \in Seq(Syncs) /\ rdy \in Seq(Syncs)
           /\ Distinct(line) /\ Distinct(rdy)
           /\ v \in Nat /\ n \in Nat /\ v + n <= cap
BY DEF Books, Lined

-----------------------------------------------------------------------------
(* The limiter                                                             *)

\* Whether a sync in that stage has passed a semaphore, or stands in its line.
Passed(x, s, st) == IF x = Global THEN st \in {"in", "bank"} ELSE BankOf[s] = x /\ st = "in"
Stands(x, s, st) == IF x = Global THEN st = "global" ELSE BankOf[s] = x /\ st = "bank"

Inside(x) == {s \in Syncs : Passed(x, s, stage[s])}

SemOK(x) ==
    /\ Books(waiters[x], ready, value[x], Cardinality(Inside(x)), Capacity(x))
    /\ \A s \in Syncs : In(waiters[x], s) <=> Stands(x, s, stage[s])

IInv ==
    /\ value \in [Sems -> Nat]
    /\ waiters \in [Sems -> Seq(Syncs)]
    /\ ready \in Seq(Syncs)
    /\ stage \in [Syncs -> {"out", "global", "bank", "in"}]
    /\ \A s \in Syncs : In(ready, s) => stage[s] \in {"global", "bank"}
    /\ \A x \in Sems : SemOK(x)

LEMMA InsideFinite == \A x : IsFiniteSet(Inside(x)) /\ Cardinality(Inside(x)) \in Nat
BY SlotConstants, FS_Subset, FS_CardinalityType DEF Inside

\* One sync changes its stage.
LEMMA Moved ==
    ASSUME stage \in [Syncs -> {"out", "global", "bank", "in"}],
           NEW s \in Syncs, NEW to, stage' = [stage EXCEPT ![s] = to], NEW x
    PROVE  /\ (Passed(x, s, stage[s]) <=> Passed(x, s, to))
                => Cardinality(Inside(x))' = Cardinality(Inside(x))
           /\ ~Passed(x, s, stage[s]) /\ Passed(x, s, to)
                => Cardinality(Inside(x))' = Cardinality(Inside(x)) + 1
           /\ Passed(x, s, stage[s]) /\ ~Passed(x, s, to)
                => /\ Cardinality(Inside(x))' = Cardinality(Inside(x)) - 1
                   /\ Cardinality(Inside(x)) > 0
<1>1. CASE Passed(x, s, stage[s]) <=> Passed(x, s, to)
  <2>1. Inside(x)' = Inside(x)
    BY <1>1 DEF Inside, Passed
  <2> QED
    BY <1>1, <2>1
<1>2. CASE ~Passed(x, s, stage[s]) /\ Passed(x, s, to)
  <2>1. Inside(x)' = Inside(x) \cup {s} /\ s \notin Inside(x)
    BY <1>2 DEF Inside, Passed
  <2> QED
    BY <1>2, <2>1, InsideFinite, FS_AddElement
<1>3. CASE Passed(x, s, stage[s]) /\ ~Passed(x, s, to)
  <2>1. Inside(x)' = Inside(x) \ {s} /\ s \in Inside(x)
    BY <1>3 DEF Inside, Passed
  <2>2. Cardinality(Inside(x)') = Cardinality(Inside(x)) - 1
    BY <2>1, InsideFinite, FS_RemoveElement
  <2>3. Cardinality(Inside(x)) > 0
    BY <2>1, InsideFinite, FS_EmptySet
  <2> QED
    BY <1>3, <2>2, <2>3
<1> QED
  BY <1>1, <1>2, <1>3

\* Nobody stands in two lines.
LEMMA OneLine ==
    ASSUME IInv, NEW x \in Sems, NEW y \in Sems, x # y, NEW s, In(waiters[x], s)
    PROVE  ~In(waiters[y], s)
<1>1. s \in Syncs
  BY DEF IInv, In
<1>2. Stands(x, s, stage[s])
  BY <1>1 DEF IInv, SemOK
<1>3. ~Stands(y, s, stage[s])
  BY <1>2 DEF Stands
<1> QED
  BY <1>1, <1>3 DEF IInv, SemOK

LEMMA Constants ==
    /\ Global \in Sems
    /\ \A x \in Sems : Capacity(x) \in Nat
    /\ \A s \in Syncs : BankOf[s] \in Banks /\ BankOf[s] \in Sems /\ BankOf[s] # Global
BY SlotConstants DEF Sems, Capacity

LEMMA InitOK == Init => IInv
<1> SUFFICES ASSUME Init PROVE IInv
  OBVIOUS
<1>1. /\ value \in [Sems -> Nat] /\ waiters \in [Sems -> Seq(Syncs)] /\ ready \in Seq(Syncs)
      /\ stage \in [Syncs -> {"out", "global", "bank", "in"}]
      /\ \A s \in Syncs : ~In(ready, s)
  BY Constants DEF Init, In
<1>2. ASSUME NEW x \in Sems PROVE SemOK(x)
  <2>1. Inside(x) = {}
    BY DEF Inside, Passed, Init
  <2>2. Cardinality(Inside(x)) = 0
    BY <2>1, FS_EmptySet
  <2>3. Lined(<<>>, <<>>, 0)
    BY DEF Lined, Distinct, Awake, InOrder
  <2>4. Books(<<>>, <<>>, Capacity(x), 0, Capacity(x))
    BY <2>3, Constants DEF Books
  <2>5. \A s \in Syncs : ~In(<<>>, s) /\ ~Stands(x, s, "out")
    BY DEF In, Stands
  <2> QED
    BY <2>2, <2>4, <2>5 DEF SemOK, Init
<1> QED
  BY <1>1, <1>2 DEF IInv

\* What a step of s must leave of a semaphore.
LEMMA SemStep ==
    ASSUME IInv, NEW s \in Syncs, NEW to, stage' = [stage EXCEPT ![s] = to],
           NEW x \in Sems, NEW n, Books(waiters'[x], ready', value'[x], n, Capacity(x)),
           \/ n = Cardinality(Inside(x)) /\ (Passed(x, s, stage[s]) <=> Passed(x, s, to))
           \/ n = Cardinality(Inside(x)) + 1 /\ ~Passed(x, s, stage[s]) /\ Passed(x, s, to)
           \/ n = Cardinality(Inside(x)) - 1 /\ Passed(x, s, stage[s]) /\ ~Passed(x, s, to),
           \A t \in Syncs : In(waiters'[x], t) <=> IF t = s THEN Stands(x, s, to)
                                                            ELSE In(waiters[x], t)
    PROVE  SemOK(x)'
<1>1. stage \in [Syncs -> {"out", "global", "bank", "in"}]
  BY DEF IInv
<1>2. n = Cardinality(Inside(x))'
  BY <1>1, Moved
<1>3. \A t \in Syncs : In(waiters'[x], t) <=> Stands(x, t, stage'[t])
  BY <1>1 DEF IInv, SemOK
<1>4. Capacity(x)' = Capacity(x)
  BY DEF Capacity
<1> QED
  BY <1>2, <1>3, <1>4 DEF SemOK, In

\* The invariant after a step of s.
LEMMA StepOK ==
    ASSUME IInv, NEW s \in Syncs, NEW to \in {"out", "global", "bank", "in"},
           stage' = [stage EXCEPT ![s] = to],
           DOMAIN value' = Sems, DOMAIN waiters' = Sems,
           value' = [x \in Sems |-> value'[x]], waiters' = [x \in Sems |-> waiters'[x]],
           \A x \in Sems : SemOK(x)',
           \A t \in Syncs : In(ready', t) => IF t = s THEN to \in {"global", "bank"}
                                                      ELSE stage[t] \in {"global", "bank"}
    PROVE  IInv'
<1>1. stage' \in [Syncs -> {"out", "global", "bank", "in"}]
  BY DEF IInv
<1>2. \A x \in Sems : value'[x] \in Nat /\ waiters'[x] \in Seq(Syncs) /\ ready' \in Seq(Syncs)
  BY BooksTypes DEF SemOK
<1>3. \A t \in Syncs : In(ready, t)' => stage'[t] \in {"global", "bank"}
  BY DEF IInv, In
<1> QED
  BY <1>1, <1>2, <1>3, Constants DEF IInv

\* The step from the global semaphore to the bank's, by one who has left the
\* global line, or never stood in it.
LEMMA Acquired ==
    ASSUME IInv, NEW s \in Syncs, stage[s] \in {"out", "global"},
           NEW next, NEW line, AcquireBank(s, next, line),
           ~In(ready', s),
           \A t \in Syncs : In(ready', t) => stage[t] \in {"global", "bank"},
           Books(line, ready', next, Cardinality(Inside(Global)) + 1, Capacity(Global)),
           \A t \in Syncs : In(line, t) <=> t # s /\ In(waiters[Global], t),
           \A b \in Banks : Books(waiters[b], ready', value[b], Cardinality(Inside(b)), Capacity(b))
    PROVE  IInv'
<1> DEFINE b == BankOf[s]
<1>1. b \in Banks /\ b \in Sems /\ b # Global /\ Global \in Sems
  BY Constants
<1>2. /\ value \in [Sems -> Nat] /\ waiters \in [Sems -> Seq(Syncs)]
      /\ stage \in [Syncs -> {"out", "global", "bank", "in"}]
  BY DEF IInv
<1>3. \A x \in Sems : x # Global => x \in Banks
  BY DEF Sems
<1>5. ~In(waiters[b], s)
  BY <1>1 DEF IInv, SemOK, Stands
<1>6. CASE Locked(b)
  <2>1. /\ stage' = [stage EXCEPT ![s] = "bank"]
        /\ value' = [value EXCEPT ![Global] = next]
        /\ waiters' = [waiters EXCEPT ![Global] = line, ![b] = Append(@, s)]
    BY <1>6 DEF AcquireBank
  <2>2. ASSUME NEW x \in Sems PROVE SemOK(x)'
    <3>1. CASE x = Global
      <4>1. waiters'[x] = line /\ value'[x] = next
        BY <1>1, <1>2, <2>1, <3>1
      <4>2. ~Passed(x, s, stage[s]) /\ Passed(x, s, "bank") /\ ~Stands(x, s, "bank")
        BY <3>1 DEF Passed, Stands
      <4>3. Books(waiters'[x], ready', value'[x], Cardinality(Inside(x)) + 1, Capacity(x))
        BY <3>1, <4>1
      <4>4. \A t \in Syncs : In(waiters'[x], t) <=> IF t = s THEN Stands(x, s, "bank")
                                                            ELSE In(waiters[x], t)
        BY <3>1, <4>1, <4>2
      <4> QED
        BY <2>1, <4>2, <4>3, <4>4, SemStep
    <3>2. CASE x = b
      <4>1. waiters'[x] = Append(waiters[b], s) /\ value'[x] = value[b] /\ waiters[b] \in Seq(Syncs)
        BY <1>1, <1>2, <2>1, <3>2
      <4>2. Books(waiters'[x], ready', value'[x], Cardinality(Inside(b)), Capacity(b))
        BY <1>1, <1>5, <1>6, <4>1, QueuedBooks DEF Locked
      <4>3. \A t \in Syncs : In(waiters'[x], t) <=> In(waiters[b], t) \/ t = s
        BY <4>1, AppendProperties DEF In
      <4>4. ~Passed(x, s, stage[s]) /\ ~Passed(x, s, "bank") /\ Stands(x, s, "bank")
        BY <1>1, <3>2 DEF Passed, Stands
      <4> QED
        BY <2>1, <3>2, <4>2, <4>3, <4>4, SemStep
    <3>3. CASE x # Global /\ x # b
      <4>1. waiters'[x] = waiters[x] /\ value'[x] = value[x] /\ x \in Banks
        BY <1>2, <1>3, <2>1, <3>3
      <4>2. /\ ~Passed(x, s, stage[s]) /\ ~Passed(x, s, "bank") /\ ~Stands(x, s, "bank")
            /\ ~Stands(x, s, stage[s])
        BY <3>3 DEF Passed, Stands
      <4>3. ~In(waiters[x], s)
        BY <4>2 DEF IInv, SemOK
      <4> QED
        BY <2>1, <4>1, <4>2, <4>3, SemStep
    <3> QED
      BY <3>1, <3>2, <3>3
  <2> QED
    BY <1>2, <2>1, <2>2, StepOK
<1>7. CASE ~Locked(b)
  <2>1. /\ stage' = [stage EXCEPT ![s] = "in"]
        /\ value' = [value EXCEPT ![Global] = next, ![b] = @ - 1]
        /\ waiters' = [waiters EXCEPT ![Global] = line]
    BY <1>7 DEF AcquireBank
  <2>2. ASSUME NEW x \in Sems PROVE SemOK(x)'
    <3>1. CASE x = Global
      <4>1. waiters'[x] = line /\ value'[x] = next
        BY <1>1, <1>2, <2>1, <3>1
      <4>2. ~Passed(x, s, stage[s]) /\ Passed(x, s, "in") /\ ~Stands(x, s, "in")
        BY <3>1 DEF Passed, Stands
      <4>3. Books(waiters'[x], ready', value'[x], Cardinality(Inside(x)) + 1, Capacity(x))
        BY <3>1, <4>1
      <4>4. \A t \in Syncs : In(waiters'[x], t) <=> IF t = s THEN Stands(x, s, "in")
                                                            ELSE In(waiters[x], t)
        BY <3>1, <4>1, <4>2
      <4> QED
        BY <2>1, <4>2, <4>3, <4>4, SemStep
    <3>2. CASE x = b
      <4>1. waiters'[x] = waiters[b] /\ value'[x] = value[b] - 1
        BY <1>1, <1>2, <2>1, <3>2
      <4>2. Books(waiters'[x], ready', value'[x], Cardinality(Inside(b)) + 1, Capacity(b))
        BY <1>1, <1>7, <4>1, TakenBooks DEF Locked
      <4>3. ~Passed(x, s, stage[s]) /\ Passed(x, s, "in") /\ ~Stands(x, s, "in")
        BY <1>1, <3>2 DEF Passed, Stands
      <4> QED
        BY <1>5, <2>1, <3>2, <4>1, <4>2, <4>3, SemStep
    <3>3. CASE x # Global /\ x # b
      <4>1. waiters'[x] = waiters[x] /\ value'[x] = value[x] /\ x \in Banks
        BY <1>2, <1>3, <2>1, <3>3
      <4>2. /\ ~Passed(x, s, stage[s]) /\ ~Passed(x, s, "in") /\ ~Stands(x, s, "in")
            /\ ~Stands(x, s, stage[s])
        BY <3>3 DEF Passed, Stands
      <4>3. ~In(waiters[x], s)
        BY <4>2 DEF IInv, SemOK
      <4> QED
        BY <2>1, <4>1, <4>2, <4>3, SemStep
    <3> QED
      BY <3>1, <3>2, <3>3
  <2> QED
    BY <1>2, <2>1, <2>2, StepOK
<1> QED
  BY <1>6, <1>7

\* One step of the limiter each.
LEMMA AskStep == ASSUME IInv, NEW s \in Syncs, Ask(s) PROVE IInv'
<1>1. /\ value \in [Sems -> Nat] /\ waiters \in [Sems -> Seq(Syncs)] /\ ready \in Seq(Syncs)
      /\ stage[s] = "out" /\ ready' = ready
  BY DEF IInv, Ask
<1>2. Global \in Sems /\ ~In(ready, s) /\ \A x \in Sems : ~In(waiters[x], s)
  BY <1>1, Constants DEF IInv, SemOK, Stands
<1>3. \A x \in Sems : Books(waiters[x], ready, value[x], Cardinality(Inside(x)), Capacity(x))
  BY DEF IInv, SemOK
<1>4. CASE Locked(Global)
  <2>1. /\ stage' = [stage EXCEPT ![s] = "global"]
        /\ waiters' = [waiters EXCEPT ![Global] = Append(@, s)]
        /\ value' = value
    BY <1>4 DEF Ask
  <2>2. ASSUME NEW x \in Sems PROVE SemOK(x)'
    <3>1. ~Passed(x, s, stage[s]) /\ ~Passed(x, s, "global") /\ (Stands(x, s, "global") <=> x = Global)
      BY <1>1 DEF Passed, Stands
    <3>2. CASE x = Global
      <4>1. waiters'[x] = Append(waiters[x], s) /\ waiters[x] \in Seq(Syncs)
        BY <1>1, <2>1, <3>2
      <4>2. Books(waiters'[x], ready', value'[x], Cardinality(Inside(x)), Capacity(x))
        BY <1>1, <1>2, <1>3, <1>4, <2>1, <3>2, <4>1, QueuedBooks DEF Locked
      <4>3. \A t \in Syncs : In(waiters'[x], t) <=> In(waiters[x], t) \/ t = s
        BY <4>1, AppendProperties DEF In
      <4> QED
        BY <2>1, <3>1, <3>2, <4>2, <4>3, SemStep
    <3>3. CASE x # Global
      <4>1. waiters'[x] = waiters[x]
        BY <1>1, <2>1, <3>3
      <4>2. Books(waiters'[x], ready', value'[x], Cardinality(Inside(x)), Capacity(x))
        BY <1>1, <1>3, <2>1, <4>1
      <4>3. ~In(waiters[x], s) /\ ~Stands(x, s, "global")
        BY <1>2, <3>1, <3>3
      <4>4. \A t \in Syncs : In(waiters'[x], t) <=> IF t = s THEN Stands(x, s, "global")
                                                            ELSE In(waiters[x], t)
        BY <4>1, <4>3
      <4> QED
        BY <2>1, <3>1, <4>2, <4>4, SemStep
    <3> QED
      BY <3>2, <3>3
  <2>3. \A t \in Syncs : In(ready', t) => t # s /\ stage[t] \in {"global", "bank"}
    BY <1>1, <1>2 DEF IInv
  <2> QED
    BY <1>1, <2>1, <2>2, <2>3, StepOK
<1>5. CASE ~Locked(Global)
  <2>1. AcquireBank(s, value[Global] - 1, waiters[Global])
    BY <1>5 DEF Ask
  <2>2. value[Global] # 0 /\ waiters[Global] = <<>>
    BY <1>5 DEF Locked
  <2>3. Books(waiters[Global], ready', value[Global] - 1, Cardinality(Inside(Global)) + 1,
              Capacity(Global))
    BY <1>1, <1>2, <1>3, <2>2, TakenBooks
  <2>4. \A t \in Syncs : In(waiters[Global], t) <=> t # s /\ In(waiters[Global], t)
    BY <1>2
  <2>5. \A b \in Banks : Books(waiters[b], ready', value[b], Cardinality(Inside(b)), Capacity(b))
    BY <1>1, <1>3 DEF Sems
  <2>6. \A t \in Syncs : In(ready', t) => stage[t] \in {"global", "bank"}
    BY <1>1 DEF IInv
  <2> QED
    BY <1>1, <1>2, <2>1, <2>3, <2>4, <2>5, <2>6, Acquired
<1> QED
  BY <1>4, <1>5

\* The loop's queue without s.
GoneFrom(gone, s) ==
    \/ gone = ready /\ ~In(ready, s)
    \/ \E i \in 1..Len(ready) : ready[i] = s /\ gone = Without(ready, i)

\* Both ways to take s out of the loop's queue.
LEMMA TailGone ==
    ASSUME ready \in Seq(Syncs), ready # <<>>
    PROVE  GoneFrom(Tail(ready), Head(ready)) /\ In(ready, Head(ready))
<1>1. Len(ready) \in Nat /\ 1 \in 1..Len(ready) /\ Head(ready) = ready[1]
  OBVIOUS
<1>2. SubSeq(ready, 1, 0) = <<>> /\ Tail(ready) = SubSeq(ready, 2, Len(ready))
  BY SubSeqEmpty, TailIsSubSeq
<1>3. Without(ready, 1) = <<>> \o Tail(ready)
  BY <1>1, <1>2 DEF Without
<1>4. Without(ready, 1) = Tail(ready)
  BY <1>3, ConcatEmptySeq, HeadTailProperties
<1> QED
  BY <1>1, <1>4 DEF GoneFrom, In

LEMMA RemoveGone ==
    ASSUME IInv, NEW s \in Syncs
    PROVE  GoneFrom(RemoveFirst(ready, s), s)
<1>1. ready \in Seq(Syncs) /\ Distinct(ready)
  BY Constants, BooksTypes DEF IInv, SemOK
<1>2. CASE In(ready, s)
  <2>1. PICK i \in 1..Len(ready) : ready[i] = s
    BY <1>2 DEF In
  <2>2. RemoveFirst(ready, s) = Without(ready, i)
    BY <1>1, <2>1, RemovedAt
  <2> QED
    BY <2>1, <2>2 DEF GoneFrom
<1>3. CASE ~In(ready, s)
  <2>1. s \notin ToSet(ready)
    BY <1>3, <1>1 DEF In, ToSet
  <2> QED
    BY <1>1, <1>3, <2>1, NotRemoved DEF GoneFrom
<1> QED
  BY <1>2, <1>3

\* It has everybody else in it, and a line that s does not stand in keeps its
\* books.
LEMMA GoneFacts ==
    ASSUME IInv, NEW s \in Syncs, NEW gone, GoneFrom(gone, s)
    PROVE  /\ gone \in Seq(Syncs) /\ Distinct(gone)
           /\ \A t : In(gone, t) <=> In(ready, t) /\ t # s
           /\ \A x \in Sems : ~In(waiters[x], s) =>
                Books(waiters[x], gone, value[x], Cardinality(Inside(x)), Capacity(x))
<1>1. ready \in Seq(Syncs) /\ Distinct(ready)
  BY Constants, BooksTypes DEF IInv, SemOK
<1>2. \A x \in Sems : Books(waiters[x], ready, value[x], Cardinality(Inside(x)), Capacity(x))
  BY DEF IInv, SemOK
<1>3. CASE gone = ready /\ ~In(ready, s)
  BY <1>1, <1>2, <1>3
<1>4. ASSUME NEW i \in 1..Len(ready), ready[i] = s, gone = Without(ready, i)
      PROVE  /\ gone \in Seq(Syncs) /\ Distinct(gone)
             /\ \A t : In(gone, t) <=> In(ready, t) /\ t # s
             /\ \A x \in Sems : ~In(waiters[x], s) =>
                  Books(waiters[x], gone, value[x], Cardinality(Inside(x)), Capacity(x))
  BY <1>1, <1>2, <1>4, WithoutFacts, WithoutSame, GoneBooks
<1> QED
  BY <1>3, <1>4 DEF GoneFrom

LEMMA HandedOn ==
    ASSUME NEW v \in Nat, NEW n \in Nat, NEW w \in Nat, w - 1 \in Nat, NEW taken \in 0..1
    PROVE  /\ v + 1 - taken \in Nat /\ n + taken \in Nat
           /\ (v + 1 - taken) + (n + taken) + (w - 1) = v + n + w
OBVIOUS

\* s leaves the line of x, and the spare units go to the next in it; taken says
\* whether s keeps the unit it was handed.
LEMMA Left ==
    ASSUME IInv, NEW x \in Sems, NEW s \in Syncs, In(waiters[x], s),
           NEW gone, GoneFrom(gone, s), NEW spare, NEW taken \in 0..1,
           spare = value[x] + (IF Woken(s) THEN 1 ELSE 0) - taken, taken = 1 => Woken(s)
    PROVE  LET rest == RemoveFirst(waiters[x], s)
               up == PassedOn(x, s, spare)
           IN  /\ rest \in Seq(Syncs)
               /\ \A t : In(rest, t) <=> In(waiters[x], t) /\ t # s
               /\ FromLine(up, rest)
               /\ Books(rest, gone \o up, spare - Len(up), Cardinality(Inside(x)) + taken,
                        Capacity(x))
<1> DEFINE line == waiters[x]
           n == Cardinality(Inside(x))
           cap == Capacity(x)
<1>1. PICK w \in 0..Len(line) : /\ Lined(line, ready, w)
                                /\ value[x] \in Nat /\ n \in Nat
                                /\ value[x] + n + w = cap
  BY DEF IInv, SemOK, Books
<1>2. line \in Seq(Syncs) /\ Distinct(line) /\ ready \in Seq(Syncs) /\ cap \in Nat /\ w \in Nat
  BY <1>1, Constants DEF Lined
<1>3. PICK p \in 1..Len(line) : line[p] = s
  BY DEF In
<1>4. RemoveFirst(line, s) = Without(line, p)
  BY <1>2, <1>3, RemovedAt
<1>5. Woken(s) <=> p <= w
  BY <1>1, <1>2, <1>3, WokenIsIn DEF Lined, Awake
<1>6. In(ready, s) <=> p <= w
  BY <1>1, <1>3 DEF Lined, Awake
<1> DEFINE left == IF p <= w THEN w - 1 ELSE w
           n2 == n + taken
<1>7. left \in Nat /\ spare \in Nat /\ n2 \in Nat /\ spare + n2 + left = cap
  <2> HIDE DEF n, cap
  <2>1. CASE p <= w
    <3>1. spare = value[x] + 1 - taken /\ left = w - 1 /\ n2 = n + taken
      BY <1>5, <2>1
    <3>2. w - 1 \in Nat
      BY <1>2, <1>3, <2>1
    <3>3. value[x] \in Nat /\ n \in Nat /\ value[x] + n + w = cap
      BY <1>1
    <3>4. /\ value[x] + 1 - taken \in Nat /\ n + taken \in Nat
          /\ (value[x] + 1 - taken) + (n + taken) + (w - 1) = value[x] + n + w
      <4> DEFINE v == value[x]
      <4>1. v \in Nat /\ n \in Nat /\ w \in Nat
        BY <1>2, <3>3
      <4> HIDE DEF v
      <4>2. /\ v + 1 - taken \in Nat /\ n + taken \in Nat
            /\ (v + 1 - taken) + (n + taken) + (w - 1) = v + n + w
        BY <3>2, <4>1, HandedOn
      <4> QED
        BY <4>2 DEF v
    <3> HIDE DEF left, n2
    <3> QED
      BY <3>1, <3>2, <3>3, <3>4
  <2>2. CASE p > w
    <3>1. ~(p <= w) /\ taken = 0
      BY <1>2, <1>5, <2>2
    <3> QED
      BY <1>1, <1>2, <1>3, <1>5, <3>1
  <2> QED
    BY <1>2, <2>1, <2>2
<1>8. \/ p > w /\ gone = ready /\ left = w
      \/ /\ p <= w /\ left = w - 1
         /\ \E i \in 1..Len(ready) : ready[i] = line[p] /\ gone = Without(ready, i)
  <2>1. CASE p <= w
    BY <1>3, <1>6, <2>1 DEF GoneFrom
  <2>2. CASE p > w
    <3>1. ~In(ready, s)
      BY <1>2, <1>6, <2>2
    <3> QED
      BY <2>2, <3>1, <1>2 DEF GoneFrom, In
  <2> QED
    BY <1>2, <2>1, <2>2
<1> HIDE DEF left, n2, n, cap
<1> DEFINE up == NextUp(Without(line, p), spare)
<1>9. /\ FromLine(up, Without(line, p))
      /\ Books(Without(line, p), gone \o up, spare - Len(up), n2, cap)
  BY <1>1, <1>2, <1>7, <1>8, LeftBooks
<1>10. PassedOn(x, s, spare) = up
  BY <1>4 DEF PassedOn
<1>11. /\ Without(line, p) \in Seq(Syncs)
       /\ \A t : In(Without(line, p), t) <=> In(line, t) /\ t # s
  BY <1>2, <1>3, WithoutFacts, WithoutSame
<1> QED
  BY <1>4, <1>9, <1>10, <1>11 DEF n, n2, cap

\* A semaphore nobody leaves: others are woken.
LEMMA Beside ==
    ASSUME IInv, NEW s \in Syncs, NEW gone, GoneFrom(gone, s), NEW x \in Sems, ~In(waiters[x], s),
           NEW up, NEW y \in Sems, x # y, NEW line, FromLine(up, line),
           \A t \in Syncs : In(line, t) => In(waiters[y], t)
    PROVE  /\ Books(waiters[x], gone \o up, value[x], Cardinality(Inside(x)), Capacity(x))
           /\ \A i \in 1..Len(waiters[x]) :
                 Woken(waiters[x][i]) <=> In(gone \o up, waiters[x][i])
<1>1. Books(waiters[x], gone, value[x], Cardinality(Inside(x)), Capacity(x))
  BY GoneFacts
<1>2. /\ gone \in Seq(Syncs) /\ \A t : In(gone, t) <=> In(ready, t) /\ t # s
  BY GoneFacts
<1>3. up \in Seq(Syncs) /\ Distinct(up)
  BY DEF FromLine
<1>4. ASSUME NEW i \in 1..Len(up) PROVE ~In(gone, up[i]) /\ ~In(waiters[x], up[i])
  <2>1. up[i] \in Syncs /\ In(line, up[i]) /\ ~In(ready, up[i])
    BY <1>3 DEF FromLine
  <2> QED
    BY <1>2, <2>1, OneLine
<1>5. Books(waiters[x], gone \o up, value[x], Cardinality(Inside(x)), Capacity(x))
  BY <1>1, <1>3, <1>4, WokenBooks
<1>6. ASSUME NEW i \in 1..Len(waiters[x])
      PROVE  Woken(waiters[x][i]) <=> In(gone \o up, waiters[x][i])
  <2>1. waiters[x][i] # s
    BY DEF In
  <2>2. ~In(up, waiters[x][i])
    BY <1>4 DEF In
  <2>3. ready \in Seq(Syncs)
    BY DEF IInv
  <2> QED
    BY <1>2, <1>3, <2>1, <2>2, <2>3, ConcatSame, WokenIsIn
<1> QED
  BY <1>5, <1>6

LEMMA ResumeGlobalStep == ASSUME IInv, NEW s \in Syncs, ResumeGlobal(s) PROVE IInv'
<1> DEFINE gone == Tail(ready)
           rest == RemoveFirst(waiters[Global], s)
           up == PassedOn(Global, s, value[Global])
<1>1. /\ ready \in Seq(Syncs) /\ ready # <<>> /\ Head(ready) = s /\ stage[s] = "global"
      /\ ready' = gone \o up
      /\ AcquireBank(s, value[Global] - Len(up), rest)
  BY DEF IInv, ResumeGlobal
<1>2. GoneFrom(gone, s) /\ In(ready, s) /\ Woken(s)
  BY <1>1, TailGone, WokenIsIn
<1>3. Global \in Sems /\ In(waiters[Global], s)
  BY <1>1, Constants DEF IInv, SemOK, Stands
<1>4. value[Global] = value[Global] + (IF Woken(s) THEN 1 ELSE 0) - 1
  BY <1>2, <1>3 DEF IInv
<1>5. /\ \A t : In(rest, t) <=> In(waiters[Global], t) /\ t # s
      /\ FromLine(up, rest)
      /\ Books(rest, gone \o up, value[Global] - Len(up), Cardinality(Inside(Global)) + 1,
               Capacity(Global))
  BY <1>2, <1>3, <1>4, Left
<1> HIDE DEF gone, rest, up
<1>6. ASSUME NEW b \in Banks
      PROVE  Books(waiters[b], ready', value[b], Cardinality(Inside(b)), Capacity(b))
  <2>1. b \in Sems /\ b # Global
    BY SlotConstants DEF Sems
  <2>2. ~In(waiters[b], s)
    BY <1>3, <2>1, OneLine
  <2> QED
    BY <1>1, <1>2, <1>3, <1>5, <2>1, <2>2, Beside
<1>7. /\ gone \in Seq(Syncs) /\ up \in Seq(Syncs)
      /\ \A t : In(gone, t) <=> In(ready, t) /\ t # s
  BY <1>2, <1>5, GoneFacts DEF FromLine
<1>8. \A t \in Syncs : In(up, t) => t # s /\ In(waiters[Global], t)
  BY <1>5 DEF FromLine, In
<1>9. \A t \in Syncs : In(ready', t) => t # s /\ stage[t] \in {"global", "bank"}
  BY <1>1, <1>3, <1>7, <1>8, ConcatSame DEF IInv, SemOK, Stands
<1> QED
  BY <1>1, <1>5, <1>6, <1>9, Acquired

LEMMA ResumeBankStep == ASSUME IInv, NEW s \in Syncs, ResumeBank(s) PROVE IInv'
<1> DEFINE b == BankOf[s]
           gone == Tail(ready)
           rest == RemoveFirst(waiters[b], s)
           up == PassedOn(b, s, value[b])
<1>1. /\ value \in [Sems -> Nat] /\ waiters \in [Sems -> Seq(Syncs)]
      /\ ready \in Seq(Syncs) /\ ready # <<>> /\ Head(ready) = s /\ stage[s] = "bank"
      /\ ready' = gone \o up
      /\ value' = [value EXCEPT ![b] = @ - Len(up)]
      /\ waiters' = [waiters EXCEPT ![b] = rest]
      /\ stage' = [stage EXCEPT ![s] = "in"]
  BY DEF IInv, ResumeBank
<1>2. GoneFrom(gone, s) /\ In(ready, s) /\ Woken(s)
  BY <1>1, TailGone, WokenIsIn
<1>3. b \in Sems /\ b # Global /\ In(waiters[b], s)
  BY <1>1, Constants DEF IInv, SemOK, Stands
<1>4. value[b] = value[b] + (IF Woken(s) THEN 1 ELSE 0) - 1
  BY <1>2, <1>3 DEF IInv
<1>5. /\ \A t : In(rest, t) <=> In(waiters[b], t) /\ t # s
      /\ FromLine(up, rest)
      /\ Books(rest, gone \o up, value[b] - Len(up), Cardinality(Inside(b)) + 1, Capacity(b))
  <2> HIDE DEF b
  <2> QED
    BY <1>2, <1>3, <1>4, Left
<1> HIDE DEF b, gone, rest, up
<1>6. ASSUME NEW x \in Sems PROVE SemOK(x)'
  <2>1. CASE x = b
    <3>1. waiters'[x] = rest /\ value'[x] = value[b] - Len(up)
      BY <1>1, <1>3, <2>1
    <3>2. ~Passed(x, s, stage[s]) /\ Passed(x, s, "in") /\ ~Stands(x, s, "in")
      BY <1>1, <1>3, <2>1 DEF Passed, Stands, b
    <3>3. Books(waiters'[x], ready', value'[x], Cardinality(Inside(x)) + 1, Capacity(x))
      BY <1>1, <1>5, <2>1, <3>1
    <3>4. \A t \in Syncs : In(waiters'[x], t) <=> IF t = s THEN Stands(x, s, "in")
                                                          ELSE In(waiters[x], t)
      BY <1>5, <2>1, <3>1, <3>2
    <3> QED
      BY <1>1, <3>2, <3>3, <3>4, SemStep
  <2>2. CASE x # b
    <3>1. waiters'[x] = waiters[x] /\ value'[x] = value[x] /\ ~In(waiters[x], s)
      BY <1>1, <1>3, <2>2, OneLine
    <3>2. (Passed(x, s, stage[s]) <=> Passed(x, s, "in")) /\ ~Stands(x, s, "in")
      BY <1>1, <2>2 DEF Passed, Stands, b
    <3>3. Books(waiters'[x], ready', value'[x], Cardinality(Inside(x)), Capacity(x))
      BY <1>1, <1>2, <1>3, <1>5, <2>2, <3>1, Beside
    <3>4. \A t \in Syncs : In(waiters'[x], t) <=> IF t = s THEN Stands(x, s, "in")
                                                          ELSE In(waiters[x], t)
      BY <3>1, <3>2
    <3> QED
      BY <1>1, <3>2, <3>3, <3>4, SemStep
  <2> QED
    BY <2>1, <2>2
<1>7. /\ gone \in Seq(Syncs) /\ up \in Seq(Syncs)
      /\ \A t : In(gone, t) <=> In(ready, t) /\ t # s
  BY <1>2, <1>5, GoneFacts DEF FromLine
<1>8. \A t \in Syncs : In(up, t) => t # s /\ In(waiters[b], t)
  BY <1>5 DEF FromLine, In
<1>9. \A t \in Syncs : In(ready', t) => t # s /\ stage[t] \in {"global", "bank"}
  BY <1>1, <1>3, <1>7, <1>8, ConcatSame DEF IInv, SemOK, Stands
<1> QED
  BY <1>1, <1>6, <1>9, StepOK

LEMMA CancelGlobalStep == ASSUME IInv, NEW s \in Syncs, CancelGlobal(s) PROVE IInv'
<1> DEFINE spare == value[Global] + (IF Woken(s) THEN 1 ELSE 0)
           gone == RemoveFirst(ready, s)
           rest == RemoveFirst(waiters[Global], s)
           up == PassedOn(Global, s, spare)
<1>0. value \in [Sems -> Nat] /\ waiters \in [Sems -> Seq(Syncs)]
  BY DEF IInv
<1>s. stage[s] = "global"
  BY DEF CancelGlobal
<1>2. GoneFrom(gone, s)
  BY RemoveGone
<1>3. Global \in Sems /\ In(waiters[Global], s)
  BY <1>s, Constants DEF IInv, SemOK, Stands
<1>4. spare = value[Global] + (IF Woken(s) THEN 1 ELSE 0) - 0
  BY <1>0, <1>3
<1>5. /\ \A t : In(rest, t) <=> In(waiters[Global], t) /\ t # s
      /\ FromLine(up, rest)
      /\ Books(rest, gone \o up, spare - Len(up), Cardinality(Inside(Global)) + 0,
               Capacity(Global))
  BY <1>2, <1>3, <1>4, Left
<1>1. /\ ready' = gone \o up
      /\ value' = [value EXCEPT ![Global] = spare - Len(up)]
      /\ waiters' = [waiters EXCEPT ![Global] = rest]
      /\ stage' = [stage EXCEPT ![s] = "out"]
  <2>1. stage' = [stage EXCEPT ![s] = "out"] /\ waiters' = [waiters EXCEPT ![Global] = rest]
    BY DEF CancelGlobal
  <2>2. ready' = gone \o up
    BY DEF CancelGlobal
  <2>3. value' = [value EXCEPT ![Global] =
                     value[Global] + ((IF Woken(s) THEN 1 ELSE 0) - Len(up))]
    BY Zenon DEF CancelGlobal
  <2>4. value[Global] \in Nat /\ Len(up) \in Nat
    BY <1>0, <1>3, <1>5 DEF FromLine
  <2>5. value[Global] + ((IF Woken(s) THEN 1 ELSE 0) - Len(up)) = spare - Len(up)
    BY <2>4
  <2> QED
    BY <2>1, <2>2, <2>3, <2>5
<1>c. Cardinality(Inside(Global)) + 0 = Cardinality(Inside(Global))
  BY InsideFinite
<1> HIDE DEF gone, rest, up, spare
<1>6. ASSUME NEW x \in Sems PROVE SemOK(x)'
  <2>1. (Passed(x, s, stage[s]) <=> Passed(x, s, "out")) /\ ~Stands(x, s, "out")
    BY <1>s DEF Passed, Stands
  <2>2. CASE x = Global
    <3>1. waiters'[x] = rest /\ value'[x] = spare - Len(up)
      BY <1>0, <1>1, <1>3, <2>2
    <3>3. Books(waiters'[x], ready', value'[x], Cardinality(Inside(x)), Capacity(x))
      BY <1>1, <1>5, <1>c, <2>2, <3>1
    <3>4. \A t \in Syncs : In(waiters'[x], t) <=> IF t = s THEN Stands(x, s, "out")
                                                          ELSE In(waiters[x], t)
      BY <1>5, <2>1, <2>2, <3>1
    <3> QED
      BY <1>1, <2>1, <3>3, <3>4, SemStep
  <2>3. CASE x # Global
    <3>1. waiters'[x] = waiters[x] /\ value'[x] = value[x] /\ ~In(waiters[x], s)
      BY <1>0, <1>1, <1>3, <2>3, OneLine
    <3>3. Books(waiters'[x], ready', value'[x], Cardinality(Inside(x)), Capacity(x))
      BY <1>1, <1>2, <1>3, <1>5, <2>3, <3>1, Beside
    <3>4. \A t \in Syncs : In(waiters'[x], t) <=> IF t = s THEN Stands(x, s, "out")
                                                          ELSE In(waiters[x], t)
      BY <2>1, <3>1
    <3> QED
      BY <1>1, <2>1, <3>3, <3>4, SemStep
  <2> QED
    BY <2>2, <2>3
<1>7. /\ gone \in Seq(Syncs) /\ up \in Seq(Syncs)
      /\ \A t : In(gone, t) <=> In(ready, t) /\ t # s
  BY <1>2, <1>5, GoneFacts DEF FromLine
<1>8. \A t \in Syncs : In(up, t) => t # s /\ In(waiters[Global], t)
  BY <1>5 DEF FromLine, In
<1>9. \A t \in Syncs : In(ready', t) => t # s /\ stage[t] \in {"global", "bank"}
  BY <1>1, <1>s, <1>3, <1>7, <1>8, ConcatSame DEF IInv, SemOK, Stands
<1> QED
  <2>1. DOMAIN value' = Sems /\ value' = [x \in Sems |-> value'[x]]
    BY <1>0, <1>1
  <2>2. DOMAIN waiters' = Sems /\ waiters' = [x \in Sems |-> waiters'[x]]
    BY <1>0, <1>1
  <2>3. \A t \in Syncs : In(ready', t) => t # s /\ stage[t] \in {"global", "bank"}
    BY <1>9
  <2>4. stage' = [stage EXCEPT ![s] = "out"] /\ \A x \in Sems : SemOK(x)'
    BY <1>1, <1>6
  <2> QED
    BY <2>1, <2>2, <2>3, <2>4, StepOK

\* A second line wakes one of its own, after others were woken.
LEMMA AlsoWoken ==
    ASSUME IInv, NEW s \in Syncs, NEW gone, GoneFrom(gone, s),
           NEW y \in Sems, NEW line, NEW up, FromLine(up, line),
           \A t \in Syncs : In(line, t) => In(waiters[y], t),
           NEW z \in Sems, z # y, NEW more, FromLine(more, waiters[z]),
           NEW x \in Sems, x # z, NEW l, \A t \in Syncs : In(l, t) => In(waiters[x], t),
           NEW v, NEW n, NEW cap, Books(l, gone \o up, v, n, cap)
    PROVE  Books(l, (gone \o up) \o more, v, n, cap)
<1>1. /\ gone \in Seq(Syncs) /\ up \in Seq(Syncs) /\ more \in Seq(Syncs) /\ Distinct(more)
      /\ \A t : In(gone, t) <=> In(ready, t) /\ t # s
  BY GoneFacts DEF FromLine
<1>2. ASSUME NEW i \in 1..Len(more) PROVE ~In(gone \o up, more[i]) /\ ~In(l, more[i])
  <2>1. more[i] \in Syncs /\ In(waiters[z], more[i]) /\ ~In(ready, more[i])
    BY <1>1 DEF FromLine
  <2>2. ~In(waiters[y], more[i]) /\ ~In(waiters[x], more[i])
    BY <2>1, OneLine
  <2>3. ~In(up, more[i])
    <3>1. \A t : In(up, t) => In(line, t)
      BY DEF FromLine, In
    <3> QED
      BY <2>1, <2>2, <3>1
  <2> QED
    BY <1>1, <2>1, <2>2, <2>3, ConcatSame
<1> QED
  BY <1>1, <1>2, WokenBooks

\* s gives back the unit of the global semaphore after units of its bank's went
\* on: what both steps that end in release() leave.
LEMMA Released ==
    ASSUME IInv, NEW s \in Syncs, stage[s] \in {"bank", "in"},
           stage' = [stage EXCEPT ![s] = "out"],
           NEW gone, GoneFrom(gone, s), NEW rest, NEW up, FromLine(up, rest),
           \A t \in Syncs : In(rest, t) <=> t # s /\ In(waiters[BankOf[s]], t),
           NEW next, NEW n, Books(rest, gone \o up, next, n, Capacity(BankOf[s])),
           \/ stage[s] = "bank" /\ n = Cardinality(Inside(BankOf[s]))
           \/ stage[s] = "in" /\ n = Cardinality(Inside(BankOf[s])) - 1,
           ready' = (gone \o up) \o Freed(Global),
           DOMAIN value' = Sems, DOMAIN waiters' = Sems,
           value' = [x \in Sems |-> value'[x]], waiters' = [x \in Sems |-> waiters'[x]],
           value'[BankOf[s]] = next, waiters'[BankOf[s]] = rest,
           value'[Global] = value[Global] + 1 - Len(Freed(Global)),
           \A x \in Sems \ {Global, BankOf[s]} : value'[x] = value[x],
           \A x \in Sems \ {BankOf[s]} : waiters'[x] = waiters[x]
    PROVE  IInv'
<1> DEFINE b == BankOf[s]
           fg == Freed(Global)
<1>0. /\ ready \in Seq(Syncs) /\ stage \in [Syncs -> {"out", "global", "bank", "in"}]
      /\ b \in Sems /\ Global \in Sems /\ b # Global
  BY Constants DEF IInv
<1>1. ~In(waiters[Global], s) /\ \A x \in Sems \ {b} : ~In(waiters[x], s)
  BY <1>0 DEF IInv, SemOK, Stands
<1>2. \A t \in Syncs : In(rest, t) => In(waiters[b], t)
  OBVIOUS
<1>3. ASSUME NEW x \in Sems, x # b
      PROVE  /\ Books(waiters[x], gone \o up, value[x], Cardinality(Inside(x)), Capacity(x))
             /\ \A i \in 1..Len(waiters[x]) :
                   Woken(waiters[x][i]) <=> In(gone \o up, waiters[x][i])
  <2> HIDE DEF b
  <2> QED
    BY <1>0, <1>1, <1>2, <1>3, Beside
<1>4. Cardinality(Inside(Global)) > 0
  <2>1. Passed(Global, s, stage[s]) /\ ~Passed(Global, s, "out")
    BY DEF Passed
  <2> QED
    BY <1>0, <2>1, Moved
<1>5. /\ FromLine(fg, waiters[Global])
      /\ Books(waiters[Global], (gone \o up) \o fg, value[Global] + 1 - Len(fg),
               Cardinality(Inside(Global)) - 1, Capacity(Global))
  BY <1>0, <1>3, <1>4, FreedBooks, Constants DEF Freed
<1> HIDE DEF fg
<1>6. ASSUME NEW x \in Sems PROVE SemOK(x)'
  <2>n. ~Stands(x, s, "out") /\ ~Passed(x, s, "out")
    BY DEF Stands, Passed
  <2>1. CASE x = Global
    <3>1. Passed(x, s, stage[s])
      BY <2>1 DEF Passed
    <3>2. waiters'[x] = waiters[x] /\ value'[x] = value[Global] + 1 - Len(fg)
      BY <1>0, <2>1 DEF fg
    <3>3. Books(waiters'[x], ready', value'[x], Cardinality(Inside(x)) - 1, Capacity(x))
      BY <1>5, <2>1, <3>2 DEF fg
    <3>4. \A t \in Syncs : In(waiters'[x], t) <=> IF t = s THEN Stands(x, s, "out")
                                                          ELSE In(waiters[x], t)
      BY <1>1, <2>1, <2>n, <3>2
    <3> QED
      BY <2>n, <3>1, <3>3, <3>4, SemStep
  <2>2. CASE x = b
    <3>1. Books(rest, (gone \o up) \o fg, next, n, Capacity(b))
      <4> HIDE DEF b
      <4>1. Books(rest, gone \o up, next, n, Capacity(b))
        BY DEF b
      <4> QED
        BY <1>0, <1>2, <1>5, <4>1, AlsoWoken
    <3>2. Books(waiters'[x], ready', value'[x], n, Capacity(x))
      BY <2>2, <3>1 DEF fg
    <3>3. Passed(x, s, stage[s]) <=> stage[s] = "in"
      BY <1>0, <2>2 DEF Passed
    <3>4. \A t \in Syncs : In(waiters'[x], t) <=> IF t = s THEN Stands(x, s, "out")
                                                          ELSE In(waiters[x], t)
      BY <2>2, <2>n
    <3>5. \/ n = Cardinality(Inside(x)) /\ (Passed(x, s, stage[s]) <=> Passed(x, s, "out"))
          \/ n = Cardinality(Inside(x)) - 1 /\ Passed(x, s, stage[s]) /\ ~Passed(x, s, "out")
      BY <2>2, <2>n, <3>3
    <3> QED
      BY <3>2, <3>4, <3>5, SemStep
  <2>3. CASE x # Global /\ x # b
    <3>1. Books(waiters[x], (gone \o up) \o fg, value[x], Cardinality(Inside(x)), Capacity(x))
      <4> HIDE DEF b
      <4> QED
        BY <1>0, <1>2, <1>3, <1>5, <2>3, AlsoWoken
    <3>2. Books(waiters'[x], ready', value'[x], Cardinality(Inside(x)), Capacity(x))
      BY <2>3, <3>1 DEF fg
    <3>3. ~Passed(x, s, stage[s])
      BY <2>3 DEF Passed
    <3>4. \A t \in Syncs : In(waiters'[x], t) <=> IF t = s THEN Stands(x, s, "out")
                                                          ELSE In(waiters[x], t)
      BY <1>1, <2>3, <2>n
    <3> QED
      BY <2>n, <3>2, <3>3, <3>4, SemStep
  <2> QED
    BY <2>1, <2>2, <2>3
<1>7. /\ gone \in Seq(Syncs) /\ up \in Seq(Syncs) /\ fg \in Seq(Syncs)
      /\ gone \o up \in Seq(Syncs)
      /\ \A t : In(gone, t) <=> In(ready, t) /\ t # s
  BY <1>5, GoneFacts DEF FromLine
<1>8. /\ \A t \in Syncs : In(up, t) => In(rest, t)
      /\ \A t \in Syncs : In(fg, t) => In(waiters[Global], t)
  <2>1. \A i \in 1..Len(up) : In(rest, up[i])
    BY DEF FromLine
  <2>2. \A i \in 1..Len(fg) : In(waiters[Global], fg[i])
    BY <1>5 DEF FromLine
  <2>3. ASSUME NEW q, NEW line, \A i \in 1..Len(q) : In(line, q[i]), NEW t, In(q, t)
        PROVE  In(line, t)
    BY <2>3 DEF In
  <2> QED
    BY <2>1, <2>2, <2>3
<1>9. \A t \in Syncs : In(ready', t) => In(gone, t) \/ In(up, t) \/ In(fg, t)
  BY <1>7, ConcatSame DEF fg
<1>10. \A t \in Syncs : In(ready', t) => t # s /\ stage[t] \in {"global", "bank"}
  <2> SUFFICES ASSUME NEW t \in Syncs, In(ready', t)
               PROVE  t # s /\ stage[t] \in {"global", "bank"}
    OBVIOUS
  <2>1. CASE In(gone, t)
    BY <1>7, <2>1 DEF IInv
  <2>2. CASE In(up, t)
    <3>1. t # s /\ In(waiters[b], t)
      BY <1>8, <2>2
    <3>2. Stands(b, t, stage[t])
      BY <1>0, <3>1 DEF IInv, SemOK
    <3> QED
      BY <1>0, <3>1, <3>2 DEF Stands
  <2>3. CASE In(fg, t)
    <3>1. t # s /\ In(waiters[Global], t)
      BY <1>1, <1>8, <2>3
    <3>2. Stands(Global, t, stage[t])
      BY <1>0, <3>1 DEF IInv, SemOK
    <3> QED
      BY <1>0, <3>1, <3>2 DEF Stands
  <2> QED
    BY <1>9, <2>1, <2>2, <2>3
<1> QED
  BY <1>6, <1>10, StepOK

\* release() wakes one of the line, if anybody.
LEMMA FreedTypes == ASSUME IInv, NEW x \in Sems PROVE FromLine(Freed(x), waiters[x])
<1>1. PICK w \in 0..Len(waiters[x]) : Lined(waiters[x], ready, w)
  BY DEF IInv, SemOK, Books
<1>2. \A i \in 1..Len(waiters[x]) : Woken(waiters[x][i]) <=> In(ready, waiters[x][i])
  BY WokenIsIn DEF IInv
<1> QED
  BY <1>1, <1>2, Wakes DEF Freed, IInv

LEMMA CancelBankStep == ASSUME IInv, NEW s \in Syncs, CancelBank(s) PROVE IInv'
<1> DEFINE b == BankOf[s]
           spare == value[b] + (IF Woken(s) THEN 1 ELSE 0)
           gone == RemoveFirst(ready, s)
           rest == RemoveFirst(waiters[b], s)
           up == PassedOn(b, s, spare)
           fg == Freed(Global)
<1>0. /\ value \in [Sems -> Nat] /\ waiters \in [Sems -> Seq(Syncs)]
      /\ b \in Sems /\ Global \in Sems /\ b # Global
  BY Constants DEF IInv
<1>1. stage[s] = "bank" /\ stage' = [stage EXCEPT ![s] = "out"]
  BY DEF CancelBank
<1>2. GoneFrom(gone, s)
  BY RemoveGone
<1>3. In(waiters[b], s)
  BY <1>0, <1>1 DEF IInv, SemOK, Stands
<1>4. spare = value[b] + (IF Woken(s) THEN 1 ELSE 0) - 0
  BY <1>0
<1>5. /\ \A t : In(rest, t) <=> In(waiters[b], t) /\ t # s
      /\ FromLine(up, rest)
      /\ Books(rest, gone \o up, spare - Len(up), Cardinality(Inside(b)) + 0, Capacity(b))
  <2> HIDE DEF b
  <2> QED
    BY <1>0, <1>2, <1>3, <1>4, Left
<1>6. Cardinality(Inside(b)) + 0 = Cardinality(Inside(b))
  BY InsideFinite
<1>7. /\ ready' = (gone \o up) \o fg
      /\ waiters' = [waiters EXCEPT ![b] = rest]
      /\ value' = [value EXCEPT ![b] = value[b] + ((IF Woken(s) THEN 1 ELSE 0) - Len(up)),
                                ![Global] = @ + (1 - Len(fg))]
  BY Zenon DEF CancelBank
<1>8. /\ value[b] \in Nat /\ value[Global] \in Nat /\ Len(up) \in Nat /\ Len(fg) \in Nat
  <2>1. Len(up) \in Nat
    BY <1>5 DEF FromLine
  <2>2. Len(fg) \in Nat
    BY <1>0, FreedTypes DEF FromLine
  <2> QED
    BY <1>0, <2>1, <2>2
<1> HIDE DEF b, gone, rest, up, fg
<1>9. value[b] + ((IF Woken(s) THEN 1 ELSE 0) - Len(up)) = spare - Len(up)
  BY <1>8
<1>10. value[Global] + (1 - Len(fg)) = value[Global] + 1 - Len(fg)
  BY <1>8
<1> HIDE DEF spare
<1>11. value' = [value EXCEPT ![b] = spare - Len(up), ![Global] = value[Global] + 1 - Len(fg)]
  BY <1>0, <1>7, <1>9, <1>10
<1>12. /\ value'[b] = spare - Len(up)
       /\ value'[Global] = value[Global] + 1 - Len(fg)
       /\ \A x \in Sems \ {Global, b} : value'[x] = value[x]
  BY <1>0, <1>11
<1>13. /\ waiters'[b] = rest
       /\ \A x \in Sems \ {b} : waiters'[x] = waiters[x]
  BY <1>0, <1>7
<1>14. /\ DOMAIN value' = Sems /\ value' = [x \in Sems |-> value'[x]]
       /\ DOMAIN waiters' = Sems /\ waiters' = [x \in Sems |-> waiters'[x]]
  BY <1>0, <1>7, <1>11
<1>15. Books(rest, gone \o up, spare - Len(up), Cardinality(Inside(b)), Capacity(b))
  BY <1>5, <1>6
<1>16. \A t \in Syncs : In(rest, t) <=> t # s /\ In(waiters[b], t)
  BY <1>5
<1>17. FromLine(up, rest) /\ ready' = (gone \o up) \o fg
  BY <1>5, <1>7
<1> QED
  BY <1>1, <1>2, <1>12, <1>13, <1>14, <1>15, <1>16, <1>17, Released DEF b, fg

LEMMA LeaveStep == ASSUME IInv, NEW s \in Syncs, Leave(s) PROVE IInv'
<1> DEFINE b == BankOf[s]
           up == Freed(b)
           fg == Freed(Global)
           rest == waiters[b]
<1>0. /\ value \in [Sems -> Nat] /\ waiters \in [Sems -> Seq(Syncs)] /\ ready \in Seq(Syncs)
      /\ stage \in [Syncs -> {"out", "global", "bank", "in"}]
      /\ b \in Sems /\ Global \in Sems /\ b # Global
  BY Constants DEF IInv
<1>1. stage[s] = "in" /\ stage' = [stage EXCEPT ![s] = "out"]
  BY DEF Leave
<1>2. GoneFrom(ready, s)
  BY <1>1 DEF GoneFrom, IInv
<1>3. ~In(rest, s)
  BY <1>0, <1>1 DEF IInv, SemOK, Stands
<1>4. /\ Books(rest, ready, value[b], Cardinality(Inside(b)), Capacity(b))
      /\ Capacity(b) \in Nat
  BY <1>0, Constants DEF IInv, SemOK
<1>5. Cardinality(Inside(b)) > 0
  <2>1. Passed(b, s, stage[s]) /\ ~Passed(b, s, "out")
    BY <1>0, <1>1 DEF Passed
  <2> QED
    BY <1>0, <1>1, <2>1, Moved
<1>6. \A i \in 1..Len(rest) : Woken(rest[i]) <=> In(ready, rest[i])
  BY <1>0, WokenIsIn
<1>7. /\ FromLine(up, rest)
      /\ Books(rest, ready \o up, value[b] + 1 - Len(up), Cardinality(Inside(b)) - 1, Capacity(b))
  <2> HIDE DEF b, rest
  <2>1. NextUp(rest, 1) = up
    BY DEF Freed, rest
  <2> QED
    BY <1>0, <1>4, <1>5, <1>6, <2>1, FreedBooks
<1>8. /\ ready' = (ready \o up) \o fg /\ waiters' = waiters
      /\ value' = [value EXCEPT ![b] = value[b] + (1 - Len(up)), ![Global] = @ + (1 - Len(fg))]
  BY Zenon DEF Leave
<1>9. /\ value[b] \in Nat /\ value[Global] \in Nat /\ Len(up) \in Nat /\ Len(fg) \in Nat
  BY <1>0, FreedTypes DEF FromLine
<1> HIDE DEF b, up, fg, rest
<1>10. /\ value[Global] + (1 - Len(fg)) = value[Global] + 1 - Len(fg)
       /\ value[b] + (1 - Len(up)) = value[b] + 1 - Len(up)
  BY <1>9
<1>11. value' = [value EXCEPT ![b] = value[b] + 1 - Len(up),
                              ![Global] = value[Global] + 1 - Len(fg)]
  BY <1>0, <1>8, <1>10
<1>12. /\ value'[b] = value[b] + 1 - Len(up)
       /\ value'[Global] = value[Global] + 1 - Len(fg)
       /\ \A x \in Sems \ {Global, b} : value'[x] = value[x]
  BY <1>0, <1>11
<1>13. /\ waiters'[b] = rest
       /\ \A x \in Sems \ {b} : waiters'[x] = waiters[x]
       /\ \A t \in Syncs : In(rest, t) <=> t # s /\ In(waiters[b], t)
  BY <1>3, <1>8 DEF rest
<1>14. /\ DOMAIN value' = Sems /\ value' = [x \in Sems |-> value'[x]]
       /\ DOMAIN waiters' = Sems /\ waiters' = [x \in Sems |-> waiters'[x]]
  BY <1>0, <1>8, <1>11
<1>15. ready' = (ready \o up) \o fg
  BY <1>8
<1> QED
  BY <1>1, <1>2, <1>7, <1>12, <1>13, <1>14, <1>15, Released DEF b, fg

-----------------------------------------------------------------------------
(* The invariant                                                           *)

LEMMA StepIInv == IInv /\ [Next]_vars => IInv'
<1> SUFFICES ASSUME IInv, [Next]_vars PROVE IInv'
  OBVIOUS
<1>1. CASE UNCHANGED vars
  BY <1>1 DEF vars, IInv, SemOK, Inside, Passed, Capacity, Sems
<1>2. ASSUME NEW s \in Syncs,
             \/ Ask(s) \/ ResumeGlobal(s) \/ ResumeBank(s)
             \/ Leave(s) \/ CancelGlobal(s) \/ CancelBank(s)
      PROVE  IInv'
  BY <1>2, AskStep, ResumeGlobalStep, ResumeBankStep, LeaveStep, CancelGlobalStep, CancelBankStep
<1> QED
  BY <1>1, <1>2 DEF Next

\* The strengthening of the properties below is an invariant.
THEOREM Invariance == Spec => []IInv
BY InitOK, StepIInv, PTL DEF Spec

\* Every variable keeps its type, and no semaphore has more units than it was
\* made with.
THEOREM TypeCorrect == Spec => []TypeOK
<1>1. IInv => TypeOK
  <2> SUFFICES ASSUME IInv PROVE TypeOK
    OBVIOUS
  <2>1. ASSUME NEW x \in Sems PROVE value[x] <= Capacity(x)
    BY BooksTypes, Constants DEF IInv, SemOK
  <2> QED
    BY <2>1 DEF IInv, TypeOK
<1> QED
  BY <1>1, Invariance, PTL

\* The first w in a line are w syncs.
LEMMA AwakeOnes ==
    ASSUME NEW line \in Seq(Syncs), Distinct(line), NEW w \in 0..Len(line)
    PROVE  LET ones == {line[i] : i \in 1..w}
           IN  IsFiniteSet(ones) /\ Cardinality(ones) = w
<1> DEFINE ones == {line[i] : i \in 1..w}
           f == [i \in 1..w |-> line[i]]
<1>1. f \in [1..w -> ones] /\ \A y \in ones : \E i \in 1..w : f[i] = y
  OBVIOUS
<1>2. \A i, j \in 1..w : f[i] = f[j] => i = j
  <2>1. \A i \in 1..w : i \in 1..Len(line)
    OBVIOUS
  <2> QED
    BY <2>1 DEF Distinct
<1> HIDE DEF ones, f
<1>3. f \in Bijection(1..w, ones)
  BY <1>1, <1>2 DEF Bijection, Injection, Surjection, IsInjective
<1>4. ExistsBijection(1..w, ones) /\ w \in Nat
  BY <1>3 DEF ExistsBijection
<1>5. IsFiniteSet(1..w)
  BY <1>4, FS_Interval
<1>6. IsFiniteSet(ones)
  BY <1>4, <1>5, FS_Bijection
<1> QED
  BY <1>4, <1>6, FS_CountingElements DEF ones

\* No unit is lost or made up, whoever is cancelled and whenever: each is free,
\* with a sync beyond the semaphore, or on its way to one that was woken.
THEOREM UnitsAreKept == Spec => []NoUnitLost
<1>1. ASSUME IInv, NEW x \in Sems
      PROVE  value[x] + Cardinality(Holders(x)) = Capacity(x)
  <2> DEFINE line == waiters[x]
  <2>1. PICK w \in 0..Len(line) : /\ Lined(line, ready, w)
                                  /\ value[x] \in Nat /\ Cardinality(Inside(x)) \in Nat
                                  /\ value[x] + Cardinality(Inside(x)) + w = Capacity(x)
    BY <1>1 DEF IInv, SemOK, Books
  <2>2. /\ line \in Seq(Syncs) /\ Distinct(line) /\ ready \in Seq(Syncs)
        /\ \A i \in 1..Len(line) : In(ready, line[i]) <=> i <= w
    BY <2>1 DEF Lined, Awake
  <2> DEFINE ones == {line[i] : i \in 1..w}
  <2>3. IsFiniteSet(ones) /\ Cardinality(ones) = w
    BY <2>1, <2>2, AwakeOnes
  <2>4. \A s \in Syncs : s \in ones <=> Stands(x, s, stage[s]) /\ Woken(s)
    <3> TAKE s \in Syncs
    <3>1. In(line, s) <=> Stands(x, s, stage[s])
      BY <1>1 DEF IInv, SemOK
    <3>2. ASSUME s \in ones PROVE In(line, s) /\ In(ready, s)
      <4>1. PICK i \in 1..w : line[i] = s
        BY <3>2
      <4>2. i \in 1..Len(line) /\ i <= w
        BY <2>1
      <4> QED
        BY <2>2, <4>1, <4>2 DEF In
    <3>3. ASSUME In(line, s), In(ready, s) PROVE s \in ones
      <4>1. PICK i \in 1..Len(line) : line[i] = s
        BY <3>3 DEF In
      <4>2. i \in 1..w
        BY <2>1, <2>2, <3>3, <4>1
      <4> QED
        BY <4>1, <4>2
    <3> QED
      BY <2>2, <3>1, <3>2, <3>3, WokenIsIn
  <2>5. \A s \in ones : s \in Syncs
    BY <2>1, <2>2
  <2>6. Holders(x) = Inside(x) \cup ones
    <3> HIDE DEF ones
    <3>1. \A s \in Syncs : s \in Holders(x) <=> s \in Inside(x) \/ s \in ones
      BY <2>4 DEF Holders, Inside, At, Of, Passed, Stands
    <3>2. \A s \in Holders(x) : s \in Syncs
      BY DEF Holders, At, Of
    <3>3. \A s \in Inside(x) : s \in Syncs
      BY DEF Inside
    <3> QED
      BY <2>5, <3>1, <3>2, <3>3
  <2>7. Inside(x) \cap ones = {}
    <3> HIDE DEF ones
    <3> QED
      BY <2>4 DEF Inside, Passed, Stands
  <2> HIDE DEF ones
  <2>8. Cardinality(Holders(x)) = Cardinality(Inside(x)) + w
    <3>1. Cardinality(Inside(x) \cup ones)
            = Cardinality(Inside(x)) + Cardinality(ones) - Cardinality(Inside(x) \cap ones)
      BY <2>3, InsideFinite, FS_Union
    <3>2. Cardinality(Inside(x) \cap ones) = 0
      BY <2>7, FS_EmptySet
    <3> QED
      BY <2>1, <2>3, <2>6, <3>1, <3>2
  <2> QED
    BY <2>1, <2>8
<1>2. IInv => NoUnitLost
  BY <1>1 DEF NoUnitLost
<1> QED
  BY <1>2, Invariance, PTL

\* No line sleeps beside a free unit: where one is free and somebody waits, one
\* of the line is about to run and passes on what is there.
THEOREM WakeUpsArrive == Spec => []NoLostWakeUp
<1>1. ASSUME IInv, NEW x \in Sems, value[x] > 0, waiters[x] # <<>>
      PROVE  \E s \in ToSet(waiters[x]) : Woken(s)
  <2>1. PICK w \in 0..Len(waiters[x]) : Lined(waiters[x], ready, w) /\ w > 0
    BY <1>1 DEF IInv, SemOK, Books
  <2>2. 1 \in 1..Len(waiters[x]) /\ In(ready, waiters[x][1])
    BY <2>1 DEF Lined, Awake
  <2>3. Woken(waiters[x][1])
    BY <1>1, <2>2, WokenIsIn DEF IInv
  <2> QED
    BY <2>2, <2>3 DEF ToSet
<1>2. IInv => NoLostWakeUp
  BY <1>1 DEF NoLostWakeUp
<1> QED
  BY <1>2, Invariance, PTL

\* Who is next in the event loop is first in the line he stands in.
LEMMA FirstInLine ==
    ASSUME IInv, ready # <<>>, NEW x \in Sems, In(waiters[x], Head(ready))
    PROVE  Head(waiters[x]) = Head(ready)
<1> DEFINE line == waiters[x]
<1>1. Lined(line, ready, 0) \/ \E w \in 0..Len(line) : Lined(line, ready, w)
  BY DEF IInv, SemOK, Books
<1>2. /\ line \in Seq(Syncs) /\ ready \in Seq(Syncs) /\ Distinct(ready) /\ InOrder(line, ready)
  BY <1>1 DEF Lined
<1>3. Head(ready) = ready[1] /\ 1 \in 1..Len(ready) /\ In(ready, Head(ready))
  BY <1>2, TailGone
<1>4. PICK j \in 1..Len(line) : line[j] = ready[1]
  BY <1>3 DEF In
<1>5. ~(1 < j)
  <2> SUFFICES ASSUME 1 < j PROVE FALSE
    OBVIOUS
  <2>1. 1 \in 1..Len(line)
    OBVIOUS
  <2>2. Before(ready, line[1], line[j])
    BY <1>2, <1>3, <1>4, <2>1 DEF InOrder
  <2>3. PICK m \in 1..Len(ready), n \in 1..Len(ready) : m < n /\ ready[n] = ready[1]
    BY <1>4, <2>2 DEF Before
  <2>4. n = 1
    BY <1>2, <1>3, <2>3 DEF Distinct
  <2> QED
    BY <2>3, <2>4
<1>6. j = 1 /\ Head(line) = line[1]
  BY <1>2, <1>4, <1>5
<1> QED
  BY <1>3, <1>4, <1>6

\* Nobody overtakes: whoever passes a semaphore was first in its line, or met
\* no line.
THEOREM LinesAreFair == Spec => NoOvertaking
<1> DEFINE First(x, s) == waiters[x] = <<>> \/ Head(waiters[x]) = s
           Fair(s) == /\ stage[s] \in {"out", "global"} /\ stage'[s] \in {"bank", "in"}
                           => First(Global, s)
                      /\ stage[s] # "in" /\ stage'[s] = "in" => First(BankOf[s], s)
<1>1. ASSUME IInv, [Next]_vars PROVE \A s \in Syncs : Fair(s)
  <2>0. stage \in [Syncs -> {"out", "global", "bank", "in"}] /\ ready \in Seq(Syncs)
    BY <1>1 DEF IInv
  <2>u. CASE UNCHANGED vars
    BY <2>u DEF vars
  <2>a. ASSUME NEW t \in Syncs, NEW next, NEW line, AcquireBank(t, next, line),
               First(Global, t)
        PROVE  \A s \in Syncs : Fair(s)
    <3>1. CASE Locked(BankOf[t])
      <4>1. stage' = [stage EXCEPT ![t] = "bank"]
        BY <2>a, <3>1 DEF AcquireBank
      <4> QED
        BY <2>0, <2>a, <4>1
    <3>2. CASE ~Locked(BankOf[t])
      <4>1. stage' = [stage EXCEPT ![t] = "in"] /\ First(BankOf[t], t)
        BY <2>a, <3>2 DEF AcquireBank, Locked
      <4> QED
        BY <2>0, <2>a, <4>1
    <3> QED
      BY <3>1, <3>2
  <2>1. ASSUME NEW t \in Syncs, Ask(t) PROVE \A s \in Syncs : Fair(s)
    <3>1. CASE Locked(Global)
      <4>1. stage' = [stage EXCEPT ![t] = "global"]
        BY <2>1, <3>1 DEF Ask
      <4> QED
        BY <2>0, <4>1
    <3>2. CASE ~Locked(Global)
      <4>1. First(Global, t) /\ AcquireBank(t, value[Global] - 1, waiters[Global])
        BY <2>1, <3>2 DEF Ask, Locked
      <4> HIDE DEF First, Fair
      <4> QED
        BY <2>a, <4>1
    <3> QED
      BY <3>1, <3>2
  <2>2. ASSUME NEW t \in Syncs, ResumeGlobal(t) PROVE \A s \in Syncs : Fair(s)
    <3>1. ready # <<>> /\ Head(ready) = t /\ stage[t] = "global"
      BY <2>2 DEF ResumeGlobal
    <3>2. Global \in Sems /\ In(waiters[Global], t)
      BY <1>1, <3>1, Constants DEF IInv, SemOK, Stands
    <3>3. First(Global, t)
      BY <1>1, <3>1, <3>2, FirstInLine
    <3>4. \E next, line : AcquireBank(t, next, line)
      BY <2>2 DEF ResumeGlobal
    <3> HIDE DEF First, Fair
    <3> QED
      BY <2>a, <3>3, <3>4
  <2>3. ASSUME NEW t \in Syncs, ResumeBank(t) PROVE \A s \in Syncs : Fair(s)
    <3>1. /\ ready # <<>> /\ Head(ready) = t /\ stage[t] = "bank"
          /\ stage' = [stage EXCEPT ![t] = "in"]
      BY <2>3 DEF ResumeBank
    <3>2. BankOf[t] \in Sems /\ In(waiters[BankOf[t]], t)
      BY <1>1, <3>1, Constants DEF IInv, SemOK, Stands
    <3>3. First(BankOf[t], t)
      BY <1>1, <3>1, <3>2, FirstInLine
    <3> QED
      BY <2>0, <3>1, <3>3
  <2>4. ASSUME NEW t \in Syncs, Leave(t) \/ CancelGlobal(t) \/ CancelBank(t)
        PROVE  \A s \in Syncs : Fair(s)
    <3>1. stage' = [stage EXCEPT ![t] = "out"]
      BY <2>4 DEF Leave, CancelGlobal, CancelBank
    <3> QED
      BY <2>0, <3>1
  <2> HIDE DEF Fair
  <2> QED
    BY <1>1, <2>u, <2>1, <2>2, <2>3, <2>4 DEF Next
<1> QED
  BY <1>1, Invariance, PTL DEF Spec, NoOvertaking

-----------------------------------------------------------------------------
(* The refinement                                                          *)

\* A sync that is inside took its place among those the pool has room for.
LEMMA Room ==
    ASSUME IInv, IInv', NEW s \in Syncs, s \notin At("in"), At("in")' = At("in") \cup {s}
    PROVE  Pool!Enter(s)
<1>1. IsFiniteSet(At("in")) /\ IsFiniteSet(Pool!SameBank(s))
  BY SlotConstants, FS_Subset DEF At, Pool!SameBank
<1>2. \A x \in Sems : /\ IsFiniteSet(Inside(x)') /\ Cardinality(Inside(x)') \in Nat
                      /\ Cardinality(Inside(x)') <= Capacity(x)
  <2>1. \A x : Inside(x)' \in SUBSET Syncs
    BY DEF Inside
  <2>2. \A x : IsFiniteSet(Inside(x)') /\ Cardinality(Inside(x)') \in Nat
    BY <2>1, SlotConstants, FS_Subset, FS_CardinalityType
  <2>3. \A x \in Sems : \E line, rdy, v, n :
           Books(line, rdy, v, n, Capacity(x)) /\ n = Cardinality(Inside(x)')
    BY DEF IInv, SemOK, Books, Capacity
  <2>4. \A x \in Sems : Cardinality(Inside(x)') <= Capacity(x)
    BY <2>3, BooksTypes, Constants
  <2> QED
    BY <2>2, <2>4
<1>3. ASSUME NEW S, IsFiniteSet(S), s \notin S, NEW x \in Sems, S \cup {s} \subseteq Inside(x)'
      PROVE  Cardinality(S) < Capacity(x)
  <2>1. Cardinality(S \cup {s}) = Cardinality(S) + 1 /\ Cardinality(S) \in Nat
    BY <1>3, FS_AddElement, FS_CardinalityType
  <2>2. Cardinality(S \cup {s}) <= Cardinality(Inside(x)')
    BY <1>2, <1>3, FS_Subset
  <2> QED
    BY <1>2, <2>1, <2>2, Constants
<1>4. At("in") \cup {s} \subseteq Inside(Global)'
  BY DEF At, Inside, Passed
<1>5. Pool!SameBank(s) \cup {s} \subseteq Inside(BankOf[s])'
  BY Constants DEF At, Inside, Passed, Pool!SameBank
<1>6. Cardinality(At("in")) < MaxConcurrentSyncs
  BY <1>1, <1>3, <1>4, Constants DEF Capacity
<1>7. Cardinality(Pool!SameBank(s)) < MaxConcurrentPerBank
  <2>1. s \notin Pool!SameBank(s)
    BY DEF Pool!SameBank
  <2> QED
    BY <1>1, <1>3, <1>5, <2>1, Constants DEF Capacity
<1> QED
  BY <1>6, <1>7 DEF Pool!Enter, Pool!Cardinality, Cardinality

\* A step changes the stage of one sync.
LEMMA OneMoves ==
    ASSUME Next
    PROVE  \E s \in Syncs : \E to \in {"out", "global", "bank", "in"} :
             stage' = [stage EXCEPT ![s] = to] /\ (to = "in" => stage[s] # "in")
<1>1. PICK s \in Syncs : \/ Ask(s) \/ ResumeGlobal(s) \/ ResumeBank(s)
                         \/ Leave(s) \/ CancelGlobal(s) \/ CancelBank(s)
  BY DEF Next
<1>2. ASSUME NEW next, NEW line, AcquireBank(s, next, line)
      PROVE  \E to \in {"bank", "in"} : stage' = [stage EXCEPT ![s] = to]
  BY <1>2 DEF AcquireBank
<1>3. CASE Ask(s)
  <2>1. stage[s] = "out" /\ \E to \in {"global", "bank", "in"} : stage' = [stage EXCEPT ![s] = to]
    BY <1>2, <1>3 DEF Ask
  <2> QED
    BY <2>1
<1>4. CASE ResumeGlobal(s)
  <2>1. stage[s] = "global" /\ \E to \in {"bank", "in"} : stage' = [stage EXCEPT ![s] = to]
    BY <1>2, <1>4 DEF ResumeGlobal
  <2> QED
    BY <2>1
<1>5. CASE ResumeBank(s)
  BY <1>5 DEF ResumeBank
<1>6. CASE Leave(s) \/ CancelGlobal(s) \/ CancelBank(s)
  BY <1>6 DEF Leave, CancelGlobal, CancelBank
<1> QED
  BY <1>1, <1>3, <1>4, <1>5, <1>6

LEMMA PoolStep == IInv /\ IInv' /\ [Next]_vars => [Pool!Next]_(At("in"))
<1> SUFFICES ASSUME IInv, IInv', [Next]_vars, At("in")' # At("in") PROVE Pool!Next
  OBVIOUS
<1>1. Next
  BY DEF vars, At
<1>2. PICK s \in Syncs, to \in {"out", "global", "bank", "in"} :
         stage' = [stage EXCEPT ![s] = to] /\ (to = "in" => stage[s] # "in")
  BY <1>1, OneMoves
<1>3. stage \in [Syncs -> {"out", "global", "bank", "in"}]
  BY DEF IInv
<1>4. CASE to = "in"
  <2>1. s \notin At("in") /\ At("in")' = At("in") \cup {s}
    BY <1>2, <1>3, <1>4 DEF At
  <2>2. Pool!Enter(s)
    BY <2>1, Room
  <2> QED
    BY <2>2 DEF Pool!Next
<1>5. CASE to # "in"
  <2>1. s \in At("in") /\ At("in")' = At("in") \ {s}
    BY <1>2, <1>3, <1>5 DEF At
  <2>2. Pool!Leave(s)
    BY <2>1 DEF Pool!Leave
  <2> QED
    BY <2>2 DEF Pool!Next
<1> QED
  BY <1>4, <1>5

\* The two semaphores implement the pool: never more browsers than the worker
\* has memory for, nor more against one bank than it tolerates.
THEOREM TwoSemaphoresArePool == Spec => ImplementsPool
<1>1. Init => Pool!Init
  BY DEF Init, Pool!Init, At
<1> QED
  BY <1>1, PoolStep, Invariance, PTL DEF Spec, ImplementsPool, Pool!Spec
=============================================================================
