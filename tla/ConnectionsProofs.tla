------------------------- MODULE ConnectionsProofs -------------------------
(***************************************************************************)
(* Theorems about Connections and BankUrls, for any users, URLs, requests  *)
(* and any number of connections.                                          *)
(*                                                                         *)
(* The properties are about what a request answers or leaves behind, many  *)
(* SELECTs after it looked: IInv says what each request may rely on while  *)
(* it is under way (Known), what it may rely on unless somebody wrote      *)
(* since (Current, Free), and that the rows are closed under the foreign   *)
(* keys (Whole).                                                           *)
(***************************************************************************)
EXTENDS Connections, TLAPS

\* A request, or a row, of the same user for the same page.
Twin(a, b) == /\ a.user = b.user
              /\ Slug(a.url) = Slug(b.url)
              /\ Normalized(a.url) = Normalized(b.url)

\* A request under way knows whose it is, and a connection that it has found, or
\* made, is there and is its user's.
Known(r) ==
    /\ r.at # "idle" => r.user \in Users
    /\ r.at = "find" \/ (r.at = "write" /\ r.id = 0) => r.url \in Urls
    /\ r.at \in {"get", "load", "flush"} \/ (r.at = "write" /\ r.id # 0) =>
            r.id \in 1..Len(made) /\ (r.at # "load" \/ r.step > 1 => made[r.id].user = r.user)

\* What a request holds of a connection is the connection as it is, unless somebody
\* has written to it.
Current(r) ==
    /\ r.at = "get" \/ (r.at = "write" /\ r.id # 0) => r.disturbed \/ Exists(r.id)
    /\ r.at = "load" => r.step \in 1..7
    /\ r.at = "flush" => r.step = 8
    /\ r.at \in {"load", "flush"} =>
          /\ r.disturbed \/ \A t \in Tables :
                t \in r.loaded <=>
                    t \in rows[r.id] /\ \E i \in 1..7 : i < r.step /\ LoadOrder[i] = t
          /\ r.step > 1 => "bank_connections" \in r.loaded

\* Who is about to insert has no twin yet.
Free(r) ==
    r.at = "write" /\ r.id = 0 /\ ~overlapped =>
        \A i \in 1..Len(made) : Exists(i) => ~Twin(made[i], r)

Unique == ~overlapped => \A i, j \in 1..Len(made) :
                            i # j /\ Exists(i) /\ Exists(j) => ~Twin(made[i], made[j])

\* Nothing is there without the rows it refers to; what was deleted is not.
Whole == /\ \A id \in Ids : \A t \in rows[id] : Parents[t] \subseteq rows[id]
         /\ \A id \in gone : rows[id] = {}

\* What was answered is about a connection of who asked.
Told == /\ said.code \in {201, 204} =>
                said.id \in 1..Len(made) /\ made[said.id].user = said.user
        /\ said.code = 500 => said.disturbed

Own == \A id \in 1..Len(made) : entered[id] = made[id].user

IInv == /\ TypeOK
        /\ \A c \in Clients : Known(req[c]) /\ Current(req[c]) /\ Free(req[c])
        /\ Own /\ Unique /\ Whole /\ Told

-----------------------------------------------------------------------------
(* Types                                                                   *)

LEMMA LoadOrderFacts ==
  /\ Len(LoadOrder) = 7
  /\ LoadOrder[1] = "bank_connections"
  /\ \A i \in 1..7 : LoadOrder[i] \in Tables
  BY DEF LoadOrder, Tables, Parents

LEMMA AllLoaded == \A t \in Tables : \E i \in 1..7 : LoadOrder[i] = t
  <1>1. /\ LoadOrder[1] = "bank_connections" /\ LoadOrder[2] = "accounts"
        /\ LoadOrder[3] = "transactions" /\ LoadOrder[4] = "balances"
        /\ LoadOrder[5] = "sync_jobs" /\ LoadOrder[6] = "sync_steps"
        /\ LoadOrder[7] = "account_sync_results"
    BY DEF LoadOrder
  <1>2. Tables = {"bank_connections", "accounts", "transactions", "balances", "sync_jobs",
                  "sync_steps", "account_sync_results"}
    BY DEF Tables, Parents
  <1> QED
    BY <1>1, <1>2

LEMMA EmptyTyped == NoRequest \in Requests /\ Silence \in Answers
  BY LoadOrderFacts DEF NoRequest, Silence, Requests, Answers

\* A client that goes on, or is answered, or hears of a change.
LEMMA GoTyped ==
  ASSUME TypeOK, NEW c \in Clients, NEW r \in Requests, Go(c, r)
  PROVE  req' \in [Clients -> Requests] /\ said' \in Answers
  BY EmptyTyped DEF TypeOK, Go

LEMMA SayTyped ==
  ASSUME TypeOK, NEW c \in Clients, NEW code \in {201, 204, 404, 500}, Say(c, code)
  PROVE  said' \in Answers
  <1>1. req[c] \in Requests
    BY DEF TypeOK
  <1>2. /\ req[c].user \in Users \cup {None} /\ req[c].id \in Ids \cup {0}
        /\ req[c].disturbed \in BOOLEAN
    BY <1>1 DEF Requests
  <1> QED
    BY <1>2 DEF Say, Answers

LEMMA AnswerTyped ==
  ASSUME TypeOK, NEW c \in Clients, NEW code \in {201, 204, 404, 500}, Answer(c, code)
  PROVE  req' \in [Clients -> Requests] /\ said' \in Answers
  BY EmptyTyped, SayTyped DEF TypeOK, Answer

LEMMA DisturbTyped ==
  ASSUME NEW r \in Requests, NEW id PROVE Disturb(r, id) \in Requests
  BY DEF Disturb, Requests

LEMMA InitType == Init => TypeOK
  <1> SUFFICES ASSUME Init PROVE TypeOK
    OBVIOUS
  <1>1. made \in Seq([user : Users, url : Urls]) /\ Len(made) = 0
    BY DEF Init
  <1>2. req \in [Clients -> Requests] /\ said \in Answers
    BY EmptyTyped DEF Init
  <1>3. rows \in [Ids -> SUBSET Tables] /\ entered \in [Ids -> Users \cup {None}]
    BY DEF Init
  <1>4. overlapped \in BOOLEAN /\ gone \subseteq 1..Len(made)
    BY DEF Init
  <1>5. Len(made) <= MaxIds
    BY <1>1, ConnectionsConstants
  <1> QED
    BY <1>1, <1>2, <1>3, <1>4, <1>5 DEF TypeOK

\* Every action keeps the types.
LEMMA StepType ==
  ASSUME TypeOK, \A c \in Clients : Known(req[c]) /\ Current(req[c]), [Next]_vars
  PROVE  TypeOK'
  <1> SUFFICES TypeOK'
    OBVIOUS
  <1> USE ConnectionsConstants DEF TypeOK, Ids
  <1>1. ASSUME NEW c \in Clients, RequestCreate(c) PROVE TypeOK'
    <2>1. PICK user \in Users, url \in Urls :
            Go(c, [NoRequest EXCEPT !.at = "find", !.user = user, !.url = url])
      BY <1>1 DEF RequestCreate
    <2>2. [NoRequest EXCEPT !.at = "find", !.user = user, !.url = url] \in Requests
      BY EmptyTyped DEF Requests
    <2> QED
      BY <1>1, <2>1, <2>2, GoTyped DEF RequestCreate
  <1>2. ASSUME NEW c \in Clients, Find(c) PROVE TypeOK'
    <2>1. Matches(req[c].user, req[c].url) \subseteq Ids
      BY DEF Matches
    <2>2. PICK id \in Ids \cup {0} :
            Go(c, [req[c] EXCEPT !.at = "write", !.id = id,
                                 !.url = IF id = 0 THEN @ ELSE None])
      BY <1>2, <2>1 DEF Find
    <2>3. req[c] \in Requests
      OBVIOUS
    <2>4. [req[c] EXCEPT !.at = "write", !.id = id,
                         !.url = IF id = 0 THEN @ ELSE None] \in Requests
      BY <2>3 DEF Requests
    <2> QED
      BY <1>2, <2>2, <2>4, GoTyped DEF Find
  <1>3. ASSUME NEW c \in Clients, Update(c) PROVE TypeOK'
    <2>1. req[c] \in Requests
      OBVIOUS
    <2>2. [req[c] EXCEPT !.at = "get"] \in Requests /\ req[c].user \in Users \cup {None}
      BY <2>1 DEF Requests
    <2>3. CASE Exists(req[c].id)
      BY <1>3, <2>2, <2>3, GoTyped DEF Update
    <2>4. CASE ~Exists(req[c].id)
      BY <1>3, <2>4, AnswerTyped DEF Update
    <2> QED
      BY <2>3, <2>4
  <1>4. ASSUME NEW c \in Clients, Insert(c) PROVE TypeOK'
    <2> DEFINE id == Len(made) + 1
    <2>1. req[c] \in Requests /\ id \in Ids /\ Len(made) \in Nat
      BY <1>4 DEF Insert
    <2>2. [req[c] EXCEPT !.at = "get", !.id = id, !.url = None] \in Requests
      BY <2>1 DEF Requests
    <2>3. req' \in [Clients -> Requests] /\ said' \in Answers
      BY <1>4, <2>2, GoTyped DEF Insert
    <2>4. req[c].user \in Users /\ req[c].url \in Urls
      BY <1>4 DEF Insert, Known
    <2>5. made' = Append(made, [user |-> req[c].user, url |-> req[c].url])
      BY <1>4 DEF Insert
    <2>6. made' \in Seq([user : Users, url : Urls]) /\ Len(made') = id
      BY <2>1, <2>4, <2>5
    <2>7. /\ rows' \in [Ids -> SUBSET Tables] /\ entered' \in [Ids -> Users \cup {None}]
          /\ overlapped' \in BOOLEAN /\ gone' = gone
      BY <1>4, <2>1, <2>4 DEF Insert, Tables, Parents
    <2> QED
      BY <1>4, <2>1, <2>3, <2>6, <2>7 DEF Insert
  <1>5. ASSUME NEW c \in Clients, ReadBack(c) PROVE TypeOK'
    BY <1>5, AnswerTyped DEF ReadBack
  <1>6. ASSUME NEW c \in Clients, RequestDelete(c) PROVE TypeOK'
    <2>1. PICK user \in Users, id \in 1..Len(made) :
            Go(c, [NoRequest EXCEPT !.at = "load", !.user = user, !.id = id, !.step = 1])
      BY <1>6 DEF RequestDelete
    <2>2. id \in Ids /\ 1 \in 0..(Len(LoadOrder) + 1)
      BY LoadOrderFacts
    <2>3. [NoRequest EXCEPT !.at = "load", !.user = user, !.id = id, !.step = 1] \in Requests
      BY <2>2, EmptyTyped DEF Requests
    <2> QED
      BY <1>6, <2>1, <2>3, GoTyped DEF RequestDelete
  <1>7. ASSUME NEW c \in Clients, Load(c) PROVE TypeOK'
    <2> DEFINE table == LoadOrder[req[c].step]
               met == IF table = "bank_connections" THEN Visible(req[c].user, req[c].id)
                      ELSE table \in rows[req[c].id] /\ FoundBy[table] \in req[c].loaded
               next == [req[c] EXCEPT
                         !.loaded = IF met THEN @ \cup {table} ELSE @,
                         !.step = @ + 1,
                         !.at = IF req[c].step = Len(LoadOrder) THEN "flush" ELSE "load"]
    <2>1. Answer(c, 404) \/ Go(c, next)
      BY <1>7 DEF Load
    <2>2. req[c] \in Requests /\ req[c].step \in 1..7
      BY <1>7 DEF Load, Current
    <2>3. table \in Tables /\ req[c].step + 1 \in 0..(Len(LoadOrder) + 1)
      BY <2>2, LoadOrderFacts
    <2>4. next \in Requests
      <3> HIDE DEF table, met
      <3> QED
        BY <2>2, <2>3 DEF Requests
    <2>5. req' \in [Clients -> Requests] /\ said' \in Answers
      <3> HIDE DEF next
      <3> QED
        BY <2>1, <2>4, GoTyped, AnswerTyped
    <2> QED
      BY <1>7, <2>5 DEF Load
  <1>8. ASSUME NEW c \in Clients, Flush(c) PROVE TypeOK'
    <2>1. CASE LeavesChild(c)
      <3>1. Answer(c, 500) /\ UNCHANGED <<rows, gone, made, entered, overlapped>>
        BY <1>8, <2>1 DEF Flush
      <3>2. req' \in [Clients -> Requests] /\ said' \in Answers
        BY <3>1, AnswerTyped
      <3> QED
        BY <3>1, <3>2
    <2>2. CASE ~LeavesChild(c)
      <3>1. req[c].id \in 1..Len(made)
        BY <1>8 DEF Flush, Known
      <3>2. req' \in [Clients -> Requests]
        BY <1>8, <2>2, EmptyTyped, DisturbTyped DEF Flush
      <3>3. said' \in Answers
        BY <1>8, <2>2, SayTyped DEF Flush
      <3>4. /\ rows' = [rows EXCEPT ![req[c].id] = @ \ req[c].loaded]
            /\ gone' = gone \cup {req[c].id} /\ UNCHANGED <<made, entered, overlapped>>
        BY <1>8, <2>2 DEF Flush
      <3> QED
        BY <3>1, <3>2, <3>3, <3>4
    <2> QED
      BY <2>1, <2>2
  <1>9. ASSUME NEW id \in Synced \cap 1..Len(made), SyncWrites(id) PROVE TypeOK'
    <2>1. PICK tables \in Writes : rows' = [rows EXCEPT ![id] = @ \cup tables]
      BY <1>9 DEF SyncWrites
    <2>2. tables \subseteq Tables
      BY <2>1 DEF Writes, Tables, Parents
    <2>3. req' \in [Clients -> Requests] /\ said' \in Answers
      BY <1>9, EmptyTyped, DisturbTyped DEF SyncWrites
    <2> QED
      BY <1>9, <2>1, <2>2, <2>3 DEF SyncWrites
  <1>10. CASE UNCHANGED vars
    BY <1>10 DEF vars
  <1> QED
    BY <1>1, <1>2, <1>3, <1>4, <1>5, <1>6, <1>7, <1>8, <1>9, <1>10 DEF Next

-----------------------------------------------------------------------------
(* Requests                                                                *)

\* Connections that were made before are as they were.
Older == /\ Len(made) <= Len(made')
         /\ \A i \in 1..Len(made) : made'[i] = made[i]

LEMMA NothingKnown ==
  ASSUME NEW d \in Clients, req'[d] = NoRequest
  PROVE  (Known(req[d]) /\ Current(req[d]) /\ Free(req[d]))'
  BY DEF NoRequest, Known, Current, Free

\* A request that has not moved still knows what it knew.
LEMMA StillKnown ==
  ASSUME TypeOK, NEW d \in Clients, Known(req[d]), Older, req'[d] = req[d]
  PROVE  Known(req[d])'
  BY DEF TypeOK, Known, Older

LEMMA StillCurrent ==
  ASSUME TypeOK, NEW d \in Clients, Known(req[d]), Current(req[d]), Older, req'[d] = req[d],
         \A i \in 1..Len(made) : rows'[i] = rows[i]
  PROVE  Current(req[d])'
  BY DEF TypeOK, Known, Current, Older, Exists

\* Who hears of a change keeps the rest of what it knew.
LEMMA Disturbed ==
  ASSUME TypeOK, NEW d \in Clients, NEW id \in Ids, Known(req[d]), Current(req[d]), Free(req[d]),
         req'[d] = Disturb(req[d], id), UNCHANGED <<made, overlapped>>,
         \A i \in 1..Len(made) : i # id => rows'[i] = rows[i],
         \A i \in 1..Len(made) : Exists(i)' => Exists(i)
  PROVE  (Known(req[d]) /\ Current(req[d]) /\ Free(req[d]))'
  <1>0. req[d] \in Requests
    BY DEF TypeOK
  <1>1. CASE req[d].at # "idle" /\ req[d].id = id
    <2>1. /\ req'[d].at = req[d].at /\ req'[d].user = req[d].user /\ req'[d].id = req[d].id
          /\ req'[d].url = req[d].url /\ req'[d].loaded = req[d].loaded
          /\ req'[d].step = req[d].step /\ req'[d].disturbed
      BY <1>0, <1>1 DEF Disturb, Requests
    <2>2. Known(req[d])'
      BY <2>1 DEF Known
    <2>3. Current(req[d])'
      BY <2>1 DEF Current
    <2>4. Free(req[d])'
      BY <2>1 DEF Free, Twin
    <2> QED
      BY <2>2, <2>3, <2>4
  <1>2. CASE ~(req[d].at # "idle" /\ req[d].id = id)
    <2>1. req'[d] = req[d]
      BY <1>2 DEF Disturb
    <2>2. Known(req[d])'
      BY <2>1 DEF Known
    <2>3. Current(req[d])'
      BY <1>0, <1>2, <2>1 DEF Current, Known, Exists
    <2>4. Free(req[d])'
      BY <2>1 DEF Free, Twin
    <2> QED
      BY <2>2, <2>3, <2>4
  <1> QED
    BY <1>1, <1>2

LEMMA Others ==
  ASSUME TypeOK, NEW d \in Clients, Known(req[d]), Current(req[d]), Free(req[d]),
         req'[d] = req[d], UNCHANGED <<made, rows, overlapped>>
  PROVE  (Known(req[d]) /\ Current(req[d]) /\ Free(req[d]))'
  <1>1. Older /\ \A i \in 1..Len(made) : rows'[i] = rows[i]
    BY DEF Older, TypeOK
  <1>2. Free(req[d])'
    BY DEF Free, Twin, Exists
  <1> QED
    BY <1>1, <1>2, StillKnown, StillCurrent

\* A step of a request that writes nothing.
LEMMA WritesNothing ==
  ASSUME IInv, [Next]_vars, UNCHANGED <<made, rows, entered, overlapped, gone>>, Told',
         NEW c \in Clients, (Known(req[c]) /\ Current(req[c]) /\ Free(req[c]))',
         \A d \in Clients \ {c} : req'[d] = req[d]
  PROVE  IInv'
  <1>1. TypeOK'
    BY StepType DEF IInv
  <1>2. \A d \in Clients \ {c} : (Known(req[d]) /\ Current(req[d]) /\ Free(req[d]))'
    BY Others DEF IInv
  <1>3. Own' /\ Unique' /\ Whole'
    BY DEF IInv, Own, Unique, Whole, Exists
  <1> QED
    BY <1>1, <1>2, <1>3 DEF IInv

LEMMA AnswerKnown ==
  ASSUME TypeOK, NEW c \in Clients, NEW code, Answer(c, code)
  PROVE  /\ (Known(req[c]) /\ Current(req[c]) /\ Free(req[c]))'
         /\ \A d \in Clients \ {c} : req'[d] = req[d]
  <1>1. req'[c] = NoRequest /\ \A d \in Clients \ {c} : req'[d] = req[d]
    BY DEF TypeOK, Answer
  <1> QED
    BY <1>1, NothingKnown

LEMMA GoMoves ==
  ASSUME TypeOK, NEW c \in Clients, NEW r, Go(c, r)
  PROVE  req'[c] = r /\ Told' /\ \A d \in Clients \ {c} : req'[d] = req[d]
  BY DEF TypeOK, Go, Told, Silence

-----------------------------------------------------------------------------
(* The steps that write                                                    *)

LEMMA InitIInv == Init => IInv
  <1> SUFFICES ASSUME Init PROVE IInv
    OBVIOUS
  <1>1. \A c \in Clients : Known(req[c]) /\ Current(req[c]) /\ Free(req[c])
    BY DEF Init, NoRequest, Known, Current, Free
  <1>2. Len(made) = 0 /\ Own /\ Unique /\ Whole /\ Told
    BY DEF Init, Own, Unique, Whole, Told, Silence
  <1> QED
    BY <1>1, <1>2, InitType DEF IInv

LEMMA InsertKeeps == ASSUME IInv, NEW c \in Clients, Insert(c) PROVE IInv'
  <1> DEFINE id == Len(made) + 1
             r == [req[c] EXCEPT !.at = "get", !.id = id, !.url = None]
  <1>1. /\ req[c] \in Requests /\ id \in Ids /\ Len(made) \in Nat
        /\ made \in Seq([user : Users, url : Urls])
    BY ConnectionsConstants DEF Insert, IInv, TypeOK, Ids
  <1>2. /\ req[c].at = "write" /\ req[c].id = 0
        /\ made' = Append(made, [user |-> req[c].user, url |-> req[c].url])
        /\ rows' = [rows EXCEPT ![id] = {"bank_connections"}]
        /\ entered' = [entered EXCEPT ![id] = req[c].user]
        /\ Go(c, r)
        /\ overlapped' = (overlapped \/ \E d \in Clients : Rival(c, d))
        /\ gone' = gone
    BY DEF Insert
  <1>3. TypeOK'
    BY StepType DEF IInv, Next
  <1>4. req'[c] = r /\ Told' /\ \A d \in Clients \ {c} : req'[d] = req[d]
    <2> HIDE DEF r
    <2> QED
      BY <1>2, GoMoves DEF IInv
  <1>5. req[c].user \in Users /\ req[c].url \in Urls
    BY <1>2 DEF IInv, Known
  <1>6. /\ Len(made') = id /\ made'[id] = [user |-> req[c].user, url |-> req[c].url]
        /\ \A i \in 1..Len(made) : made'[i] = made[i] /\ rows'[i] = rows[i]
        /\ rows'[id] = {"bank_connections"} /\ entered'[id] = req[c].user
        /\ \A i \in 1..Len(made) : entered'[i] = entered[i]
    BY <1>1, <1>2, <1>5 DEF IInv, TypeOK, Ids
  <1>7. Older
    BY <1>1, <1>6 DEF Older
  <1>8. Twin(made'[id], req[c])
    BY <1>6 DEF Twin
  <1>9. Known(req[c])' /\ Current(req[c])' /\ Free(req[c])'
    <2>1. /\ req'[c].at = "get" /\ req'[c].id = id /\ req'[c].user = req[c].user
      BY <1>1, <1>4 DEF Requests
    <2> QED
      BY <1>1, <1>5, <1>6, <2>1 DEF Known, Current, Free, Exists
  <1>10. ASSUME NEW d \in Clients \ {c} PROVE Known(req[d])' /\ Current(req[d])' /\ Free(req[d])'
    <2>1. req'[d] = req[d]
      BY <1>4
    <2>2. Known(req[d])' /\ Current(req[d])'
      BY <1>6, <1>7, <2>1, StillKnown, StillCurrent DEF IInv
    <2>3. Free(req[d])'
      <3> SUFFICES ASSUME req[d].at = "write", req[d].id = 0, ~overlapped',
                          NEW i \in 1..Len(made'), Exists(i)'
                   PROVE  ~Twin(made'[i], req[d])
        BY <2>1 DEF Free, Twin
      <3>1. ~Rival(c, d) /\ ~overlapped
        BY <1>2
      <3>2. CASE i = id
        <4>1. ~Twin(req[c], req[d])
          BY <3>1 DEF Rival, Twin
        <4> QED
          BY <1>8, <3>2, <4>1 DEF Twin
      <3>3. CASE i # id
        BY <1>1, <1>6, <3>1, <3>3 DEF IInv, Free, Exists
      <3> QED
        BY <3>2, <3>3
    <2> QED
      BY <2>2, <2>3
  <1>11. Own'
    BY <1>1, <1>6 DEF Own, IInv
  <1>12. Unique'
    <2> SUFFICES ASSUME ~overlapped', NEW i \in 1..Len(made'), NEW j \in 1..Len(made'),
                        i # j, Exists(i)', Exists(j)'
                 PROVE  ~Twin(made'[i], made'[j])
      BY DEF Unique, Twin
    <2>1. ~overlapped
      BY <1>2
    <2>2. \A k \in 1..Len(made) : Exists(k)' => Exists(k) /\ ~Twin(made[k], req[c])
      BY <1>1, <1>2, <1>6, <2>1 DEF IInv, Free, Exists
    <2>3. CASE i # id /\ j # id
      BY <1>1, <1>6, <2>1, <2>2, <2>3 DEF IInv, Unique
    <2>4. CASE i = id
      <3>1. ~Twin(made'[j], req[c])
        BY <1>1, <1>6, <2>2, <2>4
      <3> QED
        BY <1>8, <2>4, <3>1 DEF Twin
    <2>5. CASE j = id
      <3>1. ~Twin(made'[i], req[c])
        BY <1>1, <1>6, <2>2, <2>5
      <3> QED
        BY <1>8, <2>5, <3>1 DEF Twin
    <2> QED
      BY <2>3, <2>4, <2>5
  <1>13. Whole'
    <2>1. \A k \in Ids : k # id => rows'[k] = rows[k]
      BY <1>1, <1>2 DEF IInv, TypeOK
    <2>2. \A t \in {"bank_connections"} : Parents[t] = {}
      BY DEF Parents
    <2>3. \A k \in gone' : k # id /\ k \in Ids
      BY <1>1, <1>2, ConnectionsConstants DEF IInv, TypeOK, Ids
    <2> QED
      BY <1>2, <1>6, <2>1, <2>2, <2>3 DEF IInv, Whole
  <1> QED
    BY <1>3, <1>4, <1>9, <1>10, <1>11, <1>12, <1>13 DEF IInv

\* With the connection itself, whatever is not loaded and refers to nothing that is,
\* is nothing.
LEMMA NothingLeft ==
  ASSUME NEW R \in SUBSET Tables, NEW L, "bank_connections" \in L,
         \A t \in R : Parents[t] \subseteq R,
         \A t \in R \ L : Parents[t] \cap L = {}
  PROVE  R \ L = {}
  <1>1. "accounts" \in R => "accounts" \in L
    BY DEF Parents
  <1>2. "sync_jobs" \in R => "sync_jobs" \in L
    BY DEF Parents
  <1>3. "balances" \in R => "balances" \in L
    BY <1>1 DEF Parents
  <1>4. "transactions" \in R => "transactions" \in L
    BY <1>1 DEF Parents
  <1>5. "sync_steps" \in R => "sync_steps" \in L
    BY <1>2 DEF Parents
  <1>6. "account_sync_results" \in R => "account_sync_results" \in L
    BY <1>2 DEF Parents
  <1> QED
    BY <1>1, <1>2, <1>3, <1>4, <1>5, <1>6 DEF Tables, Parents

LEMMA FlushKeeps == ASSUME IInv, NEW c \in Clients, Flush(c) PROVE IInv'
  <1> DEFINE id == req[c].id
  <1>1. TypeOK'
    BY StepType DEF IInv, Next
  <1>2. CASE LeavesChild(c)
    <2>1. Answer(c, 500) /\ UNCHANGED <<made, rows, entered, overlapped, gone>>
      BY <1>2 DEF Flush
    <2>2. Told'
      <3>1. PICK t \in rows[id] \ req[c].loaded : Parents[t] \cap req[c].loaded # {}
        BY <1>2 DEF LeavesChild
      <3>2. req[c].at = "flush" /\ req[c].step = 8 /\ id \in Ids
        BY ConnectionsConstants DEF Flush, IInv, Known, Current, TypeOK, Ids
      <3>3. t \in Tables
        BY <3>1, <3>2 DEF IInv, TypeOK
      <3>4. \E i \in 1..7 : LoadOrder[i] = t
        BY <3>3, AllLoaded
      <3>5. req[c].disturbed
        BY <3>1, <3>2, <3>3, <3>4 DEF IInv, Current
      <3> QED
        BY <2>1, <3>5 DEF Answer, Say, Told
    <2> QED
      BY <2>1, <2>2, AnswerKnown, WritesNothing DEF IInv, Next
  <1>3. CASE ~LeavesChild(c)
    <2>1. /\ req[c].at = "flush" /\ id \in 1..Len(made) /\ id \in Ids
          /\ made[id].user = req[c].user /\ "bank_connections" \in req[c].loaded
      BY ConnectionsConstants DEF Flush, IInv, Known, Current, TypeOK, Ids
    <2>2. /\ rows' = [rows EXCEPT ![id] = @ \ req[c].loaded]
          /\ gone' = gone \cup {id}
          /\ req' = [d \in Clients |-> IF d = c THEN NoRequest ELSE Disturb(req[d], id)]
          /\ Say(c, 204) /\ UNCHANGED <<made, entered, overlapped>>
      BY <1>3 DEF Flush
    <2>3. rows'[id] = {} /\ \A i \in Ids : i # id => rows'[i] = rows[i]
      <3>1. rows[id] \ req[c].loaded = {}
        <4>1. rows[id] \in SUBSET Tables /\ \A t \in rows[id] : Parents[t] \subseteq rows[id]
          BY <2>1 DEF IInv, TypeOK, Whole
        <4>2. \A t \in rows[id] \ req[c].loaded : Parents[t] \cap req[c].loaded = {}
          BY <1>3 DEF LeavesChild
        <4> QED
          BY <2>1, <4>1, <4>2, NothingLeft
      <3> QED
        BY <2>1, <2>2, <3>1 DEF IInv, TypeOK
    <2>4. 1..Len(made) \subseteq Ids /\ \A i \in 1..Len(made) : Exists(i)' => Exists(i)
      BY <2>2, <2>3, ConnectionsConstants DEF IInv, TypeOK, Ids, Exists
    <2>5. \A d \in Clients : (Known(req[d]) /\ Current(req[d]) /\ Free(req[d]))'
      <3>1. ASSUME NEW d \in Clients, d # c
            PROVE  (Known(req[d]) /\ Current(req[d]) /\ Free(req[d]))'
        BY <2>1, <2>2, <2>3, <2>4, <3>1, Disturbed DEF IInv
      <3> QED
        BY <2>2, <3>1, NothingKnown
    <2>6. Own'
      BY <2>2 DEF Own, IInv
    <2>7. Unique'
      BY <2>2, <2>4 DEF Unique, IInv
    <2>8. Whole'
      BY <2>2, <2>3 DEF Whole, IInv
    <2>9. Told'
      BY <2>1, <2>2 DEF Say, Told
    <2> QED
      BY <1>1, <2>5, <2>6, <2>7, <2>8, <2>9 DEF IInv
  <1> QED
    BY <1>2, <1>3

LEMMA SyncWritesKeeps ==
  ASSUME IInv, NEW id \in Synced \cap 1..Len(made), SyncWrites(id) PROVE IInv'
  <1>1. TypeOK'
    BY StepType DEF IInv, Next
  <1>2. PICK tables \in Writes :
          /\ tables = {"sync_jobs"} \/ "sync_jobs" \in rows[id]
          /\ Referred(id, tables)
          /\ rows' = [rows EXCEPT ![id] = @ \cup tables]
          /\ req' = [d \in Clients |-> Disturb(req[d], id)] /\ said' = Silence
          /\ UNCHANGED <<made, entered, overlapped, gone>>
    BY DEF SyncWrites
  <1>3. id \in Ids /\ 1..Len(made) \subseteq Ids
    BY ConnectionsConstants DEF IInv, TypeOK, Ids
  <1>4. rows'[id] = rows[id] \cup tables /\ \A i \in Ids : i # id => rows'[i] = rows[i]
    BY <1>2, <1>3 DEF IInv, TypeOK
  <1>5. "bank_connections" \notin tables
    BY <1>2 DEF Writes
  <1>6. \A i \in 1..Len(made) : Exists(i)' => Exists(i)
    BY <1>2, <1>3, <1>4, <1>5 DEF Exists
  <1>7. \A d \in Clients : (Known(req[d]) /\ Current(req[d]) /\ Free(req[d]))'
    BY <1>2, <1>3, <1>4, <1>6, Disturbed DEF IInv
  <1>8. Own' /\ Told'
    BY <1>2 DEF Own, Told, Silence, IInv
  <1>9. Unique'
    BY <1>2, <1>6 DEF Unique, IInv
  <1>10. Whole'
    <2>1. \A t \in tables : Parents[t] \subseteq rows[id]
      BY <1>2 DEF Referred
    <2>2. \A t \in rows'[id] : Parents[t] \subseteq rows'[id]
      BY <1>3, <1>4, <2>1 DEF Whole, IInv
    <2>3. rows[id] # {}
      <3>1. CASE tables = {"sync_jobs"}
        BY <2>1, <3>1 DEF Parents
      <3>2. CASE tables # {"sync_jobs"}
        BY <1>2, <3>2
      <3> QED
        BY <3>1, <3>2
    <2>4. id \notin gone' /\ gone' \subseteq Ids
      BY <1>2, <1>3, <2>3 DEF Whole, IInv, TypeOK
    <2> QED
      BY <1>2, <1>4, <2>2, <2>4 DEF Whole, IInv
  <1> QED
    BY <1>1, <1>7, <1>8, <1>9, <1>10 DEF IInv

-----------------------------------------------------------------------------
(* The steps that read                                                     *)

LEMMA RequestCreateKeeps == ASSUME IInv, NEW c \in Clients, RequestCreate(c) PROVE IInv'
  <1>1. PICK user \in Users, url \in Urls :
          Go(c, [NoRequest EXCEPT !.at = "find", !.user = user, !.url = url])
    BY DEF RequestCreate
  <1> DEFINE r == [NoRequest EXCEPT !.at = "find", !.user = user, !.url = url]
  <1>2. req'[c] = r /\ Told' /\ \A d \in Clients \ {c} : req'[d] = req[d]
    <2> HIDE DEF r
    <2> QED
      BY <1>1, GoMoves DEF IInv, r
  <1>3. r.at = "find" /\ r.user = user /\ r.url = url /\ r.id = 0
    BY DEF NoRequest
  <1>4. (Known(req[c]) /\ Current(req[c]) /\ Free(req[c]))'
    <2> HIDE DEF r
    <2> QED
      BY <1>2, <1>3 DEF Known, Current, Free
  <1> QED
    BY <1>2, <1>4, WritesNothing DEF RequestCreate, Next

LEMMA FindKeeps == ASSUME IInv, NEW c \in Clients, Find(c) PROVE IInv'
  <1> DEFINE found == Matches(req[c].user, req[c].url)
             r(id) == [req[c] EXCEPT !.at = "write", !.id = id,
                                     !.url = IF id = 0 THEN @ ELSE None]
  <1>1. PICK id \in IF found = {} THEN {0} ELSE found : Go(c, r(id))
    BY DEF Find
  <1>2. req'[c] = r(id) /\ Told' /\ \A d \in Clients \ {c} : req'[d] = req[d]
    <2> HIDE DEF r
    <2> QED
      BY <1>1, GoMoves DEF IInv
  <1>3. /\ req[c] \in Requests /\ req[c].at = "find" /\ req[c].user \in Users
        /\ req[c].url \in Urls /\ UNCHANGED <<made, rows, entered, overlapped, gone>>
    BY DEF Find, IInv, TypeOK, Known
  <1>4. /\ req'[c].at = "write" /\ req'[c].id = id /\ req'[c].user = req[c].user
        /\ id = 0 => req'[c].url = req[c].url
    BY <1>2, <1>3 DEF Requests
  <1>5. id # 0 => id \in 1..Len(made) /\ Exists(id) /\ made[id].user = req[c].user
    BY <1>1, ConnectionsConstants DEF Matches, Exists, Ids, IInv, TypeOK
  <1>6. id = 0 => \A i \in 1..Len(made) : Exists(i) => ~Twin(made[i], req[c])
    <2> SUFFICES ASSUME id = 0, NEW i \in 1..Len(made), Exists(i), Twin(made[i], req[c])
                 PROVE  FALSE
      OBVIOUS
    <2>1. i \in Matches(req[c].user, req[c].url)
      BY ConnectionsConstants DEF Matches, Twin, Ids, IInv, TypeOK
    <2>2. 0 \notin found
      BY DEF Matches, Ids
    <2> QED
      BY <1>1, <2>1, <2>2
  <1>7. (Known(req[c]) /\ Current(req[c]) /\ Free(req[c]))'
    <2>1. Known(req[c])' /\ Current(req[c])'
      BY <1>3, <1>4, <1>5 DEF Known, Current, Exists
    <2>2. Free(req[c])'
      BY <1>3, <1>4, <1>6 DEF Free, Twin, Exists
    <2> QED
      BY <2>1, <2>2
  <1> QED
    BY <1>2, <1>3, <1>7, WritesNothing DEF Next

LEMMA UpdateKeeps == ASSUME IInv, NEW c \in Clients, Update(c) PROVE IInv'
  <1> DEFINE id == req[c].id
             r == [req[c] EXCEPT !.at = "get"]
  <1>1. /\ req[c] \in Requests /\ req[c].at = "write" /\ id \in 1..Len(made)
        /\ made[id].user = req[c].user /\ req[c].user \in Users
        /\ UNCHANGED <<made, rows, overlapped, gone>>
    BY DEF Update, IInv, TypeOK, Known, Requests
  <1>2. CASE Exists(id)
    <2>1. entered' = [entered EXCEPT ![id] = req[c].user] /\ Go(c, r)
      BY <1>2 DEF Update
    <2>2. req'[c] = r /\ Told' /\ \A d \in Clients \ {c} : req'[d] = req[d]
      <3> HIDE DEF r
      <3> QED
        BY <2>1, GoMoves DEF IInv
    <2>3. /\ req'[c].at = "get" /\ req'[c].id = id /\ req'[c].user = req[c].user
      BY <1>1, <2>2 DEF Requests
    <2>4. (Known(req[c]) /\ Current(req[c]) /\ Free(req[c]))'
      BY <1>1, <1>2, <2>3 DEF Known, Current, Free, Exists
    <2>5. \A d \in Clients \ {c} : (Known(req[d]) /\ Current(req[d]) /\ Free(req[d]))'
      BY <1>1, <2>2, Others DEF IInv
    <2>6. Own'
      BY <1>1, <2>1 DEF Own, IInv, TypeOK
    <2>7. Unique' /\ Whole'
      BY <1>1 DEF Unique, Whole, Exists, IInv
    <2>8. TypeOK'
      BY StepType DEF IInv, Next
    <2> QED
      BY <2>2, <2>4, <2>5, <2>6, <2>7, <2>8 DEF IInv
  <1>3. CASE ~Exists(id)
    <2>1. Answer(c, 500) /\ entered' = entered
      BY <1>3 DEF Update
    <2>2. Told'
      BY <1>1, <1>3, <2>1 DEF Answer, Say, Told, IInv, Current
    <2> QED
      BY <1>1, <2>1, <2>2, AnswerKnown, WritesNothing DEF IInv, Next
  <1> QED
    BY <1>2, <1>3

LEMMA ReadBackKeeps == ASSUME IInv, NEW c \in Clients, ReadBack(c) PROVE IInv'
  <1> DEFINE code == IF Visible(req[c].user, req[c].id) THEN 201 ELSE 500
  <1>1. Answer(c, code) /\ UNCHANGED <<made, rows, entered, overlapped, gone>>
    BY DEF ReadBack
  <1>2. /\ req[c].id \in 1..Len(made) /\ made[req[c].id].user = req[c].user
        /\ req[c].disturbed \/ Exists(req[c].id)
    BY DEF ReadBack, IInv, Known, Current
  <1>3. Told'
    BY <1>1, <1>2 DEF Answer, Say, Told, Visible
  <1> QED
    BY <1>1, <1>3, AnswerKnown, WritesNothing DEF IInv, Next

LEMMA RequestDeleteKeeps == ASSUME IInv, NEW c \in Clients, RequestDelete(c) PROVE IInv'
  <1>1. PICK user \in Users, id \in 1..Len(made) :
          Go(c, [NoRequest EXCEPT !.at = "load", !.user = user, !.id = id, !.step = 1])
    BY DEF RequestDelete
  <1> DEFINE r == [NoRequest EXCEPT !.at = "load", !.user = user, !.id = id, !.step = 1]
  <1>2. req'[c] = r /\ Told' /\ \A d \in Clients \ {c} : req'[d] = req[d]
    <2> HIDE DEF r
    <2> QED
      BY <1>1, GoMoves DEF IInv, r
  <1>3. r.at = "load" /\ r.user = user /\ r.id = id /\ r.step = 1 /\ r.loaded = {}
    BY DEF NoRequest
  <1>4. (Known(req[c]) /\ Current(req[c]) /\ Free(req[c]))'
    <2> HIDE DEF r
    <2>1. Known(req[c])' /\ Free(req[c])'
      BY <1>2, <1>3 DEF Known, Free, RequestDelete
    <2>2. Current(req[c])'
      BY <1>2, <1>3 DEF Current
    <2> QED
      BY <2>1, <2>2
  <1> QED
    BY <1>2, <1>4, WritesNothing DEF RequestDelete, Next

\* A SELECT finds the row of its table, if there is one: those by which it is found
\* were loaded before.
LEMMA FoundInOrder ==
  ASSUME NEW k \in 2..7, NEW R, NEW L, \A t \in R : Parents[t] \subseteq R,
         \A t \in Tables : t \in L <=> t \in R /\ \E i \in 1..7 : i < k /\ LoadOrder[i] = t
  PROVE  LoadOrder[k] \in R => FoundBy[LoadOrder[k]] \in L
  <1>1. /\ LoadOrder[1] = "bank_connections" /\ LoadOrder[2] = "accounts"
        /\ LoadOrder[3] = "transactions" /\ LoadOrder[4] = "balances"
        /\ LoadOrder[5] = "sync_jobs" /\ LoadOrder[6] = "sync_steps"
        /\ LoadOrder[7] = "account_sync_results"
    BY DEF LoadOrder
  <1>2. \A t \in {"bank_connections", "accounts", "sync_jobs"} : t \in Tables
    BY DEF Tables, Parents
  <1>3. CASE k \in {2, 5}
    <2>1. FoundBy[LoadOrder[k]] = "bank_connections"
      BY <1>1, <1>3 DEF FoundBy
    <2>2. LoadOrder[k] \in R => "bank_connections" \in R
      BY <1>1, <1>3 DEF Parents
    <2> QED
      BY <1>1, <1>2, <1>3, <2>1, <2>2
  <1>4. CASE k \in {3, 4}
    <2>1. FoundBy[LoadOrder[k]] = "accounts"
      BY <1>1, <1>4 DEF FoundBy
    <2>2. LoadOrder[k] \in R => "accounts" \in R
      BY <1>1, <1>4 DEF Parents
    <2> QED
      BY <1>1, <1>2, <1>4, <2>1, <2>2
  <1>5. CASE k \in {6, 7}
    <2>1. FoundBy[LoadOrder[k]] = "sync_jobs"
      BY <1>1, <1>5 DEF FoundBy
    <2>2. LoadOrder[k] \in R => "sync_jobs" \in R
      BY <1>1, <1>5 DEF Parents
    <2> QED
      BY <1>1, <1>2, <1>5, <2>1, <2>2
  <1> QED
    BY <1>3, <1>4, <1>5

\* The places in the order are different tables.
LEMMA EachOnce == \A i, j \in 1..7 : LoadOrder[i] = LoadOrder[j] => i = j
  <1>1. /\ LoadOrder[1] = "bank_connections" /\ LoadOrder[2] = "accounts"
        /\ LoadOrder[3] = "transactions" /\ LoadOrder[4] = "balances"
        /\ LoadOrder[5] = "sync_jobs" /\ LoadOrder[6] = "sync_steps"
        /\ LoadOrder[7] = "account_sync_results"
    BY DEF LoadOrder
  <1> QED
    BY <1>1

LEMMA LoadKeeps == ASSUME IInv, NEW c \in Clients, Load(c) PROVE IInv'
  <1> DEFINE id == req[c].id
             k == req[c].step
             table == LoadOrder[k]
             met == IF table = "bank_connections" THEN Visible(req[c].user, id)
                    ELSE table \in rows[id] /\ FoundBy[table] \in req[c].loaded
             r == [req[c] EXCEPT
                    !.loaded = IF met THEN @ \cup {table} ELSE @,
                    !.step = @ + 1,
                    !.at = IF k = Len(LoadOrder) THEN "flush" ELSE "load"]
  <1>1. /\ req[c] \in Requests /\ req[c].at = "load" /\ k \in 1..7 /\ table \in Tables
        /\ req[c].user \in Users /\ id \in 1..Len(made) /\ id \in Ids
        /\ UNCHANGED <<made, rows, entered, overlapped, gone>>
    BY LoadOrderFacts, ConnectionsConstants DEF Load, IInv, TypeOK, Known, Current, Ids
  <1>2. CASE table = "bank_connections" /\ ~met
    <2>1. Answer(c, 404)
      BY <1>2 DEF Load
    <2>2. Told'
      BY <2>1 DEF Answer, Say, Told
    <2> QED
      BY <1>1, <2>1, <2>2, AnswerKnown, WritesNothing DEF IInv, Next
  <1>3. CASE ~(table = "bank_connections" /\ ~met)
    <2>1. Go(c, r)
      BY <1>3 DEF Load
    <2>2. req'[c] = r /\ Told' /\ \A d \in Clients \ {c} : req'[d] = req[d]
      <3> HIDE DEF r
      <3> QED
        BY <2>1, GoMoves DEF IInv
    <2>3. /\ req'[c].at = (IF k = 7 THEN "flush" ELSE "load") /\ req'[c].step = k + 1
          /\ req'[c].user = req[c].user /\ req'[c].id = id
          /\ req'[c].loaded = (IF met THEN req[c].loaded \cup {table} ELSE req[c].loaded)
          /\ req'[c].disturbed = req[c].disturbed
      <3> HIDE DEF met, table
      <3> QED
        BY <1>1, <2>2, LoadOrderFacts DEF Requests
    <2>4. table = "bank_connections" <=> k = 1
      BY <1>1, LoadOrderFacts, EachOnce
    <2>5. made[id].user = req[c].user
      <3>1. CASE k = 1
        BY <1>3, <2>4, <3>1 DEF Visible
      <3>2. CASE k # 1
        BY <1>1, <3>2 DEF IInv, Known
      <3> QED
        BY <3>1, <3>2
    <2>6. "bank_connections" \in req'[c].loaded
      <3>1. CASE k = 1
        BY <1>3, <2>3, <2>4, <3>1
      <3>2. CASE k # 1
        BY <1>1, <2>3, <3>2 DEF IInv, Current
      <3> QED
        BY <3>1, <3>2
    <2>7. ASSUME ~req[c].disturbed, NEW t \in Tables
          PROVE  t \in req'[c].loaded
                   <=> t \in rows[id] /\ \E i \in 1..7 : i < k + 1 /\ LoadOrder[i] = t
      <3>1. \A u \in Tables : u \in req[c].loaded
                   <=> u \in rows[id] /\ \E i \in 1..7 : i < k /\ LoadOrder[i] = u
        BY <1>1, <2>7 DEF IInv, Current
      <3>2. met <=> table \in rows[id]
        <4>1. CASE k = 1
          BY <1>3, <2>4, <4>1 DEF Visible, Exists
        <4>2. CASE k # 1
          <5>1. k \in 2..7 /\ \A u \in rows[id] : Parents[u] \subseteq rows[id]
            BY <1>1, <4>2 DEF IInv, Whole
          <5>2. table \in rows[id] => FoundBy[table] \in req[c].loaded
            BY <3>1, <5>1, FoundInOrder
          <5> QED
            BY <2>4, <4>2, <5>2
        <4> QED
          BY <4>1, <4>2
      <3>3. CASE t = table
        <4>1. t \notin req[c].loaded
          BY <1>1, <3>1, <3>3, EachOnce
        <4> QED
          BY <1>1, <2>3, <3>2, <3>3, <4>1
      <3>4. CASE t # table
        <4>1. t \in req'[c].loaded <=> t \in req[c].loaded
          BY <2>3, <3>4
        <4>2. \A i \in 1..7 : LoadOrder[i] = t => (i < k + 1 <=> i < k)
          BY <1>1, <3>4
        <4> QED
          BY <3>1, <4>1, <4>2
      <3> QED
        BY <3>3, <3>4
    <2>8. Known(req[c])' /\ Free(req[c])'
      BY <1>1, <2>3, <2>5 DEF Known, Free
    <2>9. Current(req[c])'
      <3>1. req'[c].at \in {"load", "flush"} /\ rows' = rows
        BY <1>1, <2>3
      <3>2. req'[c].disturbed \/ \A t \in Tables : t \in req'[c].loaded
              <=> t \in rows'[req'[c].id] /\ \E i \in 1..7 : i < req'[c].step /\ LoadOrder[i] = t
        BY <2>3, <2>7, <3>1
      <3>3. /\ req'[c].at = "load" => req'[c].step \in 1..7
            /\ req'[c].at = "flush" => req'[c].step = 8
        BY <1>1, <2>3
      <3> QED
        BY <2>6, <3>1, <3>2, <3>3 DEF Current
    <2> QED
      BY <1>1, <2>2, <2>8, <2>9, WritesNothing DEF Next
  <1> QED
    BY <1>2, <1>3

-----------------------------------------------------------------------------
(* The theorems                                                            *)

LEMMA StepIInv == IInv /\ [Next]_vars => IInv'
  <1> SUFFICES ASSUME IInv, [Next]_vars PROVE IInv'
    OBVIOUS
  <1>1. CASE UNCHANGED vars
    <2>1. TypeOK'
      BY StepType DEF IInv
    <2>2. \A c \in Clients : (Known(req[c]) /\ Current(req[c]) /\ Free(req[c]))'
      BY <1>1, Others DEF IInv, vars
    <2>3. Own' /\ Unique' /\ Whole' /\ Told'
      BY <1>1 DEF IInv, vars, Own, Unique, Whole, Told, Exists
    <2> QED
      BY <2>1, <2>2, <2>3 DEF IInv
  <1> QED
    BY <1>1, RequestCreateKeeps, FindKeeps, UpdateKeeps, InsertKeeps, ReadBackKeeps,
       RequestDeleteKeeps, LoadKeeps, FlushKeeps, SyncWritesKeeps DEF Next

\* The strengthening of the properties below is an invariant.
THEOREM Invariance == Spec => []IInv
  BY InitIInv, StepIInv, PTL DEF Spec

\* Every variable keeps its type.
THEOREM TypeCorrect == Spec => []TypeOK
  <1>1. IInv => TypeOK
    BY DEF IInv
  <1> QED
    BY <1>1, Invariance, PTL

\* Two spellings of one address, but for a default port that is written out, are
\* one connection to find_or_create_connection.
LEMMA SameConnection ==
  ASSUME NEW u \in Url, NEW v \in Url, SameBank(u, v),
         u.host \in HeritageHosts \/ u.port = v.port
  PROVE  Slug(u) = Slug(v) /\ Normalized(u) = Normalized(v)
  BY DEF Url, SameBank, Slug, Normalized

\* A user never has two connections for one bank, unless two requests overlapped
\* or a default port was written out.
THEOREM OneEach == Spec => []OnePerBank
  <1>1. IInv => OnePerBank
    <2> SUFFICES ASSUME IInv, NEW i \in 1..Len(made), NEW j \in 1..Len(made), i # j,
                        Exists(i), Exists(j), made[i].user = made[j].user,
                        SameBank(made[i].url, made[j].url), ~overlapped,
                        made[i].url.host \in HeritageHosts \/ made[i].url.port = made[j].url.port
                 PROVE  FALSE
      BY DEF OnePerBank
    <2>1. made[i].url \in Url /\ made[j].url \in Url
      <3> DEFINE Row == [user : Users, url : Urls]
      <3>1. made \in Seq(Row)
        BY DEF IInv, TypeOK
      <3>2. made[i] \in Row /\ made[j] \in Row
        <4> HIDE DEF Row
        <4> QED
          BY <3>1
      <3> QED
        BY <3>2, ConnectionsConstants
    <2>2. Twin(made[i], made[j])
      BY <2>1, SameConnection DEF Twin
    <2> QED
      BY <2>2 DEF IInv, Unique
  <1> QED
    BY <1>1, Invariance, PTL

\* A confirmed deletion is complete and final, and no request fails without cause.
THEOREM TrueAnswers == Spec => []AnswersAreTrue
  <1>1. IInv => AnswersAreTrue
    BY DEF IInv, Whole, Told, AnswersAreTrue
  <1> QED
    BY <1>1, Invariance, PTL

\* Requests get at rows of their own user only.
THEOREM Tenancy == Spec => []OwnRowsOnly
  <1>1. IInv => OwnRowsOnly
    BY DEF IInv, Own, Told, OwnRowsOnly
  <1> QED
    BY <1>1, Invariance, PTL
=============================================================================
