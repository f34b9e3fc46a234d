---------------------------- MODULE Connections ----------------------------
(***************************************************************************)
(* The connections of the API's users: find_or_create_connection (services *)
(* /operations.py), create and delete (api/routes/connections.py, db       *)
(* /queries.py), and the rows that syncs write below a connection, table   *)
(* by table, under the foreign keys of the schema.                         *)
(*                                                                         *)
(* External: PostgreSQL at READ COMMITTED.  Each SELECT sees what is       *)
(* committed, what a session writes appears at its commit, and a row whose *)
(* parent is deleted, or a deletion that leaves a child, is refused.       *)
(*                                                                         *)
(* A connection has at most one row in each table: which of several rows a *)
(* statement meets makes no difference here.                               *)
(***************************************************************************)
EXTENDS Naturals, Sequences, BankUrls

CONSTANTS
    Users,    \* tenants
    Urls,     \* spellings of login pages that they enter
    Clients,  \* requests that may be under way at once
    MaxIds,   \* bound: connections ever made
    Synced,   \* bound: those of them that are synced
    None      \* no user, no URL

ASSUME ConnectionsConstants ==
    /\ Urls \subseteq Url
    /\ MaxIds \in Nat /\ Synced \subseteq 1..MaxIds
    /\ None \notin Users \cup Url

Ids == 1..MaxIds

\* The foreign keys, none of them with ON DELETE.
Parents == [bank_connections |-> {},
            accounts |-> {"bank_connections"},
            sync_jobs |-> {"bank_connections"},
            balances |-> {"accounts"},
            transactions |-> {"accounts"},
            sync_steps |-> {"sync_jobs"},
            account_sync_results |-> {"sync_jobs", "accounts"}]
Tables == DOMAIN Parents

\* Mutant of LoadOrder: the accounts' results are not loaded.
LoadOrderShort == <<"bank_connections", "accounts", "transactions", "balances", "sync_jobs",
                    "sync_steps">>

\* The SELECTs of delete_connection, and the rows by which a later one finds its own.
LoadOrder == <<"bank_connections", "accounts", "transactions", "balances", "sync_jobs",
               "sync_steps", "account_sync_results">>
FoundBy == [accounts |-> "bank_connections", transactions |-> "accounts", balances |-> "accounts",
            sync_jobs |-> "bank_connections", sync_steps |-> "sync_jobs",
            account_sync_results |-> "sync_jobs"]

VARIABLES
    made,        \* connections made so far: whose they are, and by which URL
    rows,        \* the tables in which each has its row
    entered,     \* the user whose credentials each has
    req,         \* the request of each client
    overlapped,  \* two requests made the same connection at the same time
    gone,        \* connections whose deletion was confirmed
    said         \* the answer that was just given, if one was

vars == <<made, rows, entered, req, overlapped, gone, said>>

Exists(id) == id <= Len(made) /\ "bank_connections" \in rows[id]

NoRequest == [at |-> "idle", user |-> None, id |-> 0, url |-> None, loaded |-> {}, step |-> 0,
              disturbed |-> FALSE]
Silence == [code |-> 0, user |-> None, id |-> 0, disturbed |-> FALSE]

Init ==
    /\ made = <<>>
    /\ rows = [id \in Ids |-> {}] /\ entered = [id \in Ids |-> None]
    /\ req = [c \in Clients |-> NoRequest]
    /\ overlapped = FALSE /\ gone = {} /\ said = Silence

\* The answer to the request of c.
Say(c, code) == said' = [code |-> code, user |-> req[c].user, id |-> req[c].id,
                         disturbed |-> req[c].disturbed]
Answer(c, code) == req' = [req EXCEPT ![c] = NoRequest] /\ Say(c, code)
Go(c, request) == req' = [req EXCEPT ![c] = request] /\ said' = Silence

\* Requests that are under way on this connection will know of the change.
Disturb(request, id) == IF request.at # "idle" /\ request.id = id
                          THEN [request EXCEPT !.disturbed = TRUE] ELSE request

-----------------------------------------------------------------------------
(* POST /connections *)

RequestCreate(c) ==
    /\ req[c].at = "idle"
    /\ \E user \in Users, url \in Urls :
         Go(c, [NoRequest EXCEPT !.at = "find", !.user = user, !.url = url])
    /\ UNCHANGED <<made, rows, entered, overlapped, gone>>

\* The connections that the SELECT of find_or_create_connection yields.
Matches(user, url) ==
    {id \in Ids : /\ Exists(id)
                  /\ made[id].user = user
                  /\ Slug(made[id].url) = Slug(url)
                  /\ Normalized(made[id].url) = Normalized(url)}

\* `.scalars().first()`: any of them, in no order.
Find(c) ==
    /\ req[c].at = "find"
    /\ LET found == Matches(req[c].user, req[c].url)
       IN  \E id \in IF found = {} THEN {0} ELSE found :
             Go(c, [req[c] EXCEPT !.at = "write", !.id = id,
                                  !.url = IF id = 0 THEN @ ELSE None])
    /\ UNCHANGED <<made, rows, entered, overlapped, gone>>

\* The row is updated; an UPDATE that meets no row is an error.
Update(c) ==
    /\ req[c].at = "write" /\ req[c].id # 0
    /\ IF Exists(req[c].id)
         THEN entered' = [entered EXCEPT ![req[c].id] = req[c].user]
              /\ Go(c, [req[c] EXCEPT !.at = "get"])
         ELSE Answer(c, 500) /\ UNCHANGED entered
    /\ UNCHANGED <<made, rows, overlapped, gone>>

\* Another request found nothing either, for the same user and page.
Rival(c, d) == /\ d # c /\ req[d].at = "write" /\ req[d].id = 0
               /\ req[d].user = req[c].user
               /\ Slug(req[d].url) = Slug(req[c].url)
               /\ Normalized(req[d].url) = Normalized(req[c].url)

\* The row is inserted.  Nothing in the schema keeps a second one out.
Insert(c) ==
    /\ req[c].at = "write" /\ req[c].id = 0
    /\ Len(made) < MaxIds
    /\ LET id == Len(made) + 1
       IN  /\ made' = Append(made, [user |-> req[c].user, url |-> req[c].url])
           /\ rows' = [rows EXCEPT ![id] = {"bank_connections"}]
           /\ entered' = [entered EXCEPT ![id] = req[c].user]
           /\ Go(c, [req[c] EXCEPT !.at = "get", !.id = id, !.url = None])
    /\ overlapped' = (overlapped \/ \E d \in Clients : Rival(c, d))
    /\ UNCHANGED gone

\* Mutant of Visible: get_connection and delete_connection for any user.
VisibleToAll(user, id) == Exists(id)

\* The rows a request of the user gets at.
Visible(user, id) == Exists(id) /\ made[id].user = user

\* create_connection reads back what it made.
ReadBack(c) ==
    /\ req[c].at = "get"
    /\ Answer(c, IF Visible(req[c].user, req[c].id) THEN 201 ELSE 500)
    /\ UNCHANGED <<made, rows, entered, overlapped, gone>>

-----------------------------------------------------------------------------
(* DELETE /connections/{id} *)

RequestDelete(c) ==
    /\ req[c].at = "idle"
    /\ \E user \in Users, id \in 1..Len(made) :
         Go(c, [NoRequest EXCEPT !.at = "load", !.user = user, !.id = id, !.step = 1])
    /\ UNCHANGED <<made, rows, entered, overlapped, gone>>

\* One SELECT, by the ids that an earlier one found, if it found any.  The first
\* is for the connection of this user.
Load(c) ==
    LET id == req[c].id
        table == LoadOrder[req[c].step]
        met == IF table = "bank_connections" THEN Visible(req[c].user, id)
               ELSE table \in rows[id] /\ FoundBy[table] \in req[c].loaded
    IN  /\ req[c].at = "load"
        /\ IF table = "bank_connections" /\ ~met
             THEN Answer(c, 404)
             ELSE Go(c, [req[c] EXCEPT
                    !.loaded = IF met THEN @ \cup {table} ELSE @,
                    !.step = @ + 1,
                    !.at = IF req[c].step = Len(LoadOrder) THEN "flush" ELSE "load"])
        /\ UNCHANGED <<made, rows, entered, overlapped, gone>>

\* A row that was not loaded refers to one that was.
LeavesChild(c) == \E table \in rows[req[c].id] \ req[c].loaded :
                    Parents[table] \cap req[c].loaded # {}

\* The DELETEs, children first, and the commit.  Rows that are gone already are
\* no error.
Flush(c) ==
    /\ req[c].at = "flush"
    /\ LET id == req[c].id
       IN  IF LeavesChild(c)
             THEN Answer(c, 500) /\ UNCHANGED <<rows, gone>>
             ELSE /\ rows' = [rows EXCEPT ![id] = @ \ req[c].loaded]
                  /\ gone' = gone \cup {id}
                  /\ req' = [d \in Clients |-> IF d = c THEN NoRequest
                                                        ELSE Disturb(req[d], id)]
                  /\ Say(c, 204)
    /\ UNCHANGED <<made, entered, overlapped>>

-----------------------------------------------------------------------------
(* What syncs write *)

\* trigger_sync; _persist_accounts; the batch; _write_step.
Writes == {{"sync_jobs"}, {"accounts"},
           {"transactions", "balances", "account_sync_results", "sync_steps"}, {"sync_steps"}}

Referred(id, tables) == \A table \in tables : Parents[table] \subseteq rows[id]

\* A session of a sync commits; a sync has its job before the rest.
SyncWrites(id) ==
    \E tables \in Writes :
      /\ ~(tables \subseteq rows[id])
      /\ tables = {"sync_jobs"} \/ "sync_jobs" \in rows[id]
      /\ Referred(id, tables)
      /\ rows' = [rows EXCEPT ![id] = @ \cup tables]
      /\ req' = [d \in Clients |-> Disturb(req[d], id)] /\ said' = Silence
      /\ UNCHANGED <<made, entered, overlapped, gone>>

Next == \/ \E c \in Clients :
             \/ RequestCreate(c) \/ Find(c) \/ Update(c) \/ Insert(c) \/ ReadBack(c)
             \/ RequestDelete(c) \/ Load(c) \/ Flush(c)
        \/ \E id \in Synced \cap 1..Len(made) : SyncWrites(id)

Spec == Init /\ [][Next]_vars
-----------------------------------------------------------------------------
(* Safety                                                                  *)

Requests == [at : {"idle", "find", "write", "get", "load", "flush"}, user : Users \cup {None},
             id : Ids \cup {0}, url : Urls \cup {None}, loaded : SUBSET Tables,
             step : 0..(Len(LoadOrder) + 1), disturbed : BOOLEAN]
Answers == [code : {0, 201, 204, 404, 500}, user : Users \cup {None}, id : Ids \cup {0},
            disturbed : BOOLEAN]

TypeOK ==
    /\ made \in Seq([user : Users, url : Urls]) /\ Len(made) <= MaxIds
    /\ rows \in [Ids -> SUBSET Tables]
    /\ entered \in [Ids -> Users \cup {None}]
    /\ req \in [Clients -> Requests]
    /\ overlapped \in BOOLEAN
    /\ gone \subseteq 1..Len(made)
    /\ said \in Answers

\* A user has one connection for each bank, however its address is written: but
\* for two requests at the same time, and for a default port that is written out,
\* which the slug keeps except where the host is of the heritage bank.
OnePerBank ==
    \A i, j \in 1..Len(made) :
        i # j /\ Exists(i) /\ Exists(j) /\ made[i].user = made[j].user
              /\ SameBank(made[i].url, made[j].url) =>
            \/ overlapped
            \/ made[i].url.host \notin HeritageHosts /\ made[i].url.port # made[j].url.port

\* What a request was told is true: a confirmed deletion left no row in any table
\* and none comes back, although syncs go on writing; and a request fails with 500
\* only if somebody wrote to its connection, or deleted it, in the meantime.
AnswersAreTrue ==
    /\ \A id \in gone : rows[id] = {}
    /\ said.code = 500 => said.disturbed

\* No user's request deletes another's connection or leaves its own credentials
\* on it, nor is told that there is one.
OwnRowsOnly ==
    /\ \A id \in 1..Len(made) : entered[id] = made[id].user
    /\ said.code \in {201, 204} => made[said.id].user = said.user
=============================================================================
