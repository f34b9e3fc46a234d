---------------------------- MODULE ExtractOnce ----------------------------
(***************************************************************************)
(* What worker/workflow.py relies on when it calls the step extract_all:   *)
(* however often Restate runs it, a job stores the result of an account    *)
(* once and for good, all that an attempt stores at one time, and the      *)
(* verdict the workflow draws from the step's answer is that of what this  *)
(* attempt stored.  Deleting the connection is what undoes results.        *)
(* ExtractStep implements it with three transactions.                      *)
(***************************************************************************)

CONSTANTS Jobs, Accounts

VARIABLES
    exists,  \* the connection and its jobs
    stored,  \* of each job and account: "nothing", "ok" or "failed"
    latest,  \* the accounts that the attempt of each job has stored
    told     \* verdict of what the step returned, or "nothing"

vars == <<exists, stored, latest, told>>

Init == /\ exists = TRUE
        /\ stored = [j \in Jobs |-> [a \in Accounts |-> "nothing"]]
        /\ latest = [j \in Jobs |-> {}]
        /\ told = [j \in Jobs |-> "nothing"]

Failed(j) == {a \in latest[j] : stored[j][a] = "failed"}

Verdict(j) == IF Failed(j) = {} THEN "clean"
              ELSE IF Failed(j) = latest[j] THEN "all_failed" ELSE "some_failed"

Store(j) ==
    /\ exists
    /\ latest[j] = {} /\ told[j] = "nothing"
    /\ \E listed \in (SUBSET Accounts) \ {{}} :
         /\ \A a \in listed : stored[j][a] = "nothing"
         /\ \E result \in [listed -> {"ok", "failed"}] :
              stored' = [stored EXCEPT ![j] =
                            [a \in Accounts |-> IF a \in listed THEN result[a] ELSE @[a]]]
         /\ latest' = [latest EXCEPT ![j] = listed]
    /\ UNCHANGED <<exists, told>>

\* The answer is lost with its worker; another attempt follows.
Forget(j) ==
    /\ latest[j] # {} /\ told[j] = "nothing"
    /\ latest' = [latest EXCEPT ![j] = {}]
    /\ UNCHANGED <<exists, stored, told>>

Tell(j) ==
    /\ exists
    /\ latest[j] # {} /\ told[j] = "nothing"
    /\ told' = [told EXCEPT ![j] = Verdict(j)]
    /\ UNCHANGED <<exists, stored, latest>>

Delete == /\ exists /\ exists' = FALSE
          /\ stored' = [j \in Jobs |-> [a \in Accounts |-> "nothing"]]
          /\ UNCHANGED <<latest, told>>

Next == (\E j \in Jobs : Store(j) \/ Forget(j) \/ Tell(j)) \/ Delete

Spec == Init /\ [][Next]_vars
=============================================================================
