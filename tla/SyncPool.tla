------------------------------ MODULE SyncPool ------------------------------
(***************************************************************************)
(* What worker/concurrency.py promises the rest of the worker: a set of    *)
(* syncs that have a browser, one entering or leaving at a time, never     *)
(* more of them than the process has memory for nor more of one bank than  *)
(* the bank tolerates.  SyncSlots implements it with two semaphores.       *)
(***************************************************************************)
EXTENDS Integers, FiniteSets

CONSTANTS Syncs, BankOf, MaxConcurrentSyncs, MaxConcurrentPerBank

VARIABLE browsers  \* syncs inside `async with acquire_sync_slot(...)`

SameBank(s) == {t \in browsers : BankOf[t] = BankOf[s]}

Init == browsers = {}

Enter(s) ==
    /\ s \notin browsers
    /\ Cardinality(browsers) < MaxConcurrentSyncs
    /\ Cardinality(SameBank(s)) < MaxConcurrentPerBank
    /\ browsers' = browsers \cup {s}

Leave(s) ==
    /\ s \in browsers
    /\ browsers' = browsers \ {s}

Next == \E s \in Syncs : Enter(s) \/ Leave(s)

Spec == Init /\ [][Next]_browsers
=============================================================================
