----------------------------- MODULE SyncSlots -----------------------------
(***************************************************************************)
(* The two-layer limiter of worker/concurrency.py inside one worker        *)
(* process: _SyncSlot takes the global semaphore, then the bank's, and     *)
(* gives both back on exit.  Syncs are tasks of one event loop; a step     *)
(* runs from one await that really waits to the next.                      *)
(*                                                                         *)
(* External, modelled from how the limiter uses it: asyncio.Semaphore of   *)
(* Python 3.12 (value, FIFO waiters, a released unit is handed to the      *)
(* first waiter whose future is still open) and the event loop, which      *)
(* resumes tasks in the order their futures were resolved.                 *)
(***************************************************************************)
EXTENDS Integers, FiniteSets, SequencesExt

CONSTANTS
    Syncs,                 \* tasks that want a slot
    Banks,                 \* bank slugs
    Global,                \* names the global semaphore
    BankOf,                \* the bank of each sync
    MaxConcurrentSyncs,    \* settings.max_concurrent_syncs
    MaxConcurrentPerBank   \* settings.max_concurrent_per_bank

ASSUME SlotConstants ==
    /\ IsFiniteSet(Syncs)
    /\ Global \notin Banks
    /\ BankOf \in [Syncs -> Banks]
    /\ MaxConcurrentSyncs \in Nat \ {0}
    /\ MaxConcurrentPerBank \in Nat \ {0}

VARIABLES
    value,    \* _value of each semaphore
    waiters,  \* _waiters of each semaphore, in order
    ready,    \* syncs whose future is resolved, in the order they will resume
    stage     \* "out", waiting at "global", waiting at "bank", or "in"

vars == <<value, waiters, ready, stage>>

Sems == Banks \cup {Global}
Capacity(x) == IF x = Global THEN MaxConcurrentSyncs ELSE MaxConcurrentPerBank

Init ==
    /\ value = [x \in Sems |-> Capacity(x)]
    /\ waiters = [x \in Sems |-> <<>>]
    /\ ready = <<>>
    /\ stage = [s \in Syncs |-> "out"]

Woken(s) == s \in ToSet(ready)

\* Mutants of Locked: a unit in hand lets a newcomer past the queue; every
\* slot gets a bank semaphore of its own.
LockedByValue(x) == value[x] = 0
LockedGlobally(x) == x = Global /\ (value[x] = 0 \/ waiters[x] # <<>>)

\* Semaphore.locked(): a newcomer queues behind waiters even if a unit is free.
Locked(x) == value[x] = 0 \/ waiters[x] # <<>>

\* The first waiters of line, at most k of them, whose future is still open.
NextUp(line, k) ==
    LET open == {i \in DOMAIN line : ~Woken(line[i])}
        nth(n) == CHOOSE i \in open : Cardinality({j \in open : j <= i}) = n
    IN  [n \in 1..Min({k, Cardinality(open)}) |-> line[nth(n)]]

\* Effect of release() on semaphore x.
Freed(x) == NextUp(waiters[x], 1)

\* Mutant of PassedOn: a waiter that leaves the line wakes nobody.
PassedOnNothing(x, s, spare) == <<>>

\* Whom a waiter s that leaves the line of x wakes when spare units are there.
PassedOn(x, s, spare) == NextUp(RemoveFirst(waiters[x], s), spare)

-----------------------------------------------------------------------------
\* await self._bank_sem.acquire(), reached in the step that got the global
\* unit; next is the new value of the global semaphore, line its new queue.
AcquireBank(s, next, line) ==
    LET b == BankOf[s] IN
    IF Locked(b)
      THEN /\ stage' = [stage EXCEPT ![s] = "bank"]
           /\ value' = [value EXCEPT ![Global] = next]
           /\ waiters' = [waiters EXCEPT ![Global] = line, ![b] = Append(@, s)]
      ELSE /\ stage' = [stage EXCEPT ![s] = "in"]
           /\ value' = [value EXCEPT ![Global] = next, ![b] = @ - 1]
           /\ waiters' = [waiters EXCEPT ![Global] = line]

\* __aenter__ up to its first real wait.
Ask(s) ==
    /\ stage[s] = "out"
    /\ UNCHANGED ready
    /\ IF Locked(Global)
         THEN /\ stage' = [stage EXCEPT ![s] = "global"]
              /\ waiters' = [waiters EXCEPT ![Global] = Append(@, s)]
              /\ UNCHANGED value
         ELSE AcquireBank(s, value[Global] - 1, waiters[Global])

\* The waiter whose turn it is in the event loop goes on from acquire().
ResumeGlobal(s) ==
    /\ ready # <<>> /\ Head(ready) = s
    /\ stage[s] = "global"
    /\ LET up == PassedOn(Global, s, value[Global])
       IN  /\ ready' = Tail(ready) \o up
           /\ AcquireBank(s, value[Global] - Len(up), RemoveFirst(waiters[Global], s))

ResumeBank(s) ==
    LET b == BankOf[s]
        up == PassedOn(b, s, value[b])
    IN  /\ ready # <<>> /\ Head(ready) = s
        /\ stage[s] = "bank"
        /\ ready' = Tail(ready) \o up
        /\ value' = [value EXCEPT ![b] = @ - Len(up)]
        /\ waiters' = [waiters EXCEPT ![b] = RemoveFirst(@, s)]
        /\ stage' = [stage EXCEPT ![s] = "in"]

\* Mutant of Leave: __aexit__ gives back the bank's unit only.
LeaveBankOnly(s) ==
    LET b == BankOf[s] IN
    /\ stage[s] = "in"
    /\ value' = [value EXCEPT ![b] = @ + 1 - Len(Freed(b))]
    /\ ready' = ready \o Freed(b)
    /\ stage' = [stage EXCEPT ![s] = "out"]
    /\ UNCHANGED waiters

\* __aexit__: normal end, exception or cancellation of the browser section.
Leave(s) ==
    LET b == BankOf[s] IN
    /\ stage[s] = "in"
    /\ value' = [value EXCEPT ![b] = @ + 1 - Len(Freed(b)),
                              ![Global] = @ + 1 - Len(Freed(Global))]
    /\ ready' = ready \o Freed(b) \o Freed(Global)
    /\ stage' = [stage EXCEPT ![s] = "out"]
    /\ UNCHANGED waiters

\* A waiter is cancelled; a unit handed to it meanwhile goes to the next one.
CancelGlobal(s) ==
    /\ stage[s] = "global"
    /\ LET held == IF Woken(s) THEN 1 ELSE 0
           up == PassedOn(Global, s, value[Global] + held)
       IN  /\ value' = [value EXCEPT ![Global] = @ + held - Len(up)]
           /\ ready' = RemoveFirst(ready, s) \o up
    /\ waiters' = [waiters EXCEPT ![Global] = RemoveFirst(@, s)]
    /\ stage' = [stage EXCEPT ![s] = "out"]

\* Mutant of CancelBank: no `except BaseException`, the global unit is kept.
CancelBankKeepsGlobal(s) ==
    LET b == BankOf[s]
        held == IF Woken(s) THEN 1 ELSE 0
        up == PassedOn(b, s, value[b] + held)
    IN  /\ stage[s] = "bank"
        /\ value' = [value EXCEPT ![b] = @ + held - Len(up)]
        /\ ready' = RemoveFirst(ready, s) \o up
        /\ waiters' = [waiters EXCEPT ![b] = RemoveFirst(@, s)]
        /\ stage' = [stage EXCEPT ![s] = "out"]

CancelBank(s) ==
    LET b == BankOf[s]
        held == IF Woken(s) THEN 1 ELSE 0
        up == PassedOn(b, s, value[b] + held)
    IN  /\ stage[s] = "bank"
        /\ value' = [value EXCEPT ![b] = @ + held - Len(up),
                                  ![Global] = @ + 1 - Len(Freed(Global))]
        /\ ready' = RemoveFirst(ready, s) \o up \o Freed(Global)
        /\ waiters' = [waiters EXCEPT ![b] = RemoveFirst(@, s)]
        /\ stage' = [stage EXCEPT ![s] = "out"]

Next == \E s \in Syncs : \/ Ask(s) \/ ResumeGlobal(s) \/ ResumeBank(s)
                         \/ Leave(s) \/ CancelGlobal(s) \/ CancelBank(s)

Spec == Init /\ [][Next]_vars

\* The event loop resumes the task at the head of its queue, and a browser
\* section ends: login and extraction have timeouts.  Nobody has to ask and
\* nobody has to be cancelled.
FairSpec == /\ Spec
            /\ WF_vars(\E s \in Syncs : ResumeGlobal(s) \/ ResumeBank(s))
            /\ \A s \in Syncs : WF_vars(Leave(s))
-----------------------------------------------------------------------------
(* Safety                                                                  *)

TypeOK ==
    /\ value \in [Sems -> Nat]
    /\ \A x \in Sems : value[x] <= Capacity(x)
    /\ waiters \in [Sems -> Seq(Syncs)]
    /\ ready \in Seq(Syncs)
    /\ stage \in [Syncs -> {"out", "global", "bank", "in"}]

At(where) == {s \in Syncs : stage[s] = where}
Of(b) == {s \in Syncs : BankOf[s] = b}

\* Never more browsers than the worker has memory for, nor more against one
\* bank than it tolerates, and they come and go one by one, whoever is
\* cancelled while he waits: the two semaphores implement the pool.
Pool == INSTANCE SyncPool WITH browsers <- At("in")
ImplementsPool == Pool!Spec

\* The syncs that hold a unit, those it was handed to in their sleep included.
Holders(x) ==
    IF x = Global
      THEN At("in") \cup At("bank") \cup {s \in At("global") : Woken(s)}
      ELSE Of(x) \cap (At("in") \cup {s \in At("bank") : Woken(s)})

\* No unit is lost or made up: __aexit__, the except clause of __aenter__ and
\* the semaphores account for every one.
NoUnitLost == \A x \in Sems : value[x] + Cardinality(Holders(x)) = Capacity(x)

\* A waiter sleeps beside a free unit only while somebody who will pass it on
\* is about to run.
NoLostWakeUp ==
    \A x \in Sems :
        value[x] > 0 /\ waiters[x] # <<>> => \E s \in ToSet(waiters[x]) : Woken(s)

\* Whoever passes a semaphore was first in its line.
NoOvertaking ==
    [][\A s \in Syncs :
        LET First(x) == waiters[x] = <<>> \/ Head(waiters[x]) = s
        IN  /\ stage[s] \in {"out", "global"} /\ stage'[s] \in {"bank", "in"}
                => First(Global)
            /\ stage[s] # "in" /\ stage'[s] = "in" => First(BankOf[s])]_vars

-----------------------------------------------------------------------------
(* Liveness                                                                *)

\* Every sync that asked for a slot gets it or is cancelled: two layers of
\* semaphores, taken in one order, neither deadlock nor starve anybody.
EveryoneServed ==
    \A s \in Syncs : stage[s] \in {"global", "bank"} ~> stage[s] \in {"in", "out"}
=============================================================================
