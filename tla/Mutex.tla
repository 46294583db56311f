------------------------------- MODULE Mutex --------------------------------
(***************************************************************************)
(* Mutex: a WaiterList whose user flag means "free".  The word is FreeWord *)
(* when nobody owns the mutex; it is any word without the flag while the   *)
(* mutex is owned, and its list then holds the threads that wait.  Unlock  *)
(* does not free a mutex that has waiters: it takes the first one off the  *)
(* list and passes the ownership to it by notifying it.                    *)
(*                                                                         *)
(* A thread outside Cancellers calls Lock, one in Cancellers waits for the *)
(* mutex and something else with WaitForAny, and may change its mind.      *)
(* Both call Unlock once they own the mutex.                               *)
(***************************************************************************)
EXTENDS WaiterList

CONSTANTS
  SpinCount,    (* mSpinCount: how often Lock looks at the word before waiting *)
  MaxRounds     (* bound: how often each thread asks for the mutex, per thread *)

ASSUME MutexAssumption == SpinCount \in Nat /\ MaxRounds \in [Threads -> Nat]

VARIABLES
  spinLeft,     (* Lock's local of that name, per thread                     *)
  rounds        (* how often each thread has asked for the mutex             *)

mutexVars == <<listVars, spinLeft, rounds>>

FreeWord == [ptr |-> Null, flag |-> TRUE, lock |-> FALSE, aba |-> 0]

-----------------------------------------------------------------------------
\* CompareAndSwap of MUTEX_FREE_BIT to 0: taking the mutex when it is free.
TakeFree(t, retry) ==
  \/ /\ mWaiters = FreeWord
     /\ mWaiters' = ZeroWord
     /\ Goto(t, "signaled")
     /\ UNCHANGED head
  \/ /\ mWaiters # FreeWord
     /\ head' = [head EXCEPT ![t] = mWaiters]
     /\ Goto(t, retry)
     /\ UNCHANGED mWaiters

StartRound(t) ==
  /\ pc[t] = "idle" /\ rounds[t] < MaxRounds[t]
  /\ rounds' = [rounds EXCEPT ![t] = @ + 1]

(* Lock *)

LockFast(t) ==
  /\ t \notin Cancellers
  /\ StartRound(t)
  /\ TakeFree(t, "spin")
  /\ spinLeft' = [spinLeft EXCEPT ![t] = SpinCount]
  /\ UNCHANGED <<next, posted, cached, current>>

\* while (spinLeft--): one look at the word.
LockSpin(t) ==
  /\ pc[t] = "spin"
  /\ \/ /\ spinLeft[t] = 0
        /\ Goto(t, "add")
        /\ UNCHANGED <<spinLeft, head>>
     \/ /\ spinLeft[t] > 0
        /\ spinLeft' = [spinLeft EXCEPT ![t] = @ - 1]
        /\ head' = [head EXCEPT ![t] = mWaiters]
        /\ Goto(t, IF mWaiters = FreeWord THEN "spinTake" ELSE "spin")
  /\ UNCHANGED <<mWaiters, next, posted, cached, current, rounds>>

\* A bug: the free mutex that Lock has seen is taken by a store.
LockSpinStore(t) ==
  /\ pc[t] = "spinTake"
  /\ mWaiters' = ZeroWord
  /\ Goto(t, "signaled")
  /\ UNCHANGED <<head, next, posted, cached, current, spinLeft, rounds>>

LockSpinTake(t) ==
  /\ pc[t] = "spinTake"
  /\ TakeFree(t, "spin")
  /\ UNCHANGED <<next, posted, cached, current, spinLeft, rounds>>

(* AddWaiter, called by WaitFor at the end of Lock, or by WaitForAny *)

\* A bug: a word without a list is taken for the free mutex.
AddBranchOnPointer(w) == IF w.ptr = Null THEN "addTake" ELSE "addLink"

AddBranch(w) == IF w.flag THEN "addTake" ELSE "addLink"

AddFast(t) ==
  /\ \/ pc[t] = "add" /\ UNCHANGED rounds
     \/ t \in Cancellers /\ StartRound(t)
  /\ TakeFree(t, AddBranch(mWaiters))
  /\ UNCHANGED <<next, posted, cached, current, spinLeft>>

AddTake(t) ==
  /\ pc[t] = "addTake"
  /\ CompareAndSwap(t, ZeroWord, "signaled", AddBranch(mWaiters))
  /\ UNCHANGED <<next, posted, cached, current, spinLeft, rounds>>

AddLink(t) ==
  /\ pc[t] = "addLink"
  /\ next' = [next EXCEPT ![t] = head[t].ptr]
  /\ Goto(t, "addPush")
  /\ UNCHANGED <<mWaiters, posted, head, cached, current, spinLeft, rounds>>

AddPush(t) ==
  /\ pc[t] = "addPush"
  /\ CompareAndSwap(t, WithHead(head[t], t), "waiting", AddBranch(mWaiters))
  /\ UNCHANGED <<next, posted, cached, current, spinLeft, rounds>>

(* Unlock *)

\* A bug: the mutex is made free although threads wait.
UnlockBranchFrees(w) == "unlockFree"

UnlockBranch(w) ==
  IF w.ptr = Null THEN "unlockFree"
  ELSE IF w.lock THEN "unlockLoad"
  ELSE "unlockReadNext"

UnlockFast(t) ==
  /\ pc[t] = "signaled"
  /\ \/ /\ mWaiters = ZeroWord
        /\ mWaiters' = FreeWord
        /\ Goto(t, "idle")
        /\ UNCHANGED head
     \/ /\ mWaiters # ZeroWord
        /\ head' = [head EXCEPT ![t] = mWaiters]
        /\ Goto(t, UnlockBranch(mWaiters))
        /\ UNCHANGED mWaiters
  /\ UNCHANGED <<next, posted, cached, current, spinLeft, rounds>>

UnlockFree(t) ==
  /\ pc[t] = "unlockFree"
  /\ CompareAndSwap(t, FreeWord, "idle", UnlockBranch(mWaiters))
  /\ UNCHANGED <<next, posted, cached, current, spinLeft, rounds>>

\* A bug: the loop that waits for the list to be unlocked does not look again.
UnlockLoadStale(t) ==
  /\ pc[t] = "unlockLoad"
  /\ Goto(t, UnlockBranch(head[t]))
  /\ UNCHANGED <<mWaiters, next, posted, head, cached, current, spinLeft, rounds>>

UnlockLoad(t) ==
  /\ pc[t] = "unlockLoad"
  /\ head' = [head EXCEPT ![t] = mWaiters]
  /\ Goto(t, UnlockBranch(mWaiters))
  /\ UNCHANGED <<mWaiters, next, posted, cached, current, spinLeft, rounds>>

UnlockReadNext(t) ==
  /\ pc[t] = "unlockReadNext"
  /\ cached' = [cached EXCEPT ![t] = next[head[t].ptr]]
  /\ Goto(t, "unlockPop")
  /\ UNCHANGED <<mWaiters, next, posted, head, current, spinLeft, rounds>>

UnlockPop(t) ==
  /\ pc[t] = "unlockPop"
  /\ CompareAndSwap(t, WithHead(head[t], cached[t]), "unlockNotify", UnlockBranch(mWaiters))
  /\ UNCHANGED <<next, posted, cached, current, spinLeft, rounds>>

UnlockNotify(t) ==
  /\ pc[t] = "unlockNotify"
  /\ Notify(head[t].ptr)
  /\ Goto(t, "idle")
  /\ UNCHANGED <<mWaiters, next, head, cached, current, spinLeft, rounds>>

-----------------------------------------------------------------------------
Lock(t) == LockFast(t) \/ LockSpin(t) \/ LockSpinTake(t)

AddWaiter(t) == AddFast(t) \/ AddTake(t) \/ AddLink(t) \/ AddPush(t)

Unlock(t) ==
  \/ UnlockFast(t) \/ UnlockFree(t) \/ UnlockLoad(t)
  \/ UnlockReadNext(t) \/ UnlockPop(t) \/ UnlockNotify(t)

ListStep(t) ==
  /\ AwaitNotify(t) \/ StartRemove(t) \/ RemoveWaiter(t)
  /\ UNCHANGED <<spinLeft, rounds>>

\* Nothing left to do: every thread has had its turns.
Finished == \A t \in Threads : pc[t] = "idle" /\ rounds[t] = MaxRounds[t]

Init ==
  /\ ListInit(FreeWord)
  /\ spinLeft = [t \in Threads |-> 0]
  /\ rounds = [t \in Threads |-> 0]

Step(t) == Lock(t) \/ AddWaiter(t) \/ Unlock(t) \/ ListStep(t)

Next == (\E t \in Threads : Step(t)) \/ (Finished /\ UNCHANGED mutexVars)

Spec == Init /\ [][Next]_mutexVars

(* The operating system runs every thread that can run.  Whether another    *)
(* waitable wakes up a WaitForAny is up to the environment, but a           *)
(* WaitForAny whose waiter has been notified does wake up.                  *)
Runs(t) ==
  \/ Lock(t) \/ AddWaiter(t) \/ Unlock(t)
  \/ /\ AwaitNotify(t) \/ (posted[t] > 0 /\ StartRemove(t)) \/ RemoveWaiter(t)
     /\ UNCHANGED <<spinLeft, rounds>>

FairSpec == Spec /\ \A t \in Threads : WF_mutexVars(Runs(t))

-----------------------------------------------------------------------------
(* Properties. *)

Labels ==
  ClientLabels \cup RemoveLabels \cup
  {"spin", "spinTake", "add", "addTake", "addLink", "addPush", "unlockFree",
   "unlockLoad", "unlockReadNext", "unlockPop", "unlockNotify"}

\* Every variable keeps its type: the word, the links and the locals of the threads.
TypeOK ==
  /\ mWaiters \in Word
  /\ next \in [Threads -> Pointers]
  /\ posted \in [Threads -> Nat]
  /\ pc \in [Threads -> Labels]
  /\ head \in [Threads -> Word]
  /\ cached \in [Threads -> Pointers]
  /\ current \in [Threads -> Pointers]
  /\ spinLeft \in [Threads -> 0 .. SpinCount]
  /\ rounds \in [Threads -> Nat]

\* From the end of its wait to the step that frees the mutex or gives it away.
Owns(t) ==
  pc[t] \in {"signaled", "unlockFree", "unlockLoad", "unlockReadNext", "unlockPop"}

\* Ownership on its way to t: popped by Unlock and not yet notified, or notified.
Granted(t) ==
  \/ posted[t] > 0
  \/ \E u \in Threads : pc[u] = "unlockNotify" /\ head[u].ptr = t

Holds(t) == Owns(t) \/ Granted(t)

\* The threads whose waiter is on the list.
Enqueued == {t \in Threads : Awaits(t) /\ ~Granted(t)}

(* The mutex has one holder, also while the ownership is being passed on:   *)
(* two owners would need a lost race between Unlock, Lock, AddWaiter and    *)
(* the removal of waiters; no owner of a mutex that is not free would lock  *)
(* out every later caller.                                                  *)
MutualExclusion ==
  /\ \A t, u \in Threads : Holds(t) /\ Holds(u) => t = u
  /\ mWaiters = FreeWord <=> \A t \in Threads : ~Holds(t)

(* The links never lose, repeat or invent a waiter, whatever pushes, pops   *)
(* and removals from the middle run at the same time.                       *)
ListIntegrity == ListIs(Enqueued)

(* RemoveWaiter tells the truth.  When it returns false the callback is in  *)
(* flight or has run, so that the thread may wait for it (WaitForAnyImpl);  *)
(* a waiter that was removed, or never added, is not notified any more.     *)
RemovalMatchesGrant == \A t \in Threads :
  /\ pc[t] \in {"inFlight", "unlockNotFound"} => Granted(t)
  /\ Granted(t) => Awaits(t)

(* The assertions of the code: Unlock never sees a free mutex, a list       *)
(* without waiters is not locked, and AddWaiter sees the free flag alone.   *)
AssertionsHold == \A t \in Threads :
  /\ Owns(t) /\ pc[t] # "signaled" => ~head[t].flag
  /\ pc[t] = "unlockFree" => ~head[t].lock
  /\ pc[t] = "addTake" => head[t] = FreeWord

(* Every thread that asks for the mutex gets it, or gives up, and returns   *)
(* it: no grant is lost, and no loop on the word waits for ever.            *)
EveryRequestEnds == <>[]Finished

\* The thread that holds the mutex or that is being granted it.
Owner == IF mWaiters = FreeWord THEN Null ELSE CHOOSE t \in Threads : Holds(t)

\* The list is the stack of the waiting threads.
Lifo == INSTANCE LifoLock WITH NoOwner <- Null, owner <- Owner, stack <- AsSequence

(* Mutex gives the lock to waiters in LIFO order (mutex.hpp): it implements *)
(* the lock that does.                                                      *)
IsLifoLock == Lifo!Spec

=============================================================================
