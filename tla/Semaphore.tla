----------------------------- MODULE Semaphore ------------------------------
(***************************************************************************)
(* Semaphore: a counter and a WaiterList.  A wait decrements the counter   *)
(* and, if no permit was left, puts its waiter on the list; Post           *)
(* increments the counter and, if it was negative, takes one waiter off    *)
(* the list and notifies it.  The counter and the list change in different *)
(* steps.  The user flag of the list is not used.                          *)
(***************************************************************************)
EXTENDS WaiterList

CONSTANTS
  Posters,      (* threads that call Post                                    *)
  Waiters,      (* threads that wait for the semaphore                       *)
  InitialCount, (* the argument of the constructor                           *)
  MaxRounds     (* bound: calls made by each thread, per thread              *)

ASSUME SemaphoreAssumption ==
  /\ Posters \cup Waiters = Threads
  /\ Cancellers \subseteq Waiters
  /\ InitialCount \in Nat
  /\ MaxRounds \in [Threads -> Nat]

VARIABLES
  mCount,       (* permits left; negative: threads that wait for one         *)
  posts,        (* how many times each thread has called Post                *)
  rounds,       (* how many calls each thread has made                       *)
  acquired      (* how many waits of each thread have got a permit           *)

semaphoreVars == <<listVars, mCount, posts, rounds, acquired>>

StartRound(t) ==
  /\ pc[t] = "idle" /\ rounds[t] < MaxRounds[t]
  /\ rounds' = [rounds EXCEPT ![t] = @ + 1]

-----------------------------------------------------------------------------
(* AddWaiter *)

\* A bug: the last permit is given once more.
AddDecrementLate(t) ==
  /\ t \in Waiters
  /\ StartRound(t)
  /\ mCount' = mCount - 1
  /\ Goto(t, IF mCount >= 0 THEN "signaled" ELSE "addLoad")
  /\ UNCHANGED <<mWaiters, next, posted, head, cached, current, posts, acquired>>

\* Decrement returns the old value.
AddDecrement(t) ==
  /\ t \in Waiters
  /\ StartRound(t)
  /\ mCount' = mCount - 1
  /\ Goto(t, IF mCount > 0 THEN "signaled" ELSE "addLoad")
  /\ UNCHANGED <<mWaiters, next, posted, head, cached, current, posts, acquired>>

AddLoad(t) ==
  /\ pc[t] = "addLoad"
  /\ head' = [head EXCEPT ![t] = mWaiters]
  /\ Goto(t, "addLink")
  /\ UNCHANGED <<mWaiters, next, posted, cached, current, mCount, posts, rounds, acquired>>

AddLink(t) ==
  /\ pc[t] = "addLink"
  /\ next' = [next EXCEPT ![t] = head[t].ptr]
  /\ Goto(t, "addPush")
  /\ UNCHANGED <<mWaiters, posted, head, cached, current, mCount, posts, rounds, acquired>>

AddPush(t) ==
  /\ pc[t] = "addPush"
  /\ CompareAndSwap(t, WithHead(head[t], t), "waiting", "addLink")
  /\ UNCHANGED <<next, posted, cached, current, mCount, posts, rounds, acquired>>

(* Post *)

PostIncrement(t) ==
  /\ t \in Posters
  /\ StartRound(t)
  /\ posts' = [posts EXCEPT ![t] = @ + 1]
  /\ mCount' = mCount + 1
  /\ Goto(t, IF mCount < 0 THEN "postLoad" ELSE "idle")
  /\ UNCHANGED <<mWaiters, next, posted, head, cached, current, acquired>>

\* A bug: Post does not look at the lock bit.
PostBranchUnlocked(w) == IF w.ptr = Null THEN "idle" ELSE "postReadNext"

PostBranch(w) ==
  IF w.ptr = Null THEN "idle"
  ELSE IF w.lock THEN "postSpin"
  ELSE "postReadNext"

PostLoad(t) ==
  /\ pc[t] = "postLoad"
  /\ head' = [head EXCEPT ![t] = mWaiters]
  /\ Goto(t, PostBranch(mWaiters))
  /\ UNCHANGED <<mWaiters, next, posted, cached, current, mCount, posts, rounds, acquired>>

\* The list is locked: the loop pauses, and tests the same local copy again.
PostSpin(t) ==
  /\ pc[t] = "postSpin"
  /\ Goto(t, PostBranch(head[t]))
  /\ UNCHANGED <<mWaiters, next, posted, head, cached, current, mCount, posts, rounds, acquired>>

PostReadNext(t) ==
  /\ pc[t] = "postReadNext"
  /\ cached' = [cached EXCEPT ![t] = next[head[t].ptr]]
  /\ Goto(t, "postPop")
  /\ UNCHANGED <<mWaiters, next, posted, head, current, mCount, posts, rounds, acquired>>

PostPop(t) ==
  /\ pc[t] = "postPop"
  /\ CompareAndSwap(t, WithHead(head[t], cached[t]), "postNotify", PostBranch(mWaiters))
  /\ UNCHANGED <<next, posted, cached, current, mCount, posts, rounds, acquired>>

PostNotify(t) ==
  /\ pc[t] = "postNotify"
  /\ Notify(head[t].ptr)
  /\ Goto(t, "idle")
  /\ UNCHANGED <<mWaiters, next, head, cached, current, mCount, posts, rounds, acquired>>

-----------------------------------------------------------------------------
AddWaiter(t) == AddDecrement(t) \/ AddLoad(t) \/ AddLink(t) \/ AddPush(t)

Post(t) ==
  \/ PostIncrement(t) \/ PostLoad(t) \/ PostSpin(t)
  \/ PostReadNext(t) \/ PostPop(t) \/ PostNotify(t)

\* WaitFor or WaitForAny returns to its caller with a permit.
WaitReturns(t) ==
  /\ pc[t] = "signaled"
  /\ acquired' = [acquired EXCEPT ![t] = @ + 1]
  /\ Goto(t, "idle")
  /\ UNCHANGED <<mWaiters, next, posted, head, cached, current, mCount, posts, rounds>>

ListStep(t) ==
  /\ AwaitNotify(t) \/ StartRemove(t) \/ RemoveWaiter(t)
  /\ UNCHANGED <<mCount, posts, rounds, acquired>>

\* All calls have been made, and those that have not returned wait for a Post.
Quiet == \A t \in Threads :
  \/ pc[t] = "idle" /\ rounds[t] = MaxRounds[t]
  \/ pc[t] = "waiting" /\ posted[t] = 0 /\ t \notin Cancellers

Init ==
  /\ ListInit(ZeroWord)
  /\ mCount = InitialCount
  /\ posts = [t \in Threads |-> 0]
  /\ rounds = [t \in Threads |-> 0]
  /\ acquired = [t \in Threads |-> 0]

Step(t) == AddWaiter(t) \/ Post(t) \/ WaitReturns(t) \/ ListStep(t)

Next == (\E t \in Threads : Step(t)) \/ (Quiet /\ UNCHANGED semaphoreVars)

Spec == Init /\ [][Next]_semaphoreVars

-----------------------------------------------------------------------------
(* Properties. *)

\* A permit on its way to t: t has been popped by Post, or has been notified.
Granted(t) ==
  \/ posted[t] > 0
  \/ \E u \in Threads : pc[u] = "postNotify" /\ head[u].ptr = t

\* One element for each unit that f counts, and how many there are.
Units(f) == UNION {{t} \X (1 .. f[t]) : t \in DOMAIN f}

Sum(f) == Cardinality(Units(f))

Permits == InitialCount + Sum(posts)

(* No permit is given twice: the waits that have succeeded, or are going to *)
(* because they have been taken off the list, never outnumber the initial   *)
(* permits and the posts, although a Post and a wait may each believe that  *)
(* the other one has seen the permit.                                       *)
NoOverGrant ==
  Sum(acquired) + Cardinality({t \in Threads : pc[t] = "signaled" \/ Granted(t)}) <= Permits

(* The list holds each waiting thread that has no permit coming, once.      *)
ListIntegrity == ListIs({t \in Threads : Awaits(t) /\ ~Granted(t)})

(* RemoveWaiter tells the truth: false means that a permit is coming, and a *)
(* waiter that was removed gets none.                                       *)
RemovalMatchesGrant == \A t \in Threads :
  /\ pc[t] \in {"inFlight", "unlockNotFound"} => Granted(t)
  /\ Granted(t) => Awaits(t)

(* A permit reaches a thread that waits for one (semaphore_tests.cpp,       *)
(* WaitThenPostTest): when all calls but the waits have returned, no thread *)
(* waits while a permit is left.                                            *)
NoPermitLost ==
  Quiet /\ Sum(acquired) < Permits => \A t \in Threads : pc[t] # "waiting"

=============================================================================
