------------------------- MODULE SemaphoreInvariant -------------------------
(***************************************************************************)
(* Why the list of a Semaphore is right: an invariant that every step      *)
(* preserves as long as the tag does not wrap around.  Several threads     *)
(* that call Post take waiters off the list at the same time, and each of  *)
(* these waiters has one permit on its way; the links put the other ones   *)
(* in an order; and a word that a thread has read and that is still there  *)
(* has not been replaced by an equal one in between.                       *)
(***************************************************************************)
EXTENDS Semaphore

SemaphoreLabels ==
  ClientLabels \cup RemoveLabels \cup
  {"addLoad", "addLink", "addPush",
   "postLoad", "postSpin", "postReadNext", "postPop", "postNotify"}

Types ==
  /\ mWaiters \in Word /\ next \in [Threads -> Pointers] /\ posted \in [Threads -> Nat]
  /\ pc \in [Threads -> SemaphoreLabels] /\ head \in [Threads -> Word]
  /\ cached \in [Threads -> Pointers] /\ current \in [Threads -> Pointers]

\* The threads whose waiter is on the list.
Enqueued == {t \in Threads : Awaits(t) /\ ~Granted(t)}

(* A waiter that is off the list has one permit coming: one thread is about *)
(* to notify it, or it has been notified once.                              *)
GrantOK ==
  /\ \A t \in Threads : posted[t] > 0 => posted[t] = 1 /\ Awaits(t)
  /\ \A t \in Threads : pc[t] = "postNotify" =>
       head[t].ptr \in Threads /\ Awaits(head[t].ptr) /\ posted[head[t].ptr] = 0
  /\ \A t, u \in Threads :
       pc[t] = "postNotify" /\ pc[u] = "postNotify" /\ head[t].ptr = head[u].ptr => t = u
  /\ \A t \in Threads : pc[t] \in {"inFlight", "unlockNotFound"} => Granted(t)

(* The word: the lock bit belongs to the one thread that scans the list.    *)
WordOK ==
  /\ mWaiters.lock => mWaiters.ptr # Null
  /\ mWaiters.lock <=> \E t \in Threads : t \in Scanners
  /\ \A t, u \in Scanners : t = u

(* The places from which a thread goes on with an unlocked copy of the word.*)
SnapshotLabels == {"postReadNext", "postPop", "removeReadNext", "removePop"}

(* What a thread knows of its copy of the word. *)
LocalOK(t) ==
  /\ pc[t] \in SnapshotLabels \cup {"removeLock"} => ~head[t].lock /\ head[t].ptr # Null
  /\ pc[t] \in {"removeReadNext", "removePop"} => head[t].ptr = t
  /\ pc[t] = "removeLock" => head[t].ptr # t
  /\ pc[t] = "addPush" => next[t] = head[t].ptr
  /\ pc[t] = "postSpin" => head[t].lock

(* A copy of an unlocked word is older than any other word: if it is equal  *)
(* to the word, nothing has happened since it was read.                     *)
SnapshotOK(t) ==
  /\ pc[t] \in SnapshotLabels =>
       /\ head[t].aba <= mWaiters.aba
       /\ mWaiters.lock => head[t].aba < mWaiters.aba
  /\ pc[t] \in {"postPop", "removePop"} /\ mWaiters = head[t] =>
       cached[t] = next[head[t].ptr]

(* The list, with depths as InOrder has them, and the scan of it. *)
Ordered(depth) ==
  /\ InOrder(depth, Enqueued, mWaiters.ptr, next)
  /\ \A t \in Threads :
       pc[t] = "removeScan" =>
         /\ current[t] \in Enqueued
         /\ t \in Enqueued => depth[current[t]] < depth[t]

StateOK == GrantOK /\ WordOK /\ \A t \in Threads : LocalOK(t) /\ SnapshotOK(t)

ListInv == Types /\ StateOK /\ \E depth \in [Threads -> Int] : Ordered(depth)

(* The same with as many depths as there are threads, among which TLC can   *)
(* look for one.                                                            *)
FiniteListInv ==
  Types /\ StateOK /\ \E depth \in [Threads -> 1 .. Cardinality(Threads)] : Ordered(depth)

=============================================================================
