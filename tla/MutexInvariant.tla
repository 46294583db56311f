--------------------------- MODULE MutexInvariant ---------------------------
(***************************************************************************)
(* Why Mutex is correct: an invariant that every step preserves as long as *)
(* the tag does not wrap around.  The ownership is a token that exactly    *)
(* one thread carries while the mutex is not free; the links put the       *)
(* waiting threads in an order; and a word that a thread has read and that *)
(* is still there has not been replaced by an equal one in between.        *)
(***************************************************************************)
EXTENDS Mutex

-----------------------------------------------------------------------------
(* No pointer that a thread is about to follow is null.  This needs nothing *)
(* of the tag: the thread has looked at the pointer itself.                 *)

FollowsOK(t) ==
  /\ pc[t] \in {"unlockReadNext", "unlockPop", "unlockNotify", "removeReadNext",
                "removePop", "removeLock"} => head[t].ptr # Null
  /\ pc[t] = "removeScan" => current[t] # Null

NoNullDereference == \A t \in Threads : FollowsOK(t)

(* The token of the ownership: with the owner, with the thread that has     *)
(* been notified, or with the one that is about to notify it.               *)

HasToken(t) == Owns(t) \/ posted[t] > 0 \/ pc[t] = "unlockNotify"

TokenOK ==
  /\ \A t, u \in Threads : HasToken(t) /\ HasToken(u) => t = u
  /\ mWaiters.flag => \A t \in Threads : ~HasToken(t)
  /\ ~mWaiters.flag => \E t \in Threads : HasToken(t)
  /\ \A t \in Threads : posted[t] > 0 => posted[t] = 1 /\ Awaits(t)
  /\ \A t \in Threads :
       pc[t] = "unlockNotify" => Awaits(head[t].ptr)
  /\ \A t \in Threads : pc[t] \in {"inFlight", "unlockNotFound"} => Granted(t)

(* The word. *)

WordOK ==
  /\ mWaiters.flag => mWaiters = FreeWord
  /\ mWaiters.lock => mWaiters.ptr # Null
  /\ mWaiters.lock <=> \E t \in Threads : t \in Scanners
  /\ \A t, u \in Scanners : t = u

(* What a thread knows of its local copy of the word. *)

LocalOK(t) ==
  /\ pc[t] \in {"unlockFree", "unlockLoad", "unlockReadNext", "unlockPop"} => ~head[t].flag
  /\ pc[t] = "unlockFree" => head[t].ptr = Null /\ ~head[t].lock
  /\ pc[t] \in {"unlockReadNext", "unlockPop", "removeReadNext", "removePop", "removeLock"} =>
       ~head[t].lock
  /\ pc[t] \in {"removeReadNext", "removePop"} => head[t].ptr = t
  /\ pc[t] = "removeLock" => head[t].ptr # t
  /\ pc[t] = "addTake" => head[t] = FreeWord
  /\ pc[t] \in {"addLink", "addPush"} => ~head[t].flag
  /\ pc[t] = "addPush" => next[t] = head[t].ptr

(* A copy of an unlocked word is older than any other word: if it is equal  *)
(* to the word, nothing has happened since it was read.                     *)

SnapshotOK(t) ==
  /\ pc[t] \in {"unlockReadNext", "unlockPop", "removeReadNext", "removePop"} =>
       /\ head[t].aba <= mWaiters.aba
       /\ mWaiters.lock => head[t].aba < mWaiters.aba
  /\ pc[t] \in {"unlockPop", "removePop"} /\ mWaiters = head[t] =>
       cached[t] = next[head[t].ptr]

(* The list, with depths as InOrder has them. *)

Ordered(depth) ==
  /\ InOrder(depth, Enqueued, mWaiters.ptr, next)
  /\ \A t \in Threads :
       pc[t] = "removeScan" =>
         /\ current[t] \in Enqueued
         /\ t \in Enqueued => depth[current[t]] < depth[t]

StateOK ==
  TokenOK /\ WordOK /\ \A t \in Threads : LocalOK(t) /\ SnapshotOK(t)

TypeInv == TypeOK /\ NoNullDereference

IInv == TypeInv /\ StateOK /\ \E depth \in [Threads -> Int] : Ordered(depth)

(* The same with as many depths as there are threads, among which TLC can   *)
(* look for one; the types are a property of their own.                     *)
InductiveInvariant ==
  StateOK /\ \E depth \in [Threads -> 1 .. Cardinality(Threads)] : Ordered(depth)

=============================================================================
