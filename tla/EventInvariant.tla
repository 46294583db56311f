--------------------------- MODULE EventInvariant ---------------------------
(***************************************************************************)
(* Invariants of Event that its steps preserve: what each thread knows of  *)
(* its copy of the word, for any tags; and, as long as the tag does not    *)
(* wrap around, the two lists of waiters that there are while a thread is  *)
(* in Set, the one of the word and the one that Set has taken off it.      *)
(***************************************************************************)
EXTENDS Event

EventLabels ==
  ClientLabels \cup RemoveLabels \cup
  {"addLink", "addPush", "setSpin", "setFlag", "setLock", "notifyNext", "notify", "setUnlock"}

Types ==
  /\ mWaiters \in Word /\ next \in [Threads -> Pointers] /\ posted \in [Threads -> Nat]
  /\ pc \in [Threads -> EventLabels] /\ head \in [Threads -> Word]
  /\ cached \in [Threads -> Pointers] /\ current \in [Threads -> Pointers]

\* The thread has set the lock bit, to remove its waiter or to notify all of them.
HasLock(t) ==
  pc[t] \in {"removeScan", "unlockFound", "unlockNotFound", "notifyNext", "notify", "setUnlock"}

LockOK ==
  /\ mWaiters.lock <=> \E t \in Threads : HasLock(t)
  /\ \A t, u \in Threads : HasLock(t) /\ HasLock(u) => t = u

\* What a thread knows of its copy of the word, and of the waiter it has reached.
LocalOK(t) ==
  /\ pc[t] \in {"addLink", "addPush", "setFlag", "setLock"} => ~head[t].flag
  /\ pc[t] \in {"setFlag", "setLock", "removeLock"} => ~head[t].lock
  /\ pc[t] = "setFlag" => head[t].ptr = Null
  /\ pc[t] \in {"setLock", "removeLock"} => head[t].ptr # Null
  /\ pc[t] \in {"removeReadNext", "removePop"} => head[t].ptr = t
  /\ pc[t] \in {"removeScan", "notifyNext", "notify"} => current[t] # Null

EventInv == Types /\ LockOK /\ SetLeavesNobody /\ \A t \in Threads : LocalOK(t)

-----------------------------------------------------------------------------
(* The lists. *)

\* The threads whose waiter is still to be notified, or to be removed.
Owed == {t \in Threads : Awaits(t) /\ posted[t] = 0}

PostedOK == \A t \in Threads : posted[t] > 0 => posted[t] = 1 /\ Awaits(t)

(* A copy of an unlocked word is older than any other word: if it is equal  *)
(* to the word, nothing has happened to the list since it was read.  Reset  *)
(* changes the word without a new tag, but only while the list is empty.    *)
CopyOK(t) ==
  /\ pc[t] \in {"removeReadNext", "removePop"} =>
       /\ ~head[t].lock /\ head[t].aba <= mWaiters.aba
       /\ mWaiters.lock => head[t].aba < mWaiters.aba
  /\ pc[t] = "removePop" /\ mWaiters = head[t] => cached[t] = next[head[t].ptr]
  /\ pc[t] = "removeLock" => head[t].ptr # t
  /\ pc[t] = "addPush" => next[t] = head[t].ptr

\* The waiters on the list of the word, and the scan of it.
Attached(listed, depth) ==
  /\ InOrder(depth, listed, mWaiters.ptr, next)
  /\ \A t \in Threads : pc[t] \in {"inFlight", "unlockNotFound"} => t \notin listed
  /\ \A t \in Threads : pc[t] = "removeScan" =>
       current[t] \in listed /\ (t \in listed => depth[current[t]] < depth[t])

Notifiers == {t \in Threads : pc[t] \in {"notifyNext", "notify"}}

\* The waiters that a Set has taken off the word and still has to notify.
Detached(rest, depth) ==
  /\ rest # {} => Notifiers # {}
  /\ \A t \in Threads : pc[t] = "notifyNext" => InOrder(depth, rest, current[t], next)
  /\ \A t \in Threads : pc[t] = "notify" =>
       current[t] \in rest /\ InOrder(depth, rest \ {current[t]}, cached[t], next)

TwoLists(listed, rest) == listed \cup rest = Owed /\ listed \cap rest = {}

ListInv ==
  /\ EventInv /\ PostedOK /\ \A t \in Threads : CopyOK(t)
  /\ \E listed, rest \in SUBSET Threads, depth, deep \in [Threads -> Int] :
       TwoLists(listed, rest) /\ Attached(listed, depth) /\ Detached(rest, deep)

(* The same with the list that is found by following the links, and as many *)
(* depths as there are threads, among which TLC can look for one.           *)
FiniteListInv ==
  LET listed == Reach(mWaiters.ptr)
      rest   == Owed \ listed
      Depths == [Threads -> 1 .. Cardinality(Threads)]
  IN  /\ EventInv /\ PostedOK /\ \A t \in Threads : CopyOK(t)
      /\ TwoLists(listed, rest)
      /\ \E depth \in Depths : Attached(listed, depth)
      /\ \E deep \in Depths : Detached(rest, deep)

=============================================================================
