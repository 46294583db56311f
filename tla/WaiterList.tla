----------------------------- MODULE WaiterList -----------------------------
(***************************************************************************)
(* Detail::WaiterList: the intrusive, lock-free list of waiters that       *)
(* Mutex, Event and Semaphore are built on.  One 64-bit word holds the     *)
(* pointer to the first waiter, a flag owned by the user of the list, a    *)
(* bit that locks the list against removals, and a tag (ABA counter).      *)
(* Every access to shared memory is a step of its own: another thread may  *)
(* run between the load of the word, the read of a next pointer and the    *)
(* compare-and-swap.                                                       *)
(*                                                                         *)
(* A thread owns one Waiter, and the waiter is named after its thread.     *)
(* This is how a thread with a scheduler context waits (it uses the same   *)
(* Waiter over and over), and the worst case for a reused address.         *)
(***************************************************************************)
EXTENDS Integers, FiniteSets

CONSTANTS
  Threads,      (* the threads, and the Waiter each of them owns             *)
  Null,         (* the null pointer                                          *)
  AbaRange,     (* number of values of the tag: 2^16 in the 64-bit build     *)
  Cancellers    (* threads that wait in WaitForAny and so call RemoveWaiter  *)

ASSUME WaiterListAssumption ==
  /\ IsFiniteSet(Threads) /\ Null \notin Threads
  /\ AbaRange \in Nat \ {0}
  /\ Cancellers \subseteq Threads

VARIABLES
  mWaiters,     (* the shared word                                           *)
  next,         (* Waiter::next, per waiter                                  *)
  posted,       (* posts of the semaphore that the waiter's callback signals *)
  pc,           (* where each thread is                                      *)
  head,         (* per thread: its local copy of the word                    *)
  cached,       (* per thread: a next pointer it has read                    *)
  current       (* per thread: the waiter a loop has reached                 *)

Pointers == Threads \cup {Null}

Word == [ptr : Pointers, flag : BOOLEAN, lock : BOOLEAN, aba : 0 .. AbaRange - 1]

-----------------------------------------------------------------------------
(* Operations on the word. *)

\* Adding ABA_ADDEND to the word: the tag is its topmost field, so the carry is lost.
AddAba(w) == [w EXCEPT !.aba = IF @ + 1 = AbaRange THEN 0 ELSE @ + 1]

SetPointer(w, p) == [w EXCEPT !.ptr = p]

\* A bug the properties catch: the word changes, and its tag does not.
WithHeadNoTag(w, p) == SetPointer(w, p)

\* The word with waiter p as its new first element.
WithHead(w, p) == AddAba(SetPointer(w, p))

\* The word with LOCK_BIT set, and with LOCK_BIT cleared.
Locked(w) == [w EXCEPT !.lock = TRUE]

Unlocked(w) == [w EXCEPT !.lock = FALSE]

ZeroWord == [ptr |-> Null, flag |-> FALSE, lock |-> FALSE, aba |-> 0]

Goto(t, label) == pc' = [pc EXCEPT ![t] = label]

(* CompareAndSwap on the shared word with the thread's local head as the    *)
(* expected value; on failure head receives the value that was found.       *)
CompareAndSwap(t, new, success, retry) ==
  \/ /\ mWaiters = head[t]
     /\ mWaiters' = new
     /\ Goto(t, success)
     /\ UNCHANGED head
  \/ /\ mWaiters # head[t]
     /\ head' = [head EXCEPT ![t] = mWaiters]
     /\ Goto(t, retry)
     /\ UNCHANGED mWaiters

\* Waiter::Notify runs the callback, which posts the semaphore of the waiting thread.
Notify(w) == posted' = [posted EXCEPT ![w] = @ + 1]

-----------------------------------------------------------------------------
(* RemoveWaiter(waiter), called by thread t for its own waiter t. *)

\* A bug: a locked list is taken for a list that the waiter has left.
RemoveBranchGivesUp(t, w) ==
  IF w.ptr = Null \/ w.lock THEN "inFlight"
  ELSE IF w.ptr = t THEN "removeReadNext"
  ELSE "removeLock"

\* Where the loop goes once a value of the word has been loaded.
RemoveBranch(t, w) ==
  IF w.ptr = Null THEN "inFlight"
  ELSE IF w.lock THEN "removeLoad"
  ELSE IF w.ptr = t THEN "removeReadNext"
  ELSE "removeLock"

RemoveLoad(t) ==
  /\ pc[t] = "removeLoad"
  /\ head' = [head EXCEPT ![t] = mWaiters]
  /\ Goto(t, RemoveBranch(t, mWaiters))
  /\ UNCHANGED <<mWaiters, next, posted, cached, current>>

\* The waiter is first: read its successor ...
RemoveReadNext(t) ==
  /\ pc[t] = "removeReadNext"
  /\ cached' = [cached EXCEPT ![t] = next[head[t].ptr]]
  /\ Goto(t, "removePop")
  /\ UNCHANGED <<mWaiters, next, posted, head, current>>

\* ... and make the successor first, if the word has not changed since.
RemovePop(t) ==
  /\ pc[t] = "removePop"
  /\ CompareAndSwap(t, WithHead(head[t], cached[t]), "idle", RemoveBranch(t, mWaiters))
  /\ UNCHANGED <<next, posted, cached, current>>

\* A bug: locking the list does not change the tag.
RemoveLockNoTag(t) ==
  /\ pc[t] = "removeLock"
  /\ CompareAndSwap(t, Locked(head[t]), "removeScan", RemoveBranch(t, mWaiters))
  /\ current' = [current EXCEPT ![t] = head[t].ptr]
  /\ UNCHANGED <<next, posted, cached>>

\* The waiter is not first: lock the list against other removals and scan it.
RemoveLock(t) ==
  /\ pc[t] = "removeLock"
  /\ CompareAndSwap(t, AddAba(Locked(head[t])),
                    "removeScan", RemoveBranch(t, mWaiters))
  /\ current' = [current EXCEPT ![t] = head[t].ptr]  \* dead unless the scan starts
  /\ UNCHANGED <<next, posted, cached>>

\* RemoveWaiterFromListNotAtHead, one iteration of its loop at a time.
RemoveScan(t) ==
  /\ pc[t] = "removeScan"
  /\ \/ /\ next[current[t]] = Null
        /\ Goto(t, "unlockNotFound")
        /\ UNCHANGED <<next, current>>
     \/ /\ next[current[t]] = t
        /\ next' = [next EXCEPT ![current[t]] = next[t]]
        /\ Goto(t, "unlockFound")
        /\ UNCHANGED current
     \/ /\ next[current[t]] \notin {Null, t}
        /\ current' = [current EXCEPT ![t] = next[current[t]]]
        /\ UNCHANGED <<next, pc>>
  /\ UNCHANGED <<mWaiters, posted, head, cached>>

\* WaiterList::Unlock, and the return of what the scan has found.
ClearLock == mWaiters' = Unlocked(mWaiters)

RemoveUnlock(t) ==
  /\ \/ pc[t] = "unlockFound" /\ Goto(t, "idle")
     \/ pc[t] = "unlockNotFound" /\ Goto(t, "inFlight")
  /\ ClearLock
  /\ UNCHANGED <<next, posted, head, cached, current>>

-----------------------------------------------------------------------------
(* How a thread uses the list: WaitFor blocks on the semaphore until the    *)
(* callback has run; WaitForAny is woken by this or another waitable, tries *)
(* to remove its waiter, and if it cannot, the callback is in flight and it *)
(* waits for the callback.  "signaled" is where the wait has succeeded.     *)

Waiting(t) == pc[t] \in {"waiting", "inFlight"}

\* A bug: the wait returns without a post of its semaphore.
AwaitNothing(t) ==
  /\ pc[t] \in {"waiting", "inFlight"}
  /\ posted' = [posted EXCEPT ![t] = @ - 1]
  /\ Goto(t, "signaled")
  /\ UNCHANGED <<mWaiters, next, head, cached, current>>

AwaitNotify(t) ==
  /\ \/ pc[t] = "waiting" /\ t \notin Cancellers
     \/ pc[t] = "inFlight"
  /\ posted[t] > 0
  /\ posted' = [posted EXCEPT ![t] = @ - 1]
  /\ Goto(t, "signaled")
  /\ UNCHANGED <<mWaiters, next, head, cached, current>>

\* WaitForAny wakes up: this waiter was notified, or another waitable was ready.
StartRemove(t) ==
  /\ pc[t] = "waiting" /\ t \in Cancellers
  /\ Goto(t, "removeLoad")
  /\ UNCHANGED <<mWaiters, next, posted, head, cached, current>>

RemoveWaiter(t) ==
  \/ RemoveLoad(t) \/ RemoveReadNext(t) \/ RemovePop(t)
  \/ RemoveLock(t) \/ RemoveScan(t) \/ RemoveUnlock(t)

RemoveLabels == {"removeLoad", "removeReadNext", "removePop", "removeLock",
                 "removeScan", "unlockFound", "unlockNotFound"}

ClientLabels == {"idle", "waiting", "inFlight", "signaled"}

listVars == <<mWaiters, next, posted, pc, head, cached, current>>

ListInit(word) ==
  /\ mWaiters = word
  /\ next = [t \in Threads |-> Null]
  /\ posted = [t \in Threads |-> 0]
  /\ pc = [t \in Threads |-> "idle"]
  /\ head = [t \in Threads |-> ZeroWord]
  /\ cached = [t \in Threads |-> Null]
  /\ current = [t \in Threads |-> Null]

-----------------------------------------------------------------------------
(* What the list is: the waiters reached from the word, first to last. *)

\* From the step that puts the waiter on the list to the end of the wait.
Awaits(t) ==
  pc[t] \in (RemoveLabels \ {"unlockFound"}) \cup {"waiting", "inFlight"}

\* The threads that have the list locked to remove a waiter.
Scanners == {t \in Threads : pc[t] \in {"removeScan", "unlockFound", "unlockNotFound"}}

\* From(p)[k] is the k-th pointer along the list that begins with p, Null after its end.
From(p) ==
  LET R[k \in Nat] == IF k = 0 THEN p
                      ELSE IF R[k - 1] = Null THEN Null ELSE next[R[k - 1]]
  IN  R

Chain == From(mWaiters.ptr)

\* The list holds exactly the waiters of S, each of them once, and it ends.
ListIs(S) ==
  /\ {Chain[k] : k \in 0 .. Cardinality(S)} = S \cup {Null}
  /\ Chain[Cardinality(S)] = Null

\* The list as a sequence; meaningful when it has no cycle.
AsSequence ==
  LET n == CHOOSE k \in 0 .. Cardinality(Threads) :
             /\ Chain[k] = Null
             /\ \A j \in 0 .. k - 1 : Chain[j] # Null
  IN  [i \in 1 .. n |-> Chain[i - 1]]

-----------------------------------------------------------------------------
(* What the proofs about the users of the list say of it. *)

\* The next step that changes the word gives it a tag that is new.
NoWrap == mWaiters.aba + 1 # AbaRange

(* The list.  depth says how far a waiter is from the first one: the first  *)
(* waiter has the least depth, and the next one of a waiter has the least   *)
(* greater depth.                                                           *)

InOrder(depth, S, first, link) ==
  /\ first # Null => first \in S
  /\ \A w \in S : first # Null /\ depth[first] <= depth[w]
  /\ \A v, w \in S : depth[v] = depth[w] => v = w
  /\ \A w \in S : link[w] # Null => link[w] \in S /\ depth[w] < depth[link[w]]
  /\ \A v, w \in S : depth[w] < depth[v] => link[w] # Null /\ depth[link[w]] <= depth[v]

=============================================================================
