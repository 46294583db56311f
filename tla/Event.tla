------------------------------- MODULE Event --------------------------------
(***************************************************************************)
(* Event: a WaiterList whose user flag means "set".  Waiting for a set     *)
(* event succeeds at once.  Set takes the whole list off the word and      *)
(* notifies its waiters one by one, and keeps the list locked meanwhile;   *)
(* Reset clears the flag at any time, also in the middle of a Set.         *)
(***************************************************************************)
EXTENDS WaiterList

CONSTANTS
  Setters,      (* threads that call Set                                     *)
  Resetters,    (* threads that call Reset                                   *)
  Waiters,      (* threads that wait for the event                           *)
  InitialState, (* the argument of the constructor                           *)
  MaxRounds     (* bound: calls made by each thread, per thread              *)

ASSUME EventAssumption ==
  /\ Setters \cup Resetters \cup Waiters = Threads
  /\ Cancellers \subseteq Waiters
  /\ InitialState \in BOOLEAN
  /\ MaxRounds \in [Threads -> Nat]

VARIABLE rounds (* how many calls each thread has made                       *)

eventVars == <<listVars, rounds>>

StartRound(t) ==
  /\ pc[t] = "idle" /\ rounds[t] < MaxRounds[t]
  /\ rounds' = [rounds EXCEPT ![t] = @ + 1]

-----------------------------------------------------------------------------
(* AddWaiter *)

\* A bug: a waiter is added to an event that has been set.
AddBranchBlind(w) == "addLink"

AddBranch(w) == IF w.flag THEN "signaled" ELSE "addLink"

AddLoad(t) ==
  /\ t \in Waiters
  /\ StartRound(t)
  /\ head' = [head EXCEPT ![t] = mWaiters]
  /\ Goto(t, AddBranch(mWaiters))
  /\ UNCHANGED <<mWaiters, next, posted, cached, current>>

AddLink(t) ==
  /\ pc[t] = "addLink"
  /\ next' = [next EXCEPT ![t] = head[t].ptr]
  /\ Goto(t, "addPush")
  /\ UNCHANGED <<mWaiters, posted, head, cached, current, rounds>>

AddPush(t) ==
  /\ pc[t] = "addPush"
  /\ CompareAndSwap(t, WithHead(head[t], t), "waiting", AddBranch(mWaiters))
  /\ UNCHANGED <<next, posted, cached, current, rounds>>

(* Set *)

\* A bug: Set does not look at the lock bit.
SetBranchUnlocked(w) ==
  IF w.flag THEN "idle"
  ELSE IF w.ptr = Null THEN "setFlag"
  ELSE "setLock"

SetBranch(w) ==
  IF w.flag THEN "idle"
  ELSE IF w.lock THEN "setSpin"
  ELSE IF w.ptr = Null THEN "setFlag"
  ELSE "setLock"

SetLoad(t) ==
  /\ t \in Setters
  /\ StartRound(t)
  /\ head' = [head EXCEPT ![t] = mWaiters]
  /\ Goto(t, SetBranch(mWaiters))
  /\ UNCHANGED <<mWaiters, next, posted, cached, current>>

\* The list is locked: the loop pauses, and tests the same local copy again.
SetSpin(t) ==
  /\ pc[t] = "setSpin"
  /\ Goto(t, SetBranch(head[t]))
  /\ UNCHANGED <<mWaiters, next, posted, head, cached, current, rounds>>

SetFlag(t) ==
  /\ pc[t] = "setFlag"
  /\ CompareAndSwap(t, AddAba([head[t] EXCEPT !.flag = TRUE]), "idle", SetBranch(mWaiters))
  /\ UNCHANGED <<next, posted, cached, current, rounds>>

\* The word that Set leaves while it notifies: set, locked, and without the list.
DetachedWord(w) == AddAba([w EXCEPT !.ptr = Null, !.lock = TRUE, !.flag = TRUE])

SetLock(t) ==
  /\ pc[t] = "setLock"
  /\ CompareAndSwap(t, DetachedWord(head[t]), "notifyNext", SetBranch(mWaiters))
  /\ current' = [current EXCEPT ![t] = head[t].ptr]  \* dead unless the CAS succeeds
  /\ UNCHANGED <<next, posted, cached, rounds>>

(* NotifyAllWaiters *)

NotifyReadNext(t) ==
  /\ pc[t] = "notifyNext"
  /\ cached' = [cached EXCEPT ![t] = next[current[t]]]
  /\ Goto(t, "notify")
  /\ UNCHANGED <<mWaiters, next, posted, head, current, rounds>>

\* A bug: only the first waiter is notified.
NotifyFirst(t) ==
  /\ pc[t] = "notify"
  /\ Notify(current[t])
  /\ Goto(t, "setUnlock")
  /\ UNCHANGED <<mWaiters, next, head, cached, current, rounds>>

NotifyCurrent(t) ==
  /\ pc[t] = "notify"
  /\ Notify(current[t])
  /\ current' = [current EXCEPT ![t] = cached[t]]
  /\ Goto(t, IF cached[t] = Null THEN "setUnlock" ELSE "notifyNext")
  /\ UNCHANGED <<mWaiters, next, head, cached, rounds>>

SetUnlock(t) ==
  /\ pc[t] = "setUnlock"
  /\ ClearLock
  /\ Goto(t, "idle")
  /\ UNCHANGED <<next, posted, head, cached, current, rounds>>

(* Reset *)

Reset(t) ==
  /\ t \in Resetters
  /\ StartRound(t)
  /\ mWaiters' = [mWaiters EXCEPT !.flag = FALSE]
  /\ UNCHANGED <<next, posted, pc, head, cached, current>>

-----------------------------------------------------------------------------
AddWaiter(t) == AddLoad(t) \/ AddLink(t) \/ AddPush(t)

Set(t) ==
  \/ SetLoad(t) \/ SetSpin(t) \/ SetFlag(t) \/ SetLock(t)
  \/ NotifyReadNext(t) \/ NotifyCurrent(t) \/ SetUnlock(t)

\* WaitFor or WaitForAny returns to its caller with the event signaled.
WaitReturns(t) ==
  /\ pc[t] = "signaled"
  /\ Goto(t, "idle")
  /\ UNCHANGED <<mWaiters, next, posted, head, cached, current, rounds>>

ListStep(t) ==
  /\ AwaitNotify(t) \/ StartRemove(t) \/ RemoveWaiter(t)
  /\ UNCHANGED rounds

\* A thread that waits for an event nobody is going to set waits for ever.
Quiet == \A t \in Threads :
  \/ pc[t] = "idle" /\ rounds[t] = MaxRounds[t]
  \/ pc[t] = "waiting" /\ posted[t] = 0 /\ t \notin Cancellers

Init ==
  /\ ListInit([ZeroWord EXCEPT !.flag = InitialState])
  /\ rounds = [t \in Threads |-> 0]

Step(t) == AddWaiter(t) \/ Set(t) \/ Reset(t) \/ WaitReturns(t) \/ ListStep(t)

Next == (\E t \in Threads : Step(t)) \/ (Quiet /\ UNCHANGED eventVars)

Spec == Init /\ [][Next]_eventVars

(* The operating system runs every thread that can run; a WaitForAny whose  *)
(* waiter has been notified wakes up, another one only if something else    *)
(* happens.                                                                 *)
Runs(t) ==
  \/ AddWaiter(t) \/ Set(t) \/ Reset(t) \/ WaitReturns(t)
  \/ /\ AwaitNotify(t) \/ (posted[t] > 0 /\ StartRemove(t)) \/ RemoveWaiter(t)
     /\ UNCHANGED rounds

FairSpec == Spec /\ \A t \in Threads : WF_eventVars(Runs(t))

-----------------------------------------------------------------------------
(* Properties. *)

\* The pointers of the list that begins with p.
Reach(p) == {From(p)[k] : k \in 0 .. Cardinality(Threads)} \ {Null}

\* The waiters that Set, called by u, has taken off the word and not notified yet.
StillToNotify(u) ==
  CASE pc[u] = "notifyNext" -> Reach(current[u])
    [] pc[u] = "notify" -> {current[u]} \cup Reach(cached[u])
    [] OTHER -> {}

\* Where the notification of t is: on the list, with Sets, or delivered.
PlacesOf(t) ==
  (IF t \in Reach(mWaiters.ptr) THEN 1 ELSE 0)
  + Cardinality({u \in Threads : t \in StillToNotify(u)}) + posted[t]

(* Each wait is notified once.  A thread that waits is on the list, or with *)
(* one running Set, or notified, and never two of these; a thread that does *)
(* not wait, because it has returned or has removed its waiter, is on no    *)
(* list and gets no late notification.                                      *)
NotifiedOnce == \A t \in Threads : PlacesOf(t) = IF Awaits(t) THEN 1 ELSE 0

(* No waiter is left on the list of a set event: nobody would notify it     *)
(* until the event is reset and set once more.                              *)
SetLeavesNobody == mWaiters.flag => mWaiters.ptr = Null

(* The lock bit has one owner, a removal or a Set, and so no thread clears  *)
(* the bit of another one.                                                  *)
LockHasOneOwner ==
  Cardinality(Scanners \cup {t \in Threads : pc[t] \in {"notifyNext", "notify", "setUnlock"}})
    = IF mWaiters.lock THEN 1 ELSE 0

(* Set serves every thread that waits when it is about to change the word:  *)
(* the thread is woken up whatever the other calls do in the meantime,      *)
(* unless this Set is one of those that find the list locked.               *)
SetServesWaiters == \A s \in Setters, w \in Waiters :
  pc[s] \in {"setFlag", "setLock"} /\ pc[w] = "waiting"
    ~> pc[w] # "waiting" \/ pc[s] = "setSpin"

(* "Wait for list to be unlocked before notifying waiters" (event.cpp): a   *)
(* Set that finds the list locked goes on once the list is unlocked.        *)
SetWaitsForUnlock == \A t \in Threads : pc[t] = "setSpin" ~> pc[t] # "setSpin"

=============================================================================
