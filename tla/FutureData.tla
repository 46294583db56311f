----------------------------- MODULE FutureData -----------------------------
(***************************************************************************)
(* Promise, Future and the FutureData they share: a reference count, a     *)
(* result and an event.  The result is written before the event is set,    *)
(* and the thread that sets it works on the data, while it notifies and    *)
(* unlocks, after others have seen the result and dropped their futures.   *)
(* The event is as its own module has it, in larger steps: a waiter is     *)
(* added, or removed from the front, in one; one that is not the first is  *)
(* removed while the list is locked; Set takes the list and notifies its   *)
(* waiters one by one, and spins for ever if it finds the list locked.     *)
(***************************************************************************)
EXTENDS Integers, Sequences, FiniteSets, SequencesExt

CONSTANTS
  Users,        (* threads with handles of the data                          *)
  Nobody

ASSUME FutureDataAssumption == {Nobody, "lost"} \cap Users = {} /\ Nobody # "lost"

VARIABLES
  allocated,    (* the FutureData: "new", "allocated" or "destroyed"         *)
  mRefCount,
  result,       (* what mResult and mException say: unset, value, exception  *)
  isSet,        (* of the event                                              *)
  waiters,      (* of the event, the last one first                          *)
  detached,     (* waiters that Set has yet to notify                        *)
  posted,       (* per thread: the semaphore of its waiter                   *)
  promise,      (* the thread that has the promise, "lost", or Nobody        *)
  futures,      (* per thread: how many futures it has                       *)
  stage,        (* per thread: where it is in a call                         *)
  found         (* per thread: the results that Get and HasValue have found  *)

eventState == <<isSet, waiters, detached, posted>>
handles == <<promise, futures>>
futureVars == <<allocated, mRefCount, result, eventState, handles, stage, found>>

Stage(t, s) == stage' = [stage EXCEPT ![t] = s]

AddRef == mRefCount' = mRefCount + 1

Release(t) ==
  /\ mRefCount' = mRefCount - 1
  /\ Stage(t, IF mRefCount = 1 THEN "destroy" ELSE "outside")

-----------------------------------------------------------------------------
(* Handles *)

MakePromise(t) ==
  /\ allocated = "new"
  /\ allocated' = "allocated"
  /\ AddRef
  /\ promise' = t
  /\ UNCHANGED <<result, eventState, futures, stage, found>>

GetFuture(t) ==
  /\ promise = t
  /\ AddRef
  /\ futures' = [futures EXCEPT ![t] = @ + 1]
  /\ UNCHANGED <<allocated, result, eventState, promise, stage, found>>

\* A bug: the copy is not counted.
CopyFutureUncounted(t, u) ==
  /\ futures[t] > 0
  /\ futures' = [futures EXCEPT ![u] = @ + 1]
  /\ UNCHANGED <<allocated, mRefCount, result, eventState, promise, stage, found>>

\* A copy for thread u, which t makes.
CopyFuture(t, u) ==
  /\ futures[t] > 0
  /\ AddRef
  /\ futures' = [futures EXCEPT ![u] = @ + 1]
  /\ UNCHANGED <<allocated, result, eventState, promise, stage, found>>

DropFuture(t) ==
  /\ stage[t] = "outside" /\ futures[t] > 0
  /\ futures' = [futures EXCEPT ![t] = @ - 1]
  /\ Release(t)
  /\ UNCHANGED <<allocated, result, eventState, promise, found>>

ReleasePromise(t) ==
  /\ promise' = Nobody
  /\ Release(t)
  /\ UNCHANGED <<allocated, result, eventState, futures, found>>

\* Runner: the promise is deleted once it has been set.
DeletePromise(t) == stage[t] = "delete" /\ ReleasePromise(t)

\* A promise that goes out of scope, or is assigned another one, before it is set.
DropPromise(t) == stage[t] = "outside" /\ promise = t /\ ReleasePromise(t)

Destroy(t) ==
  /\ stage[t] = "destroy"
  /\ allocated' = "destroyed"
  /\ Stage(t, "outside")
  /\ UNCHANGED <<mRefCount, result, eventState, handles, found>>

-----------------------------------------------------------------------------
(* SetValue and SetException.  The program sets a promise once.             *)

\* A bug: the event is set before the result is written.
WriteLate(t, r) ==
  /\ stage[t] = "outside" /\ promise = t /\ ~isSet
  /\ Stage(t, "publish")
  /\ UNCHANGED <<allocated, mRefCount, result, eventState, handles, found>>

Write(t, r) ==
  /\ stage[t] = "outside" /\ promise = t /\ ~isSet
  /\ result' = r
  /\ Stage(t, "publish")
  /\ UNCHANGED <<allocated, mRefCount, eventState, handles, found>>

\* A waiter is being removed that was not the first.  (A Set that has locked the list has
\* emptied it and set the event, which nobody resets: its lock keeps nobody waiting.)
ListIsLocked == \E u \in Users : stage[u] = "unlink"

(* Event::Set does not load the word again once it has seen it locked.      *)
Publish(t) ==
  /\ stage[t] = "publish"
  /\ \/ /\ ListIsLocked
        /\ Stage(t, "spin")
        /\ UNCHANGED <<isSet, waiters, detached>>
     \/ /\ ~ListIsLocked
        /\ isSet' = TRUE
        /\ detached' = waiters
        /\ waiters' = <<>>
        /\ Stage(t, IF waiters = <<>> THEN "delete" ELSE "notify")
  /\ UNCHANGED <<allocated, mRefCount, result, posted, handles, found>>

\* A bug: only the first waiter is notified.
NotifyFirst(t) ==
  /\ stage[t] = "notify"
  /\ posted' = [posted EXCEPT ![Head(detached)] = @ + 1]
  /\ detached' = Tail(detached)
  /\ Stage(t, "unlock")
  /\ UNCHANGED <<allocated, mRefCount, result, isSet, waiters, handles, found>>

Notify(t) ==
  /\ stage[t] = "notify"
  /\ posted' = [posted EXCEPT ![Head(detached)] = @ + 1]
  /\ detached' = Tail(detached)
  /\ Stage(t, IF Tail(detached) = <<>> THEN "unlock" ELSE "notify")
  /\ UNCHANGED <<allocated, mRefCount, result, isSet, waiters, handles, found>>

\* The lock bit is in the data; nobody needs it any more.
Unlock(t) ==
  /\ stage[t] = "unlock"
  /\ Stage(t, "delete")
  /\ UNCHANGED <<allocated, mRefCount, result, eventState, handles, found>>

-----------------------------------------------------------------------------
(* Wait, Get, HasValue, HasException and the waits for several waitables    *)

Ask(t) ==
  /\ stage[t] = "outside" /\ futures[t] > 0
  /\ Stage(t, IF isSet THEN "read" ELSE "outside")
  /\ UNCHANGED <<allocated, mRefCount, result, eventState, handles, found>>

Wait(t) ==
  /\ stage[t] = "outside" /\ futures[t] > 0
  /\ Stage(t, IF isSet THEN "read" ELSE "add")
  /\ UNCHANGED <<allocated, mRefCount, result, eventState, handles, found>>

AddWaiter(t) ==
  /\ stage[t] = "add"
  /\ waiters' = IF isSet THEN waiters ELSE <<t>> \o waiters
  /\ Stage(t, IF isSet THEN "read" ELSE "waiting")
  /\ UNCHANGED <<allocated, mRefCount, result, isSet, detached, posted, handles, found>>

Woken(t) ==
  /\ stage[t] \in {"waiting", "inFlight"} /\ posted[t] > 0
  /\ posted' = [posted EXCEPT ![t] = @ - 1]
  /\ Stage(t, IF stage[t] = "waiting" THEN "read" ELSE "outside")
  /\ UNCHANGED <<allocated, mRefCount, result, isSet, waiters, detached, handles, found>>

(* Another waitable of WaitForAny has been signaled.  The list is empty if  *)
(* the event has been set; otherwise the waiter is on it, and is removed at *)
(* once if it is the first and nobody else has locked the list.             *)
RemoveWaiter(t) ==
  /\ stage[t] = "waiting"
  /\ \/ waiters = <<>> /\ Stage(t, "inFlight") /\ UNCHANGED waiters
     \/ /\ waiters # <<>> /\ ~ListIsLocked
        /\ \/ Head(waiters) = t /\ waiters' = Tail(waiters) /\ Stage(t, "outside")
           \/ Head(waiters) # t /\ Stage(t, "unlink") /\ UNCHANGED waiters
  /\ UNCHANGED <<allocated, mRefCount, result, isSet, detached, posted, handles, found>>

\* The waiter is found behind the first one, and the list is unlocked.
Unlink(t) ==
  /\ stage[t] = "unlink"
  /\ \E i \in DOMAIN waiters : waiters[i] = t /\ waiters' = RemoveAt(waiters, i)
  /\ Stage(t, "outside")
  /\ UNCHANGED <<allocated, mRefCount, result, isSet, detached, posted, handles, found>>

\* mException decides between the value and the exception.
Read(t) ==
  /\ stage[t] = "read"
  /\ found' = [found EXCEPT ![t] = @ \cup {result}]
  /\ Stage(t, "outside")
  /\ UNCHANGED <<allocated, mRefCount, result, eventState, handles>>

\* What a call of t does once it has begun.
CallStep(t) ==
  \/ DeletePromise(t) \/ Destroy(t)
  \/ Publish(t) \/ Notify(t) \/ Unlock(t)
  \/ AddWaiter(t) \/ Woken(t) \/ Unlink(t) \/ Read(t)

-----------------------------------------------------------------------------
FutureInit ==
  /\ allocated = "new" /\ mRefCount = 0 /\ result = "unset"
  /\ isSet = FALSE /\ waiters = <<>> /\ detached = <<>>
  /\ posted = [t \in Users |-> 0]
  /\ promise = Nobody
  /\ futures = [t \in Users |-> 0]
  /\ stage = [t \in Users |-> "outside"]
  /\ found = [t \in Users |-> {}]

Stages == {"outside", "destroy", "publish", "spin", "notify", "unlock", "delete",
           "add", "waiting", "unlink", "inFlight", "read"}

FutureTypeOK ==
  /\ allocated \in {"new", "allocated", "destroyed"}
  /\ mRefCount \in Nat
  /\ result \in {"unset", "value", "exception"}
  /\ isSet \in BOOLEAN
  /\ waiters \in Seq(Users) /\ detached \in Seq(Users)
  /\ posted \in [Users -> Nat]
  /\ promise \in Users \cup {Nobody, "lost"}
  /\ futures \in [Users -> Nat]
  /\ stage \in [Users -> Stages]
  /\ found \in [Users -> SUBSET {"unset", "value", "exception"}]

\* The data is used by the handles, and by a call until it is over.
DataIsUsed ==
  \/ promise # Nobody
  \/ \E t \in Users : futures[t] > 0 \/ stage[t] # "outside"

(* The last handle destroys the data, and nobody else: the data is there as *)
(* long as a handle is, or a call that still notifies, unlocks or reads,    *)
(* and no longer.                                                           *)
FutureDataLifetime == allocated = "allocated" <=> DataIsUsed

(* Who asks or waits for the result finds what the promise was set to, and  *)
(* never storage without a result.                                          *)
ResultIsPublished == \A t \in Users : found[t] \subseteq {result} \ {"unset"}

=============================================================================
