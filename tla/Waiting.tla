------------------------------ MODULE Waiting -------------------------------
(***************************************************************************)
(* WaitFor, WaitForAll and WaitForAny: how a thread waits for several      *)
(* waitables.  Every callback of a wait posts the one semaphore of the     *)
(* thread, and the wait counts the posts it is owed.  The semaphore of a   *)
(* thread with a scheduler context outlives the wait, and so a post too    *)
(* many would end a later wait early, and a wait for one too many would    *)
(* never end.                                                              *)
(*                                                                         *)
(* The waitables are events and mutexes as their own modules describe      *)
(* them: adding and removing a waiter is one step, and the notifications   *)
(* follow one by one.                                                      *)
(***************************************************************************)
EXTENDS Integers, Sequences, FiniteSets, SequencesExt

CONSTANTS
  Threads,
  Events,       (* waitables that are not order dependent                    *)
  Mutexes,      (* waitables that are order dependent                        *)
  Null,
  Address,      (* where each waitable is in memory                          *)
  Calls,        (* per thread, the waits it makes: records [op, args]        *)
  MaxSets       (* bound: how often each event is set, per event             *)

Waitables == Events \cup Mutexes

ASSUME WaitingAssumption ==
  /\ IsFiniteSet(Threads) /\ IsFiniteSet(Waitables)
  /\ Events \cap Mutexes = {} /\ Null \notin Threads
  /\ Address \in [Waitables -> Nat]
  /\ \A v, w \in Waitables : Address[v] = Address[w] => v = w
  /\ Calls \in [Threads -> Seq([op   : {"WaitFor", "WaitForAll", "WaitForAny"},
                               args : Seq(Waitables) \ {<<>>}])]
  /\ \A t \in Threads : \A c \in Range(Calls[t]) :
       IsInjective(c.args) /\ (c.op = "WaitFor" => Len(c.args) = 1)
  /\ MaxSets \in [Events -> Nat \ {0}]

VARIABLES
  (* the waitables *)
  ready,        (* events that are set                                       *)
  sets,         (* how often each event has been set                         *)
  owner,        (* owner of each mutex, or Null                              *)
  waiters,      (* per waitable: the waiters on its list, the last one first *)
  detached,     (* per event: waiters that a Set has yet to notify           *)
  (* the threads *)
  pc,
  calls,        (* how many calls each thread has completed                  *)
  posted,       (* value of the semaphore of each thread                     *)
  inTurn,       (* waitables still to be waited for one at a time, a set     *)
  atOnce,       (* waitables that are still to get a waiter                  *)
  added,        (* waiters that have been added and are not yet accounted for *)
  signaled,     (* the waitables known to be signaled                        *)
  left,         (* posts still to be waited for                              *)
  target        (* the waiter that Unlock has taken off the list             *)

waitables == <<ready, sets, owner, waiters, detached>>
locals == <<inTurn, atOnce, added, signaled, left, target>>
waitingVars == <<waitables, pc, calls, posted, locals>>

Call(t) == Calls[t][calls[t] + 1]

Goto(t, label) == pc' = [pc EXCEPT ![t] = label]

Set(f, t, value) == [f EXCEPT ![t] = value]

-----------------------------------------------------------------------------
(* The waitables. *)

IsOrderDependent(w) == w \in Mutexes

Ready(w) == IF w \in Events THEN w \in ready ELSE owner[w] = Null

\* AddWaiter returns false: the waitable is ready, and a mutex is taken.
Taken(t, w) ==
  /\ Ready(w)
  /\ owner' = IF w \in Mutexes THEN Set(owner, w, t) ELSE owner
  /\ UNCHANGED <<ready, sets, waiters, detached>>

\* AddWaiter returns true.
Added(t, w) ==
  /\ ~Ready(w)
  /\ waiters' = [waiters EXCEPT ![w] = <<t>> \o @]
  /\ UNCHANGED <<ready, sets, owner, detached>>

\* RemoveWaiter returns true, or false.
Removed(t, w) ==
  /\ \E i \in DOMAIN waiters[w] :
       waiters[w][i] = t /\ waiters' = [waiters EXCEPT ![w] = RemoveAt(@, i)]
  /\ UNCHANGED <<ready, sets, owner, detached>>

NotRemoved(t, w) == t \notin Range(waiters[w]) /\ UNCHANGED waitables

(* Event::Set and Event::Reset, called by anyone.  The program sets an event *)
(* again after it has reset it.                                              *)
SetEvent(e) ==
  /\ e \notin ready /\ sets[e] < MaxSets[e] /\ detached[e] = <<>>
  /\ ready' = ready \cup {e}
  /\ sets' = [sets EXCEPT ![e] = @ + 1]
  /\ detached' = [detached EXCEPT ![e] = waiters[e]]
  /\ waiters' = [waiters EXCEPT ![e] = <<>>]
  /\ UNCHANGED <<owner, pc, calls, posted, locals>>

Post(t) == posted' = [posted EXCEPT ![t] = @ + 1]

NotifyNext(e) ==
  /\ detached[e] # <<>>
  /\ Post(Head(detached[e]))
  /\ detached' = [detached EXCEPT ![e] = Tail(@)]
  /\ UNCHANGED <<ready, sets, owner, waiters, pc, calls, locals>>

ResetEvent(e) ==
  /\ e \in ready /\ sets[e] < MaxSets[e]
  /\ ready' = ready \ {e}
  /\ UNCHANGED <<sets, owner, waiters, detached, pc, calls, posted, locals>>

-----------------------------------------------------------------------------
(* The waits. *)

\* The waitables to be waited for one at a time: the order dependent ones.
InTurn(call) ==
  IF call.op = "WaitFor" THEN Range(call.args)
  ELSE {w \in Range(call.args) : IsOrderDependent(w)}

\* A bug: the order dependent waitables are not sorted.
AnyTurn(t, w) == w \in inTurn[t]

\* They are sorted by address, and w is the next one.
NextTurn(t, w) == w \in inTurn[t] /\ \A v \in inTurn[t] : Address[w] <= Address[v]

\* The waitables to be waited for together: as many as are not order dependent.
AtOnce(call) ==
  CASE call.op = "WaitFor" -> <<>>
    [] call.op = "WaitForAll" ->
         LET unorderedCount == Cardinality({w \in Range(call.args) : ~IsOrderDependent(w)})
         IN  SubSeq(call.args, 1, unorderedCount)
    [] call.op = "WaitForAny" -> call.args

Begin(t) ==
  /\ pc[t] = "idle" /\ calls[t] < Len(Calls[t])
  /\ inTurn' = Set(inTurn, t, IF Call(t).op = "WaitForAny" THEN {} ELSE InTurn(Call(t)))
  /\ atOnce' = Set(atOnce, t, AtOnce(Call(t)))
  /\ added' = Set(added, t, <<>>)
  /\ signaled' = Set(signaled, t, {})
  /\ Goto(t, IF Call(t).op = "WaitForAny" THEN "addAny" ELSE "addInTurn")
  /\ UNCHANGED <<waitables, calls, posted, left, target>>

\* A bug: the wait does not need a post.
AwaitNothing(t) == posted' = [posted EXCEPT ![t] = @ - 1]

\* One wait of the semaphore; SpinWait may look at it before it blocks.
Await(t) ==
  /\ posted[t] > 0
  /\ posted' = [posted EXCEPT ![t] = @ - 1]

(* WaitFor, and the order dependent waitables of WaitForAll *)

AddInTurn(t) ==
  /\ pc[t] = "addInTurn"
  /\ \E w \in Waitables :
       /\ NextTurn(t, w)
       /\ \/ Taken(t, w) /\ UNCHANGED pc
          \/ Added(t, w) /\ Goto(t, "awaitInTurn")
       /\ inTurn' = [inTurn EXCEPT ![t] = @ \ {w}]
  /\ UNCHANGED <<calls, posted, atOnce, added, signaled, left, target>>

AwaitInTurn(t) ==
  /\ pc[t] = "awaitInTurn"
  /\ Await(t)
  /\ Goto(t, "addInTurn")
  /\ UNCHANGED <<waitables, calls, locals>>

(* the other waitables of WaitForAll *)

AddAtOnce(t) ==
  /\ pc[t] = "addInTurn" /\ inTurn[t] = {} /\ atOnce[t] # <<>>
  /\ LET w == Head(atOnce[t])
     IN  \/ Taken(t, w) /\ UNCHANGED added
         \/ Added(t, w) /\ added' = [added EXCEPT ![t] = Append(@, w)]
  /\ atOnce' = [atOnce EXCEPT ![t] = Tail(@)]
  /\ UNCHANGED <<pc, calls, posted, inTurn, signaled, left, target>>

AwaitAtOnce(t) ==
  /\ pc[t] = "addInTurn" /\ inTurn[t] = {} /\ atOnce[t] = <<>>
  /\ \/ /\ added[t] # <<>>
        /\ Await(t)
        /\ added' = [added EXCEPT ![t] = Tail(@)]
        /\ UNCHANGED <<pc, signaled>>
     \/ /\ added[t] = <<>>
        /\ signaled' = Set(signaled, t, Range(Call(t).args))
        /\ Goto(t, "holding")
        /\ UNCHANGED <<posted, added>>
  /\ UNCHANGED <<waitables, calls, inTurn, atOnce, left, target>>

(* WaitForAny *)

AddAny(t) ==
  /\ pc[t] = "addAny" /\ atOnce[t] # <<>>
  /\ LET w == Head(atOnce[t])
     IN  \/ /\ Taken(t, w)
            /\ signaled' = Set(signaled, t, {w})
            /\ atOnce' = Set(atOnce, t, <<>>)
            /\ Goto(t, "removeAny")
            /\ UNCHANGED added
         \/ /\ Added(t, w)
            /\ added' = [added EXCEPT ![t] = Append(@, w)]
            /\ atOnce' = [atOnce EXCEPT ![t] = Tail(@)]
            /\ UNCHANGED <<pc, signaled>>
  /\ UNCHANGED <<calls, posted, inTurn, left, target>>

\* None was ready: wait for one of them.
AwaitAny(t) ==
  /\ pc[t] = "addAny" /\ atOnce[t] = <<>>
  /\ Await(t)
  /\ Goto(t, "removeAny")
  /\ UNCHANGED <<waitables, calls, locals>>

\* A bug: removal stops at the first waiter that cannot be removed.
StopRemoving(t) ==
  /\ pc[t] = "removeAny" /\ added[t] # <<>>
  /\ LET w == Head(added[t])
     IN  \/ Removed(t, w) /\ UNCHANGED signaled /\ added' = [added EXCEPT ![t] = Tail(@)]
         \/ NotRemoved(t, w) /\ signaled' = [signaled EXCEPT ![t] = @ \cup {w}]
            /\ added' = Set(added, t, <<>>)
  /\ UNCHANGED <<pc, calls, posted, inTurn, atOnce, left, target>>

RemoveAny(t) ==
  /\ pc[t] = "removeAny" /\ added[t] # <<>>
  /\ LET w == Head(added[t])
     IN  \/ Removed(t, w) /\ UNCHANGED signaled
         \/ NotRemoved(t, w) /\ signaled' = [signaled EXCEPT ![t] = @ \cup {w}]
  /\ added' = [added EXCEPT ![t] = Tail(@)]
  /\ UNCHANGED <<pc, calls, posted, inTurn, atOnce, left, target>>

\* A bug: the wait or the ready waitable that came first is not counted.
CountAll(t) ==
  /\ pc[t] = "removeAny" /\ added[t] = <<>>
  /\ left' = Set(left, t, Cardinality(signaled[t]))
  /\ Goto(t, "awaitCallbacks")
  /\ UNCHANGED <<waitables, calls, posted, inTurn, atOnce, added, signaled, target>>

\* A bug: the callbacks that are in flight are not waited for.
CountNone(t) ==
  /\ pc[t] = "removeAny" /\ added[t] = <<>>
  /\ left' = Set(left, t, 0)
  /\ Goto(t, "awaitCallbacks")
  /\ UNCHANGED <<waitables, calls, posted, inTurn, atOnce, added, signaled, target>>

\* The callbacks of the waiters that were not removed are in flight; one is accounted for.
CountCallbacks(t) ==
  /\ pc[t] = "removeAny" /\ added[t] = <<>>
  /\ left' = Set(left, t, Cardinality(signaled[t]) - 1)
  /\ Goto(t, "awaitCallbacks")
  /\ UNCHANGED <<waitables, calls, posted, inTurn, atOnce, added, signaled, target>>

AwaitCallbacks(t) ==
  /\ pc[t] = "awaitCallbacks"
  /\ \/ /\ left[t] > 0
        /\ Await(t)
        /\ left' = [left EXCEPT ![t] = @ - 1]
        /\ UNCHANGED pc
     \/ /\ left[t] <= 0
        /\ Goto(t, "holding")
        /\ UNCHANGED <<posted, left>>
  /\ UNCHANGED <<waitables, calls, inTurn, atOnce, added, signaled, target>>

-----------------------------------------------------------------------------
(* The caller: it unlocks the mutexes that the wait says it has, one by one *)
(* and in any order, and goes on to its next call.                          *)

Unlock(t, m) ==
  /\ pc[t] = "holding" /\ m \in signaled[t]
  /\ signaled' = [signaled EXCEPT ![t] = @ \ {m}]
  /\ \/ /\ waiters[m] = <<>>
        /\ owner' = Set(owner, m, Null)
        /\ UNCHANGED <<waiters, pc, target>>
     \/ /\ waiters[m] # <<>>
        /\ owner' = Set(owner, m, Head(waiters[m]))
        /\ waiters' = [waiters EXCEPT ![m] = Tail(@)]
        /\ target' = Set(target, t, Head(waiters[m]))
        /\ Goto(t, "notify")
  /\ UNCHANGED <<ready, sets, detached, calls, posted, inTurn, atOnce, added, left>>

NotifyTarget(t) ==
  /\ pc[t] = "notify"
  /\ Post(target[t])
  /\ target' = Set(target, t, Null)
  /\ Goto(t, "holding")
  /\ UNCHANGED <<waitables, calls, inTurn, atOnce, added, signaled, left>>

Done(t) ==
  /\ pc[t] = "holding" /\ signaled[t] \cap Mutexes = {}
  /\ calls' = [calls EXCEPT ![t] = @ + 1]
  /\ signaled' = Set(signaled, t, {})
  /\ Goto(t, "idle")
  /\ UNCHANGED <<waitables, posted, inTurn, atOnce, added, left, target>>

-----------------------------------------------------------------------------
WaitFor(t) == AddInTurn(t) \/ AwaitInTurn(t)

WaitForAll(t) == WaitFor(t) \/ AddAtOnce(t) \/ AwaitAtOnce(t)

WaitForAny(t) ==
  AddAny(t) \/ AwaitAny(t) \/ RemoveAny(t) \/ CountCallbacks(t) \/ AwaitCallbacks(t)

Caller(t) ==
  \/ Begin(t) \/ NotifyTarget(t) \/ Done(t)
  \/ \E m \in Mutexes : Unlock(t, m)

Step(t) == Caller(t) \/ WaitForAll(t) \/ WaitForAny(t)

Finished == \A t \in Threads : pc[t] = "idle" /\ calls[t] = Len(Calls[t])

Init ==
  /\ ready = {}
  /\ sets = [e \in Events |-> 0]
  /\ owner = [m \in Mutexes |-> Null]
  /\ waiters = [w \in Waitables |-> <<>>]
  /\ detached = [e \in Events |-> <<>>]
  /\ pc = [t \in Threads |-> "idle"]
  /\ calls = [t \in Threads |-> 0]
  /\ posted = [t \in Threads |-> 0]
  /\ inTurn = [t \in Threads |-> {}]
  /\ atOnce = [t \in Threads |-> <<>>]
  /\ added = [t \in Threads |-> <<>>]
  /\ signaled = [t \in Threads |-> {}]
  /\ left = [t \in Threads |-> 0]
  /\ target = [t \in Threads |-> Null]

Next ==
  \/ \E t \in Threads : Step(t)
  \/ \E e \in Events : SetEvent(e) \/ NotifyNext(e) \/ ResetEvent(e)
  \/ Finished /\ UNCHANGED waitingVars

Spec == Init /\ [][Next]_waitingVars

(* The operating system runs every thread that can run, and the program     *)
(* sets each event that it lets threads wait for.                           *)
FairSpec ==
  /\ Spec
  /\ \A t \in Threads : WF_waitingVars(Step(t))
  /\ \A e \in Events : WF_waitingVars(SetEvent(e)) /\ WF_waitingVars(NotifyNext(e))

-----------------------------------------------------------------------------
(* Properties. *)

\* Every variable keeps its type.
TypeOK ==
  /\ ready \subseteq Events
  /\ sets \in [Events -> Nat] /\ \A e \in Events : sets[e] <= MaxSets[e]
  /\ owner \in [Mutexes -> Threads \cup {Null}]
  /\ waiters \in [Waitables -> Seq(Threads)] /\ detached \in [Events -> Seq(Threads)]
  /\ pc \in [Threads -> {"idle", "addInTurn", "awaitInTurn", "addAny", "removeAny",
                         "awaitCallbacks", "holding", "notify"}]
  /\ calls \in [Threads -> Nat] /\ \A t \in Threads : calls[t] <= Len(Calls[t])
  /\ posted \in [Threads -> Nat] /\ left \in [Threads -> Nat]
  /\ inTurn \in [Threads -> SUBSET Waitables] /\ signaled \in [Threads -> SUBSET Waitables]
  /\ atOnce \in [Threads -> Seq(Waitables)] /\ added \in [Threads -> Seq(Waitables)]
  /\ target \in [Threads -> Threads \cup {Null}]

\* A callback of a waiter of t is going to run.
InFlight(t) ==
  \/ \E e \in Events : t \in Range(detached[e])
  \/ \E u \in Threads : pc[u] = "notify" /\ target[u] = t

(* A wait leaves nothing behind.  When it has returned, none of its waiters *)
(* is on a list, no callback of it is in flight (it would use a waiter that *)
(* has been destroyed), and the semaphore, which the next wait of the       *)
(* thread uses, is at zero.                                                 *)
NothingLeftBehind == \A t \in Threads : pc[t] \in {"idle", "holding", "notify"} =>
  /\ posted[t] = 0 /\ ~InFlight(t)
  /\ \A w \in Waitables : t \notin Range(waiters[w])

(* The result of a wait is the truth about the mutexes: the caller owns     *)
(* exactly those that it has been told of, even if several were passed to   *)
(* it while WaitForAny was removing its waiters; a mutex that was acquired  *)
(* and not reported would never be unlocked.  The result is not empty.      *)
ResultIsTrue == \A t \in Threads :
  /\ pc[t] = "awaitCallbacks" => signaled[t] # {}
  /\ pc[t] \in {"idle", "holding", "notify"} =>
       signaled[t] \cap Mutexes = {m \in Mutexes : owner[m] = t}

(* t waits, with no callback on its way, for a mutex that u owns, and can   *)
(* do nothing before it gets it.                                            *)
Blocks(t, u) ==
  /\ posted[t] = 0 /\ ~InFlight(t)
  /\ pc[t] = "awaitInTurn" \/ (pc[t] = "addInTurn" /\ inTurn[t] = {} /\ atOnce[t] = <<>>)
  /\ \E m \in Mutexes : t \in Range(waiters[m]) /\ owner[m] = u

(* No threads wait for each other in a circle, although WaitForAll holds    *)
(* mutexes while it waits for others and callers name them in any order.    *)
NoCircularWait ==
  ~ \E S \in (SUBSET Threads) \ {{}} : \A t \in S : \E u \in S : Blocks(t, u)

(* Every wait returns once the events have been set and the mutexes have    *)
(* been unlocked: no post is missing and none is waited for twice.          *)
EveryCallEnds == <>[]Finished

(* "Order dependent doesn't imply fair, so we need to wait for one at a     *)
(* time" (meta_scheduler.cpp): WaitForAll does not add its waiter to an     *)
(* order dependent waitable together with the other ones.                   *)
OneAtATime == \A t \in Threads :
  pc[t] = "addInTurn" /\ inTurn[t] = {} =>
    \A m \in Mutexes : t \notin Range(waiters[m])

=============================================================================
