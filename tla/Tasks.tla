------------------------------- MODULE Tasks --------------------------------
(***************************************************************************)
(* Threads that work on a promise and its futures.  The function of a      *)
(* thread is a sequence of choices between calls.  A promise is handed to  *)
(* a thread as ThreadPool::Runner has it, by a plain pointer: it is deleted*)
(* when it has been set, and is lost with what the thread does not get to. *)
(***************************************************************************)
EXTENDS Threads, FutureData

CONSTANT Program (* per thread: a sequence of sets of calls [op, arg, to]    *)

Ops == {"Create", "Cancel", "Detach", "Destroy", "Overwrite", "Move", "Join",
        "TestCancel", "Enable", "Disable",
        "MakePromise", "GetFuture", "CopyFuture", "HandOver", "DropPromise", "DropFuture",
        "SetValue", "SetException", "Ask", "Get", "WaitAny", "Skip"}

ASSUME TasksAssumption ==
  /\ Users = Threads /\ Nobody = NoThread
  /\ Program \in [Threads -> Seq(SUBSET [op : Ops, arg : Threads, to : Threads])]

VARIABLES
  line,         (* per thread: the index of the next choice                  *)
  gaveUp        (* threads whose current wait may end otherwise              *)

programVars == <<line, gaveUp>>
tasksVars == <<threadVars, futureVars, programVars>>

\* Thread t is in its function, and in no call.
InFunction(t) == pc[t] = "body" /\ stage[t] = "outside" /\ ~terminated

-----------------------------------------------------------------------------
(* The calls of the program.  A call on what the thread does not have does  *)
(* nothing.                                                                 *)

OnHandle(t, k) ==
  /\ IF handle[k.arg] # t THEN UNCHANGED threadVars
     ELSE \/ k.op = "Cancel" /\ Cancel(t, k.arg)
          \/ k.op = "Detach" /\ Detach(t, k.arg)
          \/ k.op = "Destroy" /\ DestroyHandle(t, k.arg)
          \/ k.op = "Overwrite" /\ Overwrite(t, k.arg)
          \/ k.op = "Move" /\ pc[k.to] # "ended" /\ Move(t, k.arg, k.to)
  /\ UNCHANGED <<futureVars, gaveUp>>

OnThread(t, k) ==
  /\ \/ k.op = "Create" /\ CreateData(t, k.arg)
     \/ k.op = "Join" /\ JoinBegin(t, k.arg)
     \/ k.op = "TestCancel" /\ TestCancel(t)
     \/ k.op = "Enable" /\ SetThreadCancellationPolicy(t, TRUE)
     \/ k.op = "Disable" /\ SetThreadCancellationPolicy(t, FALSE)
     \/ k.op = "Skip" /\ UNCHANGED threadVars
  /\ UNCHANGED <<futureVars, gaveUp>>

\* The promise is handed to the function of a thread that is yet to be created.
HandOver(t, u) ==
  /\ promise' = u
  /\ UNCHANGED <<allocated, mRefCount, result, eventState, futures, stage, found>>

OnPromise(t, k) ==
  /\ IF k.op # "MakePromise" /\ promise # t THEN UNCHANGED futureVars
     ELSE \/ k.op = "MakePromise" /\ MakePromise(t)
          \/ k.op = "GetFuture" /\ GetFuture(t)
          \/ k.op = "HandOver" /\ HandOver(t, k.to)
          \/ k.op = "DropPromise" /\ DropPromise(t)
          \/ k.op = "SetValue" /\ Write(t, "value")
          \/ k.op = "SetException" /\ Write(t, "exception")
  /\ UNCHANGED <<threadVars, gaveUp>>

OnFuture(t, k) ==
  /\ IF futures[t] = 0 THEN UNCHANGED <<futureVars, gaveUp>>
     ELSE \/ k.op = "CopyFuture" /\ CopyFuture(t, k.to) /\ UNCHANGED gaveUp
          \/ k.op = "DropFuture" /\ DropFuture(t) /\ UNCHANGED gaveUp
          \/ k.op = "Ask" /\ Ask(t) /\ UNCHANGED gaveUp
          \/ k.op = "Get" /\ Wait(t) /\ UNCHANGED gaveUp
          \/ k.op = "WaitAny" /\ Wait(t) /\ gaveUp' = gaveUp \cup {t}
  /\ UNCHANGED threadVars

HandleOps == {"Cancel", "Detach", "Destroy", "Overwrite", "Move"}
PromiseOps == {"MakePromise", "GetFuture", "HandOver", "DropPromise", "SetValue", "SetException"}
FutureOps == {"CopyFuture", "DropFuture", "Ask", "Get", "WaitAny"}

Call(t) ==
  /\ InFunction(t) /\ line[t] <= Len(Program[t])
  /\ \E k \in Program[t][line[t]] :
       IF k.op \in HandleOps THEN OnHandle(t, k)
       ELSE IF k.op \in PromiseOps THEN OnPromise(t, k)
       ELSE IF k.op \in FutureOps THEN OnFuture(t, k)
       ELSE OnThread(t, k)
  /\ line' = [line EXCEPT ![t] = @ + 1]

FunctionReturns(t) ==
  /\ InFunction(t) /\ line[t] > Len(Program[t])
  /\ Return(t)
  /\ UNCHANGED <<futureVars, programVars>>

-----------------------------------------------------------------------------
(* What follows a call *)

OtherIsSignaled(t) ==
  /\ t \in gaveUp /\ ~terminated
  /\ RemoveWaiter(t)
  /\ UNCHANGED <<threadVars, programVars>>

InCall(t) ==
  /\ ~terminated
  /\ \/ ThreadStep(t) /\ UNCHANGED <<futureVars, programVars>>
     \/ CallStep(t) /\ UNCHANGED <<threadVars, programVars>>

\* The futures of the thread, and its handles, are destroyed on its way out.
LeaveFunction(t) ==
  /\ pc[t] \in {"return", "unwind"} /\ stage[t] = "outside" /\ ~terminated
  /\ \/ DropFuture(t) /\ UNCHANGED <<threadVars, programVars>>
     \/ /\ futures[t] = 0
        /\ Unwind(t)
        /\ UNCHANGED <<futureVars, programVars>>
     \/ /\ futures[t] = 0
        /\ Terminate(t) \/ End(t)
        /\ promise' = IF promise = t THEN "lost" ELSE promise
        /\ UNCHANGED <<allocated, mRefCount, result, eventState, futures, stage, found,
                       programVars>>

\* A thread that could not be created never gets to its promise and its futures.
NeverStarts(c) ==
  /\ native[c] = "refused" /\ ~terminated /\ stage[c] = "outside"
  /\ \/ DropFuture(c)
     \/ /\ promise = c /\ promise' = "lost"
        /\ UNCHANGED <<allocated, mRefCount, result, eventState, futures, stage, found>>
  /\ UNCHANGED <<threadVars, programVars>>

-----------------------------------------------------------------------------
Over(t) == pc[t] \in {"none", "ended"}

\* The promise is gone and nobody has set it.
Abandoned == ~isSet /\ promise \in {"lost", Nobody}

\* The Set of the event has found its list locked.
SetSpins == \E t \in Threads : stage[t] = "spin"

(* A Get for a promise that is abandoned, or whose Set spins, is never      *)
(* answered, nor is a Join of its thread or of the one that spins.          *)
Stuck(t) ==
  \/ stage[t] = "spin"
  \/ /\ Abandoned \/ SetSpins
     /\ stage[t] = "waiting" \/ (pc[t] = "join" /\ pc[target[t]] # "ended")

Init == ThreadInit /\ FutureInit /\ line = [t \in Threads |-> 1] /\ gaveUp = {}

Step(t) == Call(t) \/ FunctionReturns(t) \/ InCall(t) \/ LeaveFunction(t) \/ NeverStarts(t)

Quiet == terminated \/ \A t \in Threads : Over(t) \/ Stuck(t)

Next ==
  \/ \E t \in Threads : Step(t) \/ OtherIsSignaled(t)
  \/ Quiet /\ UNCHANGED tasksVars

\* The operating system runs every thread that can run.
Spec == Init /\ [][Next]_tasksVars /\ \A t \in Threads : WF_tasksVars(Step(t))

-----------------------------------------------------------------------------
\* The types of all variables, those of Threads and FutureData included.
TypeOK ==
  /\ ThreadTypeOK /\ FutureTypeOK
  /\ \A t \in Threads : line[t] \in 1 .. Len(Program[t]) + 1
  /\ gaveUp \subseteq Threads

(* Neither kind of data goes while somebody may use it, and neither stays   *)
(* behind: the references of threads and futures that end in any order, by  *)
(* an exception, by a cancellation, or without having begun.                *)
DataLifetime == ThreadDataLifetime /\ FutureDataLifetime

(* Every thread comes to its end: a Join when the thread has ended, a Get   *)
(* when the promise has been set.  Two things leave those who wait for the  *)
(* result, and those who join them, for ever: a promise nobody has set when *)
(* it goes, and an Event::Set that has come while WaitForAny had the list   *)
(* locked, which never ends itself.                                         *)
EveryThreadEnds == <>[](terminated \/ \A t \in Threads : Over(t) \/ Stuck(t))

=============================================================================
