---------------------------- MODULE TasksProofs -----------------------------
(***************************************************************************)
(* Proofs about Tasks for any threads and any programs of theirs.          *)
(***************************************************************************)
EXTENDS Tasks, FiniteSetTheorems, TLAPS

-----------------------------------------------------------------------------
(* The invariant of the threads. *)

\* Thread c has a handle, whose owner is still in its creation.
InCreation(c) ==
  handle[c] # NoThread /\ pc[handle[c]] = "create" /\ target[handle[c]] = c

\* Each reference to the data of a thread is there for one reason.
RefsOK(c) ==
  /\ "mData" \in refs[c] <=> handle[c] # NoThread
  /\ "data" \in refs[c] <=> pc[c] \notin {"none", "native", "ended"}
  /\ "self" \in refs[c] <=> pc[c] \in {"native", "copied"} \/ InCreation(c)

NativeOK(c) ==
  handle[c] # NoThread => native[c] = "joinable" \/ (native[c] = "none" /\ InCreation(c))

\* A thread that creates or joins another one has its handle.
TargetOK(t) ==
  /\ pc[t] = "create" => /\ target[t] \in Children /\ handle[target[t]] = t
                         /\ pc[target[t]] = "none" /\ native[target[t]] = "none"
  /\ pc[t] = "join" => target[t] \in Children /\ handle[target[t]] = t

\* The library has not created the main thread.
MainOK == pc[Main] \notin {"none", "native", "copied"} /\ handle[Main] = NoThread

ThreadInv ==
  /\ ThreadTypeOK /\ MainOK
  /\ \A c \in Children : RefsOK(c) /\ NativeOK(c)
  /\ \A t \in Threads : TargetOK(t)

LEMMA ThreadInvInit == ThreadInit => ThreadInv
<1> SUFFICES ASSUME ThreadInit
             PROVE  ThreadInv
  OBVIOUS
<1>1. ThreadTypeOK
  BY ThreadsAssumption DEF ThreadInit, ThreadTypeOK, Children
<1>2. \A t \in Threads : handle[t] = NoThread /\ pc[t] = (IF t = Main THEN "body" ELSE "none")
  BY DEF ThreadInit
<1>3. MainOK /\ \A t \in Threads : TargetOK(t)
  BY <1>2, ThreadsAssumption DEF MainOK, TargetOK
<1>4. ASSUME NEW c \in Children
      PROVE  RefsOK(c) /\ NativeOK(c)
  <2>1. c \in Threads /\ c # Main /\ refs[c] = {}
    BY DEF Children, ThreadInit
  <2> QED
    BY <1>2, <2>1 DEF RefsOK, NativeOK, InCreation
<1> QED
  BY <1>1, <1>3, <1>4 DEF ThreadInv

-----------------------------------------------------------------------------
(* Creation *)

LEMMA CreateDataInv ==
  ASSUME ThreadInv, NEW t \in Threads, NEW c \in Threads, CreateData(t, c)
  PROVE  ThreadInv'
  BY ThreadsAssumption
  DEF CreateData, Goto, flags, ThreadInv, ThreadTypeOK, MainOK, RefsOK, NativeOK,
      TargetOK, InCreation, Children

LEMMA CreateNativeInv ==
  ASSUME ThreadInv, NEW t \in Threads, CreateNative(t)
  PROVE  ThreadInv'
  BY ThreadsAssumption
  DEF CreateNative, Goto, flags, ThreadInv, ThreadTypeOK, MainOK, RefsOK, NativeOK,
      TargetOK, InCreation, Children

LEMMA CreateFailsInv ==
  ASSUME ThreadInv, NEW t \in Threads, CreateFails(t)
  PROVE  ThreadInv'
  BY ThreadsAssumption
  DEF CreateFails, Throw, Goto, flags, ThreadInv, ThreadTypeOK, MainOK, RefsOK,
      NativeOK, TargetOK, InCreation, Children

LEMMA SetIdInv ==
  ASSUME ThreadInv, NEW t \in Threads, SetId(t)
  PROVE  ThreadInv'
  BY ThreadsAssumption
  DEF SetId, Goto, flags, ThreadInv, ThreadTypeOK, MainOK, RefsOK, NativeOK,
      TargetOK, InCreation, Children

-----------------------------------------------------------------------------
(* The calls of a handle, which its owner makes in its function or on the   *)
(* way out of it.                                                           *)

LEMMA CancelInv ==
  ASSUME ThreadInv, NEW t \in Threads, NEW c \in Threads, Cancel(t, c)
  PROVE  ThreadInv'
  BY ThreadsAssumption
  DEF Cancel, flags, ThreadInv, ThreadTypeOK, MainOK, RefsOK, NativeOK, TargetOK,
      InCreation, Children

LEMMA DetachInv ==
  ASSUME ThreadInv, NEW t \in Threads, NEW c \in Threads, pc[t] = "body", Detach(t, c)
  PROVE  ThreadInv'
  BY ThreadsAssumption
  DEF Detach, Forget, Reset, flags, ThreadInv, ThreadTypeOK, MainOK, RefsOK,
      NativeOK, TargetOK, InCreation, Children

LEMMA DestroyHandleInv ==
  ASSUME ThreadInv, NEW t \in Threads, NEW c \in Threads,
         pc[t] \in {"body", "return", "unwind"}, DestroyHandle(t, c)
  PROVE  ThreadInv'
  BY ThreadsAssumption
  DEF DestroyHandle, Forget, Reset, flags, ThreadInv, ThreadTypeOK, MainOK, RefsOK,
      NativeOK, TargetOK, InCreation, Children

LEMMA OverwriteInv ==
  ASSUME ThreadInv, NEW t \in Threads, NEW c \in Threads, pc[t] = "body", Overwrite(t, c)
  PROVE  ThreadInv'
  BY ThreadsAssumption
  DEF Overwrite, Forget, Reset, flags, ThreadInv, ThreadTypeOK, MainOK, RefsOK,
      NativeOK, TargetOK, InCreation, Children

LEMMA MoveInv ==
  ASSUME ThreadInv, NEW t \in Threads, NEW c \in Threads, NEW u \in Threads,
         pc[t] = "body", Move(t, c, u)
  PROVE  ThreadInv'
  BY ThreadsAssumption
  DEF Move, flags, ThreadInv, ThreadTypeOK, MainOK, RefsOK, NativeOK, TargetOK,
      InCreation, Children

-----------------------------------------------------------------------------
(* The calls of a thread about itself, and its beginning and its end. *)

LEMMA TestCancelInv ==
  ASSUME ThreadInv, NEW t \in Threads, TestCancel(t)
  PROVE  ThreadInv'
  BY ThreadsAssumption
  DEF TestCancel, CancellationPoint, MustCancel, Throw, Goto, Current, flags,
      ThreadInv, ThreadTypeOK, MainOK, RefsOK, NativeOK, TargetOK, InCreation,
      Children

LEMMA PolicyInv ==
  ASSUME ThreadInv, NEW t \in Threads, NEW enable \in BOOLEAN,
         SetThreadCancellationPolicy(t, enable)
  PROVE  ThreadInv'
  BY ThreadsAssumption
  DEF SetThreadCancellationPolicy, Current, flags, ThreadInv, ThreadTypeOK, MainOK,
      RefsOK, NativeOK, TargetOK, InCreation, Children

LEMMA JoinBeginInv ==
  ASSUME ThreadInv, NEW t \in Threads, NEW c \in Threads, JoinBegin(t, c)
  PROVE  ThreadInv'
  BY ThreadsAssumption
  DEF JoinBegin, CancellationPoint, MustCancel, Throw, Goto, Current, flags,
      ThreadInv, ThreadTypeOK, MainOK, RefsOK, NativeOK, TargetOK, InCreation,
      Children

LEMMA JoinEndInv ==
  ASSUME ThreadInv, NEW t \in Threads, JoinEnd(t)
  PROVE  ThreadInv'
  BY ThreadsAssumption
  DEF JoinEnd, Forget, Reset, Goto, flags, ThreadInv, ThreadTypeOK, MainOK, RefsOK,
      NativeOK, TargetOK, InCreation, Children

LEMMA CopySelfInv ==
  ASSUME ThreadInv, NEW t \in Threads, CopySelf(t)
  PROVE  ThreadInv'
  BY ThreadsAssumption
  DEF CopySelf, Goto, flags, ThreadInv, ThreadTypeOK, MainOK, RefsOK, NativeOK,
      TargetOK, InCreation, Children

LEMMA ResetSelfInv ==
  ASSUME ThreadInv, NEW t \in Threads, ResetSelf(t)
  PROVE  ThreadInv'
  BY ThreadsAssumption
  DEF ResetSelf, Reset, Goto, flags, ThreadInv, ThreadTypeOK, MainOK, RefsOK,
      NativeOK, TargetOK, InCreation, Children

LEMMA ReturnInv ==
  ASSUME ThreadInv, NEW t \in Threads, Return(t)
  PROVE  ThreadInv'
  BY ThreadsAssumption
  DEF Return, Goto, flags, ThreadInv, ThreadTypeOK, MainOK, RefsOK, NativeOK,
      TargetOK, InCreation, Children

LEMMA TerminateInv ==
  ASSUME ThreadInv, NEW t \in Threads, Terminate(t)
  PROVE  ThreadInv'
  BY ThreadsAssumption
  DEF Terminate, Goto, flags, ThreadInv, ThreadTypeOK, MainOK, RefsOK, NativeOK,
      TargetOK, InCreation, Children

LEMMA EndInv ==
  ASSUME ThreadInv, NEW t \in Threads, End(t)
  PROVE  ThreadInv'
  BY ThreadsAssumption
  DEF End, Reset, Goto, flags, ThreadInv, ThreadTypeOK, MainOK, RefsOK, NativeOK,
      TargetOK, InCreation, Children

-----------------------------------------------------------------------------
(* The program: whatever its lines say, it makes these calls.               *)

LineOK == line \in [Threads -> Nat \ {0}]

LEMMA ThreadsAlone == ThreadInv /\ UNCHANGED threadVars => ThreadInv'
  BY DEF ThreadInv, ThreadTypeOK, MainOK, RefsOK, NativeOK, TargetOK, InCreation, threadVars,
         flags

LEMMA CallIsKnown ==
  ASSUME LineOK, NEW t \in Threads, Call(t)
  PROVE  \E k \in [op : Ops, arg : Threads, to : Threads] :
           OnHandle(t, k) \/ OnPromise(t, k) \/ OnFuture(t, k) \/ OnThread(t, k)
<1>1. Program[t] \in Seq(SUBSET [op : Ops, arg : Threads, to : Threads])
  BY TasksAssumption
<1>2. line[t] \in Nat \ {0} /\ line[t] <= Len(Program[t])
  BY DEF Call, LineOK
<1>3. Program[t][line[t]] \subseteq [op : Ops, arg : Threads, to : Threads]
  BY <1>1, <1>2
<1> QED
  BY <1>3 DEF Call

LEMMA CallInv ==
  ASSUME ThreadInv, LineOK, NEW t \in Threads, Call(t)
  PROVE  ThreadInv'
<1>1. PICK k \in [op : Ops, arg : Threads, to : Threads] :
        OnHandle(t, k) \/ OnPromise(t, k) \/ OnFuture(t, k) \/ OnThread(t, k)
  BY CallIsKnown
<1>2. k.arg \in Threads /\ k.to \in Threads /\ pc[t] = "body"
  BY DEF Call, InFunction
<1>3. CASE OnHandle(t, k)
  BY <1>2, <1>3, ThreadsAlone, CancelInv, DetachInv, DestroyHandleInv, OverwriteInv, MoveInv
  DEF OnHandle
<1>4. CASE OnPromise(t, k) \/ OnFuture(t, k)
  BY <1>4, ThreadsAlone DEF OnPromise, OnFuture
<1>5. CASE OnThread(t, k)
  BY <1>2, <1>5, ThreadsAlone, CreateDataInv, JoinBeginInv, TestCancelInv, PolicyInv
  DEF OnThread
<1> QED
  BY <1>1, <1>3, <1>4, <1>5

LEMMA LeaveInv ==
  ASSUME ThreadInv, NEW t \in Threads, LeaveFunction(t)
  PROVE  ThreadInv'
<1>1. CASE UNCHANGED threadVars
  BY <1>1, ThreadsAlone
<1>2. CASE Unwind(t)
  <2>1. PICK c \in Children : DestroyHandle(t, c)
    BY <1>2 DEF Unwind
  <2> QED
    BY <2>1, DestroyHandleInv DEF LeaveFunction, Children
<1> QED
  BY <1>1, <1>2, TerminateInv, EndInv DEF LeaveFunction

LEMMA ThreadNext ==
  ASSUME ThreadInv, LineOK, [Next]_tasksVars
  PROVE  ThreadInv' /\ LineOK'
<1>1. LineOK'
  <2>1. CASE UNCHANGED line
    BY <2>1 DEF LineOK
  <2>2. ASSUME NEW t \in Threads, Call(t)
        PROVE  LineOK'
    BY <2>2 DEF Call, LineOK
  <2> QED
    BY <2>1, <2>2
    DEF Next, Step, FunctionReturns, InCall, LeaveFunction, NeverStarts, OtherIsSignaled,
        tasksVars, programVars
<1>2. CASE UNCHANGED tasksVars
  BY <1>1, <1>2, ThreadsAlone DEF tasksVars
<1>3. ASSUME NEW t \in Threads, Call(t) \/ FunctionReturns(t) \/ LeaveFunction(t)
      PROVE  ThreadInv'
  <2>1. CASE FunctionReturns(t)
    BY <2>1, ReturnInv DEF FunctionReturns
  <2> QED
    BY <1>3, <2>1, CallInv, LeaveInv
<1>4. ASSUME NEW t \in Threads, InCall(t)
      PROVE  ThreadInv'
  BY <1>4, ThreadsAlone, CreateNativeInv, CreateFailsInv, SetIdInv, JoinEndInv, CopySelfInv,
     ResetSelfInv
  DEF InCall, ThreadStep
<1>5. ASSUME NEW t \in Threads, NeverStarts(t) \/ OtherIsSignaled(t)
      PROVE  ThreadInv'
  BY <1>5, ThreadsAlone DEF NeverStarts, OtherIsSignaled
<1> QED
  BY <1>1, <1>2, <1>3, <1>4, <1>5 DEF Next, Step

LEMMA ThreadInvariance == Spec => []ThreadInv
<1>1. Init => ThreadInv /\ LineOK
  BY ThreadInvInit DEF Init, LineOK
<1>2. (ThreadInv /\ LineOK) /\ [Next]_tasksVars => (ThreadInv /\ LineOK)'
  BY ThreadNext
<1> QED
  BY <1>1, <1>2, PTL DEF Spec

(* The data of a thread is there exactly as long as its handle or the       *)
(* thread itself, for any threads and whatever their programs do.           *)
LEMMA ThreadDataLives == Spec => []ThreadDataLifetime
<1>1. ThreadInv => ThreadDataLifetime
  <2> SUFFICES ASSUME ThreadInv, NEW c \in Children
               PROVE  refs[c] # {} <=> ThreadDataIsUsed(c)
    BY DEF ThreadDataLifetime
  <2>1. refs[c] \subseteq {"mData", "self", "data"} /\ RefsOK(c)
    BY DEF ThreadInv, ThreadTypeOK, Children
  <2> QED
    BY <2>1 DEF RefsOK, InCreation, ThreadDataIsUsed
<1> QED
  BY <1>1, ThreadInvariance, PTL

(* The assertions about pthread_join and pthread_detach hold: a handle with *)
(* data is that of a thread that nobody has joined or detached.             *)
THEOREM HandlesAreJoinable == Spec => []HandleIsJoinable
<1>1. ThreadInv => HandleIsJoinable
  BY DEF ThreadInv, NativeOK, InCreation, HandleIsJoinable
<1> QED
  BY <1>1, ThreadInvariance, PTL

-----------------------------------------------------------------------------
(* The result. *)

\* What a thread has found is the result; who is about to read it comes after the event.
SeesResult(t) ==
  /\ stage[t] = "publish" => result # "unset"
  /\ stage[t] \in {"notify", "read"} \/ posted[t] > 0 \/ found[t] # {} => isSet
  /\ found[t] \subseteq {result}

ResultInv ==
  /\ result \in {"unset", "value", "exception"} /\ isSet \in BOOLEAN
  /\ isSet => result # "unset"
  /\ stage \in [Users -> Stages] /\ posted \in [Users -> Nat]
  /\ found \in [Users -> SUBSET {"unset", "value", "exception"}]
  /\ \A t \in Users : SeesResult(t)

LEMMA ResultAlone ==
  ASSUME ResultInv, UNCHANGED <<result, isSet, posted, stage, found>>
  PROVE  ResultInv'
  BY DEF ResultInv, SeesResult

\* A step of a call that only goes on, to a place it may be in.
LEMMA StageResult ==
  ASSUME ResultInv, NEW t \in Users, NEW s \in Stages,
         Stage(t, s), UNCHANGED <<result, isSet, posted, found>>,
         s = "publish" => result # "unset",
         s \in {"notify", "read"} => isSet
  PROVE  ResultInv'
  BY DEF Stage, ResultInv, SeesResult

LEMMA ReleaseResult ==
  ASSUME ResultInv, NEW t \in Users, Release(t), UNCHANGED <<result, isSet, posted, found>>
  PROVE  ResultInv'
  BY StageResult DEF Release, Stages

LEMMA WriteResult ==
  ASSUME ResultInv, NEW t \in Users, NEW r \in {"value", "exception"}, Write(t, r)
  PROVE  ResultInv'
  BY DEF Write, Stage, eventState, ResultInv, SeesResult, Stages

LEMMA PublishResult ==
  ASSUME ResultInv, NEW t \in Users, Publish(t)
  PROVE  ResultInv'
<1>1. result # "unset" /\ UNCHANGED <<result, posted, found>>
  BY DEF Publish, ResultInv, SeesResult
<1>2. CASE Stage(t, "spin") /\ UNCHANGED isSet
  BY <1>1, <1>2, StageResult DEF Stages
<1>3. CASE isSet' = TRUE /\ \E s \in {"delete", "notify"} : Stage(t, s)
  BY <1>1, <1>3 DEF Stage, ResultInv, SeesResult, Stages
<1> QED
  BY <1>2, <1>3 DEF Publish

LEMMA NotifyResult ==
  ASSUME ResultInv, NEW t \in Users, Notify(t)
  PROVE  ResultInv'
<1>1. \E s \in {"unlock", "notify"} : Stage(t, s)
  BY DEF Notify
<1>2. \E w : posted' = [posted EXCEPT ![w] = @ + 1]
  BY DEF Notify
<1>3. isSet /\ UNCHANGED <<result, isSet, found>>
  BY DEF Notify, ResultInv, SeesResult
<1>4. posted' \in [Users -> Nat]
  <2>1. PICK w : posted' = [posted EXCEPT ![w] = @ + 1]
    BY <1>2
  <2>2. posted \in [Users -> Nat]
    BY DEF ResultInv
  <2>3. CASE w \in Users
    BY <2>1, <2>2, <2>3
  <2>4. CASE w \notin Users
    BY <2>1, <2>2, <2>4
  <2> QED
    BY <2>3, <2>4
<1>5. stage' \in [Users -> Stages]
  BY <1>1 DEF Stage, ResultInv, Stages
<1>6. ASSUME NEW u \in Users
      PROVE  SeesResult(u)'
  <2>1. stage[u]' = "publish" => stage[u] = "publish"
    BY <1>1 DEF Stage, ResultInv
  <2> QED
    BY <1>3, <2>1 DEF ResultInv, SeesResult
<1> QED
  BY <1>3, <1>4, <1>5, <1>6 DEF ResultInv

LEMMA UnlockResult ==
  ASSUME ResultInv, NEW t \in Users, Unlock(t) \/ Destroy(t)
  PROVE  ResultInv'
  BY StageResult DEF Unlock, Destroy, eventState, Stages

\* Ask, Wait and AddWaiter go on to read only if the event is set.
LEMMA WaitResult ==
  ASSUME ResultInv, NEW t \in Users, Ask(t) \/ Wait(t) \/ AddWaiter(t)
  PROVE  ResultInv'
<1>1. /\ \E s \in {"read", "outside", "add", "waiting"} : Stage(t, s) /\ (s = "read" => isSet)
      /\ UNCHANGED <<result, isSet, posted, found>>
  <2>1. CASE Ask(t) \/ Wait(t)
    BY <2>1 DEF Ask, Wait, eventState
  <2>2. CASE AddWaiter(t)
    BY <2>2 DEF AddWaiter
  <2> QED
    BY <2>1, <2>2
<1> QED
  BY <1>1, StageResult DEF Stages

LEMMA RemoveResult ==
  ASSUME ResultInv, NEW t \in Users, RemoveWaiter(t) \/ Unlink(t)
  PROVE  ResultInv'
<1>1. /\ \E s \in {"outside", "inFlight", "unlink"} : Stage(t, s)
      /\ UNCHANGED <<result, isSet, posted, found>>
  BY DEF RemoveWaiter, Unlink
<1> QED
  BY <1>1, StageResult DEF Stages

LEMMA WokenResult ==
  ASSUME ResultInv, NEW t \in Users, Woken(t)
  PROVE  ResultInv'
  BY DEF Woken, Stage, ResultInv, SeesResult, Stages

LEMMA ReadResult ==
  ASSUME ResultInv, NEW t \in Users, Read(t)
  PROVE  ResultInv'
  BY DEF Read, Stage, eventState, ResultInv, SeesResult, Stages

LEMMA CallStepResult ==
  ASSUME ResultInv, NEW t \in Users, CallStep(t)
  PROVE  ResultInv'
<1>1. CASE DeletePromise(t)
  BY <1>1, ReleaseResult DEF DeletePromise, ReleasePromise, eventState
<1> QED
  BY <1>1, UnlockResult, PublishResult, NotifyResult, WaitResult, WokenResult, RemoveResult,
     ReadResult
  DEF CallStep

LEMMA HandleResult ==
  ASSUME ResultInv, NEW t \in Users, NEW u,
         \/ MakePromise(t) \/ GetFuture(t) \/ CopyFuture(t, u) \/ HandOver(t, u)
         \/ DropFuture(t) \/ DropPromise(t)
  PROVE  ResultInv'
<1>1. CASE MakePromise(t) \/ GetFuture(t) \/ CopyFuture(t, u) \/ HandOver(t, u)
  BY <1>1, ResultAlone DEF MakePromise, GetFuture, CopyFuture, HandOver, eventState
<1>2. CASE DropFuture(t) \/ DropPromise(t)
  BY <1>2, ReleaseResult DEF DropFuture, DropPromise, ReleasePromise, eventState
<1> QED
  BY <1>1, <1>2

LEMMA ResultNext ==
  ASSUME ResultInv, LineOK, [Next]_tasksVars
  PROVE  ResultInv'
<1>u. Users = Threads
  BY TasksAssumption
<1>1. CASE UNCHANGED futureVars
  BY <1>1, ResultAlone DEF futureVars, eventState
<1>2. ASSUME NEW t \in Threads, Call(t)
      PROVE  ResultInv'
  <2>1. PICK k \in [op : Ops, arg : Threads, to : Threads] :
          OnHandle(t, k) \/ OnPromise(t, k) \/ OnFuture(t, k) \/ OnThread(t, k)
    BY <1>2, CallIsKnown
  <2>2. CASE OnHandle(t, k) \/ OnThread(t, k)
    BY <1>1, <2>2 DEF OnHandle, OnThread
  <2>3. CASE OnPromise(t, k)
    BY <1>u, <1>1, <2>3, HandleResult, WriteResult DEF OnPromise
  <2>4. CASE OnFuture(t, k)
    BY <1>u, <1>1, <2>4, HandleResult, WaitResult DEF OnFuture
  <2> QED
    BY <2>1, <2>2, <2>3, <2>4
<1>3. ASSUME NEW t \in Threads, FunctionReturns(t)
      PROVE  ResultInv'
  BY <1>1, <1>3 DEF FunctionReturns
<1>4. ASSUME NEW t \in Threads, InCall(t)
      PROVE  ResultInv'
  BY <1>u, <1>1, <1>4, CallStepResult DEF InCall
<1>5. ASSUME NEW t \in Threads, OtherIsSignaled(t)
      PROVE  ResultInv'
  BY <1>u, <1>5, RemoveResult DEF OtherIsSignaled
<1>6. ASSUME NEW t \in Threads, LeaveFunction(t) \/ NeverStarts(t)
      PROVE  ResultInv'
  <2>1. \/ DropFuture(t) \/ UNCHANGED futureVars
        \/ UNCHANGED <<result, isSet, posted, stage, found>>
    BY <1>6 DEF LeaveFunction, NeverStarts, eventState
  <2> QED
    BY <1>u, <1>1, <2>1, HandleResult, ResultAlone
<1> QED
  BY <1>1, <1>2, <1>3, <1>4, <1>5, <1>6 DEF Next, Step, tasksVars

LEMMA ResultInit == Init => ResultInv /\ LineOK
<1> SUFFICES ASSUME Init
             PROVE  ResultInv /\ LineOK
  OBVIOUS
<1>1. /\ result = "unset" /\ isSet = FALSE
      /\ posted = [t \in Users |-> 0] /\ stage = [t \in Users |-> "outside"]
      /\ found = [t \in Users |-> {}] /\ line = [t \in Threads |-> 1]
  BY DEF Init, FutureInit
<1>2. posted \in [Users -> Nat] /\ stage \in [Users -> Stages] /\ LineOK
  BY <1>1 DEF Stages, LineOK
<1>3. found \in [Users -> SUBSET {"unset", "value", "exception"}]
  BY <1>1
<1>4. \A t \in Users : SeesResult(t)
  BY <1>1 DEF SeesResult
<1> QED
  BY <1>1, <1>2, <1>3, <1>4 DEF ResultInv

(* Get and HasValue find the result of the promise, and never storage that  *)
(* nobody has written, for any threads and whatever their programs do.      *)
THEOREM ResultsArePublished == Spec => []ResultIsPublished
<1>1. Init => ResultInv /\ LineOK
  BY ResultInit
<1>2. (ResultInv /\ LineOK /\ ThreadInv) /\ [Next]_tasksVars => (ResultInv /\ LineOK)'
  BY ResultNext, ThreadNext
<1>3. ResultInv => ResultIsPublished
  BY DEF ResultInv, SeesResult, ResultIsPublished
<1> QED
  BY <1>1, <1>2, <1>3, ThreadInvariance, PTL DEF Spec

-----------------------------------------------------------------------------
(* The references to the future data. *)

\* One element for each future.
RefsOf(f) == {r \in Users \X Nat : r[2] < f[r[1]]}

LEMMA OneMore ==
  ASSUME NEW f \in [Users -> Nat], NEW u \in Users, IsFiniteSet(RefsOf(f))
  PROVE  LET g == [f EXCEPT ![u] = @ + 1]
         IN  /\ IsFiniteSet(RefsOf(g))
             /\ Cardinality(RefsOf(g)) = Cardinality(RefsOf(f)) + 1
<1> DEFINE g == [f EXCEPT ![u] = @ + 1]
<1>1. RefsOf(g) = RefsOf(f) \cup {<<u, f[u]>>} /\ <<u, f[u]>> \notin RefsOf(f)
  <2>1. \A r \in Users \X Nat :
          r[2] < g[r[1]] <=> r[2] < f[r[1]] \/ (r[1] = u /\ r[2] = f[u])
    OBVIOUS
  <2>2. \A r \in Users \X Nat : r = <<u, f[u]>> <=> r[1] = u /\ r[2] = f[u]
    OBVIOUS
  <2>3. <<u, f[u]>> \in Users \X Nat
    OBVIOUS
  <2> QED
    BY <2>1, <2>2, <2>3 DEF RefsOf
<1>2. Cardinality(RefsOf(f) \cup {<<u, f[u]>>}) = Cardinality(RefsOf(f)) + 1
  BY <1>1, FS_AddElement
<1>3. IsFiniteSet(RefsOf(f) \cup {<<u, f[u]>>})
  BY FS_AddElement
<1> QED
  BY <1>1, <1>2, <1>3

LEMMA OneLess ==
  ASSUME NEW f \in [Users -> Nat], NEW u \in Users, f[u] > 0, IsFiniteSet(RefsOf(f))
  PROVE  LET g == [f EXCEPT ![u] = @ - 1]
         IN  /\ IsFiniteSet(RefsOf(g))
             /\ Cardinality(RefsOf(g)) = Cardinality(RefsOf(f)) - 1
<1> DEFINE g == [f EXCEPT ![u] = @ - 1]
<1>1. RefsOf(g) = RefsOf(f) \ {<<u, f[u] - 1>>} /\ <<u, f[u] - 1>> \in RefsOf(f)
  <2>1. \A r \in Users \X Nat :
          r[2] < g[r[1]] <=> r[2] < f[r[1]] /\ ~(r[1] = u /\ r[2] = f[u] - 1)
    OBVIOUS
  <2>2. \A r \in Users \X Nat : r = <<u, f[u] - 1>> <=> r[1] = u /\ r[2] = f[u] - 1
    OBVIOUS
  <2>3. <<u, f[u] - 1>> \in Users \X Nat /\ f[u] - 1 < f[u]
    OBVIOUS
  <2> QED
    BY <2>1, <2>2, <2>3 DEF RefsOf
<1>a. \A S, x : IsFiniteSet(S) /\ x \in S => Cardinality(S \ {x}) = Cardinality(S) - 1
  BY FS_RemoveElement
<1>2. Cardinality(RefsOf(f) \ {<<u, f[u] - 1>>}) = Cardinality(RefsOf(f)) - 1
  <2> HIDE DEF g
  <2> QED
    BY <1>a, <1>1, Zenon
<1>3. IsFiniteSet(RefsOf(f) \ {<<u, f[u] - 1>>})
  BY FS_RemoveElement
<1> QED
  BY <1>1, <1>2, <1>3

LEMMA NoneLeft ==
  ASSUME NEW f \in [Users -> Nat], IsFiniteSet(RefsOf(f))
  PROVE  /\ Cardinality(RefsOf(f)) \in Nat
         /\ Cardinality(RefsOf(f)) = 0 <=> \A u \in Users : f[u] = 0
<1>1. RefsOf(f) = {} <=> \A u \in Users : f[u] = 0
  <2>1. ASSUME NEW u \in Users, f[u] # 0
        PROVE  <<u, 0>> \in RefsOf(f)
    BY <2>1 DEF RefsOf
  <2>2. ASSUME NEW r \in RefsOf(f)
        PROVE  r[1] \in Users /\ f[r[1]] # 0
    BY DEF RefsOf
  <2> QED
    BY <2>1, <2>2
<1> QED
  BY <1>1, FS_CardinalityType, FS_EmptySet

PromiseRefs(p) == IF p = Nobody THEN 0 ELSE 1

CountOK ==
  /\ IsFiniteSet(RefsOf(futures))
  /\ mRefCount = Cardinality(RefsOf(futures)) + PromiseRefs(promise)

\* A call is made on a handle; whoever destroys the data is alone.
StageOK(t) ==
  /\ stage[t] \in {"publish", "spin", "notify", "unlock", "delete"} => promise = t
  /\ stage[t] \in {"add", "waiting", "unlink", "inFlight", "read"} => futures[t] > 0
  /\ stage[t] = "destroy" => /\ promise = Nobody /\ \A u \in Users : futures[u] = 0
                             /\ \A u \in Users \ {t} : stage[u] = "outside"

LifeInv ==
  /\ futures \in [Users -> Nat] /\ stage \in [Users -> Stages]
  /\ promise \in Users \cup {Nobody, "lost"}
  /\ CountOK
  /\ \A t \in Users : StageOK(t)
  /\ FutureDataLifetime

LEMMA LifeAlone ==
  ASSUME LifeInv, UNCHANGED <<allocated, mRefCount, futures, promise, stage>>
  PROVE  LifeInv'
  BY DEF LifeInv, CountOK, StageOK, FutureDataLifetime, DataIsUsed

\* A step of a call that only goes on, to a place it may be in.
LEMMA StageLife ==
  ASSUME LifeInv, NEW t \in Users, NEW s \in Stages \ {"destroy"}, stage[t] # "destroy",
         Stage(t, s), UNCHANGED <<allocated, mRefCount, futures, promise>>,
         s \in {"publish", "spin", "notify", "unlock", "delete"} => promise = t,
         s \in {"add", "waiting", "unlink", "inFlight", "read"} => futures[t] > 0,
         promise = t \/ futures[t] > 0
  PROVE  LifeInv'
<1>1. CountOK'
  BY DEF LifeInv, CountOK
<1>n. \A u \in Users : stage[u] # "destroy"
  BY FutureDataAssumption DEF LifeInv, StageOK
<1>2. ASSUME NEW u \in Users
      PROVE  StageOK(u)'
  <2>1. CASE u = t
    BY <2>1 DEF LifeInv, StageOK, Stage
  <2>2. CASE u # t
    <3>1. stage'[u] = stage[u] /\ StageOK(u)
      BY <2>2 DEF LifeInv, Stage
    <3> QED
      BY <1>n, <3>1 DEF StageOK
  <2> QED
    BY <2>1, <2>2
<1>3. DataIsUsed /\ DataIsUsed'
  BY FutureDataAssumption DEF DataIsUsed
<1> QED
  BY <1>1, <1>2, <1>3 DEF LifeInv, Stage, FutureDataLifetime

LEMMA NewFutureLife ==
  ASSUME LifeInv, NEW t \in Users, NEW u \in Users,
         GetFuture(t) \/ CopyFuture(t, u)
  PROVE  LifeInv'
<1>1. PICK w \in Users : futures' = [futures EXCEPT ![w] = @ + 1]
  BY DEF GetFuture, CopyFuture
<1>2. AddRef /\ UNCHANGED <<allocated, promise, stage>>
  BY DEF GetFuture, CopyFuture
<1>3. promise = t \/ futures[t] > 0
  BY DEF GetFuture, CopyFuture
<1>4. CountOK'
  <2>1. futures \in [Users -> Nat] /\ CountOK
    BY DEF LifeInv
  <2>2. /\ IsFiniteSet(RefsOf(futures'))
        /\ Cardinality(RefsOf(futures')) = Cardinality(RefsOf(futures)) + 1
    BY <1>1, <2>1, OneMore DEF CountOK
  <2>3. Cardinality(RefsOf(futures)) \in Nat
    BY <2>1, NoneLeft DEF CountOK
  <2> QED
    BY <1>2, <2>1, <2>2, <2>3 DEF CountOK, AddRef, PromiseRefs, RefsOf
<1>5. futures' \in [Users -> Nat] /\ futures'[w] > 0
  BY <1>1 DEF LifeInv
<1>6. \A v \in Users : stage[v] # "destroy"
  BY <1>3, FutureDataAssumption DEF LifeInv, StageOK
<1>7. \A v \in Users : StageOK(v)'
  BY <1>1, <1>2, <1>6 DEF LifeInv, StageOK
<1>8. DataIsUsed /\ DataIsUsed'
  BY <1>3, <1>5, FutureDataAssumption DEF DataIsUsed
<1> QED
  BY <1>2, <1>4, <1>5, <1>7, <1>8 DEF LifeInv, FutureDataLifetime

LEMMA ReleaseLife ==
  ASSUME LifeInv, NEW t \in Users, Release(t), UNCHANGED allocated,
         \/ /\ futures[t] > 0 /\ futures' = [futures EXCEPT ![t] = @ - 1]
            /\ stage[t] = "outside" /\ UNCHANGED promise
         \/ /\ promise = t /\ promise' = Nobody
            /\ stage[t] \in {"outside", "delete"} /\ UNCHANGED futures
  PROVE  LifeInv'
<1>1. /\ futures \in [Users -> Nat] /\ futures' \in [Users -> Nat]
      /\ promise' \in Users \cup {Nobody, "lost"} /\ stage' \in [Users -> Stages]
  BY DEF LifeInv, Release, Stage, Stages
<1>2. CountOK'
  <2>1. CountOK /\ Cardinality(RefsOf(futures)) \in Nat
    BY <1>1, NoneLeft DEF LifeInv, CountOK
  <2>2. mRefCount' = mRefCount - 1
    BY DEF Release
  <2>3. CASE futures[t] > 0 /\ futures' = [futures EXCEPT ![t] = @ - 1] /\ UNCHANGED promise
    <3>1. /\ IsFiniteSet(RefsOf(futures'))
          /\ Cardinality(RefsOf(futures')) = Cardinality(RefsOf(futures)) - 1
      BY <1>1, <2>1, <2>3, OneLess DEF CountOK
    <3>2. PromiseRefs(promise') = PromiseRefs(promise) /\ PromiseRefs(promise) \in {0, 1}
      BY <2>3 DEF PromiseRefs
    <3> QED
      BY <2>1, <2>2, <3>1, <3>2 DEF CountOK
  <2>4. CASE promise = t /\ promise' = Nobody /\ UNCHANGED futures
    <3>1. PromiseRefs(promise) = 1 /\ PromiseRefs(promise') = 0
      BY <2>4, FutureDataAssumption DEF PromiseRefs
    <3>2. RefsOf(futures') = RefsOf(futures)
      BY <2>4
    <3> QED
      BY <2>1, <2>2, <3>1, <3>2 DEF CountOK
  <2> QED
    BY <2>3, <2>4
<1>3. mRefCount' = 0 <=> promise' = Nobody /\ \A u \in Users : futures'[u] = 0
  <2>1. /\ Cardinality(RefsOf(futures')) \in Nat
        /\ Cardinality(RefsOf(futures')) = 0 <=> \A u \in Users : futures'[u] = 0
    BY <1>1, <1>2, NoneLeft DEF CountOK
  <2> QED
    BY <1>2, <2>1 DEF CountOK, PromiseRefs
<1>4. \A u \in Users : stage[u] # "destroy"
  BY FutureDataAssumption DEF LifeInv, StageOK
<1>5. \A u \in Users \ {t} : stage'[u] = stage[u] /\ futures'[u] = futures[u]
  BY DEF LifeInv, Release, Stage
<1>6. \A u \in Users \ {t} : promise = u => promise' = u
  OBVIOUS
<1>7. stage'[t] = IF mRefCount' = 0 THEN "destroy" ELSE "outside"
  <2>1. mRefCount \in Int
    BY NoneLeft DEF LifeInv, CountOK, PromiseRefs
  <2> QED
    BY <2>1 DEF Release, Stage, LifeInv
<1>8. ASSUME NEW u \in Users \ {t}
      PROVE  StageOK(u)'
  BY <1>4, <1>5, <1>6 DEF LifeInv, StageOK
<1>9. StageOK(t)'
  <2>1. ASSUME mRefCount' = 0, NEW u \in Users \ {t}
        PROVE  stage'[u] = "outside"
    <3>1. promise # u /\ futures[u] = 0
      BY <1>3, <1>5, <1>6, <2>1, FutureDataAssumption
    <3>2. ~(futures[u] > 0) /\ stage[u] \in Stages /\ StageOK(u)
      BY <1>1, <3>1 DEF LifeInv
    <3> QED
      BY <1>4, <1>5, <3>1, <3>2 DEF StageOK, Stages
  <2> QED
    BY <1>3, <1>7, <2>1 DEF StageOK
<1>10. DataIsUsed /\ DataIsUsed'
  <2>1. DataIsUsed
    BY FutureDataAssumption DEF DataIsUsed
  <2>2. mRefCount' # 0 => DataIsUsed'
    BY <1>1, <1>3 DEF DataIsUsed
  <2> QED
    BY <1>7, <2>1, <2>2 DEF DataIsUsed
<1> QED
  BY <1>1, <1>2, <1>8, <1>9, <1>10 DEF LifeInv, FutureDataLifetime

LEMMA MakePromiseLife ==
  ASSUME LifeInv, NEW t \in Users, MakePromise(t)
  PROVE  LifeInv'
<1>1. ~DataIsUsed
  BY DEF LifeInv, FutureDataLifetime, MakePromise
<1>2. promise = Nobody /\ promise' = t /\ allocated' = "allocated" /\ UNCHANGED <<futures, stage>>
  BY <1>1 DEF DataIsUsed, MakePromise
<1>3. \A u \in Users : stage[u] = "outside"
  BY <1>1 DEF DataIsUsed
<1>4. CountOK'
  <2>1. RefsOf(futures') = RefsOf(futures) /\ Cardinality(RefsOf(futures)) \in Nat
    BY <1>2, NoneLeft DEF LifeInv, CountOK
  <2>2. PromiseRefs(promise) = 0 /\ PromiseRefs(promise') = 1
    BY <1>2, FutureDataAssumption DEF PromiseRefs
  <2> QED
    BY <2>1, <2>2 DEF LifeInv, CountOK, MakePromise, AddRef
<1>5. \A u \in Users : StageOK(u)'
  BY <1>2, <1>3 DEF StageOK
<1>6. DataIsUsed'
  BY <1>2, FutureDataAssumption DEF DataIsUsed
<1> QED
  BY <1>2, <1>4, <1>5, <1>6 DEF LifeInv, FutureDataLifetime

(* The promise goes to another thread, or is lost with what its own did not *)
(* get to: it is not deleted.                                               *)
LEMMA HandOverLife ==
  ASSUME LifeInv, NEW t \in Users, NEW u \in Users \cup {"lost"},
         promise = t, stage[t] = "outside", promise' = u,
         UNCHANGED <<allocated, mRefCount, futures, stage>>
  PROVE  LifeInv'
<1>1. CountOK'
  BY FutureDataAssumption DEF LifeInv, CountOK, PromiseRefs
<1>2. \A v \in Users : StageOK(v)'
  BY FutureDataAssumption DEF LifeInv, StageOK
<1>3. DataIsUsed /\ DataIsUsed'
  BY FutureDataAssumption DEF DataIsUsed
<1> QED
  BY <1>1, <1>2, <1>3 DEF LifeInv, FutureDataLifetime

LEMMA DestroyLife ==
  ASSUME LifeInv, NEW t \in Users, Destroy(t)
  PROVE  LifeInv'
<1>1. /\ promise = Nobody /\ \A u \in Users : futures[u] = 0
      /\ \A u \in Users \ {t} : stage[u] = "outside"
  BY DEF LifeInv, StageOK, Destroy
<1>2. /\ stage' = [stage EXCEPT ![t] = "outside"] /\ allocated' = "destroyed"
      /\ UNCHANGED <<mRefCount, futures, promise>>
  BY DEF Destroy, Stage, handles
<1>3. stage' \in [Users -> Stages] /\ \A u \in Users : stage'[u] = "outside"
  BY <1>1, <1>2 DEF LifeInv, Stages
<1>4. CountOK' /\ ~DataIsUsed'
  BY <1>1, <1>2, <1>3 DEF LifeInv, CountOK, DataIsUsed
<1>5. \A u \in Users : StageOK(u)'
  BY <1>3 DEF StageOK
<1> QED
  BY <1>2, <1>3, <1>4, <1>5 DEF LifeInv, FutureDataLifetime

LEMMA SetLife ==
  ASSUME LifeInv, NEW t \in Users,
         (\E r \in {"value", "exception"} : Write(t, r)) \/ Publish(t) \/ Notify(t) \/ Unlock(t)
  PROVE  LifeInv'
<1>1. /\ \E s \in {"publish", "spin", "notify", "unlock", "delete"} : Stage(t, s)
      /\ UNCHANGED <<allocated, mRefCount, futures, promise>>
  <2>1. CASE \E r \in {"value", "exception"} : Write(t, r)
    BY <2>1 DEF Write, handles
  <2>2. CASE Publish(t)
    BY <2>2 DEF Publish, handles
  <2>3. CASE Notify(t)
    BY <2>3 DEF Notify, handles
  <2>4. CASE Unlock(t)
    BY <2>4 DEF Unlock, handles
  <2> QED
    BY <2>1, <2>2, <2>3, <2>4
<1>2. promise = t /\ stage[t] # "destroy"
  BY DEF LifeInv, StageOK, Write, Publish, Notify, Unlock
<1> QED
  BY <1>1, <1>2, StageLife DEF Stages

LEMMA GetLife ==
  ASSUME LifeInv, NEW t \in Users,
         \/ Ask(t) \/ Wait(t) \/ AddWaiter(t) \/ Woken(t) \/ Read(t)
         \/ RemoveWaiter(t) \/ Unlink(t)
  PROVE  LifeInv'
<1>1. /\ \E s \in {"outside", "add", "waiting", "unlink", "inFlight", "read"} : Stage(t, s)
      /\ UNCHANGED <<allocated, mRefCount, futures, promise>>
  <2>1. CASE Ask(t) \/ Wait(t)
    BY <2>1 DEF Ask, Wait, handles
  <2>2. CASE AddWaiter(t)
    BY <2>2 DEF AddWaiter, handles
  <2>3. CASE Woken(t) \/ Read(t)
    BY <2>3 DEF Woken, Read, handles
  <2>4. CASE RemoveWaiter(t) \/ Unlink(t)
    BY <2>4 DEF RemoveWaiter, Unlink, handles
  <2> QED
    BY <2>1, <2>2, <2>3, <2>4
<1>2. futures[t] > 0 /\ stage[t] # "destroy"
  <2>1. CASE Ask(t) \/ Wait(t)
    BY <2>1 DEF Ask, Wait
  <2>2. CASE AddWaiter(t) \/ Woken(t) \/ Read(t)
    BY <2>2 DEF LifeInv, StageOK, AddWaiter, Woken, Read
  <2>3. CASE RemoveWaiter(t) \/ Unlink(t)
    BY <2>3 DEF LifeInv, StageOK, RemoveWaiter, Unlink
  <2> QED
    BY <2>1, <2>2, <2>3
<1> QED
  BY <1>1, <1>2, StageLife DEF Stages

LEMMA DropLife ==
  ASSUME LifeInv, NEW t \in Users, DropFuture(t) \/ DropPromise(t) \/ DeletePromise(t)
  PROVE  LifeInv'
<1>1. CASE DropFuture(t)
  BY <1>1, ReleaseLife DEF DropFuture
<1>2. CASE DropPromise(t)
  BY <1>2, ReleaseLife DEF DropPromise, ReleasePromise
<1>3. CASE DeletePromise(t)
  <2>1. promise = t
    BY <1>3 DEF DeletePromise, LifeInv, StageOK
  <2> QED
    BY <1>3, <2>1, ReleaseLife DEF DeletePromise, ReleasePromise
<1> QED
  BY <1>1, <1>2, <1>3

LEMMA CallStepLife ==
  ASSUME LifeInv, NEW t \in Users, CallStep(t)
  PROVE  LifeInv'
  BY DropLife, DestroyLife, SetLife, GetLife DEF CallStep

LEMMA OnPromiseLife ==
  ASSUME LifeInv, NEW t \in Users, NEW k \in [op : Ops, arg : Users, to : Users],
         stage[t] = "outside", OnPromise(t, k)
  PROVE  LifeInv'
<1>1. CASE UNCHANGED futureVars
  BY <1>1, LifeAlone DEF futureVars, handles
<1>2. CASE MakePromise(t) \/ GetFuture(t) \/ DropPromise(t)
  BY <1>2, MakePromiseLife, NewFutureLife, DropLife
<1>3. CASE promise = t /\ HandOver(t, k.to)
  BY <1>3, HandOverLife DEF HandOver
<1>4. CASE Write(t, "value") \/ Write(t, "exception")
  BY <1>4, SetLife
<1> QED
  BY <1>1, <1>2, <1>3, <1>4 DEF OnPromise

LEMMA OnFutureLife ==
  ASSUME LifeInv, NEW t \in Users, NEW k \in [op : Ops, arg : Users, to : Users],
         OnFuture(t, k)
  PROVE  LifeInv'
<1>1. CASE UNCHANGED futureVars
  BY <1>1, LifeAlone DEF futureVars, handles
<1>2. CASE CopyFuture(t, k.to) \/ DropFuture(t) \/ Ask(t) \/ Wait(t)
  BY <1>2, NewFutureLife, DropLife, GetLife
<1> QED
  BY <1>1, <1>2 DEF OnFuture

LEMMA LifeNext ==
  ASSUME LifeInv, LineOK, [Next]_tasksVars
  PROVE  LifeInv'
<1>u. Users = Threads
  BY TasksAssumption
<1>1. CASE UNCHANGED futureVars
  BY <1>1, LifeAlone DEF futureVars, handles
<1>2. ASSUME NEW t \in Threads, Call(t)
      PROVE  LifeInv'
  <2>1. PICK k \in [op : Ops, arg : Threads, to : Threads] :
          OnHandle(t, k) \/ OnPromise(t, k) \/ OnFuture(t, k) \/ OnThread(t, k)
    BY <1>2, CallIsKnown
  <2>2. stage[t] = "outside"
    BY <1>2 DEF Call, InFunction
  <2>3. CASE OnHandle(t, k) \/ OnThread(t, k)
    BY <1>1, <2>3 DEF OnHandle, OnThread
  <2> QED
    BY <1>u, <2>1, <2>2, <2>3, OnPromiseLife, OnFutureLife
<1>3. ASSUME NEW t \in Threads, FunctionReturns(t)
      PROVE  LifeInv'
  BY <1>1, <1>3 DEF FunctionReturns
<1>4. ASSUME NEW t \in Threads, InCall(t)
      PROVE  LifeInv'
  BY <1>u, <1>1, <1>4, CallStepLife DEF InCall
<1>5. ASSUME NEW t \in Threads, OtherIsSignaled(t)
      PROVE  LifeInv'
  BY <1>u, <1>5, GetLife DEF OtherIsSignaled
<1>6. ASSUME NEW t \in Threads, LeaveFunction(t) \/ NeverStarts(t)
      PROVE  LifeInv'
  <2>1. \/ DropFuture(t) \/ UNCHANGED futureVars
        \/ UNCHANGED <<allocated, mRefCount, futures, promise, stage>>
        \/ /\ promise = t /\ promise' = "lost" /\ stage[t] = "outside"
           /\ UNCHANGED <<allocated, mRefCount, futures, stage>>
    BY <1>6 DEF LeaveFunction, NeverStarts
  <2> QED
    BY <1>u, <1>1, <2>1, DropLife, LifeAlone, HandOverLife
<1> QED
  BY <1>1, <1>2, <1>3, <1>4, <1>5, <1>6 DEF Next, Step, tasksVars

LEMMA LifeInit == Init => LifeInv
<1> SUFFICES ASSUME Init
             PROVE  LifeInv
  OBVIOUS
<1>1. /\ allocated = "new" /\ mRefCount = 0 /\ promise = Nobody
      /\ futures = [t \in Users |-> 0] /\ stage = [t \in Users |-> "outside"]
  BY DEF Init, FutureInit
<1>2. futures \in [Users -> Nat] /\ stage \in [Users -> Stages]
  BY <1>1 DEF Stages
<1>3. CountOK
  <2>1. RefsOf(futures) = {}
    BY <1>1 DEF RefsOf
  <2> QED
    BY <1>1, <2>1, FS_EmptySet DEF CountOK, PromiseRefs
<1>4. (\A t \in Users : StageOK(t)) /\ ~DataIsUsed
  BY <1>1 DEF StageOK, DataIsUsed
<1> QED
  BY <1>1, <1>2, <1>3, <1>4 DEF LifeInv, FutureDataLifetime

(* Both kinds of data are there exactly as long as somebody needs them, for *)
(* any threads and whatever their programs do: the count of the references  *)
(* is the number of handles, and whoever takes the last one is alone.       *)
THEOREM DataLives == Spec => []DataLifetime
<1>1. Init => LifeInv /\ LineOK
  BY LifeInit DEF Init, LineOK
<1>2. (LifeInv /\ LineOK /\ ThreadInv) /\ [Next]_tasksVars => (LifeInv /\ LineOK)'
  BY LifeNext, ThreadNext
<1>3. LifeInv => FutureDataLifetime
  BY DEF LifeInv
<1>4. FutureDataLifetime /\ ThreadDataLifetime => DataLifetime
  BY DEF DataLifetime
<1> QED
  BY <1>1, <1>2, <1>3, <1>4, ThreadInvariance, ThreadDataLives, PTL DEF Spec

-----------------------------------------------------------------------------
(* The types. *)

\* Whoever notifies is alone, and finds somebody to notify.
EventOK ==
  /\ allocated \in {"new", "allocated", "destroyed"}
  /\ waiters \in Seq(Users) /\ detached \in Seq(Users)
  /\ \A t \in Users : stage[t] = "notify" => detached # <<>>

LEMMA EventAlone ==
  ASSUME EventOK, LifeInv, NEW t \in Users, NEW s \in Stages \ {"notify"}, Stage(t, s),
         allocated' \in {"new", "allocated", "destroyed"}, UNCHANGED <<waiters, detached>>
  PROVE  EventOK'
  BY DEF EventOK, LifeInv, Stage

LEMMA ReleaseEvent ==
  ASSUME EventOK, LifeInv, NEW t \in Users, Release(t), UNCHANGED <<allocated, eventState>>
  PROVE  EventOK'
<1>1. \E s \in {"destroy", "outside"} : Stage(t, s)
  BY DEF Release
<1> QED
  BY <1>1, EventAlone DEF Stages, eventState, EventOK

\* The promise is set once and by one thread: nobody else is notifying.
LEMMA PublishEvent ==
  ASSUME EventOK, LifeInv, NEW t \in Users, Publish(t)
  PROVE  EventOK'
<1>a. CASE Stage(t, "spin") /\ UNCHANGED <<waiters, detached>>
  BY <1>a, EventAlone DEF Publish, Stages, EventOK
<1>b. CASE /\ detached' = waiters /\ waiters' = <<>>
           /\ Stage(t, IF waiters = <<>> THEN "delete" ELSE "notify")
  <2>1. \A u \in Users \ {t} : stage[u] # "notify" /\ stage'[u] = stage[u]
    BY <1>b DEF Publish, Stage, LifeInv, StageOK
  <2>2. stage'[t] = "notify" => waiters # <<>>
    BY <1>b DEF Stage, LifeInv
  <2>3. allocated' = allocated
    BY DEF Publish
  <2> QED
    BY <1>b, <2>1, <2>2, <2>3 DEF EventOK
<1> QED
  BY <1>a, <1>b DEF Publish

LEMMA NotifyEvent ==
  ASSUME EventOK, LifeInv, NEW t \in Users, Notify(t)
  PROVE  EventOK'
<1>1. \A u \in Users \ {t} : stage[u] # "notify" /\ stage'[u] = stage[u]
  BY DEF Notify, Stage, LifeInv, StageOK
<1>2. /\ detached # <<>> /\ detached' = Tail(detached)
      /\ waiters' = waiters /\ allocated' = allocated
  BY DEF Notify, EventOK
<1>3. stage'[t] = "notify" => detached' # <<>>
  BY DEF Notify, Stage, LifeInv
<1> QED
  BY <1>1, <1>2, <1>3 DEF EventOK

LEMMA AddEvent ==
  ASSUME EventOK, LifeInv, NEW t \in Users, AddWaiter(t)
  PROVE  EventOK'
<1>1. /\ allocated' = allocated /\ detached' = detached
      /\ waiters' = waiters \/ waiters' = <<t>> \o waiters
  BY DEF AddWaiter
<1>2. waiters' \in Seq(Users)
  <2>1. waiters \in Seq(Users) /\ <<t>> \in Seq(Users)
    BY DEF EventOK
  <2>2. <<t>> \o waiters \in Seq(Users)
    BY <2>1
  <2> QED
    BY <1>1, <2>1, <2>2
<1>3. \A u \in Users : stage'[u] = "notify" => stage[u] = "notify"
  BY DEF AddWaiter, Stage, LifeInv
<1> QED
  BY <1>1, <1>2, <1>3 DEF EventOK

LEMMA RemoveEvent ==
  ASSUME EventOK, LifeInv, NEW t \in Users, RemoveWaiter(t) \/ Unlink(t)
  PROVE  EventOK'
<1>1. waiters \in Seq(Users)
  BY DEF EventOK
<1>2. \A i \in DOMAIN waiters : RemoveAt(waiters, i) \in Seq(Users)
  BY <1>1 DEF RemoveAt
<1>3. waiters # <<>> => Tail(waiters) \in Seq(Users)
  BY <1>1
<1>4. waiters' \in Seq(Users)
  BY <1>1, <1>2, <1>3 DEF RemoveWaiter, Unlink
<1>5. \A u \in Users : stage'[u] = "notify" => stage[u] = "notify"
  BY DEF RemoveWaiter, Unlink, Stage, LifeInv
<1>6. UNCHANGED <<allocated, detached>>
  BY DEF RemoveWaiter, Unlink
<1> QED
  BY <1>4, <1>5, <1>6 DEF EventOK

LEMMA CallStepEvent ==
  ASSUME EventOK, LifeInv, NEW t \in Users, CallStep(t)
  PROVE  EventOK'
<1>1. CASE DeletePromise(t)
  BY <1>1, ReleaseEvent DEF DeletePromise, ReleasePromise
<1>2. CASE Destroy(t)
  BY <1>2, EventAlone DEF Destroy, eventState, Stages
<1>3. CASE Unlock(t)
  BY <1>3, EventAlone DEF Unlock, eventState, Stages, EventOK
<1>4. CASE Woken(t)
  BY <1>4, EventAlone DEF Woken, Stages, EventOK
<1>5. CASE Read(t)
  BY <1>5, EventAlone DEF Read, eventState, Stages, EventOK
<1> QED
  BY <1>1, <1>2, <1>3, <1>4, <1>5, PublishEvent, NotifyEvent, AddEvent, RemoveEvent
  DEF CallStep

LEMMA HandleEvent ==
  ASSUME EventOK, LifeInv, NEW t \in Users, NEW u,
         \/ MakePromise(t) \/ GetFuture(t) \/ CopyFuture(t, u) \/ HandOver(t, u)
         \/ DropFuture(t) \/ DropPromise(t) \/ Ask(t) \/ Wait(t)
         \/ \E r \in {"value", "exception"} : Write(t, r)
  PROVE  EventOK'
<1>1. CASE MakePromise(t) \/ GetFuture(t) \/ CopyFuture(t, u) \/ HandOver(t, u)
  BY <1>1 DEF MakePromise, GetFuture, CopyFuture, HandOver, eventState, EventOK
<1>2. CASE DropFuture(t) \/ DropPromise(t)
  BY <1>2, ReleaseEvent DEF DropFuture, DropPromise, ReleasePromise
<1>3. CASE Ask(t) \/ Wait(t) \/ \E r \in {"value", "exception"} : Write(t, r)
  <2>1. \E s \in {"read", "outside", "add", "publish"} : Stage(t, s)
    BY <1>3 DEF Ask, Wait, Write
  <2>2. UNCHANGED <<allocated, waiters, detached>>
    BY <1>3 DEF Ask, Wait, Write, eventState
  <2> QED
    BY <2>1, <2>2, EventAlone DEF Stages, EventOK
<1> QED
  BY <1>1, <1>2, <1>3

ProgramOK ==
  /\ \A t \in Threads : line[t] <= Len(Program[t]) + 1
  /\ gaveUp \subseteq Threads

LEMMA ProgramNext ==
  ASSUME ProgramOK, LineOK, [Next]_tasksVars
  PROVE  ProgramOK'
<1>1. CASE UNCHANGED programVars
  BY <1>1 DEF ProgramOK, programVars
<1>2. ASSUME NEW t \in Threads, Call(t)
      PROVE  ProgramOK'
  <2>1. PICK k \in [op : Ops, arg : Threads, to : Threads] :
          OnHandle(t, k) \/ OnPromise(t, k) \/ OnFuture(t, k) \/ OnThread(t, k)
    BY <1>2, CallIsKnown
  <2>2. gaveUp' \subseteq Threads
    BY <2>1 DEF ProgramOK, OnHandle, OnPromise, OnFuture, OnThread
  <2>3. Program[t] \in Seq(SUBSET [op : Ops, arg : Threads, to : Threads])
    BY TasksAssumption
  <2>4. Len(Program[t]) \in Nat
    BY <2>3
  <2>5. line[t] \in Nat /\ line[t] <= Len(Program[t])
        /\ line'[t] = line[t] + 1 /\ \A u \in Threads \ {t} : line'[u] = line[u]
    BY <1>2 DEF Call, LineOK
  <2>6. ASSUME NEW u \in Threads
        PROVE  line'[u] <= Len(Program[u]) + 1
    <3>1. CASE u = t
      BY <2>4, <2>5, <3>1
    <3>2. CASE u # t
      BY <2>5, <3>2 DEF ProgramOK
    <3> QED
      BY <3>1, <3>2
  <2> QED
    BY <2>2, <2>6 DEF ProgramOK
<1> QED
  BY <1>1, <1>2
  DEF Next, Step, FunctionReturns, InCall, LeaveFunction, NeverStarts, OtherIsSignaled, tasksVars

LEMMA EventNext ==
  ASSUME EventOK, LifeInv, LineOK, [Next]_tasksVars
  PROVE  EventOK'
<1>u. Users = Threads
  BY TasksAssumption
<1>1. CASE UNCHANGED <<allocated, waiters, detached, stage>>
  BY <1>1 DEF EventOK
<1>2. ASSUME NEW t \in Threads, Call(t)
      PROVE  EventOK'
  <2>1. PICK k \in [op : Ops, arg : Threads, to : Threads] :
          OnHandle(t, k) \/ OnPromise(t, k) \/ OnFuture(t, k) \/ OnThread(t, k)
    BY <1>2, CallIsKnown
  <2>2. CASE UNCHANGED futureVars
    BY <1>1, <2>2 DEF futureVars, eventState
  <2>3. CASE OnPromise(t, k)
    BY <1>u, <2>2, <2>3, HandleEvent DEF OnPromise
  <2>4. CASE OnFuture(t, k)
    BY <1>u, <2>2, <2>4, HandleEvent DEF OnFuture
  <2> QED
    BY <2>1, <2>2, <2>3, <2>4 DEF OnHandle, OnThread
<1>3. ASSUME NEW t \in Threads, InCall(t)
      PROVE  EventOK'
  BY <1>u, <1>1, <1>3, CallStepEvent DEF InCall, futureVars, eventState
<1>4. ASSUME NEW t \in Threads, OtherIsSignaled(t)
      PROVE  EventOK'
  BY <1>u, <1>4, RemoveEvent DEF OtherIsSignaled
<1>5. ASSUME NEW t \in Threads, FunctionReturns(t) \/ LeaveFunction(t) \/ NeverStarts(t)
      PROVE  EventOK'
  <2>1. DropFuture(t) \/ UNCHANGED <<allocated, waiters, detached, stage>>
    BY <1>5 DEF FunctionReturns, LeaveFunction, NeverStarts, futureVars, eventState
  <2> QED
    BY <1>u, <1>1, <2>1, HandleEvent
<1> QED
  BY <1>1, <1>2, <1>3, <1>4, <1>5 DEF Next, Step, tasksVars, futureVars, eventState

(* Every variable of the threads, the promise and its futures keeps its     *)
(* type, for any threads and whatever their programs do: no count is ever   *)
(* below zero, and nobody notifies the first of no waiters.                 *)
THEOREM TasksTypeCorrect == Spec => []TypeOK
<1>1. Init => ThreadInv /\ ResultInv /\ LifeInv /\ EventOK /\ ProgramOK /\ LineOK
  <2> SUFFICES ASSUME Init
               PROVE  ResultInv /\ EventOK /\ ProgramOK
    BY ThreadInvInit, LifeInit DEF Init, LineOK
  <2>1. EventOK
    BY DEF Init, FutureInit, EventOK
  <2>2. ProgramOK
    <3>1. \A t \in Threads : Program[t] \in Seq(SUBSET [op : Ops, arg : Threads, to : Threads])
      BY TasksAssumption
    <3>2. \A t \in Threads : Len(Program[t]) \in Nat
      BY <3>1
    <3> QED
      BY <3>2 DEF Init, ProgramOK
  <2> QED
    BY <2>1, <2>2, ResultInit
<1>2. /\ ThreadInv /\ ResultInv /\ LifeInv /\ EventOK /\ ProgramOK /\ LineOK
      /\ [Next]_tasksVars
      => (ThreadInv /\ ResultInv /\ LifeInv /\ EventOK /\ ProgramOK /\ LineOK)'
  BY ThreadNext, ResultNext, LifeNext, EventNext, ProgramNext
<1>3. ThreadInv /\ ResultInv /\ LifeInv /\ EventOK /\ ProgramOK /\ LineOK => TypeOK
  <2> SUFFICES ASSUME ThreadInv, ResultInv, LifeInv, EventOK, ProgramOK, LineOK
               PROVE  TypeOK
    OBVIOUS
  <2>1. mRefCount \in Nat
    BY NoneLeft DEF LifeInv, CountOK, PromiseRefs
  <2>2. FutureTypeOK
    BY <2>1 DEF ResultInv, LifeInv, EventOK, FutureTypeOK
  <2>3. \A t \in Threads : line[t] \in 1 .. Len(Program[t]) + 1
    <3>1. \A t \in Threads : Program[t] \in Seq(SUBSET [op : Ops, arg : Threads, to : Threads])
      BY TasksAssumption
    <3>2. \A t \in Threads : Len(Program[t]) \in Nat
      BY <3>1
    <3> QED
      BY <3>2 DEF LineOK, ProgramOK
  <2> QED
    BY <2>2, <2>3 DEF ThreadInv, ProgramOK, TypeOK
<1> QED
  BY <1>1, <1>2, <1>3, PTL DEF Spec

=============================================================================
