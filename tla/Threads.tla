------------------------------ MODULE Threads -------------------------------
(***************************************************************************)
(* Thread, its handle, and Thread::Data, which the handle, the data itself *)
(* and the running thread share: the thread starts with a plain pointer to *)
(* the data, and the reference that the data has to itself keeps it there  *)
(* until the thread has made its own, whatever becomes of the handle.      *)
(* Cancel sets a flag that the thread sees at its cancellation points.     *)
(***************************************************************************)
EXTENDS Integers, FiniteSets

CONSTANTS
  Threads,
  Main,         (* the thread that is there at the beginning                 *)
  NoThread,
  MayFail,      (* threads that the operating system may refuse to create    *)
  Catchers      (* threads whose function catches what is thrown in it       *)

Children == Threads \ {Main}

ASSUME ThreadsAssumption ==
  /\ Main \in Threads /\ NoThread \notin Threads
  /\ MayFail \subseteq Children /\ Catchers \subseteq Threads

VARIABLES
  refs,         (* per thread: who has a reference to its data               *)
  handle,       (* per thread: the thread that has its Thread object         *)
  native,       (* per thread: what the operating system knows of it         *)
  pc,
  target,       (* per thread: the thread it creates or joins                *)
  cancellationRequested,
  cancellationEnabled,
  canceled,
  terminated    (* std::terminate has been called                            *)

flags == <<cancellationRequested, cancellationEnabled, canceled>>
threadVars == <<refs, handle, native, pc, target, flags, terminated>>

Goto(t, label) == pc' = [pc EXCEPT ![t] = label]

\* A shared_ptr is reset; the data goes with the last one.
Reset(c, holder) == refs' = [refs EXCEPT ![c] = @ \ {holder}]

\* tCurrent is null in a thread that the library has not created.
Current(t) == t # Main /\ pc[t] \notin {"none", "native", "copied"}

Throw(t) == Goto(t, "unwind")

-----------------------------------------------------------------------------
(* Create *)

\* A thread of the model is created once; one that was refused is not tried again.
CreateData(t, c) ==
  /\ pc[t] = "body" /\ native[c] = "none" /\ pc[c] = "none" /\ handle[c] = NoThread
  /\ refs' = [refs EXCEPT ![c] = {"mData", "self"}]
  /\ handle' = [handle EXCEPT ![c] = t]
  /\ target' = [target EXCEPT ![t] = c]
  /\ Goto(t, "create")
  /\ UNCHANGED <<native, flags, terminated>>

CreateNative(t) ==
  /\ pc[t] = "create"
  /\ native' = [native EXCEPT ![target[t]] = "joinable"]
  /\ pc' = [pc EXCEPT ![target[t]] = "native", ![t] = "setId"]
  /\ UNCHANGED <<refs, handle, target, flags, terminated>>

\* A bug: the data keeps its reference to itself.
CreateFailsAndLeaks(t) ==
  /\ pc[t] = "create" /\ target[t] \in MayFail
  /\ refs' = [refs EXCEPT ![target[t]] = @ \ {"mData"}]
  /\ handle' = [handle EXCEPT ![target[t]] = NoThread]
  /\ native' = [native EXCEPT ![target[t]] = "refused"]
  /\ Throw(t)
  /\ UNCHANGED <<target, flags, terminated>>

\* ThreadResourceError
CreateFails(t) ==
  /\ pc[t] = "create" /\ target[t] \in MayFail
  /\ refs' = [refs EXCEPT ![target[t]] = @ \ {"self", "mData"}]
  /\ handle' = [handle EXCEPT ![target[t]] = NoThread]
  /\ native' = [native EXCEPT ![target[t]] = "refused"]
  /\ Throw(t)
  /\ UNCHANGED <<target, flags, terminated>>

SetId(t) ==
  /\ pc[t] = "setId"
  /\ Goto(t, "body")
  /\ UNCHANGED <<refs, handle, native, target, flags, terminated>>

-----------------------------------------------------------------------------
(* The handle of thread c, which t has.  Its calls do nothing without data. *)

Cancel(t, c) ==
  /\ handle[c] = t
  /\ cancellationRequested' = cancellationRequested \cup {c}
  /\ UNCHANGED <<refs, handle, native, pc, target, cancellationEnabled, canceled, terminated>>

\* mData is reset, and the thread is not to be joined any more.
Forget(c, state) ==
  /\ handle' = [handle EXCEPT ![c] = NoThread]
  /\ native' = [native EXCEPT ![c] = state]
  /\ Reset(c, "mData")

Detach(t, c) ==
  /\ handle[c] = t
  /\ Forget(c, "detached")
  /\ UNCHANGED <<pc, target, flags, terminated>>

\* ~Thread: Cancel and Detach.  Nobody can tell the two apart.
DestroyHandle(t, c) ==
  /\ handle[c] = t
  /\ cancellationRequested' = cancellationRequested \cup {c}
  /\ Forget(c, "detached")
  /\ UNCHANGED <<pc, target, cancellationEnabled, canceled, terminated>>

\* The handle is assigned another one: mData goes, and nothing else happens.
Overwrite(t, c) ==
  /\ handle[c] = t
  /\ Forget(c, native[c])
  /\ UNCHANGED <<pc, target, flags, terminated>>

Move(t, c, u) ==
  /\ handle[c] = t /\ u # c
  /\ handle' = [handle EXCEPT ![c] = u]
  /\ UNCHANGED <<refs, native, pc, target, flags, terminated>>

-----------------------------------------------------------------------------
(* Cancellation *)

MustCancel(t) == Current(t) /\ t \in cancellationRequested /\ t \notin canceled

\* ThreadCancellationPoint, after which the caller goes on to a label.  The
\* policy of the thread is not asked.
CancellationPoint(t, label) ==
  \/ /\ MustCancel(t)
     /\ canceled' = canceled \cup {t}
     /\ Throw(t)
  \/ /\ ~MustCancel(t)
     /\ Goto(t, label)
     /\ UNCHANGED canceled

TestCancel(t) ==
  /\ pc[t] = "body"
  /\ CancellationPoint(t, "body")
  /\ UNCHANGED <<refs, handle, native, target, cancellationRequested, cancellationEnabled,
                 terminated>>

SetThreadCancellationPolicy(t, enable) ==
  /\ pc[t] = "body"
  /\ cancellationEnabled' =
       IF ~Current(t) THEN cancellationEnabled
       ELSE IF enable THEN cancellationEnabled \cup {t} ELSE cancellationEnabled \ {t}
  /\ UNCHANGED <<refs, handle, native, pc, target, cancellationRequested, canceled, terminated>>

-----------------------------------------------------------------------------
(* Join *)

JoinBegin(t, c) ==
  /\ pc[t] = "body"
  /\ CancellationPoint(t, IF handle[c] = t THEN "join" ELSE "body")
  /\ target' = [target EXCEPT ![t] = c]
  /\ UNCHANGED <<refs, handle, native, cancellationRequested, cancellationEnabled, terminated>>

\* A bug: the handle keeps mData.
JoinKeeps(t) ==
  /\ pc[t] = "join" /\ pc[target[t]] = "ended"
  /\ native' = [native EXCEPT ![target[t]] = "joined"]
  /\ Goto(t, "body")
  /\ UNCHANGED <<refs, handle, target, flags, terminated>>

JoinEnd(t) ==
  /\ pc[t] = "join" /\ pc[target[t]] = "ended"
  /\ Forget(target[t], "joined")
  /\ Goto(t, "body")
  /\ UNCHANGED <<target, flags, terminated>>

-----------------------------------------------------------------------------
(* EntryPoint *)

CopySelf(t) ==
  /\ pc[t] = "native"
  /\ refs' = [refs EXCEPT ![t] = @ \cup {"data"}]
  /\ Goto(t, "copied")
  /\ UNCHANGED <<handle, native, target, flags, terminated>>

ResetSelf(t) ==
  /\ pc[t] = "copied"
  /\ Reset(t, "self")
  /\ Goto(t, "body")
  /\ UNCHANGED <<handle, native, target, flags, terminated>>

\* The function of the thread returns: its handles are destroyed on the way.
Return(t) ==
  /\ pc[t] = "body"
  /\ Goto(t, "return")
  /\ UNCHANGED <<refs, handle, native, target, flags, terminated>>

Unwind(t) == pc[t] \in {"unwind", "return"} /\ \E c \in Children : DestroyHandle(t, c)

NoHandles(t) == \A c \in Threads : handle[c] # t

\* catch (...): an exception that the function does not catch ends the program.
Terminate(t) ==
  /\ pc[t] = "unwind" /\ NoHandles(t) /\ t \notin Catchers
  /\ terminated' = TRUE
  /\ Goto(t, "return")
  /\ UNCHANGED <<refs, handle, native, target, flags>>

\* data goes out of scope, and the operating system learns that the thread has ended.
End(t) ==
  /\ pc[t] = "return" \/ (pc[t] = "unwind" /\ t \in Catchers)
  /\ NoHandles(t)
  /\ Reset(t, "data")
  /\ Goto(t, "ended")
  /\ UNCHANGED <<handle, native, target, flags, terminated>>

ThreadStep(t) ==
  \/ CreateNative(t) \/ CreateFails(t) \/ SetId(t) \/ JoinEnd(t)
  \/ CopySelf(t) \/ ResetSelf(t)

-----------------------------------------------------------------------------
ThreadInit ==
  /\ refs = [t \in Threads |-> {}]
  /\ handle = [t \in Threads |-> NoThread]
  /\ native = [t \in Threads |-> "none"]
  /\ pc = [t \in Threads |-> IF t = Main THEN "body" ELSE "none"]
  /\ target = [t \in Threads |-> t]
  /\ cancellationRequested = {} /\ cancellationEnabled = Children /\ canceled = {}
  /\ terminated = FALSE

ThreadTypeOK ==
  /\ refs \in [Threads -> SUBSET {"mData", "self", "data"}]
  /\ handle \in [Threads -> Threads \cup {NoThread}]
  /\ native \in [Threads -> {"none", "refused", "joinable", "joined", "detached"}]
  /\ pc \in [Threads -> {"none", "create", "setId", "native", "copied", "body", "join",
                         "return", "unwind", "ended"}]
  /\ target \in [Threads -> Threads]
  /\ cancellationRequested \subseteq Children
  /\ cancellationEnabled \subseteq Children
  /\ canceled \subseteq cancellationRequested
  /\ terminated \in BOOLEAN

\* Who needs the data of c: its handle, and the thread from its first step to its last.
ThreadDataIsUsed(c) ==
  handle[c] # NoThread \/ pc[c] \notin {"none", "ended"}

(* Thread::Data outlives the handle if the thread goes on, and the thread   *)
(* if the handle stays, also when the handle goes before the thread has     *)
(* taken its first step; and afterwards, or when the thread could not be    *)
(* created, the data does not keep itself alive.                            *)
ThreadDataLifetime == \A c \in Children : refs[c] # {} <=> ThreadDataIsUsed(c)

(* "CRUNCH_ASSERT_ALWAYS(pthread_join(...) == 0)": a thread is joined or    *)
(* detached by a handle that is there only as long as neither has happened. *)
HandleIsJoinable == \A c \in Children :
  handle[c] # NoThread =>
    native[c] = "joinable" \/ (native[c] = "none" /\ pc[handle[c]] = "create")

=============================================================================
