----------------------------- MODULE ThreadPool -----------------------------
(***************************************************************************)
(* ThreadPool: a queue of tasks, up to mMaxThreadCount worker threads that *)
(* are created on demand, and a destructor that stops and joins them.  All *)
(* of the state is protected by mLock, except that a worker looks at mStop *)
(* without the lock before each round; what happens under the lock between *)
(* two waits is one step.                                                  *)
(*                                                                         *)
(* A task sets the value of its promise and ends, or it throws.  A thread  *)
(* that waits for the condition may wake up for no reason.                 *)
(***************************************************************************)
EXTENDS Integers, Sequences, FiniteSets

CONSTANTS
  Tasks,        (* the tasks that are posted                                 *)
  Throwing,     (* the tasks that throw                                      *)
  Workers,      (* names for the threads the pool creates                    *)
  mMaxThreadCount

NoTask == "none"

ASSUME ThreadPoolAssumption ==
  /\ Throwing \subseteq Tasks /\ NoTask \notin Tasks
  /\ IsFiniteSet(Workers)
  /\ mMaxThreadCount \in 0 .. Cardinality(Workers)

VARIABLES
  mWork,        (* the queue                                                 *)
  mStop,
  mIdleThreadCount,
  mThreads,     (* the workers that have been created, in order              *)
  sleeping,     (* the workers that wait for mHasWork and have not been woken *)
  pc,           (* where each worker is; "none": not created                 *)
  task,         (* the task each worker has taken                            *)
  unposted,     (* the tasks that have not been posted                       *)
  refused,      (* the tasks whose Post has thrown                           *)
  outcome,      (* of each task: "none", "value" or "exception"              *)
  runs,         (* how often each task has been run                          *)
  destructor    (* where the destructor is                                   *)

poolVars == <<mWork, mStop, mIdleThreadCount, mThreads, sleeping, pc, task,
              unposted, refused, outcome, runs, destructor>>

Goto(w, label) == pc' = [pc EXCEPT ![w] = label]

-----------------------------------------------------------------------------
(* Post: AddWorkItem, called by any thread while the pool exists. *)

\* WakeOne: any one of the waiting workers.
WakeOne ==
  \/ sleeping = {} /\ UNCHANGED sleeping
  \/ \E w \in sleeping : sleeping' = sleeping \ {w}

\* No worker waits, and there may be more of them.
NeedsWorker == mIdleThreadCount = 0 /\ Len(mThreads) < mMaxThreadCount

CreateWorker ==
  /\ NeedsWorker
  /\ \E w \in Workers :
       /\ pc[w] = "none"
       /\ mThreads' = Append(mThreads, w)
       /\ Goto(w, "checkStop")
  /\ UNCHANGED <<sleeping, refused>>

(* The thread cannot be created: ThreadResourceError leaves Post, the lock  *)
(* is given back, and the task is in the queue already.                     *)
CreationFails(t) ==
  /\ NeedsWorker
  /\ refused' = refused \cup {t}
  /\ UNCHANGED <<mThreads, pc, sleeping>>

\* A bug: the task is queued and nobody is told.
AddSilently(t) ==
  /\ mWork' = Append(mWork, t)
  /\ \/ CreateWorker
     \/ CreationFails(t)
     \/ ~NeedsWorker /\ UNCHANGED <<mThreads, pc, sleeping, refused>>

AddWorkItem(t) ==
  /\ mWork' = Append(mWork, t)
  /\ \/ CreateWorker
     \/ CreationFails(t)
     \/ ~NeedsWorker /\ WakeOne /\ UNCHANGED <<mThreads, pc, refused>>

Post(t) ==
  /\ destructor = "none"
  /\ t \in unposted
  /\ AddWorkItem(t)
  /\ unposted' = unposted \ {t}
  /\ UNCHANGED <<mStop, mIdleThreadCount, task, outcome, runs, destructor>>

-----------------------------------------------------------------------------
(* The workers. *)

\* while (!mStop), without the lock.
CheckStop(w) ==
  /\ pc[w] = "checkStop"
  /\ Goto(w, IF mStop THEN "exited" ELSE "enter")
  /\ UNCHANGED <<mWork, mStop, mIdleThreadCount, mThreads, sleeping, task, unposted,
                 refused, outcome, runs, destructor>>

\* A bug: the task stays in the queue while it runs.
TakeFirst(w, idle) ==
  /\ task' = [task EXCEPT ![w] = Head(mWork)]
  /\ UNCHANGED mWork
  /\ mIdleThreadCount' = idle - 1
  /\ Goto(w, "run")
  /\ UNCHANGED sleeping

\* Under the lock, with the count of idle threads the worker has set: take a task ...
TakeTask(w, idle) ==
  /\ task' = [task EXCEPT ![w] = Head(mWork)]
  /\ mWork' = Tail(mWork)
  /\ mIdleThreadCount' = idle - 1
  /\ Goto(w, "run")
  /\ UNCHANGED sleeping

\* ... or wait for mHasWork.
Sleep(w, idle) ==
  /\ sleeping' = sleeping \cup {w}
  /\ mIdleThreadCount' = idle
  /\ Goto(w, "wait")
  /\ UNCHANGED <<task, mWork>>

TakeOrSleep(w, idle) ==
  IF mWork = <<>> THEN Sleep(w, idle) ELSE TakeTask(w, idle)

\* A bug: the worker does not count itself.
EnterUncounted(w) ==
  /\ pc[w] = "enter"
  /\ TakeOrSleep(w, mIdleThreadCount)
  /\ UNCHANGED <<mStop, mThreads, unposted, refused, outcome, runs, destructor>>

Enter(w) ==
  /\ pc[w] = "enter"
  /\ TakeOrSleep(w, mIdleThreadCount + 1)
  /\ UNCHANGED <<mStop, mThreads, unposted, refused, outcome, runs, destructor>>

SpuriousWakeup(w) ==
  /\ w \in sleeping
  /\ sleeping' = sleeping \ {w}
  /\ UNCHANGED <<mWork, mStop, mIdleThreadCount, mThreads, pc, task, unposted, refused,
                 outcome, runs, destructor>>

\* A worker that has been woken has the lock again.
Resume(w) ==
  /\ pc[w] = "wait" /\ w \notin sleeping
  /\ \/ /\ mStop
        /\ mIdleThreadCount' = mIdleThreadCount - 1
        /\ Goto(w, "exited")
        /\ UNCHANGED <<mWork, task, sleeping>>
     \/ ~mStop /\ TakeOrSleep(w, mIdleThreadCount)
  /\ UNCHANGED <<mStop, mThreads, unposted, refused, outcome, runs, destructor>>

\* Runner: the task sets the value of its promise, or throws and never does.
Invoke(t) ==
  /\ runs' = [runs EXCEPT ![t] = @ + 1]
  /\ outcome' = [outcome EXCEPT ![t] = IF t \in Throwing THEN "exception" ELSE "value"]

\* A bug: a worker whose task throws is lost.
RunUncaught(w) ==
  /\ pc[w] = "run"
  /\ Invoke(task[w])
  /\ task' = [task EXCEPT ![w] = NoTask]
  /\ Goto(w, IF task[w] \in Throwing THEN "exited" ELSE "checkStop")
  /\ UNCHANGED <<mWork, mStop, mIdleThreadCount, mThreads, sleeping, unposted, refused,
                 destructor>>

Run(w) ==
  /\ pc[w] = "run"
  /\ Invoke(task[w])
  /\ task' = [task EXCEPT ![w] = NoTask]
  /\ Goto(w, "checkStop")
  /\ UNCHANGED <<mWork, mStop, mIdleThreadCount, mThreads, sleeping, unposted, refused,
                 destructor>>

-----------------------------------------------------------------------------
(* The destructor. *)

Stop ==
  /\ destructor = "none"
  /\ unposted = {}
  /\ mStop' = TRUE
  /\ sleeping' = {}
  /\ destructor' = "join"
  /\ UNCHANGED <<mWork, mIdleThreadCount, mThreads, pc, task, unposted, refused, outcome,
                 runs>>

\* A bug: only the first worker is joined.
JoinFirst ==
  /\ destructor = "join"
  /\ mThreads # <<>> => pc[Head(mThreads)] = "exited"
  /\ destructor' = "drain"
  /\ UNCHANGED <<mWork, mStop, mIdleThreadCount, mThreads, sleeping, pc, task, unposted,
                 refused, outcome, runs>>

\* Every worker is joined.
Join ==
  /\ destructor = "join"
  /\ \A i \in DOMAIN mThreads : pc[mThreads[i]] = "exited"
  /\ destructor' = "drain"
  /\ UNCHANGED <<mWork, mStop, mIdleThreadCount, mThreads, sleeping, pc, task, unposted,
                 refused, outcome, runs>>

(* The tasks that are left are run by the thread that destroys the pool.    *)
(* Nothing catches what they throw: the exception leaves the destructor.    *)
Drain ==
  /\ destructor = "drain"
  /\ \/ /\ mWork # <<>>
        /\ Invoke(Head(mWork))
        /\ mWork' = Tail(mWork)
        /\ destructor' = IF Head(mWork) \in Throwing THEN "terminated" ELSE "drain"
     \/ /\ mWork = <<>>
        /\ destructor' = "done"
        /\ UNCHANGED <<mWork, outcome, runs>>
  /\ UNCHANGED <<mStop, mIdleThreadCount, mThreads, sleeping, pc, task, unposted,
                 refused>>

-----------------------------------------------------------------------------
Init ==
  /\ mWork = <<>>
  /\ mStop = FALSE
  /\ mIdleThreadCount = 0
  /\ mThreads = <<>>
  /\ sleeping = {}
  /\ pc = [w \in Workers |-> "none"]
  /\ task = [w \in Workers |-> NoTask]
  /\ unposted = Tasks
  /\ refused = {}
  /\ outcome = [t \in Tasks |-> "none"]
  /\ runs = [t \in Tasks |-> 0]
  /\ destructor = "none"

Worker(w) == CheckStop(w) \/ Enter(w) \/ Resume(w) \/ Run(w)

Destructor == Stop \/ Join \/ Drain

(* The destructor has returned, or it waits for a worker that sleeps.       *)
Halted ==
  \/ destructor \in {"done", "terminated"}
  \/ destructor = "join" /\ \A w \in Workers : pc[w] \in {"none", "exited"} \/ w \in sleeping

Next ==
  \/ \E t \in Tasks : Post(t)
  \/ \E w \in Workers : Worker(w) \/ SpuriousWakeup(w)
  \/ Destructor
  \/ Halted /\ UNCHANGED poolVars

Spec == Init /\ [][Next]_poolVars

(* The operating system runs every thread that can run; a task that has     *)
(* been started ends.  Nothing obliges the program to destroy the pool.     *)
FairSpec ==
  /\ Spec
  /\ \A w \in Workers : WF_poolVars(Worker(w))
  /\ WF_poolVars(Join \/ Drain)

-----------------------------------------------------------------------------
(* Properties. *)

\* Every variable keeps its type.
TypeOK ==
  /\ mWork \in Seq(Tasks)
  /\ mStop \in BOOLEAN
  /\ mIdleThreadCount \in 0 .. mMaxThreadCount
  /\ mThreads \in Seq(Workers) /\ Len(mThreads) <= mMaxThreadCount
  /\ sleeping \subseteq Workers
  /\ pc \in [Workers -> {"none", "checkStop", "enter", "wait", "run", "exited"}]
  /\ task \in [Workers -> Tasks \cup {NoTask}]
  /\ unposted \subseteq Tasks /\ refused \subseteq Tasks
  /\ outcome \in [Tasks -> {"none", "value", "exception"}]
  /\ runs \in [Tasks -> Nat]
  /\ destructor \in {"none", "join", "drain", "done", "terminated"}

(* A posted task is in one place: once in the queue, or with one worker, or *)
(* run, whoever runs it, a worker or the destructor.                        *)
RunOnce == \A t \in Tasks :
  Cardinality({i \in DOMAIN mWork : mWork[i] = t})
  + Cardinality({w \in Workers : task[w] = t}) + runs[t]
    = IF t \in unposted THEN 0 ELSE 1

\* A worker that will look at the queue before it sleeps.
Awake(w) == pc[w] \in {"checkStop", "enter", "run"} \/ (pc[w] = "wait" /\ w \notin sleeping)

(* No wakeup is lost: while there is work, some worker is awake, although   *)
(* WakeOne may find that the workers counted as idle have all been woken    *)
(* already, and although a Post may have thrown.  Only a pool that has no   *)
(* worker at all has work that nobody attends to, and then each Post for it *)
(* has thrown.                                                              *)
WorkIsAttended ==
  mWork # <<>> /\ ~mStop /\ mMaxThreadCount > 0 =>
    \/ \E w \in Workers : Awake(w)
    \/ mThreads = <<>> /\ \A i \in DOMAIN mWork : mWork[i] \in refused

(* When the destructor has returned, no worker is left that could use the   *)
(* pool, and every task has been run.                                       *)
QuietWhenDestroyed ==
  /\ destructor \in {"drain", "done", "terminated"} =>
       \A w \in Workers : pc[w] \in {"none", "exited"}
  /\ destructor = "done" => \A t \in Tasks : outcome[t] # "none"

\* The Post of the task has thrown, and the pool has not created a worker since.
Unattended(t) == t \in refused /\ mThreads = <<>> /\ destructor = "none"

(* Every task that is posted is run, if the pool is not destroyed and if it *)
(* is, also one whose Post has thrown: by the first worker that is created  *)
(* later, or by the destructor.  Only a task that is left to the destructor *)
(* and throws keeps the others from being run.                              *)
EveryTaskRuns == \A t \in Tasks :
  t \notin unposted ~> (runs[t] = 1 \/ destructor = "terminated" \/ Unattended(t))

(* The pool can be destroyed (thread_pool_tests.cpp: "ThreadPool tp(1);", a *)
(* local variable): the destructor joins all its workers.                   *)
DestructorJoins == destructor = "join" ~> destructor # "join"

=============================================================================
