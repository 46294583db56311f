--------------------------- MODULE MetaScheduler ----------------------------
(***************************************************************************)
(* MetaScheduler::Context::Run: a thread takes an idle meta thread, runs   *)
(* the schedulers until an event is set, and gives the meta thread back.   *)
(* A scheduler without work leaves a waiter on its has-work condition,     *)
(* whose callback makes it active again.  The events of the callers and    *)
(* the conditions of the schedulers are events as module Event has them,   *)
(* in larger steps: a waiter is added, or removed from the front, in one;  *)
(* one that is not the first is removed while the list is locked; the      *)
(* callbacks of a Set follow one by one while it has the list locked.  The *)
(* order of a list is left open.                                           *)
(***************************************************************************)
EXTENDS Sequences, SequencesExt, ProcessorAffinity

CONSTANTS
  Threads,      (* threads that call Run                                     *)
  Schedulers,   (* mSchedulers: a sequence                                   *)
  Pollers,      (* schedulers that may poll when they have no work           *)
  MetaThreads,
  Late,         (* meta threads that are created after the others            *)
  RunModeOf,    (* per meta thread and scheduler: override or default        *)
  AffinityOf,   (* per meta thread                                           *)
  Home,         (* per thread: the affinity of its caller                    *)
  Null,
  SomeCount,    (* the count of RunMode::Some                                *)
  MaxWork,      (* bound: work items posted, per scheduler                   *)
  MaxRefs       (* bound: references of a thread to its context              *)

Scheds == Range(Schedulers)

RunModes == {"Disabled", "Some", "Timed", "All"}

States == {"Idle", "Working", "Polling"}

ASSUME MetaSchedulerAssumption ==
  /\ IsFiniteSet(Threads) /\ IsFiniteSet(MetaThreads) /\ Late \subseteq MetaThreads
  /\ Schedulers \in Seq(Scheds) /\ IsInjective(Schedulers) /\ Pollers \subseteq Scheds
  /\ RunModeOf \in [MetaThreads -> [Scheds -> RunModes]]
  /\ \A m \in MetaThreads : InRange(AffinityOf[m])
  /\ Home \in [Threads -> Affinities] /\ \A t \in Threads : ~IsEmpty(Home[t])
  /\ Null \notin Threads \cup MetaThreads
  /\ SomeCount \in Nat /\ MaxWork \in [Scheds -> Nat] /\ MaxRefs \in Nat \ {0}

VARIABLES
  (* the events, and the callbacks that a Set has yet to make *)
  done,         (* threads whose until event is set                          *)
  onDone,       (* per thread: its waiters on that event                     *)
  hasWork,      (* schedulers whose has-work condition is set                *)
  onWork,       (* per scheduler: threads with a waiter on that condition    *)
  calling,
  locked,       (* schedulers whose condition a Set has locked               *)
  notifying,    (* per scheduler: whose callback that Set is in, or Null     *)
  unheard,      (* schedulers whose condition a Set has found locked         *)
  (* the meta scheduler *)
  idleMeta,     (* mIdleMetaThreads                                          *)
  metaLock,     (* owner of mIdleMetaThreadsLock between steps, or Null      *)
  sleepers,     (* threads asleep on mIdleMetaThreadAvailable                *)
  unborn,       (* meta threads not created yet                              *)
  (* the schedulers *)
  work,         (* work items each one has                                   *)
  unposted,     (* work items that may still be posted                       *)
  (* the threads *)
  pc,
  mRefCount,    (* of the context of each thread; 0 if it has none           *)
  held,         (* metaThread                                                *)
  interrupted,  (* stop of AcquireMetaThread                                 *)
  waiterDone,   (* waiterDone of AcquireMetaThread has been posted           *)
  run,          (* the locals of Run                                         *)
  dozing,       (* threads asleep on stateChanged of their Run               *)
  affinity      (* affinity of each thread in the operating system           *)

sets == <<locked, notifying, unheard>>
events == <<done, onDone, hasWork, onWork, calling, sets>>
metas == <<idleMeta, metaLock, sleepers, unborn>>
loads == <<work, unposted>>
acquire == <<interrupted, waiterDone>>
vars == <<events, metas, loads, pc, mRefCount, held, acquire, run, dozing, affinity>>

(* active and idle are activeSchedulers and idleSchedulers, at is the       *)
(* iterator of the loop, state what the scheduler last returned.            *)
NoRun == [stop |-> FALSE, activeCount |-> 0, polling |-> 0, active |-> <<>>, idle |-> <<>>,
          at |-> 1, state |-> "Idle", lastState |-> [s \in Scheds |-> "Working"],
          oldAffinity |-> {}]

Goto(t, label) == pc' = [pc EXCEPT ![t] = label]

-----------------------------------------------------------------------------
(* Outside: the program sets the events and posts work. *)

\* The event of a caller has one waiter at a time, and nobody resets it: its list is never
\* locked while somebody is on it.
SetDone(t) ==
  /\ t \notin done
  /\ done' = done \cup {t}
  /\ calling' = calling \cup {<<kind, t>> : kind \in onDone[t]}
  /\ onDone' = [onDone EXCEPT ![t] = {}]
  /\ UNCHANGED <<hasWork, onWork, sets, metas, loads, pc, held, acquire, run, dozing, affinity>>

\* A Set has the list of the condition locked, or a RemoveWaiter has.
ListIsLocked(s) ==
  s \in locked \/ \E u \in Threads : pc[u] = "unlink" /\ Head(run[u].idle) = s

(* Work is added, and the condition of the scheduler is set.  Set does not  *)
(* load the word again once it has seen it locked, and spins for ever.      *)
PostWork(s) ==
  /\ unposted[s] > 0
  /\ unposted' = [unposted EXCEPT ![s] = @ - 1]
  /\ work' = [work EXCEPT ![s] = @ + 1]
  /\ \/ s \in hasWork /\ UNCHANGED <<hasWork, onWork, calling, sets>>
     \/ /\ s \notin hasWork /\ ListIsLocked(s)
        /\ unheard' = unheard \cup {s}
        /\ UNCHANGED <<hasWork, onWork, calling, locked, notifying>>
     \/ /\ s \notin hasWork /\ ~ListIsLocked(s)
        /\ hasWork' = hasWork \cup {s}
        /\ unheard' = unheard \ {s}
        /\ calling' = calling \cup {<<"hasWork", t, s>> : t \in onWork[s]}
        /\ onWork' = [onWork EXCEPT ![s] = {}]
        /\ \/ onWork[s] = {} /\ UNCHANGED <<locked, notifying>>
           \/ /\ locked' = locked \cup {s}
              /\ \E t \in onWork[s] : notifying' = [notifying EXCEPT ![s] = t]
  /\ UNCHANGED <<done, onDone, metas, pc, held, acquire, run, dozing, affinity>>

\* The Set has notified everybody.
UnlockWork(s) ==
  /\ s \in locked /\ notifying[s] = Null
  /\ locked' = locked \ {s}
  /\ UNCHANGED <<done, onDone, hasWork, onWork, calling, notifying, unheard, metas, loads, pc,
                 held, acquire, run, dozing, affinity>>

\* CreateMetaThread wakes nobody.
CreateMetaThread(m) ==
  /\ m \in unborn /\ metaLock = Null
  /\ unborn' = unborn \ {m}
  /\ idleMeta' = Append(idleMeta, m)
  /\ UNCHANGED <<events, metaLock, sleepers, loads, pc, held, acquire, run, dozing, affinity>>

-----------------------------------------------------------------------------
(* The context of a thread *)

\* The first call creates the context, with one reference.
AcquireContext(t) ==
  /\ pc[t] \in {"outside", "client"} /\ mRefCount[t] < MaxRefs
  /\ mRefCount' = [mRefCount EXCEPT ![t] = @ + 1]
  /\ Goto(t, "client")
  /\ UNCHANGED <<events, metas, loads, held, acquire, run, dozing, affinity>>

\* The last call deletes it.
Release(t) ==
  /\ pc[t] = "returned" /\ mRefCount[t] > 0
  /\ mRefCount' = [mRefCount EXCEPT ![t] = @ - 1]
  /\ UNCHANGED <<events, metas, loads, pc, held, acquire, run, dozing, affinity>>

-----------------------------------------------------------------------------
(* AcquireMetaThread(until) *)

AcquireAdd(t) ==
  /\ pc[t] = "client"
  /\ \/ /\ t \in done
        /\ Goto(t, "returned")
        /\ UNCHANGED onDone
     \/ /\ t \notin done
        /\ onDone' = [onDone EXCEPT ![t] = @ \cup {"interrupt"}]
        /\ Goto(t, "acquire")
  /\ UNCHANGED <<done, hasWork, onWork, calling, sets, metas, loads, held, acquire, run, dozing,
                 affinity>>

\* Its callback does not take the lock of the condition.
InterruptCallback(t) ==
  /\ <<"interrupt", t>> \in calling
  /\ calling' = calling \ {<<"interrupt", t>>}
  /\ interrupted' = [interrupted EXCEPT ![t] = TRUE]
  /\ sleepers' = {}
  /\ waiterDone' = [waiterDone EXCEPT ![t] = TRUE]
  /\ UNCHANGED <<done, onDone, hasWork, onWork, sets, idleMeta, metaLock, unborn, loads, pc,
                 held, run, dozing, affinity>>

\* while (!stop && mIdleMetaThreads.empty()), with the lock.
AcquireTest(t) ==
  /\ pc[t] \in {"acquire", "acquireWait"} /\ t \notin sleepers /\ metaLock = Null
  /\ \/ /\ idleMeta # <<>>
        /\ held' = [held EXCEPT ![t] = Last(idleMeta)]
        /\ idleMeta' = Front(idleMeta)
        /\ Goto(t, "acquireRemove")
        /\ UNCHANGED metaLock
     \/ /\ idleMeta = <<>> /\ interrupted[t]
        /\ Goto(t, "acquireRemove")
        /\ UNCHANGED <<held, idleMeta, metaLock>>
     \/ /\ idleMeta = <<>> /\ ~interrupted[t]
        /\ metaLock' = t
        /\ Goto(t, "acquireSleep")
        /\ UNCHANGED <<held, idleMeta>>
  /\ UNCHANGED <<events, sleepers, unborn, loads, acquire, run, dozing, affinity>>

\* Wait gives the lock back.  The callback may have come since the test.
AcquireSleep(t) ==
  /\ pc[t] = "acquireSleep"
  /\ metaLock' = Null
  /\ sleepers' = sleepers \cup {t}
  /\ Goto(t, "acquireWait")
  /\ UNCHANGED <<events, idleMeta, unborn, loads, held, acquire, run, dozing, affinity>>

\* RemoveWaiter, or waiterDone.Wait if the callback is on its way.
AcquireRemove(t) ==
  /\ pc[t] = "acquireRemove"
  /\ "interrupt" \in onDone[t] \/ waiterDone[t]
  /\ onDone' = [onDone EXCEPT ![t] = @ \ {"interrupt"}]
  /\ Goto(t, IF held[t] = Null THEN "returned" ELSE "begin")
  /\ UNCHANGED <<done, hasWork, onWork, calling, sets, metas, loads, held, acquire, run, dozing,
                 affinity>>

-----------------------------------------------------------------------------
(* Run *)

\* The elements of q that are in S, in the order of q: the k-th is at the place
\* up to which there are k.
Upto(places, i) == Cardinality({j \in places : j <= i})

Selection(q, S) ==
  LET places == {i \in DOMAIN q : q[i] \in S}
  IN  [k \in 1 .. Cardinality(places) |-> q[CHOOSE i \in places : Upto(places, i) = k]]

\* The schedulers that the meta thread does not disable.
Enabled(m) == Selection(Schedulers, {s \in Scheds : RunModeOf[m][s] # "Disabled"})

\* An empty affinity leaves the thread where it is.
SetAffinity(t, new) ==
  affinity' = IF IsEmpty(new) THEN affinity ELSE [affinity EXCEPT ![t] = CreateCpuSet(new)]

(* until.AddWaiter; if the event is set by now Run returns, and the meta    *)
(* thread is destroyed.  Otherwise every scheduler starts active.           *)
Begin(t) ==
  /\ pc[t] = "begin"
  /\ \/ /\ t \in done
        /\ held' = [held EXCEPT ![t] = Null]
        /\ Goto(t, "returned")
        /\ UNCHANGED <<onDone, run, affinity>>
     \/ /\ t \notin done
        /\ onDone' = [onDone EXCEPT ![t] = @ \cup {"until"}]
        /\ SetAffinity(t, AffinityOf[held[t]])
        /\ run' = [run EXCEPT ![t] =
             [NoRun EXCEPT
                !.active = Enabled(held[t]), !.activeCount = Len(Enabled(held[t])),
                !.oldAffinity = IF IsEmpty(AffinityOf[held[t]]) THEN {}
                                ELSE CreateAffinity(affinity[t])]]
        /\ Goto(t, "loop")
        /\ UNCHANGED held
  /\ UNCHANGED <<done, hasWork, onWork, calling, sets, metas, loads, acquire, dozing>>

\* The stop path holds stateLock between its steps.
StateLockIsFree(t) == pc[t] \notin {"remove", "unlink"}

\* Both callbacks take stateLock, and wake the thread if it has no active scheduler.
Wake(t) == dozing' = IF run[t].activeCount = 0 THEN dozing \ {t} ELSE dozing

UntilCallback(t) ==
  /\ <<"until", t>> \in calling /\ StateLockIsFree(t)
  /\ calling' = calling \ {<<"until", t>>}
  /\ run' = [run EXCEPT ![t].stop = TRUE]
  /\ Wake(t)
  /\ UNCHANGED <<done, onDone, hasWork, onWork, sets, metas, loads, pc, held, acquire, affinity>>

\* The Set goes on to the next waiter it has taken from the list.
NotifyNext(t, s) ==
  LET waiters == {u \in Threads \ {t} : <<"hasWork", u, s>> \in calling}
  IN  \/ waiters = {} /\ notifying' = [notifying EXCEPT ![s] = Null]
      \/ \E u \in waiters : notifying' = [notifying EXCEPT ![s] = u]

\* A bug: the callback wakes the thread if it was the second one.
HasWorkCallbackLate(t, s) ==
  /\ <<"hasWork", t, s>> \in calling /\ notifying[s] = t /\ StateLockIsFree(t)
  /\ calling' = calling \ {<<"hasWork", t, s>>}
  /\ run' = [run EXCEPT ![t].activeCount = @ + 1, ![t].lastState[s] = "Working"]
  /\ dozing' = IF run[t].activeCount = 1 THEN dozing \ {t} ELSE dozing
  /\ NotifyNext(t, s)
  /\ UNCHANGED <<done, onDone, hasWork, onWork, locked, unheard, metas, loads, pc, held, acquire,
                 affinity>>

HasWorkCallback(t, s) ==
  /\ <<"hasWork", t, s>> \in calling /\ notifying[s] = t /\ StateLockIsFree(t)
  /\ calling' = calling \ {<<"hasWork", t, s>>}
  /\ run' = [run EXCEPT ![t].activeCount = @ + 1, ![t].lastState[s] = "Working"]
  /\ Wake(t)
  /\ NotifyNext(t, s)
  /\ UNCHANGED <<done, onDone, hasWork, onWork, locked, unheard, metas, loads, pc, held, acquire,
                 affinity>>

(* The head of the loop: if the number of active schedulers has changed,    *)
(* the idle ones whose callback has come become active.                     *)
LoopHead(t) ==
  LET r == run[t]
      ready == {s \in Scheds : r.lastState[s] # "Idle"}
      active == r.active \o Selection(r.idle, ready)
  IN  /\ pc[t] = "loop"
      /\ \/ /\ r.stop
            /\ Goto(t, "stopped")
            /\ UNCHANGED run
         \/ /\ ~r.stop /\ r.activeCount # Len(r.active)
            /\ run' = [run EXCEPT ![t] = [r EXCEPT
                 !.active = active, !.activeCount = Len(active), !.at = 1,
                 !.idle = Selection(r.idle, Scheds \ ready)]]
            /\ Goto(t, "each")
         \/ /\ ~r.stop /\ r.activeCount = Len(r.active)
            /\ run' = [run EXCEPT ![t].at = 1]
            /\ Goto(t, "each")
      /\ UNCHANGED <<events, metas, loads, held, acquire, dozing, affinity>>

\* The loop over the active schedulers.
Each(t) ==
  LET r == run[t]
  IN  /\ pc[t] = "each"
      /\ Goto(t, CASE r.at > Len(r.active) -> (IF r.active = <<>> THEN "rest" ELSE "loop")
                   [] r.stop /\ r.at <= Len(r.active) -> "stopped"
                   [] OTHER -> "run")
      /\ UNCHANGED <<events, metas, loads, held, acquire, run, dozing, affinity>>

(* What the throttler of the run mode answers after n work items.  The     *)
(* duration of a timed run is taken to be long enough for one item.         *)
ShouldYield(t, s, n) ==
  \/ run[t].stop
  \/ RunModeOf[held[t]][s] = "Some" /\ n = SomeCount
  \/ RunModeOf[held[t]][s] = "Timed" /\ n > 0

(* The scheduler runs n items: until it is told to yield, or until it has   *)
(* no more work.  Then it resets its condition and is idle, or it polls.    *)
RunScheduler(t) ==
  LET s == run[t].active[run[t].at]
      limit == IF RunModeOf[held[t]][s] = "Some" THEN SomeCount ELSE work[s]
  IN  /\ pc[t] = "run"
      /\ \E n \in 0 .. Min({limit, work[s]}), state \in States :
           /\ \/ state = "Working" /\ ShouldYield(t, s, n) /\ UNCHANGED hasWork
              \/ state = "Idle" /\ n = work[s] /\ hasWork' = hasWork \ {s}
              \/ state = "Polling" /\ n = work[s] /\ s \in Pollers /\ UNCHANGED hasWork
           /\ work' = [work EXCEPT ![s] = @ - n]
           /\ run' = [run EXCEPT ![t].state = state]
      /\ Goto(t, "ran")
      /\ UNCHANGED <<done, onDone, onWork, calling, sets, metas, unposted, held, acquire, dozing,
                     affinity>>

\* A bug: the waiter is taken to be added even if there is work by now.
GoIdleAnyway(t) ==
  LET r == run[t]
      s == r.active[r.at]
      polling == IF r.lastState[s] = "Polling" THEN r.polling - 1 ELSE r.polling
  IN  /\ pc[t] = "ran" /\ r.state = "Idle"
      /\ onWork' = IF s \in hasWork THEN onWork ELSE [onWork EXCEPT ![s] = @ \cup {t}]
      /\ run' = [run EXCEPT ![t] = [r EXCEPT
           !.lastState[s] = "Idle", !.polling = polling, !.activeCount = @ - 1,
           !.idle = Append(@, s), !.active = RemoveAt(@, r.at)]]
      /\ Goto(t, "each")
      /\ UNCHANGED <<done, onDone, hasWork, calling, sets, metas, loads, held, acquire, dozing,
                     affinity>>

\* An idle scheduler gets its waiter, unless it has work by now.
GoIdle(t) ==
  LET r == run[t]
      s == r.active[r.at]
      polling == IF r.lastState[s] = "Polling" THEN r.polling - 1 ELSE r.polling
  IN  /\ pc[t] = "ran" /\ r.state = "Idle"
      /\ \/ /\ s \notin hasWork
            /\ onWork' = [onWork EXCEPT ![s] = @ \cup {t}]
            /\ run' = [run EXCEPT ![t] = [r EXCEPT
                 !.lastState[s] = "Idle", !.polling = polling, !.activeCount = @ - 1,
                 !.idle = Append(@, s), !.active = RemoveAt(@, r.at)]]
         \/ /\ s \in hasWork
            /\ run' = [run EXCEPT ![t] = [r EXCEPT
                 !.lastState[s] = "Working", !.polling = polling, !.at = @ + 1]]
            /\ UNCHANGED onWork
      /\ Goto(t, "each")
      /\ UNCHANGED <<done, onDone, hasWork, calling, sets, metas, loads, held, acquire, dozing,
                     affinity>>

\* A bug: the polling count is not taken back.
StayActiveUncounted(t) ==
  LET r == run[t]
      s == r.active[r.at]
  IN  /\ pc[t] = "ran" /\ r.state # "Idle"
      /\ run' = [run EXCEPT ![t] = [r EXCEPT
           !.lastState[s] = r.state, !.at = @ + 1,
           !.polling = IF r.state = "Polling" THEN @ + 1 ELSE @]]
      /\ Goto(t, "each")
      /\ UNCHANGED <<events, metas, loads, held, acquire, dozing, affinity>>

StayActive(t) ==
  LET r == run[t]
      s == r.active[r.at]
  IN  /\ pc[t] = "ran" /\ r.state # "Idle"
      /\ run' = [run EXCEPT ![t] = [r EXCEPT
           !.lastState[s] = r.state, !.at = @ + 1,
           !.polling = IF r.state = r.lastState[s] THEN @
                       ELSE IF r.state = "Polling" THEN @ + 1 ELSE @ - 1]]
      /\ Goto(t, "each")
      /\ UNCHANGED <<events, metas, loads, held, acquire, dozing, affinity>>

\* A bug: a thread that is told to stop sleeps on.
RestOnly(t) ==
  /\ pc[t] \in {"rest", "restWait"} /\ t \notin dozing
  /\ \/ run[t].activeCount # 0 /\ Goto(t, "loop") /\ UNCHANGED dozing
     \/ run[t].activeCount = 0 /\ Goto(t, "restWait") /\ dozing' = dozing \cup {t}
  /\ UNCHANGED <<events, metas, loads, held, acquire, run, affinity>>

\* No active scheduler: while (activeCount == 0), with stateLock.
Rest(t) ==
  /\ pc[t] \in {"rest", "restWait"} /\ t \notin dozing
  /\ \/ run[t].activeCount # 0 /\ Goto(t, "loop") /\ UNCHANGED dozing
     \/ run[t].activeCount = 0 /\ run[t].stop /\ Goto(t, "stopped") /\ UNCHANGED dozing
     \/ /\ run[t].activeCount = 0 /\ ~run[t].stop
        /\ Goto(t, "restWait")
        /\ dozing' = dozing \cup {t}
  /\ UNCHANGED <<events, metas, loads, held, acquire, run, affinity>>

-----------------------------------------------------------------------------
(* The stop path *)

Stopped(t) ==
  /\ pc[t] = "stopped"
  /\ Goto(t, "remove")
  /\ UNCHANGED <<events, metas, loads, held, acquire, run, dozing, affinity>>

\* A bug: the callback of an idle scheduler is not waited for.
RemoveOnly(t) ==
  LET r == run[t]
      s == Head(r.idle)
  IN  /\ pc[t] = "remove" /\ r.idle # <<>>
      /\ onWork' = [onWork EXCEPT ![s] = @ \ {t}]
      /\ run' = [run EXCEPT ![t].idle = Tail(@)]
      /\ UNCHANGED <<done, onDone, hasWork, calling, sets, metas, loads, pc, held, acquire,
                     dozing, affinity>>

NextIdle(t) ==
  /\ run' = [run EXCEPT ![t].idle = Tail(@)]
  /\ Goto(t, "remove")
  /\ UNCHANGED dozing

\* while (lastState == Idle), with stateLock, which the wait releases.
AwaitCallback(t) ==
  /\ \/ run[t].lastState[Head(run[t].idle)] # "Idle" /\ NextIdle(t)
     \/ /\ run[t].lastState[Head(run[t].idle)] = "Idle"
        /\ Goto(t, "removeWait")
        /\ dozing' = dozing \cup {t}
        /\ UNCHANGED run
  /\ UNCHANGED onWork

(* RemoveWaiter of an idle scheduler, with stateLock.  The waiter is gone   *)
(* if the list is empty; otherwise it waits until nobody has the list       *)
(* locked, and then pops the waiter if it is the first, or locks the list.  *)
RemoveIdle(t) ==
  LET s == Head(run[t].idle)
  IN  /\ pc[t] = "remove" /\ run[t].idle # <<>>
      /\ \/ onWork[s] = {} /\ AwaitCallback(t)
         \/ /\ t \in onWork[s] /\ ~ListIsLocked(s)
            /\ onWork' = [onWork EXCEPT ![s] = @ \ {t}]
            /\ NextIdle(t)
         \/ /\ onWork[s] \ {t} # {} /\ ~ListIsLocked(s)
            /\ Goto(t, "unlink")
            /\ UNCHANGED <<run, onWork, dozing>>
      /\ UNCHANGED <<done, onDone, hasWork, calling, sets, metas, loads, held, acquire, affinity>>

\* The waiter is on the list behind the first one, or it is not; the list is unlocked.
Unlink(t) ==
  LET s == Head(run[t].idle)
  IN  /\ pc[t] = "unlink"
      /\ \/ /\ t \in onWork[s]
            /\ onWork' = [onWork EXCEPT ![s] = @ \ {t}]
            /\ NextIdle(t)
         \/ t \notin onWork[s] /\ AwaitCallback(t)
      /\ UNCHANGED <<done, onDone, hasWork, calling, sets, metas, loads, held, acquire, affinity>>

RemoveAwaken(t) ==
  /\ pc[t] = "removeWait" /\ t \notin dozing
  /\ AwaitCallback(t)
  /\ UNCHANGED <<done, onDone, hasWork, calling, sets, metas, loads, held, acquire, affinity>>

\* stateLock is released and the old affinity set again.
Restore(t) ==
  /\ pc[t] = "remove" /\ run[t].idle = <<>>
  /\ SetAffinity(t, run[t].oldAffinity)
  /\ run' = [run EXCEPT ![t] = NoRun]
  /\ Goto(t, "release")
  /\ UNCHANGED <<events, metas, loads, held, acquire, dozing>>

\* A bug: nobody is woken.
ReleaseSilently(t) ==
  /\ pc[t] = "release" /\ metaLock = Null
  /\ idleMeta' = Append(idleMeta, held[t])
  /\ held' = [held EXCEPT ![t] = Null]
  /\ Goto(t, "returned")
  /\ UNCHANGED <<events, metaLock, sleepers, unborn, loads, acquire, run, dozing, affinity>>

ReleaseMetaThread(t) ==
  /\ pc[t] = "release" /\ metaLock = Null
  /\ idleMeta' = Append(idleMeta, held[t])
  /\ \/ sleepers = {} /\ UNCHANGED sleepers
     \/ \E u \in sleepers : sleepers' = sleepers \ {u}
  /\ held' = [held EXCEPT ![t] = Null]
  /\ Goto(t, "returned")
  /\ UNCHANGED <<events, metaLock, unborn, loads, acquire, run, dozing, affinity>>

(* A condition variable may wake a thread for no reason.  One that finds    *)
(* nothing changed goes back to sleep, which is left out.                   *)
SpuriousWakeup(t) ==
  LET r == run[t]
  IN  /\ \/ /\ t \in sleepers /\ (idleMeta # <<>> \/ interrupted[t])
            /\ sleepers' = sleepers \ {t}
            /\ UNCHANGED dozing
         \/ /\ t \in dozing
            /\ IF pc[t] = "restWait" THEN r.activeCount # 0 \/ r.stop
               ELSE r.lastState[Head(r.idle)] # "Idle"
            /\ dozing' = dozing \ {t}
            /\ UNCHANGED sleepers
      /\ UNCHANGED <<events, idleMeta, metaLock, unborn, loads, pc, held, acquire, run, affinity>>

-----------------------------------------------------------------------------
(* The specification *)

Init ==
  /\ done = {} /\ onDone = [t \in Threads |-> {}]
  /\ hasWork = {} /\ onWork = [s \in Scheds |-> {}] /\ calling = {}
  /\ locked = {} /\ notifying = [s \in Scheds |-> Null] /\ unheard = {}
  /\ idleMeta = SetToSeq(MetaThreads \ Late) /\ metaLock = Null
  /\ sleepers = {} /\ unborn = Late
  /\ work = [s \in Scheds |-> 0] /\ unposted = MaxWork
  /\ pc = [t \in Threads |-> "outside"] /\ mRefCount = [t \in Threads |-> 0]
  /\ held = [t \in Threads |-> Null]
  /\ interrupted = [t \in Threads |-> FALSE] /\ waiterDone = [t \in Threads |-> FALSE]
  /\ run = [t \in Threads |-> NoRun] /\ dozing = {}
  /\ affinity = Home

\* A step of the thread itself.
Step(t) ==
  \/ AcquireAdd(t) \/ AcquireTest(t) \/ AcquireSleep(t) \/ AcquireRemove(t) \/ Begin(t)
  \/ LoopHead(t) \/ Each(t) \/ RunScheduler(t) \/ GoIdle(t) \/ StayActive(t) \/ Rest(t)
  \/ Stopped(t) \/ RemoveIdle(t) \/ Unlink(t) \/ RemoveAwaken(t)
  \/ Restore(t) \/ ReleaseMetaThread(t)

\* A step of a thread that sets an event, for t.
Callback(t) ==
  \/ InterruptCallback(t) \/ UntilCallback(t) \/ \E s \in Scheds : HasWorkCallback(t, s)

Outside ==
  \/ \E s \in Scheds : PostWork(s) \/ UnlockWork(s)
  \/ \E m \in MetaThreads : CreateMetaThread(m)
  \/ \E t \in Threads : SetDone(t) \/ SpuriousWakeup(t)

\* RemoveWaiter waits, with stateLock, for the list to be unlocked.
Spins(t) ==
  LET s == Head(run[t].idle)
  IN  pc[t] = "remove" /\ run[t].idle # <<>> /\ onWork[s] # {} /\ ListIsLocked(s)

(* A Set that has the list locked waits for the stateLock of a thread whose *)
(* RemoveWaiter waits for a locked list.                                    *)
SetHangs(s) == notifying[s] \in Threads /\ Spins(notifying[s])

(* The stop path holds stateLock and waits for a Set that needs it, or     *)
(* waits for the callback of a Set that is in such a circle.                *)
InCircle(t) ==
  pc[t] \in {"remove", "removeWait"} /\ run[t].idle # <<>> /\ SetHangs(Head(run[t].idle))

Client(t) == AcquireContext(t) \/ Release(t)

Finished ==
  /\ \A t \in Threads : (pc[t] = "returned" /\ mRefCount[t] = 0) \/ InCircle(t)
  /\ UNCHANGED vars

Next ==
  \/ (Outside \/ \E t \in Threads : Step(t) \/ Callback(t)) /\ UNCHANGED mRefCount
  \/ \E t \in Threads : Client(t)
  \/ Finished

Spec == Init /\ [][Next]_vars

(* Threads run, and so does a Set once it has begun; nothing else is        *)
(* assumed of the program and of wakeups for no reason.  A thread takes the *)
(* lock of the meta threads a bounded number of times between two changes,  *)
(* so no lock need be fair.                                                 *)
FairSpec ==
  /\ Spec
  /\ \A t \in Threads :
       WF_vars(Step(t) /\ UNCHANGED mRefCount) /\ WF_vars(Callback(t) /\ UNCHANGED mRefCount)
  /\ \A s \in Scheds : WF_vars(UnlockWork(s) /\ UNCHANGED mRefCount)

-----------------------------------------------------------------------------
(* Properties *)

InRun(t) == pc[t] \in {"loop", "each", "run", "ran", "rest", "restWait"}

Stopping(t) == pc[t] \in {"stopped", "remove", "unlink", "removeWait"}

\* The types.  A count of schedulers never wraps below zero.
TypeOK ==
  /\ done \subseteq Threads /\ dozing \subseteq Threads /\ sleepers \subseteq Threads
  /\ onDone \in [Threads -> SUBSET {"interrupt", "until"}]
  /\ hasWork \subseteq Scheds /\ onWork \in [Scheds -> SUBSET Threads]
  /\ calling \subseteq ({"interrupt", "until"} \X Threads) \cup ({"hasWork"} \X Threads \X Scheds)
  /\ locked \subseteq Scheds /\ unheard \subseteq Scheds
  /\ notifying \in [Scheds -> Threads \cup {Null}]
  /\ idleMeta \in Seq(MetaThreads) /\ metaLock \in Threads \cup {Null}
  /\ mRefCount \in [Threads -> 0 .. MaxRefs]
  /\ work \in [Scheds -> Nat] /\ unposted \in [Scheds -> Nat]
  /\ held \in [Threads -> MetaThreads \cup {Null}]
  /\ affinity \in [Threads -> Affinities]
  /\ \A t \in Threads :
       LET r == run[t]
       IN  /\ InRun(t) \/ Stopping(t) \/ pc[t] \in
                {"outside", "client", "acquire", "acquireSleep", "acquireWait", "acquireRemove",
                 "begin", "release", "returned"}
           /\ r.activeCount \in 0 .. Len(Schedulers) /\ r.polling \in 0 .. Len(r.active)
           /\ r.active \in Seq(Scheds) /\ r.idle \in Seq(Scheds)
           /\ r.lastState \in [Scheds -> States] /\ r.state \in States

(* A thread that has returned from Run has no waiter left on any event and  *)
(* no callback on its way, which would write to a dead frame of the stack,  *)
(* and runs on the processors it came from.                                 *)
RunLeavesNothing == \A t \in Threads : pc[t] \in {"outside", "client", "release", "returned"} =>
  /\ onDone[t] = {} /\ \A s \in Scheds : t \notin onWork[s]
  /\ \A c \in calling : c[2] # t
  /\ affinity[t] = Home[t]

(* In the loop, each scheduler is active, or idle with its waiter on the    *)
(* condition or its callback on the way or done; the two counts, which      *)
(* callbacks change without moving anything, agree with that; and a thread  *)
(* that sleeps has nothing to wake up for.                                  *)
ListsAgree == \A t \in Threads : InRun(t) =>
  LET r == run[t]
      Called(s) == r.lastState[s] # "Idle"
  IN  /\ Range(r.active) \cup Range(r.idle) = Range(Enabled(held[t]))
      /\ IsInjective(r.active \o r.idle)
      /\ r.activeCount = Len(r.active) + Cardinality({s \in Range(r.idle) : Called(s)})
      /\ r.polling = Cardinality({s \in Range(r.active) : r.lastState[s] = "Polling"})
      /\ \A s \in Scheds :
           (s \in Range(r.idle) /\ ~Called(s))
             <=> (t \in onWork[s] \/ <<"hasWork", t, s>> \in calling)
      /\ t \in dozing => pc[t] = "restWait" /\ r.activeCount = 0 /\ ~r.stop

\* Threads that are to look for a meta thread, or have been woken to do so.
Acquiring == {t \in Threads : pc[t] \in {"acquire", "acquireWait"} /\ t \notin sleepers}

(* A meta thread is idle, or held by one thread.  While a thread sleeps,    *)
(* each idle one has somebody who is coming for it, except as many as       *)
(* CreateMetaThread has added, which wakes nobody.                          *)
MetaThreadsAreShared ==
  /\ IsInjective(idleMeta)
  /\ \A t \in Threads : held[t] # Null =>
       /\ held[t] \notin Range(idleMeta) \cup unborn
       /\ \A u \in Threads : held[u] = held[t] => u = t
  /\ sleepers # {} => Len(idleMeta) <= Cardinality(Acquiring) + Cardinality(Late \ unborn)

(* Work that is posted while a thread runs the scheduler is run, unless the *)
(* thread stops.  It is not enough that the scheduler is active: a thread   *)
(* that sleeps must be woken, and one that does not must see the change.    *)
(* Two things leave work undone: the last Set has found the list locked and *)
(* told nobody, or it hangs before it has told everybody.                   *)
PostedWorkIsRun == \A s \in Scheds :
  LET IsRun == \E t \in Threads : InRun(t) /\ s \in Range(Enabled(held[t]))
  IN  work[s] > 0 /\ IsRun ~> work[s] = 0 \/ ~IsRun \/ s \in unheard \/ SetHangs(s)

(* AcquireMetaThread has slept through the callback that should have woken  *)
(* it, which has come between its test and its wait.                        *)
MissedStop(t) == t \in sleepers /\ interrupted[t]

(* The stop path has slept through the callback it waits for, which wakes   *)
(* it only if no scheduler is active.                                       *)
MissedCallback(t) ==
  pc[t] = "removeWait" /\ t \in dozing /\ run[t].lastState[Head(run[t].idle)] # "Idle"

\* Run returns once its event is set, except for these three mistakes.
RunReturns == \A t \in Threads :
  (t \in done /\ pc[t] # "outside")
    ~> (pc[t] = "returned" \/ MissedStop(t) \/ MissedCallback(t) \/ InCircle(t))

=============================================================================
