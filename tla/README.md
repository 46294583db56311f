# A verification of crunch.concurrency

`crunch.concurrency` is a C++ library of concurrency primitives.  Its waitables
(mutex, event, semaphore, futures) share one interface: `AddWaiter` either
takes the waitable at once or leaves a *waiter* on it, and `RemoveWaiter` either
takes the waiter back or says that its callback is on its way.  `WaitFor`,
`WaitForAll` and `WaitForAny` are built on these two calls.  The waiters of a
waitable are kept in a lock-free list behind a single atomic word.

This directory holds TLA+ specifications of the library, the TLC configurations
that check them on small instances, and proofs checked by TLAPS.  Every
definition that models code is translated from the C++; `PROJECT.json` gives the
lines of each.

## 1. The system

| Component | Code | State | Operations | Model |
|---|---|---|---|---|
| Waiter list | `waiter_list.*`, `waiter_utility.hpp` | the word (pointer, user flag, lock bit, 16-bit tag), `next` of each waiter | `RemoveWaiter`, `Unlock`, the scan for a waiter that is not first, `NotifyAllWaiters` | `WaiterList` |
| Mutex | `mutex.*` | a waiter list; the flag means *free* | `Lock`, `AddWaiter`, `RemoveWaiter`, `Unlock` | `Mutex`, `LifoLock` |
| Event | `event.*` | a waiter list; the flag means *set* | `Set`, `Reset`, `AddWaiter`, `RemoveWaiter` | `Event` |
| Semaphore | `semaphore.*` | a waiter list and `mCount` | `Post`, `AddWaiter`, `RemoveWaiter` | `Semaphore` |
| Waiting | first part of `meta_scheduler.cpp`, `waitable.hpp` | the semaphore of each thread, the local lists of one call | `WaitFor`, `WaitForAll`, `WaitForAny` | `Waiting` |
| Thread pool | `thread_pool.*` | the queue, `mStop`, `mIdleThreadCount`, the workers | `Post`, the worker loop, the destructor | `ThreadPool` |
| Meta scheduler | rest of `meta_scheduler.cpp`, `scheduler.hpp` | idle meta threads, active and idle schedulers, `stop` | `Run`, `AcquireMetaThread`, `ReleaseMetaThread`, `CreateMetaThread` | `MetaScheduler` |
| Futures and promises | `future.hpp`, `promise.hpp`, `future_data.*` | a reference count, a result, an event | `SetValue`, `SetException`, `Get`, `HasValue`, waits | `FutureData`, `Tasks` |
| Threads, cancellation | `thread*.{hpp,cpp}` | data shared by the handle, the thread and itself; three flags | creation, `Join`, `Detach`, `Cancel`, cancellation points | `Threads`, `Tasks` |
| LIFO list, LIFO queue, waiter allocator | `mpmc_lifo_*.hpp`, `waiter.*` | tagged stacks, a free list per thread and a global one | `Push`, `Pop`, `Allocate`, `Free` | `LifoQueue`, `LifoStack` |
| System semaphore | `platform/*/system_semaphore.*` | a counter and a kernel object | `Post`, `Wait`, `SpinWait`, `TryWait` | `CountedSemaphore`, `PosixSemaphore` |
| Spin barrier | `spin_barrier.hpp` | two counters | `Wait` | `SpinBarrier`, `Rendezvous` |
| Atomics | `atomic*.hpp`, `platform/*/atomic_ops_x86.hpp` | one word | arithmetic, bits, swaps | `Atomics`, `AtomicWord`; partly |
| Processor affinity | `processor_affinity.*` | a bit set | conversion to the set of the system | `ProcessorAffinity`; partly |
| Other system primitives, versioned data, topology, backoff, yield | the rest | – | – | not modelled (section 7) |

### How they interact

* A waitable calls a thread back through `Waiter::Notify`; the callback of a wait
  posts the semaphore of the waiting thread (`meta_scheduler.cpp`).
* The notified thread may run at once, reuse its waiter for another wait and push
  it again, while the notifying thread is still in its loop.
* `WaitForAny` adds a waiter to each waitable, wakes up when one of them posts,
  removes the other waiters, and must wait for each callback it could not stop.
* A future is an event with a value; the thread pool sets promises from its
  workers; the scheduler waits for waitables and is called back by them.

### What is hard

* **The word and the links are different memory.**  A pop reads `next` of the first
  waiter and swaps the word afterwards.  In between the waiter can be removed,
  notified and pushed again with another successor.  Only the tag tells.
* **Removal from the middle** locks the list against pops and other removals, but
  pushes go on.
* **A removal races with the callback.**  `RemoveWaiter` returns false exactly if the
  callback is coming; a wrong answer is a wait without end or a callback that
  runs on a destroyed waiter.
* **The count and the list of the semaphore** change in different steps.
* **Waiting for several things**: the posts of all the callbacks go to one semaphore,
  which the next wait uses too.
* **The loop of `Run`** keeps its schedulers in two lists and counts them twice; callbacks change
  one count without moving anything, and the stop path waits for callbacks that are on their way.
* **Shared data that is deleted by its last user**: the data of a thread, whose creator and whose
  thread may each be the last; the data of a future, whose event is still notifying when those it
  has woken drop their futures.
* **The stop path of `Run`** takes its waiters back with its lock held, from lists that a `Set` may have
  locked whose callback needs that lock.
* **The thread pool** looks at `mStop` without its lock, counts as idle the workers
  that have been woken but have not run yet, and queues a task before it tries to create a worker for it.

The full list, with lines, is under `hazards` in `PROJECT.json`.

### What makes each part correct

* Waiter list: it holds the waiters that wait and have no callback coming, each
  once; removal tells the truth.
* Mutex: one holder, or free; nobody who waits is forgotten.
* Event: a wait is notified once; nobody waits on the list of a set event.
* Semaphore: no permit is given twice and none is lost.
* Waiting: a wait that has returned left no waiter, no callback and no post
  behind; its result names the mutexes it has acquired; callers that name
  mutexes in different orders do not block each other.
* Thread pool: each task runs once; no wakeup is lost; nothing runs after the
  destructor.
* Meta scheduler: a meta thread has one user; posted work is run; `Run` returns when its event is
  set, and leaves no waiter, no callback and no changed affinity behind.
* Threads and futures: data lives as long as it is used and no longer; a result is there before it
  is announced; a thread is joined or detached once; everybody gets to an end.
* LIFO list: a stack; a node is on one list or in one hand.  Semaphore: that of POSIX.  Barrier:
  nobody leaves before all have come.  Atomics: one indivisible call with the old value.

## 2. The modules

**`WaiterList`** has the word as a record, so that a compare-and-swap is an
equality of records; the tag wraps around at `AbaRange`.  Each access to shared memory is
one action: the load of the word, the read of a `next`, the CAS.  A thread is named like
the waiter it owns, which is how a thread with a scheduler context waits: it uses the
same `Waiter` again and again.  This is also the worst case for a reused address.  `head`,
`cached` and `current` are locals of the running call, `pc` is where it is.
`AwaitNotify` and `StartRemove` are the client: a thread outside `Cancellers` blocks until
it is notified (`WaitFor`), a thread in `Cancellers` may also wake up because of another
waitable and remove its waiter (`WaitForAny`).

**`Mutex`, `Event`, `Semaphore`** extend it with their own calls.  Their actions are named
for the function and the access (`UnlockReadNext`, `UnlockPop`, ...), and `AddBranch`,
`UnlockBranch`, `SetBranch`, `PostBranch`, `RemoveBranch` are the tests a loop makes on a value of
the word.  A spin on a stale copy is modelled as the code has it: in `Event.SetSpin` and
`Semaphore.PostSpin` the thread tests the same local copy again, in `Mutex.UnlockLoad` and
`RemoveLoad` it loads the word.

**`LifoLock`** is what `Mutex` promises: a lock that passes from its owner to the thread
that began to wait last; the refinement mapping (`Owner`, the waiters in the order of the links, and
`IsLifoLock`) is at the end of `Mutex`.  **`MutexInvariant`** is the inductive invariant of `Mutex`,
also in a form that TLC can check (`InductiveInvariant`), and **`MutexProofs`** has the proofs.
**`SemaphoreInvariant`** and **`EventInvariant`** are the invariants of the other two, and
**`SemaphoreProofs`** and **`EventProofs`** prove their properties.  What these proofs say of the list alone,
`InOrder` and `NoWrap`, is at the end of `WaiterList`, and **`WaiterListProofs`** has the lemmas about it.

**`Waiting`** takes the waitables as the modules above describe them (adding and
removing a waiter is one step, the notifications of `Set` follow one by one) and
models the calls of `meta_scheduler.cpp` on them step by step: the waitables that are
waited for one at a time, sorted by address; those that are waited for together; the
removal of the waiters in the order they were added; the count of the callbacks that have
to be waited for.  The atomic waitables are what the properties of `Mutex` and `Event`
justify; there is no refinement theorem between the two levels.  `SetEvent` never spins (`event.cpp:54`):
`EveryCallEnds` says that the calls end if the program's sets do.  The mutexes are kept as a set with
`NextTurn`, the least address in it, since all that the code does with the sorted array is to go
through it.  **`WaitingProofs`** has the invariant and the proofs.

**`ThreadPool`** has one step for what happens under `mLock` between two waits; the test
of `mStop` in the loop is a step without the lock.  Waits of the condition end when
somebody wakes them or for no reason.  The promise of a task is its `outcome`.  `AddWorkItem` queues the task,
and then creates a worker (`CreateWorker`), fails to (`CreationFails`: the exception leaves `Post`, and the task
stays in the queue), or wakes one.
Its invariant and proofs are the first part of **`SystemProofs`**.

**`MetaScheduler`** models `Context::Run` with what it calls.  `Acquire...` is
`AcquireMetaThread` on its condition variable, with the lock kept from the test to the sleep and a
callback that does not take it; `Begin`, `LoopHead`, `Each`, `RunScheduler`, `GoIdle`,
`StayActive` and `Rest` are the loop; `Stopped`, `RemoveIdle`, `Restore` and `ReleaseMetaThread`
the way out.  The locals of `Run` are the record `run[t]`.  A scheduler runs some of its
work and answers with a state; the throttlers of the run modes bound how much.  `SetDone` sets the event of
a caller and leaves its callbacks in `calling`.  That event has one waiter at a time and nobody resets it, so
nobody ever finds its list locked.  The conditions of the schedulers are reset and have a waiter of each thread that
runs the scheduler, and so their lists are locked (`ListIsLocked`) as `event.cpp` and `waiter_list.cpp` have it: by a
`PostWork` from the time it has taken the waiters off until it has made the last callback (`notifying`,
`NotifyNext`, `UnlockWork`), and by a removal of a waiter that is not the first (`Unlink`).  A `PostWork` that finds
the list locked has told nobody and never will (`unheard`, finding 1); `RemoveIdle`, which holds `stateLock`, waits.
`onWork` is a set: the order of the list is left open, and any of its members may be the first.
`Selection` is a loop that takes the elements with a property out of a vector, in their order.
`ProcessorAffinity` has the conversions that `SetAffinity` makes.  **`MetaSchedulerProofs`** proves the
four safety properties.

**`Threads`** models the handle, the shared data with its three references (`mData` of the handle,
`self` of the data, `data` of the running thread), the calls of the system, and cancellation.
**`FutureData`** models promise and futures, from `Write` and `Publish` to the end of the notification
(`Notify`, `Unlock`), and the waits.  Its event has the list in order, a removal that is not from the front
(`RemoveWaiter`, then `Unlink`) locks it, and a `Publish` that finds it locked spins for ever.  **`Tasks`** puts both together: the function of a
thread is a sequence of choices between calls, and a thread that is cancelled, that throws or that
could not be created drops what it has.  `HandOver` gives the promise to a thread as
`ThreadPool::Runner` has it, by a plain pointer.  **`TasksProofs`** has the proofs.

**`Atomics`** has the calls as the linux builtins, the win32 intrinsics and `FallbackAtomicOp` make
them; **`AtomicWord`** is what they promise, and the second part of **`SystemProofs`** proves it.  **`LifoQueue`** has
the tagged list with two users, `MPMCLifoQueue` and the allocator of waiters; **`LifoStack`** is
the stack they rely on.  **`CountedSemaphore`** is the semaphore of win32 and darwin, and
**`PosixSemaphore`** that of linux, which it implements when it starts with the count 0.
**`SpinBarrier`** is the barrier, used several in turn, and **`Rendezvous`** what it promises.
`MCPrimitives` checks these four side by side; a behaviour is one of one of them.

A definition whose comment begins with "A bug:" is not part of the model: it is the
mutated form of the definition after it, and shows that a property notices the mistake
(`mutants` in `PROJECT.json`).

## 3. The runs

| Run | Instance | Distinct states | What it shows |
|---|---|---|---|
| `mutex` | `t1` locks twice; `c1` (twice) and `c2` wait with `WaitForAny`; `SpinCount` 1 | 269 000 | one holder, intact list, truthful removal, the assertions of the code, the invariant of the proofs, refinement of `LifoLock`, every request ends |
| `event` | setters `s1` (two calls, Set or Reset) and `s2`; `w1` in `WaitFor`; `c1` in `WaitForAny`, twice | 207 000 | one notification per wait, nobody left on a set event, one owner of the lock bit, `Set` serves its waiters |
| `event_spin` | one `Set`, two `WaitForAny` | violation | `Set` may spin for ever (finding 1) |
| `semaphore` | two posts, two `WaitForAny`, one `WaitFor`, no permits | 432 000 | no permit given twice, intact list, truthful removal |
| `semaphore_lost` | one `Post`, one `WaitFor` | violation | a permit is lost (finding 2) |
| `waiting` | three threads, two mutexes, two events, one set twice | 106 000 | nothing left behind, true results, no circular wait, every call ends |
| `waiting_mixed` | the same with a mutex named before an event | violation | two waiters on one mutex (finding 3) |
| `thread_pool` | four tasks, one throws; up to three workers, each of which may fail to be created | 293 000 | each task runs once, no lost wakeup, quiet destruction, every task runs |
| `thread_pool_join` | one task, one worker | violation | the destructor may wait for ever (finding 4) |
| `meta_scheduler` | two threads, two schedulers, one of which may poll, a meta thread for both schedulers and a late one for the first | 248 000 | nothing left behind by `Run`, lists and counts agree, meta threads shared, posted work is run, `Run` returns |
| `tasks` | the main thread, one that sets the promise and one that waits for it; creations that fail, exceptions, cancellation, a `Set` that spins | 137 000 | lifetime of both kinds of data, joinable handles, published results, every thread ends |
| `primitives` | two threads on a word of three bits; two on two nodes; three on a semaphore; three at two barriers | 248 000 | four refinements: `AtomicWord`, `LifoStack`, `PosixSemaphore`, `Rendezvous` |

### The bounds, and why they are enough

* *Threads.*  Three waiters are the least with a waiter in the middle of the list, a
  removal of it and a push or a pop at the same time.  In `mutex` the owner is one of
  the three threads, so that its list has two; the `semaphore` run has three waiters on the
  list besides two posters.  Two posters and two setters are the least that race.
* *Rounds* (`MaxRounds`, `Twice`).  The threads that call twice are those for which it
  matters: a waiter that is popped and pushed again while somebody still holds an old copy
  of the word (the ABA case).  The mutant of `WithHead` that leaves the tag alone is found
  by `ListIntegrity`, so the case does happen within the bound.
* *`AbaRange`* is that of the 64-bit build, 65536.  The runs never come round, which the
  invariant of section 5 needs; a wrap is the hazard at `waiter_list.hpp:28`.
* *`SpinCount`* 1 distinguishes a look that finds the mutex free, one that does not,
  and the end of the spinning.
* *`MaxSets`*: one event is set, reset and set again, so that it is waited for both while
  it is set and after it has been reset.
* *Thread pool.*  Three workers and four tasks give a queue that is longer than the
  number of idle workers, a worker that is woken twice, and a task left for the destructor.  Any creation
  of a worker may fail, so that tasks also wait in a pool that has none.
  The theorems of section 5 hold for any number.
* *Meta scheduler.*  Two threads and, at first, one meta thread make one wait for the other.  The second meta
  thread comes late, has an empty affinity and disables one scheduler; then both threads run `s1`, and their two
  waiters on its condition are what the locked list takes: a removal that is not from the front, a `Set` that is in the
  callback of one thread while the other is in its stop path, and the circle of section 4.
  `RunMode::Some` with count 1 and `Timed` yield after one item.  One item (`MaxWork`) is enough for it to come
  before, while and after its scheduler goes idle.  Each thread enters the scheduler once (`MaxRefs` 1).  What the
  instance has no case of: work for a condition that is set already, work for `s2`, and a `Set` that hangs
  (`SetHangs`) while a third thread, whose callback comes later, still runs the scheduler.
* *Tasks.*  Three threads: the creator, and two whose ends may come in any order, one of which can be
  given the handle of the other.  The programs are choices, so that each of the calls meets
  each state of the others; `Catchers` and `MayFail` add exceptions.  One promise, because promises
  share nothing.  The theorems hold for any programs.
* *Primitives.*  Three bits are enough for a word that wraps; `MaxCalls` 2 for a word that changes and
  changes back within a `FallbackAtomicOp`.  `MaxUses` 8 with two nodes pops, uses and pushes a node
  while another thread is in `Pop`: without the tag the run fails.  `TagRange` and
  `CounterRange` are never reached.  Two barriers in turn, four rounds: each is used twice.  Three
  callers of the semaphore with two calls let a `TryWait` come between a `Wait` and its `Post`.

### Fairness

Each thread takes its next step if it can (weak fairness of `Runs`, `Step`, `Worker`): the
operating system schedules every runnable thread.  No lock of a lower level is assumed to
be fair, no compare-and-swap is assumed to succeed, and no loop to end.  A thread in `WaitForAny`
is only obliged to wake up if its waiter was notified; whether another waitable wakes it is
left open; the same goes for `OtherIsSignaled` of `Tasks`.  In `Waiting` the program is assumed to set each event it lets threads
wait for, as often as `MaxSets` says.  Nothing obliges a program to destroy its thread pool.
In `MetaScheduler` a thread takes its next step, and a callback of an event that is set is made;
nothing obliges the program to set an event or to post work, and no wakeup without
a reason is assumed.  A `Set` that has begun goes on (`UnlockWork`).  There a condition that wakes a thread for no reason is a step only
if the thread then finds something changed; the others would go back to sleep.  The semaphore and
the barrier have weak fairness for a thread in a call, and none for beginning one.
Deadlock is checked in every run but `primitives`, whose parts stop when their calls are
used up; the other modules have an explicit stuttering step where the system may stop
(`Finished`, `Quiet`, `Halted`).

## 4. What the runs found

1. `Event::Set` (`event.cpp:54`) that finds the list locked spins on its local copy of the
   word and never loads it again, although the comment says "Wait for list to be unlocked
   before notifying waiters".  A `RemoveWaiter` from the middle of the list at the same time
   makes it spin for ever.  `Semaphore::Post` has the same loop (`semaphore.cpp:28`);
   `Mutex::Unlock` and `WaiterList::RemoveWaiter` reload.
2. `Semaphore` (`semaphore.cpp:49`): a wait decrements `mCount` and then pushes its waiter.
   A `Post` in between sees the negative count, finds no waiter, and returns; the wait sleeps
   although a permit is left.
3. `WaitForAllImpl` (`meta_scheduler.cpp:57`) divides the waitables into ordered and unordered
   ones, but then indexes the original array for the unordered ones: with an order dependent
   waitable in front it adds a second waiter to that and none to the other one.
4. `ThreadPool` (`thread_pool.cpp:50`): a worker tests `mStop` before it takes the lock and not
   again before it waits; if the destructor wakes everybody in between, `Join` never returns.

`SetServesWaiters` makes an exception for a `Set` in the state of finding 1, and `waiting`
names the events of a `WaitForAll` before its mutexes, as finding 3 requires.  `NoOverGrant` is the
half of the semaphore that holds.  Six more properties name the states they leave out:

* `RunReturns` leaves out three mistakes, of which any keeps `Run` from returning: `MissedStop`: the callback of `AcquireMetaThread` (`meta_scheduler.cpp:193`)
  sets `stop` and wakes without the lock, so it may come between the test and the sleep;
  `MissedCallback`: the stop path (`:486`) waits for a callback that wakes it only if no scheduler
  was active; and `InCircle`: the stop path holds `stateLock` while `RemoveWaiter` (`:482`) waits for a list
  that a `Set` has locked (`waiter_list.cpp:21`), and the callback of that `Set` waits for the same `stateLock`.  That takes
  a second thread, which adds its waiter to the condition after the `Set` has emptied the list and a scheduler has reset
  the condition: on an empty list `RemoveWaiter` does not wait.  Without this exception the run fails after 31 states.
* `PostedWorkIsRun` leaves out a condition whose last `Set` has found the list locked (`unheard`, finding 1; without
  it the run fails after 36 states), and one whose `Set` is in such a circle before it has told everybody (`SetHangs`).
* `WorkIsAttended` and `EveryTaskRuns` leave out a pool that has no worker because none could be created: its
  queued tasks are those whose `Post` has thrown, and they wait for a later `Post` or for the destructor.
  `EveryTaskRuns` also leaves out a destructor that a throwing task has left (`thread_pool.cpp:29`).
* `MetaThreadsAreShared` counts the meta threads that `CreateMetaThread` (`:556`) has added, for which
  it wakes nobody.
* `EveryThreadEnds` leaves out those who wait for a promise that went without having been set
  (`Abandoned`), a `Set` that has found the list of its event locked by a `WaitForAny` and those who wait for it
  (`SetSpins`, finding 1), and a program that `std::terminate` has ended.

### What the code does that a reader might not expect

No document of the repository says otherwise, so these are modelled as they are, or lie outside
of the models, and are no findings.

* `Run` that returns early because its event is set by then (`meta_scheduler.cpp:351`) destroys the
  meta thread it has acquired: it is never idle again.  `SetRunModeOverride` is declared and not defined.
* A `ThreadCanceled` that nobody catches, as any exception that leaves the function of a thread,
  ends the program.  A cancellation point does not look at `cancellationEnabled`.  A
  handle that is assigned over, or destroyed, neither joins nor detaches its thread.
* `ThreadPool::Post` queues its task before it creates a worker.  If the creation throws, the caller learns that
  `Post` has failed and gets no future, but the task is run all the same, by a later worker or by the destructor; a caller that
  posts it again has it run twice.
* `Thread::Join` is a cancellation point (`linux/thread.cpp:42`), so that a thread that is cancelled while
  it destroys a pool throws out of the destructor.  `ThreadPool` leaves that out; `Threads` has the cancellation point.
* A task that throws in `ThreadPool::Runner` leaks its promise; its future waits for ever.
* The semaphore of win32 and darwin lets 2n waits pass if its initial count is n, because both of its
  counters start with n.  The library starts all of its own with 0, as the model does.
* A thread that comes back to a `SpinBarrier` before the last one has reset it is lost; two barriers
  in turn, as the benchmark has them, are safe.
* The free list of a thread keeps its waiters, and `MPMCLifoQueue` its nodes, for ever.  A `TryPop` that
  succeeds ends without a return value.
* `FallbackAtomicOp` begins with a plain read of 64 bits (`win32/atomic_ops_x86.hpp:106`), which may be torn on the 32-bit build it is for.
  `FallbackRead` reads at once.  A torn value does no harm: the compare-and-swap of the whole word fails on it and
  finds the right one.
* Both forms of `operator--` of `Atomic` call `Increment`.
* `CreateCpuSet` makes processor 0 of an empty affinity, and `CreateAffinity` throws
  for a processor above 31.

## 5. What is proved

The proofs are checked by TLAPS and hold for every value of the constants that
satisfies the assumptions of the modules.

### Mutex (`MutexProofs`)

For any set of threads, any rounds, any spin count and any number of tag values:

* `TypeCorrect`: the types.
* `NeverFollowsNull`: no call follows a null pointer, whatever the tag does.
* `Invariance`: `Spec /\ []NoWrap => []IInv`.
* `MutexIsExclusive`, `RemovalIsTrue`, `AssertionsAreTrue`, `ListIsIntact`: the properties
  `MutualExclusion`, `RemovalMatchesGrant`, `AssertionsHold` and `ListIntegrity` of the run, under
  `[]NoWrap`.

`NoWrap` says that the tag has not come to its last value.  It is an assumption about the
behaviour, not about a constant: with a tag of 16 bits the code is only correct if no thread
sleeps through 65536 changes of the word.  Without the assumption the invariant fails where one would
expect it to, in the compare-and-swap of a pop.

`MutualExclusion` is not inductive: that two threads never hold the mutex depends on which waiter
a pop takes, and that on the links.  `IInv` adds:

* the *token*: exactly one thread carries the ownership while the flag is off (the owner, the
  unlocking thread before it notifies, or the thread that was notified);
* the *word*: free means empty and unlocked, locked means that exactly one thread scans;
* the *copies*: what each thread knows about its local copy of the word at each place;
* the *snapshots*: an unlocked copy that still equals the word has the newest tag, and what was
  read through it (`cached`) is still the successor of the first waiter;
* the *order*: there is a depth for each waiter such that the first waiter has the least
  one and `next` leads to the least greater one.

The last part (`InOrder`) says without recursion that the list holds exactly the waiting threads
and has no cycle.  A push gives the new waiter a depth below all others; a pop and a
removal keep the depths (`PushOrder`, `PopOrder` and `UnlinkOrder` in `WaiterListProofs`).  TLC checks `IInv` as `InductiveInvariant`, with depths
from 1 to the number of threads.  `ListIntegrity` speaks of what a thread finds that follows the
links (`Chain`): `OrderedList` counts, for each waiter, those of lower depth, and shows by induction over
finite sets (`SetInduction`, from the strict subsets being well-founded) that the counts are the
positions in the chain.  `FewDepthsAreEnough` (`InductiveInvariant`) is the same counting: ranks serve as
depths, so what TLC looks for is there.

`MutexImplementsLifoLock` is the refinement of the run, `Spec /\ []NoWrap => IsLifoLock`.  A compare-and-swap
that succeeds is the only thing that happens at the level of the lock: one that takes the free
word is `Acquire`, one that frees the word (`Frees`) or pops the first waiter (`Pops`) is `Release`, a push is `Wait`,
and a removal (`Leaves`), from the front or by the link of the scan, is `GiveUp`; every other step leaves the lock
alone.  The sequence of waiters is a `CHOOSE` over the length of the chain.  `TheSequence` shows that it is the one sequence that follows
the links (`Follows`), and the lemmas after it what a push, a pop and an unlink do to that.

### Thread pool (`SystemProofs`)

For any finite set of workers, any tasks, any maximum, and any spurious wakeups:
`PoolTypeCorrect`, `WorkIsAlwaysAttended` (no lost wakeup), `TasksRunOnce`,
`DestructionIsQuiet`, which are the invariants of the run, and for any creations of workers that fail.

`WorkIsAttended` is not inductive: when `Post` finds nobody asleep and creates nobody, some worker
must be awake, either because `mIdleThreadCount` is not zero or because there are
`mMaxThreadCount` workers.  `PoolInv` therefore says that `mIdleThreadCount` is the number of
workers in the wait loop, woken or not, that `mThreads` lists the workers that were created, and that a worker
leaves only if `mStop`.  A `Post` that throws has found `mIdleThreadCount` zero, so that every worker
that exists is awake; if none exists, each task in the queue has come the same way, which is the exception
that `WorkIsAttended` makes.  `RunOnce` is a sum of cardinalities; `OnePlace` says the same with
quantifiers and is what the steps preserve.

### Threads and futures (`TasksProofs`)

For any set of threads, whatever their programs do, and whichever creations fail:

* `DataLives`: the data of a thread and of a future is there exactly as long as somebody needs it
  (`DataLifetime` of the run).
* `HandlesAreJoinable`: the assertions about `pthread_join` and `pthread_detach` hold.
* `ResultsArePublished`: nobody finds a result that has not been written.

The three arguments are separate.  `ThreadInv` says, of each of the three references to the data of
a thread, for which places of the thread and its creator it is there; in particular the reference
of the data to itself is what covers the time between the creation and the first step.
`ResultInv` says that the event is set only over a result, and that who is about to read
comes after the event.  `LifeInv` says that `mRefCount` is the number of futures plus one for the
promise.  A sum over threads is out of reach without induction, so `RefsOf` makes a finite set with an
element for each future, and the count is its cardinality: a copy adds one element, a release takes
one away, and a count of zero leaves the thread that found it alone with the data.

`TasksTypeCorrect` adds the types, `mRefCount` and the waiters on the event included.

### Meta scheduler (`MetaSchedulerProofs`)

The four theorems hold for any finite sets of threads and meta threads, any sequence of
schedulers without repetition, any run modes, affinities and amounts of work.

`MetaThreadsShared`: a meta thread is idle or has one user, and while somebody sleeps, there is a thread on its way for
each idle meta thread, but for those `CreateMetaThread` has added.  The first half needs to know at
which places a thread holds one (`HeldOK`).  The second half is a count, `Attended`: whoever
gives a meta thread back wakes one more, and whoever takes one was counted.  It holds only because
the lock is kept from a test that finds nothing to the sleep (`LockOK`).

`MetaSchedulerTypeCorrect` (`TypeOK`), `SchedulersAreTracked` (`ListsAgree`) and `RunIsCleanedUp`
(`RunLeavesNothing`) follow from one invariant, `RunInv`: besides the types, for each thread,

* `WaitersOK`: a waiter or a callback of its `until` event is there exactly at the places where `Run` has one,
  and never both;
* `ListsOK`: the schedulers of the meta thread are in one of the two lists, each once, and those that are idle and not
  called are the ones with a waiter or a callback on its way (`Awaited`);
* `CountsOK`: `activeCount` is the length of the active list and the number of idle schedulers that were called, and
  `pollingCount` the number of active ones that poll;
* `PlaceOK`: what the thread knows of its locals at each place, among them that it sleeps only with nothing to do,
  and that there is an idle scheduler while it removes a waiter or awaits a callback;
* `AffinityOK`: the affinity of the thread and the one it remembers.

That `activeCount` stays in its type although callbacks raise it at any time is the reason for `CountsOK` and
`ListsOK` together: `activeCount` and the number of awaited schedulers add up to the schedulers.  The loop
that moves the called schedulers from one list to the other is a statement about `Selection`
(`SelectionOf`), which needs that a finite set of places has a first one (`Places`).

### Atomics (`SystemProofs`)

`AtomicsImplementAtomicWord`: for any modulus, threads, bit operations and calls, each build
implements `AtomicWord`; a step maps to a call or to a stutter.  `EffectsAgree` compares the builtins
and the intrinsics, which return the new value for some calls and wrap; `AtomicsTypeOK` is
what the loop of `FallbackAtomicOp` needs.

### Event (`EventProofs`)

`NobodyIsLeft` (`SetLeavesNobody`) and `OneOwner` (`LockHasOneOwner`), for any threads and rounds, and
for any tag, wraps included.  What is inductive is what each thread knows of its own copy of the
word: who got the word with the lock bit off and put it there is the one who clears it, and a
copy that a compare-and-swap is still to replace says whether there was somebody to notify.  Who set
the event last and found the list empty need not know anything: a set word has no waiter in it,
and a waiter that finds the word set does not push.

`EachIsNotifiedOnce` (`NotifiedOnce`) needs the lists, and with them `[]NoWrap`.  While a `Set` runs there are two,
and `ListInv` says of them, for some split of the waiters that nobody has notified into
`listed` and `rest`:

* *The list of the word* (`Attached`): `listed` is in order from the word, a removal that has come to the end of
  the list is not on it, and a scan is above its waiter as long as that is listed.
* *The list that `Set` has taken off* (`Detached`): `rest` is in order from the place that the one `Set` with the
  lock bit has reached, and is empty if there is none.  Waiters that are pushed in the meantime, after a
  `Reset`, go to `listed`; nothing but the notification shortens `rest`, because the lock bit keeps removals out.
* *Copies* (`CopyOK`): as for `Semaphore`.  `Reset` is the one step that changes the word and not
  the tag; the copies stay true because the list of a set event is empty (`SetLeavesNobody`, which is
  why it is a part of the invariant).

That the list ends where the links say (`Reached`) and that only one thread notifies (`LockOK`) turns this into
the count of `PlacesOf`.  TLC found `ListInv` (as `FiniteListInv`, with depths from 1 to the number of
threads) true in all 207376 states of the instance of `MCEvent`.

### Semaphore (`SemaphoreProofs`)

`PermitsAreEnough` (`NoOverGrant`): no more waits are granted than there are permits.  It is an
account: the waits that have succeeded, those about to return, the posts of the threads' own
semaphores, the calls of `Post` that look for a waiter, and the permits left in `mCount`
add up to at most what was given at the start and by posts.  It is *at most*, because a `Post` that finds no
waiter drops its permit (finding 2).  The sums are cardinalities of sets of pairs (`Units`),
of which each step adds, removes or moves one.  Neither the list nor the tag matters: a thread
that is notified twice would break other properties, but not this one.  `Threads` must be finite.

`WaitersAreListed` (`ListIntegrity`) and `RemovalsAreTrue` (`RemovalMatchesGrant`) need the list, and
with it `[]NoWrap`.  `ListInv` differs from the invariant of `Mutex` in that there is no
token: any number of `Post`s may be between the pop and the notification.

* *Grants* (`GrantOK`): a waiter off the list has one permit coming.  Either one `Post` holds it and
  it has not been notified, or it has been notified once.
* *Copies and snapshots* (`LocalOK`, `SnapshotOK`): a copy of an unlocked word that is still there has not
  been replaced by an equal one in between, so the `next` read through it is still true.
  A locked word has a tag that no unlocked copy has.
* *Order* (`Ordered`): the waiters with no permit coming are in order from the word, and a scan is
  above the waiter that it looks for as long as that waiter is listed.  This is why a scan
  that comes to the end may answer that the waiter has been taken off.

TLC found `ListInv` (as `FiniteListInv`, with depths from 1 to the number of threads) true in all 432273 states of the
instance of `MCSemaphore`; since the theorem covers it, it is no invariant of a run.

### Waiting (`WaitingProofs`)

For any finite set of threads and waitables, any calls, and any order of addresses:

* `WaitsLeaveNothing` (`NothingLeftBehind`): for each thread, the posts of its semaphore that are
  owed (callbacks on their way, waiters that will be notified) are those its call will still
  wait for.
* `WaitsTellTheTruth` (`ResultIsTrue`): each mutex has one place: free, with the thread that holds it, or
  on its way to the thread that is being notified.
* `NoCircles` (`NoCircularWait`): who waits for a mutex holds only mutexes with lower
  addresses, and of the mutexes that a circle would wait for one has the largest address.  It has the
  hypothesis `UnorderedFirst`: the calls of `WaitForAll` name what is unordered first.  Without it the
  index error of finding 3 makes a thread wait for itself; `MixedCalls`, the calls of the run,
  satisfies it, and under it `OrderedWaits` proves the property that finding 3 violates.

### What stays with TLC

* Liveness (`EveryRequestEnds`, `SetServesWaiters`, `EveryCallEnds`, `EveryTaskRuns`,
  `PostedWorkIsRun`, `RunReturns`, `EveryThreadEnds`): the prover does not do fairness.
* `IsLifoStack`, whose lists are read off the links by a recursive function;
  `IsPosixSemaphore` and `IsRendezvous`, which have liveness in them.
* `Event` and `Semaphore` state no type invariant: what their types are there for is in
  `ListIntegrity`, `LockHasOneOwner` and the others.

## 6. The plan

Done, in this order, because each waits on the one before: `WaiterList`, `Mutex` with its proofs,
`Event`, `Semaphore`, `Waiting`, `ThreadPool` with its proofs; then `MetaScheduler`, `Threads`,
`FutureData` and `Tasks`, the small parts of `MCPrimitives`, and the proofs about three of them;
then the proofs about `Waiting`, the permits of `Semaphore`, the lists of `Event`, `Semaphore` and `Mutex`, the
refinement of `Mutex`, and the rest of `MetaScheduler`.

Left:

* A theorem between the atomic waitables of `Waiting`, `FutureData` and `MetaScheduler` and
  the modules that have them step by step.
* `Run` with a scheduler that waits, which enters the context of its thread again.

## 7. What is not modelled, and why

* Weak memory: every atomic operation is one step and takes effect at once, which is what the
  locked instructions of the x86 ports do; the fences and the memory orders are not checked.
* The atomics of pointers and of other types: the same calls after a conversion.
* The exact lengths of spins, backoffs, yields and timed runs: they change when something happens, not
  what.  A lock guard is a lock and an unlock.
* The system mutex, condition and event: thin layers over the system, which `ThreadPool` and
  `MetaScheduler` take for what POSIX says of them.  Nothing in the library uses `SystemEvent`.
* Versioned data, which nothing in the library uses.
* Processor topology: a sequential query of the processor by CPUID.
* The affinity mask of win32, and the functions of darwin, which do nothing.
* The win32 port of threads beyond the calls of the system, which are those of linux under other names.
* What a value, an exception or a work item contains.
* Timeouts: the library has none in its waits.
* The 32-bit build, whose tag has 30 bits; the proofs cover it, as `AbaRange` is a constant.
