-------------------------- MODULE CountedSemaphore --------------------------
(***************************************************************************)
(* SystemSemaphore on win32 and darwin: a counter in front of a semaphore  *)
(* of the kernel, which is only called when a thread has to sleep or to be *)
(* woken up.  A negative counter says how many threads sleep, or are about *)
(* to.  The library makes all its semaphores with the count 0.             *)
(***************************************************************************)
EXTENDS Integers, FiniteSets

CONSTANTS
  Callers,      (* threads                                                   *)
  SpinCount,    (* of SpinWait                                               *)
  MaxSemaphoreCalls   (* bound: calls made by each thread                    *)

ASSUME CountedSemaphoreAssumption == SpinCount \in Nat /\ MaxSemaphoreCalls \in Nat

VARIABLES
  mCount,
  mSemaphore,   (* the count of the semaphore of the kernel                  *)
  stage,        (* per thread: where it is                                   *)
  count,        (* per thread: a local of TryWait                            *)
  spin,         (* per thread: spinCount                                     *)
  passed,       (* per thread: the waits that have got a permit              *)
  calls         (* per thread: the calls it has made                         *)

semaphoreVars == <<mCount, mSemaphore, stage, count, spin, passed, calls>>

Stage(t, s) == stage' = [stage EXCEPT ![t] = s]

BeginCall(t, s) ==
  /\ stage[t] = "outside" /\ calls[t] < MaxSemaphoreCalls
  /\ calls' = [calls EXCEPT ![t] = @ + 1]
  /\ Stage(t, s)

\* Thread t has its permit.
Permit(t) == passed' = [passed EXCEPT ![t] = @ + 1] /\ Stage(t, "outside")

-----------------------------------------------------------------------------
(* Increment and Decrement return the old value. *)

Post(t) ==
  /\ BeginCall(t, IF mCount < 0 THEN "signal" ELSE "outside")
  /\ mCount' = mCount + 1
  /\ UNCHANGED <<mSemaphore, count, spin, passed>>

ReleaseSemaphore(t) ==
  /\ stage[t] = "signal"
  /\ mSemaphore' = mSemaphore + 1
  /\ Stage(t, "outside")
  /\ UNCHANGED <<mCount, count, spin, passed, calls>>

BeginWait(t) ==
  /\ BeginCall(t, "decrement")
  /\ UNCHANGED <<mCount, mSemaphore, count, spin, passed>>

\* A bug: the new value is compared.
WaitComparesNew(t) ==
  /\ stage[t] = "decrement"
  /\ mCount' = mCount - 1
  /\ IF mCount < 0 THEN Stage(t, "sleep") /\ UNCHANGED passed ELSE Permit(t)
  /\ UNCHANGED <<mSemaphore, count, spin, calls>>

Wait(t) ==
  /\ stage[t] = "decrement"
  /\ mCount' = mCount - 1
  /\ IF mCount <= 0 THEN Stage(t, "sleep") /\ UNCHANGED passed ELSE Permit(t)
  /\ UNCHANGED <<mSemaphore, count, spin, calls>>

WaitForSingleObject(t) ==
  /\ stage[t] = "sleep" /\ mSemaphore > 0
  /\ mSemaphore' = mSemaphore - 1
  /\ Permit(t)
  /\ UNCHANGED <<mCount, count, spin, calls>>

(* TryWait, and SpinWait, which is some of them and a Wait *)

\* TryWait has failed: SpinWait tries again, or waits.
Failed(t) ==
  IF stage[t] \in {"spin", "spinSwap"} THEN
    /\ Stage(t, IF spin[t] > 1 THEN "spin" ELSE "decrement")
    /\ spin' = [spin EXCEPT ![t] = @ - 1]
  ELSE Stage(t, "outside") /\ UNCHANGED spin

BeginSpinWait(t) ==
  /\ BeginCall(t, IF SpinCount > 0 THEN "spin" ELSE "decrement")
  /\ spin' = [spin EXCEPT ![t] = SpinCount]
  /\ UNCHANGED <<mCount, mSemaphore, count, passed>>

BeginTryWait(t) ==
  /\ BeginCall(t, "try")
  /\ UNCHANGED <<mCount, mSemaphore, count, spin, passed>>

TryWaitLoad(t) ==
  /\ stage[t] \in {"try", "spin"}
  /\ count' = [count EXCEPT ![t] = mCount]
  /\ IF mCount <= 0 THEN Failed(t)
     ELSE Stage(t, IF stage[t] = "spin" THEN "spinSwap" ELSE "trySwap") /\ UNCHANGED spin
  /\ UNCHANGED <<mCount, mSemaphore, passed, calls>>

TryWaitSwap(t) ==
  /\ stage[t] \in {"trySwap", "spinSwap"}
  /\ \/ /\ mCount = count[t]
        /\ mCount' = count[t] - 1
        /\ Permit(t)
        /\ UNCHANGED <<count, spin>>
     \/ /\ mCount # count[t]
        /\ count' = [count EXCEPT ![t] = mCount]
        /\ IF mCount <= 0 THEN Failed(t) ELSE UNCHANGED <<stage, spin>>
        /\ UNCHANGED <<mCount, passed>>
  /\ UNCHANGED <<mSemaphore, calls>>

-----------------------------------------------------------------------------
SemaphoreInit ==
  /\ mCount = 0 /\ mSemaphore = 0
  /\ stage = [t \in Callers |-> "outside"]
  /\ count = [t \in Callers |-> 0]
  /\ spin = [t \in Callers |-> 0]
  /\ passed = [t \in Callers |-> 0]
  /\ calls = [t \in Callers |-> 0]

\* What a thread does in a call; the operating system runs every thread that can run.
SemaphoreStep(t) ==
  \/ ReleaseSemaphore(t) \/ Wait(t) \/ WaitForSingleObject(t) \/ TryWaitLoad(t) \/ TryWaitSwap(t)

SemaphoreNext == \E t \in Callers :
  \/ Post(t) \/ BeginWait(t) \/ BeginSpinWait(t) \/ BeginTryWait(t)
  \/ SemaphoreStep(t)

SemaphoreFairness == \A t \in Callers : WF_semaphoreVars(SemaphoreStep(t))

SemaphoreSpec == SemaphoreInit /\ [][SemaphoreNext]_semaphoreVars /\ SemaphoreFairness

-----------------------------------------------------------------------------
\* The permits: those in the counter, in the kernel, and on the way to it.
Signals == Cardinality({t \in Callers : stage[t] = "signal"})

Permits == (IF mCount > 0 THEN mCount ELSE 0) + mSemaphore + Signals

Posix == INSTANCE PosixSemaphore WITH
  count <- Permits,
  waiting <- {t \in Callers : stage[t] \in {"decrement", "sleep", "spin", "spinSwap"}}

(* The counter and the semaphore of the kernel make a semaphore: no wait    *)
(* ends without a post of its own, and no permit stays while a thread waits,*)
(* whatever happens between the counter and the kernel.  A TryWait may fail *)
(* while a permit is on its way to a thread that sleeps.                    *)
IsPosixSemaphore == Posix!Spec

=============================================================================
