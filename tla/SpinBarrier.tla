---------------------------- MODULE SpinBarrier -----------------------------
(***************************************************************************)
(* SpinBarrier, used again and again as the benchmark of the LIFO list     *)
(* does it: the threads meet at several barriers in turn, because nobody   *)
(* may come back to a barrier before the last one has reset it.            *)
(***************************************************************************)
EXTENDS Integers, FiniteSets

CONSTANTS
  Parties,      (* the threads                                               *)
  Barriers,     (* how many barriers there are                               *)
  CounterRange, (* 2^32                                                      *)
  MaxRounds     (* bound: how often they meet                                *)

ASSUME SpinBarrierAssumption ==
  /\ Barriers \in Nat \ {0} /\ MaxRounds \in Nat
  /\ CounterRange \in Nat /\ CounterRange > Cardinality(Parties)

mTotalCount == Cardinality(Parties)

VARIABLES
  mWaitCount, mReadyCount,      (* per barrier                               *)
  where,        (* per thread: where it is in Wait                           *)
  entered, left, told   (* per thread: the rounds, as Rendezvous has them    *)

barrierVars == <<mWaitCount, mReadyCount, where, entered, left, told>>

\* The barrier that thread t is at, or comes to next.
Barrier(t) == (IF where[t] = "outside" THEN entered[t] ELSE entered[t] - 1) % Barriers

Where(t, label) == where' = [where EXCEPT ![t] = label]

DecrementWaitCount(t) ==
  /\ where[t] = "outside" /\ entered[t] < MaxRounds
  /\ mWaitCount' = [mWaitCount EXCEPT ![Barrier(t)] = (@ - 1) % CounterRange]
  /\ entered' = [entered EXCEPT ![t] = @ + 1]
  /\ Where(t, "spin")
  /\ UNCHANGED <<mReadyCount, left, told>>

\* The loop ends when it finds 0.
Spin(t) ==
  /\ where[t] = "spin" /\ mWaitCount[Barrier(t)] = 0
  /\ Where(t, "through")
  /\ UNCHANGED <<mWaitCount, mReadyCount, entered, left, told>>

LeaveRound(t) == left' = [left EXCEPT ![t] = entered[t]] /\ Where(t, "outside")

\* A bug: Increment is taken to return the new value.
IsLastOfNewValue(ready) == ready + 1 = mTotalCount - 1

IsLast(ready) == ready = mTotalCount - 1

IncrementReadyCount(t) ==
  LET b == Barrier(t)
  IN  /\ where[t] = "through"
      /\ mReadyCount' = [mReadyCount EXCEPT ![b] = (@ + 1) % CounterRange]
      /\ IF IsLast(mReadyCount[b]) THEN Where(t, "resetReady") /\ UNCHANGED left
         ELSE LeaveRound(t)
      /\ UNCHANGED <<mWaitCount, entered, told>>

ResetReadyCount(t) ==
  /\ where[t] = "resetReady"
  /\ mReadyCount' = [mReadyCount EXCEPT ![Barrier(t)] = 0]
  /\ Where(t, "resetWait")
  /\ UNCHANGED <<mWaitCount, entered, left, told>>

ResetWaitCount(t) ==
  /\ where[t] = "resetWait"
  /\ mWaitCount' = [mWaitCount EXCEPT ![Barrier(t)] = mTotalCount]
  /\ told' = [told EXCEPT ![t] = @ \cup {entered[t]}]
  /\ LeaveRound(t)
  /\ UNCHANGED <<mReadyCount, entered>>

-----------------------------------------------------------------------------
BarrierInit ==
  /\ mWaitCount = [b \in 0 .. Barriers - 1 |-> mTotalCount]
  /\ mReadyCount = [b \in 0 .. Barriers - 1 |-> 0]
  /\ where = [t \in Parties |-> "outside"]
  /\ entered = [t \in Parties |-> 0]
  /\ left = [t \in Parties |-> 0]
  /\ told = [t \in Parties |-> {}]

BarrierStep(t) ==
  Spin(t) \/ IncrementReadyCount(t) \/ ResetReadyCount(t) \/ ResetWaitCount(t)

BarrierNext == \E t \in Parties : DecrementWaitCount(t) \/ BarrierStep(t)

\* The operating system runs the threads, those that spin included.
BarrierFairness == \A t \in Parties : WF_barrierVars(BarrierStep(t))

BarrierSpec == BarrierInit /\ [][BarrierNext]_barrierVars /\ BarrierFairness

Meeting == INSTANCE Rendezvous

(* With two barriers in turn no thread leaves a round before all have come, *)
(* all of them leave it, and one, whose Wait returns true, is the one: the  *)
(* counters are reset before anybody is back at the barrier.                *)
IsRendezvous == Meeting!Spec

=============================================================================
