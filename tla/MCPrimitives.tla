---------------------------- MODULE MCPrimitives ----------------------------
(***************************************************************************)
(* Four small parts that share nothing, each checked against its own       *)
(* abstract specification.  A behaviour is one of one part, the others do  *)
(* nothing.                                                                *)
(***************************************************************************)
EXTENDS Atomics, LifoQueue, CountedSemaphore, SpinBarrier, FiniteSetsExt

CONSTANTS t1, t2, t3, n1, n2

VARIABLE part

\* The bits of a word, and what the processor does with them.
BitsOf(w) == {i \in 0 .. 2 : (w \div 2 ^ i) % 2 = 1}
WordOf(bits) == MapThenSumSet(LAMBDA i : 2 ^ i, bits)
WordAnd(v, w) == WordOf(BitsOf(v) \cap BitsOf(w))
WordOr(v, w) == WordOf(BitsOf(v) \cup BitsOf(w))
WordXor(v, w) == WordOf((BitsOf(v) \cup BitsOf(w)) \ (BitsOf(v) \cap BitsOf(w)))

\* Bound: Load changes nothing, and Or and Xor are made like And.
CallSet == {[op |-> o, value |-> 3, cmp |-> 7] : o \in Operations \ {"Load", "Or", "Xor"}}

Parts == {"atomics", "lifo", "semaphore", "barrier"}

PartInit ==
  /\ part \in Parts
  /\ AtomicsInit /\ (part # "atomics" => build = "linux")
  /\ LifoInit /\ (part # "lifo" => user = "queue")
  /\ SemaphoreInit
  /\ BarrierInit

PartNext ==
  /\ \/ part = "atomics" /\ AtomicsNext /\ UNCHANGED <<lifoVars, semaphoreVars, barrierVars>>
     \/ part = "lifo" /\ LifoNext /\ UNCHANGED <<atomicVars, semaphoreVars, barrierVars>>
     \/ part = "semaphore" /\ SemaphoreNext /\ UNCHANGED <<atomicVars, lifoVars, barrierVars>>
     \/ part = "barrier" /\ BarrierNext /\ UNCHANGED <<atomicVars, lifoVars, semaphoreVars>>
  /\ UNCHANGED part

PartSpec ==
  /\ PartInit /\ [][PartNext]_<<part, atomicVars, lifoVars, semaphoreVars, barrierVars>>
  /\ SemaphoreFairness /\ BarrierFairness

=============================================================================
