---------------------------- MODULE MCSemaphore -----------------------------
(* Small instances of Semaphore. *)
EXTENDS Semaphore, TLC

CONSTANT Twice  (* the threads that make two calls; the others make one *)

Rounds == [t \in Threads |-> IF t \in Twice THEN 2 ELSE 1]

\* Threads that make the same calls are interchangeable.
Symmetry ==
  Permutations(Cancellers) \cup Permutations(Waiters \ Cancellers) \cup
  Permutations(Posters)

=============================================================================
