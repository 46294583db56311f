------------------------------ MODULE MCMutex -------------------------------
(***************************************************************************)
(* Small instances of Mutex.                                               *)
(***************************************************************************)
EXTENDS MutexInvariant

CONSTANT Twice  (* the threads that ask for the mutex twice; the others ask once *)

Rounds == [t \in Threads |-> IF t \in Twice THEN 2 ELSE 1]

=============================================================================
