------------------------------ MODULE MCEvent -------------------------------
(* Small instances of Event. *)
EXTENDS Event

CONSTANT Twice  (* the threads that make two calls; the others make one *)

Rounds == [t \in Threads |-> IF t \in Twice THEN 2 ELSE 1]

=============================================================================
