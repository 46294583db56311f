----------------------------- MODULE MCWaiting ------------------------------
(* Small instances of Waiting. *)
EXTENDS Waiting

CONSTANTS t1, t2, t3, e1, e2, m1, m2

Places == (m1 :> 1) @@ (e1 :> 2) @@ (m2 :> 3) @@ (e2 :> 4)

C(op, args) == [op |-> op, args |-> args]

\* One event is set, reset and set again.
Sets == (e1 :> 2) @@ (e2 :> 1)

\* Waits for all in opposite orders, and waits for any of the same waitables.
MixedCalls ==
  (t1 :> <<C("WaitForAll", <<e1, m2, m1>>), C("WaitFor", <<e2>>)>>) @@
  (t2 :> <<C("WaitForAll", <<m1, m2>>), C("WaitForAll", <<e2, e1>>)>>) @@
  (t3 :> <<C("WaitForAny", <<m1, e1, m2>>)>>)

\* An order dependent waitable before one that is not.
OrderedFirst ==
  (t1 :> <<C("WaitForAll", <<m1, e1>>)>>) @@ (t2 :> <<C("WaitFor", <<m1>>)>>) @@
  (t3 :> <<C("WaitForAny", <<e1, m1>>)>>)

=============================================================================
