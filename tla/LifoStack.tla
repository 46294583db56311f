----------------------------- MODULE LifoStack ------------------------------
(***************************************************************************)
(* What the users of a lock-free list rely on: each list is a stack, from  *)
(* which one thread takes the node that was put there last, and a node that*)
(* a thread has in its hands is on no list and in no other hands.          *)
(***************************************************************************)
EXTENDS Sequences, SequencesExt

CONSTANTS Lists, Clients, Nodes

VARIABLES
  stacks,       (* per list: its nodes, the last one first                   *)
  hands         (* per thread: the nodes it has                              *)

Placed(n) == (\E l \in Lists : n \in Range(stacks[l])) \/ \E t \in Clients : n \in hands[t]

New(t, n) ==
  /\ ~Placed(n)
  /\ hands' = [hands EXCEPT ![t] = @ \cup {n}]
  /\ UNCHANGED stacks

Put(t, l, n) ==
  /\ n \in hands[t]
  /\ stacks' = [stacks EXCEPT ![l] = <<n>> \o @]
  /\ hands' = [hands EXCEPT ![t] = @ \ {n}]

Take(t, l) ==
  /\ stacks[l] # <<>>
  /\ hands' = [hands EXCEPT ![t] = @ \cup {Head(stacks[l])}]
  /\ stacks' = [stacks EXCEPT ![l] = Tail(@)]

Init ==
  /\ stacks = [l \in Lists |-> <<>>]
  /\ hands = [t \in Clients |-> {}]

Next == \E t \in Clients :
  \/ \E n \in Nodes : New(t, n) \/ \E l \in Lists : Put(t, l, n)
  \/ \E l \in Lists : Take(t, l)

Spec == Init /\ [][Next]_<<stacks, hands>>

=============================================================================
