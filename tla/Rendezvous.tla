----------------------------- MODULE Rendezvous -----------------------------
(***************************************************************************)
(* What the threads that meet at barriers rely on: none leaves a round that*)
(* another has not entered, every one leaves it at last, and one of them is*)
(* told that it is the one.                                                *)
(***************************************************************************)
EXTENDS Integers

CONSTANT Parties

VARIABLES
  entered,      (* per thread: the last round it has entered                 *)
  left,         (* per thread: the last round it has left                    *)
  told          (* per thread: the rounds in which it was the one            *)

vars == <<entered, left, told>>

Enter(t) ==
  /\ left[t] = entered[t]
  /\ entered' = [entered EXCEPT ![t] = @ + 1]
  /\ UNCHANGED <<left, told>>

Leave(t, isTheOne) ==
  LET round == entered[t]
  IN  /\ left[t] < round /\ \A u \in Parties : entered[u] >= round
      /\ left' = [left EXCEPT ![t] = round]
      /\ told' = IF isTheOne THEN [told EXCEPT ![t] = @ \cup {round}] ELSE told
      /\ isTheOne => \A u \in Parties : round \notin told[u]
      /\ (\A u \in Parties : left'[u] >= round) => \E u \in Parties : round \in told'[u]
      /\ UNCHANGED entered

Init ==
  /\ entered = [t \in Parties |-> 0]
  /\ left = [t \in Parties |-> 0]
  /\ told = [t \in Parties |-> {}]

Next == \E t \in Parties : Enter(t) \/ \E isTheOne \in BOOLEAN : Leave(t, isTheOne)

Spec ==
  /\ Init /\ [][Next]_vars
  /\ \A t \in Parties : WF_vars(\E isTheOne \in BOOLEAN : Leave(t, isTheOne))

=============================================================================
