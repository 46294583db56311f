------------------------------ MODULE LifoLock ------------------------------
(***************************************************************************)
(* What Mutex promises: a lock that passes from its owner directly to the  *)
(* thread that began to wait last.                                         *)
(***************************************************************************)
EXTENDS Integers, Sequences

CONSTANTS Threads, NoOwner

VARIABLES
  owner,        (* the thread that has the lock, or NoOwner   *)
  stack         (* the waiting threads, the latest one first  *)

Waits(t) == \E i \in DOMAIN stack : stack[i] = t

Acquire(t) ==
  /\ owner = NoOwner
  /\ owner' = t
  /\ UNCHANGED stack

Wait(t) ==
  /\ owner \notin {NoOwner, t} /\ ~Waits(t)
  /\ stack' = <<t>> \o stack
  /\ UNCHANGED owner

GiveUp(t) ==
  /\ \E i \in DOMAIN stack :
       /\ stack[i] = t
       /\ stack' = SubSeq(stack, 1, i - 1) \o SubSeq(stack, i + 1, Len(stack))
  /\ UNCHANGED owner

Release(t) ==
  /\ owner = t
  /\ \/ /\ stack = <<>>
        /\ owner' = NoOwner
        /\ UNCHANGED stack
     \/ /\ stack # <<>>
        /\ owner' = Head(stack)
        /\ stack' = Tail(stack)

Init == owner = NoOwner /\ stack = <<>>

Next == \E t \in Threads : Acquire(t) \/ Wait(t) \/ GiveUp(t) \/ Release(t)

Spec == Init /\ [][Next]_<<owner, stack>>

=============================================================================
