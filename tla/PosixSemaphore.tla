--------------------------- MODULE PosixSemaphore ---------------------------
(***************************************************************************)
(* SystemSemaphore on linux: sem_post, sem_wait and sem_trywait.           *)
(***************************************************************************)
EXTENDS Integers

CONSTANT Callers

VARIABLES
  count,        (* of the semaphore                                          *)
  waiting,      (* threads in Wait                                           *)
  passed        (* per thread: the waits that have got a permit              *)

vars == <<count, waiting, passed>>

Pass(t) ==
  /\ count > 0
  /\ count' = count - 1
  /\ passed' = [passed EXCEPT ![t] = @ + 1]

Post == count' = count + 1 /\ UNCHANGED <<waiting, passed>>

BeginWait(t) ==
  /\ t \notin waiting
  /\ waiting' = waiting \cup {t}
  /\ UNCHANGED <<count, passed>>

EndWait(t) ==
  /\ t \in waiting
  /\ Pass(t)
  /\ waiting' = waiting \ {t}

\* TryWait; one that fails changes nothing.
TryWait(t) == t \notin waiting /\ Pass(t) /\ UNCHANGED waiting

Init ==
  /\ count = 0
  /\ waiting = {}
  /\ passed = [t \in Callers |-> 0]

Next == Post \/ \E t \in Callers : BeginWait(t) \/ EndWait(t) \/ TryWait(t)

\* As long as there are permits, the threads that wait get them.
Spec == Init /\ [][Next]_vars /\ WF_vars(\E t \in Callers : EndWait(t))

=============================================================================
