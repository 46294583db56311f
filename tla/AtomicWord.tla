----------------------------- MODULE AtomicWord -----------------------------
(***************************************************************************)
(* What Atomic<T> promises of an integer that has a fixed width: a call    *)
(* takes effect at once, and the thread gets the value from before.        *)
(***************************************************************************)
EXTENDS Integers

CONSTANTS
  Threads,
  Modulus,      (* 2^w for a word of w bits                                  *)
  Calls,        (* the calls of the program                                  *)
  AndBits(_, _), OrBits(_, _), XorBits(_, _)    (* of the processor          *)

Words == 0 .. Modulus - 1

Operations == {"Load", "Store", "Swap", "CompareAndSwap", "Increment", "Decrement", "Add", "Sub",
               "And", "Or", "Xor"}

ASSUME AtomicWordAssumption ==
  /\ Modulus \in Nat \ {0}
  /\ Calls \subseteq [op : Operations, value : Words, cmp : Words]
  /\ \A v, w \in Words :
       AndBits(v, w) \in Words /\ OrBits(v, w) \in Words /\ XorBits(v, w) \in Words

VARIABLES
  word,         (* mData.bits                                                *)
  last,         (* per thread: its last call and the value it found          *)
  made          (* per thread: how many calls have returned                  *)

wordVars == <<word, last, made>>

\* Arithmetic wraps around.
Wrap(n) == IF n >= Modulus THEN n - Modulus ELSE IF n < 0 THEN n + Modulus ELSE n

\* The word w after the call c.
After(c, w) ==
  [Load |-> w,
   Store |-> c.value,
   Swap |-> c.value,
   CompareAndSwap |-> IF w = c.cmp THEN c.value ELSE w,
   Increment |-> Wrap(w + 1),
   Decrement |-> Wrap(w - 1),
   Add |-> Wrap(w + c.value),
   Sub |-> Wrap(w - c.value),
   And |-> AndBits(w, c.value),
   Or |-> OrBits(w, c.value),
   Xor |-> XorBits(w, c.value)][c.op]

Return(t, c, found) ==
  /\ last' = [last EXCEPT ![t] = [call |-> c, found |-> found]]
  /\ made' = [made EXCEPT ![t] = @ + 1]

Perform(t, c) == word' = After(c, word) /\ Return(t, c, word)

NoCall == [call |-> [op |-> "Load", value |-> 0, cmp |-> 0], found |-> 0]

WordInit ==
  /\ word = 0
  /\ last = [t \in Threads |-> NoCall]
  /\ made = [t \in Threads |-> 0]

WordNext == \E t \in Threads, c \in Calls : Perform(t, c)

WordSpec == WordInit /\ [][WordNext]_wordVars

=============================================================================
