------------------------------- MODULE Atomics ------------------------------
(***************************************************************************)
(* Atomic<T> on the builds the headers know: the linux builtins, the win32 *)
(* intrinsics, and 64 bits on 32-bit win32, where only compare-and-swap is *)
(* there and FallbackAtomicOp makes the rest of it.  Memory is sequentially*)
(* consistent: the memory order of a call is left out.                     *)
(***************************************************************************)
EXTENDS AtomicWord

CONSTANT MaxCalls (* bound: calls made by each thread                        *)

ASSUME AtomicsAssumption == MaxCalls \in Nat

VARIABLES
  build,
  phase,
  call,         (* the call a thread is in                                   *)
  oldValue      (* of FallbackAtomicOp                                       *)

atomicVars == <<word, last, made, build, phase, call, oldValue>>

Builds == {"linux", "win32", "win32wide"}

-----------------------------------------------------------------------------
(* Each of these says what the word becomes, and what the call returns.     *)
(* Load and Store are moves; a Store returns nothing.                       *)

Move(c, w) == [word |-> IF c.op = "Load" THEN w ELSE c.value, found |-> w]

(* linux: the builtins return the old value. *)

SyncSwap(c, w) ==
  [word |-> IF c.op = "Swap" \/ w = c.cmp THEN c.value ELSE w, found |-> w]

SyncArithmetic(c, w) ==
  [word |-> [Increment |-> Wrap(w + 1), Decrement |-> Wrap(w - 1),
             Add |-> Wrap(w + c.value), Sub |-> Wrap(w - c.value)][c.op],
   found |-> w]

SyncBits(c, w) ==
  [word |-> [And |-> AndBits(w, c.value), Or |-> OrBits(w, c.value),
             Xor |-> XorBits(w, c.value)][c.op],
   found |-> w]

(* win32: InterlockedIncrement and InterlockedDecrement return the new      *)
(* value, and a subtraction adds the negated one.                           *)

InterlockedSwap(c, w) ==
  [word |-> IF c.op = "Swap" \/ w = c.cmp THEN c.value ELSE w, found |-> w]

\* A bug: the new value is returned.
InterlockedArithmeticNew(c, w) ==
  LET new == [Increment |-> Wrap(w + 1), Decrement |-> Wrap(w - 1),
              Add |-> Wrap(w + c.value), Sub |-> Wrap(w + (-c.value))][c.op]
  IN  [word |-> new, found |-> IF c.op \in {"Increment", "Decrement"} THEN new ELSE w]

InterlockedArithmetic(c, w) ==
  LET new == [Increment |-> Wrap(w + 1), Decrement |-> Wrap(w - 1),
              Add |-> Wrap(w + c.value), Sub |-> Wrap(w + (-c.value))][c.op]
  IN  [word |-> new,
       found |-> IF c.op = "Increment" THEN Wrap(new - 1)
                 ELSE IF c.op = "Decrement" THEN Wrap(new + 1) ELSE w]

InterlockedBits(c, w) ==
  [word |-> [And |-> AndBits(w, c.value), Or |-> OrBits(w, c.value),
             Xor |-> XorBits(w, c.value)][c.op],
   found |-> w]

Moves == {"Load", "Store"}
Swaps == {"Swap", "CompareAndSwap"}
Arithmetic == {"Increment", "Decrement", "Add", "Sub"}
Bits == {"And", "Or", "Xor"}

-----------------------------------------------------------------------------
(* The calls *)

May(t, c) == phase[t] = "idle" /\ made[t] < MaxCalls /\ c \in Calls

AtOnce(t, c, effect) ==
  /\ word' = effect.word
  /\ Return(t, c, effect.found)
  /\ UNCHANGED <<build, phase, call, oldValue>>

MoveCall(t, c) == May(t, c) /\ c.op \in Moves /\ AtOnce(t, c, Move(c, word))

SyncCall(t, c) ==
  /\ May(t, c) /\ build = "linux"
  /\ \/ c.op \in Swaps /\ AtOnce(t, c, SyncSwap(c, word))
     \/ c.op \in Arithmetic /\ AtOnce(t, c, SyncArithmetic(c, word))
     \/ c.op \in Bits /\ AtOnce(t, c, SyncBits(c, word))

InterlockedCall(t, c) ==
  /\ May(t, c)
  /\ build = "win32" \/ (build = "win32wide" /\ c.op = "CompareAndSwap")
  /\ \/ c.op \in Swaps /\ AtOnce(t, c, InterlockedSwap(c, word))
     \/ c.op \in Arithmetic /\ AtOnce(t, c, InterlockedArithmetic(c, word))
     \/ c.op \in Bits /\ AtOnce(t, c, InterlockedBits(c, word))

(* FallbackAtomicOp *)

FallbackRead(t, c) ==
  /\ May(t, c) /\ build = "win32wide" /\ c.op \notin Moves \cup {"CompareAndSwap"}
  /\ oldValue' = [oldValue EXCEPT ![t] = word]
  /\ call' = [call EXCEPT ![t] = c]
  /\ phase' = [phase EXCEPT ![t] = "swap"]
  /\ UNCHANGED <<word, last, made, build>>

\* The function that FallbackAtomicOp is given.
Op(c, x) ==
  [Swap |-> c.value,
   Increment |-> Wrap(x + 1), Decrement |-> Wrap(x - 1),
   Add |-> Wrap(x + c.value), Sub |-> Wrap(x - c.value),
   And |-> AndBits(x, c.value), Or |-> OrBits(x, c.value), Xor |-> XorBits(x, c.value)][c.op]

\* Compares the word with the value read last, and takes the word if they differ.
FallbackSwap(t) ==
  /\ phase[t] = "swap"
  /\ \/ /\ word = oldValue[t]
        /\ word' = Op(call[t], oldValue[t])
        /\ Return(t, call[t], oldValue[t])
        /\ phase' = [phase EXCEPT ![t] = "idle"]
        /\ UNCHANGED oldValue
     \/ /\ word # oldValue[t]
        /\ oldValue' = [oldValue EXCEPT ![t] = word]
        /\ UNCHANGED <<word, last, made, phase>>
  /\ UNCHANGED <<build, call>>

-----------------------------------------------------------------------------
AtomicsInit ==
  /\ WordInit
  /\ build \in Builds
  /\ phase = [t \in Threads |-> "idle"]
  /\ call = [t \in Threads |-> NoCall.call]
  /\ oldValue = [t \in Threads |-> 0]

AtomicsNext == \E t \in Threads :
  \/ \E c \in Calls :
       MoveCall(t, c) \/ SyncCall(t, c) \/ InterlockedCall(t, c) \/ FallbackRead(t, c)
  \/ FallbackSwap(t)

AtomicsSpec == AtomicsInit /\ [][AtomicsNext]_atomicVars

AtomicsTypeOK ==
  /\ word \in Words /\ build \in Builds
  /\ last \in [Threads -> [call : [op : Operations, value : Words, cmp : Words], found : Words]]
  /\ made \in [Threads -> Nat]
  /\ phase \in [Threads -> {"idle", "swap"}]
  /\ call \in [Threads -> [op : Operations, value : Words, cmp : Words]]
  /\ oldValue \in [Threads -> Words]
  /\ \A t \in Threads : phase[t] = "swap" =>
       call[t] \in Calls /\ call[t].op \notin Moves \cup {"CompareAndSwap"}

(* On every build a call takes effect at once, as AtomicWord has it, and    *)
(* returns the old value: also the loop of FallbackAtomicOp, whose word     *)
(* other threads change and change back in the middle of it.                *)
IsAtomicWord == WordSpec

=============================================================================
