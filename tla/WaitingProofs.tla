---------------------------- MODULE WaitingProofs ----------------------------
(***************************************************************************)
(* Proofs about Waiting for any threads, events, mutexes and calls: the    *)
(* count of the posts that a thread is owed, what it owns, and the order   *)
(* of addresses in which WaitForAll acquires mutexes.                      *)
(***************************************************************************)
EXTENDS Waiting, FiniteSetTheorems, WellFoundedInduction, TLAPS

-----------------------------------------------------------------------------
(* Sequences without duplicates, and finite sets of numbers. *)

\* The elements of a sequence, by their indices.
LEMMA InRange ==
  ASSUME NEW S, NEW s \in Seq(S)
  PROVE  /\ Range(s) \subseteq S
         /\ \A y : y \in Range(s) <=> \E i \in 1 .. Len(s) : s[i] = y
         /\ IsInjective(s) <=> \A i, j \in 1 .. Len(s) : s[i] = s[j] => i = j
<1>1. DOMAIN s = 1 .. Len(s) /\ \A i \in 1 .. Len(s) : s[i] \in S
  OBVIOUS
<1>2. \A y : y \in Range(s) <=> \E i \in 1 .. Len(s) : s[i] = y
  BY <1>1 DEF Range
<1>3. IsInjective(s) <=> \A i, j \in 1 .. Len(s) : s[i] = s[j] => i = j
  BY <1>1 DEF IsInjective
<1>4. Range(s) \subseteq S
  BY <1>1 DEF Range
<1> QED
  BY <1>2, <1>3, <1>4

\* The list of a waitable without waiters.
LEMMA EmptyRange ==
  ASSUME NEW S
  PROVE  <<>> \in Seq(S) /\ Range(<<>>) = {} /\ IsInjective(<<>>)
<1>1. <<>> \in Seq(S) /\ 1 .. Len(<<>>) = {}
  OBVIOUS
<1>2. \A y : y \notin Range(<<>>)
  BY <1>1, InRange
<1>3. IsInjective(<<>>)
  BY <1>1, InRange
<1> QED
  BY <1>1, <1>2, <1>3

\* The elements of a concatenation.
LEMMA ConcatElements ==
  ASSUME NEW S, NEW a \in Seq(S), NEW b \in Seq(S)
  PROVE  /\ a \o b \in Seq(S) /\ Len(a \o b) = Len(a) + Len(b)
         /\ \A i \in 1 .. Len(a) : (a \o b)[i] = a[i]
         /\ \A i \in 1 .. Len(b) : (a \o b)[Len(a) + i] = b[i]
  OBVIOUS

\* The first waiter of a list, and the list that Unlock or a Set leaves.
LEMMA HeadTail ==
  ASSUME NEW S, NEW s \in Seq(S), s # <<>>, IsInjective(s)
  PROVE  /\ Head(s) \in S /\ Head(s) \in Range(s)
         /\ Tail(s) \in Seq(S) /\ IsInjective(Tail(s))
         /\ Len(Tail(s)) = Len(s) - 1
         /\ Range(Tail(s)) = Range(s) \ {Head(s)}
<1> DEFINE n == Tail(s)
<1>1. Len(s) \in Nat /\ Len(s) > 0 /\ Head(s) = s[1] /\ Head(s) \in S
  OBVIOUS
<1>2. /\ n \in Seq(S) /\ Len(n) = Len(s) - 1
      /\ \A i \in 1 .. Len(s) - 1 : n[i] = s[i + 1]
  OBVIOUS
<1> HIDE DEF n
<1>3. \A i \in 1 .. Len(s) : i = 1 \/ (i - 1 \in 1 .. Len(s) - 1 /\ n[i - 1] = s[i])
  BY <1>1, <1>2
<1>4. \A i \in 1 .. Len(s) - 1 : i + 1 \in 1 .. Len(s) /\ i + 1 # 1
  BY <1>1
<1>5. 1 \in 1 .. Len(s)
  BY <1>1
<1>6. IsInjective(n)
  <2>1. \A i, j \in 1 .. Len(s) - 1 : i + 1 = j + 1 => i = j
    BY <1>1
  <2> QED
    BY <1>2, <1>4, <2>1, InRange
<1>7. \A y \in Range(n) : y \in Range(s) /\ y # s[1]
  BY <1>2, <1>4, <1>5, InRange
<1>8. \A y \in Range(s) : y = s[1] \/ y \in Range(n)
  BY <1>2, <1>3, InRange
<1>9. s[1] \in Range(s)
  BY <1>5, InRange
<1> QED
  BY <1>1, <1>2, <1>6, <1>7, <1>8, <1>9 DEF n

\* AddWaiter puts a waiter in front of a list.
LEMMA ConsRange ==
  ASSUME NEW S, NEW s \in Seq(S), NEW x \in S
  PROVE  /\ <<x>> \o s \in Seq(S) /\ Range(<<x>> \o s) = Range(s) \cup {x}
         /\ IsInjective(s) /\ x \notin Range(s) => IsInjective(<<x>> \o s)
<1> DEFINE n == <<x>> \o s
<1>1. /\ n \in Seq(S) /\ Len(n) = Len(s) + 1 /\ n[1] = x /\ Len(s) \in Nat
      /\ \A i \in 2 .. Len(s) + 1 : n[i] = s[i - 1]
  OBVIOUS
<1>2. \A i \in 1 .. Len(s) : i + 1 \in 1 .. Len(s) + 1 /\ n[i + 1] = s[i]
  BY <1>1
<1>3. \A i \in 1 .. Len(s) + 1 : i = 1 \/ (i - 1 \in 1 .. Len(s) /\ i \in 2 .. Len(s) + 1)
  BY <1>1
<1> HIDE DEF n
<1>4. Range(n) = Range(s) \cup {x}
  <2>1. \A y \in Range(s) : y \in Range(n)
    <3> SUFFICES ASSUME NEW y \in Range(s)
                 PROVE  y \in Range(n)
      OBVIOUS
    <3>1. PICK i \in 1 .. Len(s) : s[i] = y
      BY InRange
    <3> QED
      BY <3>1, <1>1, <1>2, InRange
  <2>2. x \in Range(n)
    BY <1>1 DEF Range
  <2>3. \A y \in Range(n) : y = x \/ y \in Range(s)
    BY <1>1, <1>3 DEF Range
  <2> QED
    BY <2>1, <2>2, <2>3
<1>5. ASSUME IsInjective(s), x \notin Range(s)
      PROVE  IsInjective(n)
  <2> SUFFICES ASSUME NEW i \in 1 .. Len(s) + 1, NEW j \in 1 .. Len(s) + 1, n[i] = n[j]
               PROVE  i = j
    BY <1>1 DEF IsInjective
  <2>1. \A k \in 2 .. Len(s) + 1 : n[k] # x
    <3> SUFFICES ASSUME NEW k \in 2 .. Len(s) + 1
                 PROVE  n[k] # x
      OBVIOUS
    <3>1. k - 1 \in 1 .. Len(s) /\ n[k] = s[k - 1]
      BY <1>1
    <3> QED
      BY <3>1, <1>5 DEF Range
  <2>2. CASE i = 1 \/ j = 1
    BY <1>1, <1>3, <2>1, <2>2
  <2>3. CASE i # 1 /\ j # 1
    <3>1. s[i - 1] = s[j - 1] /\ i - 1 \in 1 .. Len(s) /\ j - 1 \in 1 .. Len(s)
      BY <1>1, <1>3, <2>3
    <3>2. i - 1 = j - 1
      BY <3>1, <1>5, <1>1 DEF IsInjective
    <3> QED
      BY <3>2
  <2> QED
    BY <2>2, <2>3
<1> QED
  BY <1>1, <1>4, <1>5 DEF n

\* A wait remembers the waiters that it has added, in order.
LEMMA AppendRange ==
  ASSUME NEW S, NEW s \in Seq(S), NEW x \in S
  PROVE  /\ Append(s, x) \in Seq(S) /\ Range(Append(s, x)) = Range(s) \cup {x}
         /\ Len(Append(s, x)) = Len(s) + 1
         /\ IsInjective(s) /\ x \notin Range(s) => IsInjective(Append(s, x))
<1> DEFINE n == Append(s, x)
<1>1. /\ n \in Seq(S) /\ Len(n) = Len(s) + 1 /\ Len(s) \in Nat /\ n[Len(s) + 1] = x
      /\ \A i \in 1 .. Len(s) : n[i] = s[i]
  OBVIOUS
<1> HIDE DEF n
<1>2. \A i \in 1 .. Len(s) + 1 : i \in 1 .. Len(s) \/ i = Len(s) + 1
  BY <1>1
<1>3. \A i \in 1 .. Len(s) : i \in 1 .. Len(s) + 1
  BY <1>1
<1>4. Range(n) = Range(s) \cup {x}
  <2>1. \A y \in Range(s) : y \in Range(n)
    BY <1>1, <1>3 DEF Range
  <2>2. x \in Range(n)
    BY <1>1 DEF Range
  <2>3. \A y \in Range(n) : y = x \/ y \in Range(s)
    BY <1>1, <1>2 DEF Range
  <2> QED
    BY <2>1, <2>2, <2>3
<1>5. IsInjective(s) /\ x \notin Range(s) => IsInjective(n)
  BY <1>1, <1>2 DEF IsInjective, Range
<1> QED
  BY <1>1, <1>4, <1>5 DEF n

\* Without the element at i, the others keep their order.
LEMMA RemoveAtRange ==
  ASSUME NEW S, NEW s \in Seq(S), NEW i \in DOMAIN s, IsInjective(s)
  PROVE  /\ RemoveAt(s, i) \in Seq(S) /\ IsInjective(RemoveAt(s, i))
         /\ Range(RemoveAt(s, i)) = Range(s) \ {s[i]}
<1> DEFINE n == RemoveAt(s, i)
           From(j) == IF j < i THEN j ELSE j + 1
<1>1. Len(s) \in Nat /\ i \in 1 .. Len(s)
  OBVIOUS
<1>2. /\ n \in Seq(S) /\ Len(n) = Len(s) - 1
      /\ \A j \in 1 .. Len(s) - 1 : n[j] = s[From(j)]
  <2> DEFINE a == SubSeq(s, 1, i - 1)
             b == SubSeq(s, i + 1, Len(s))
  <2>1. a \in Seq(S) /\ Len(a) = i - 1 /\ \A j \in 1 .. i - 1 : a[j] = s[j]
    BY <1>1
  <2>2. b \in Seq(S) /\ Len(b) = Len(s) - i /\ \A j \in 1 .. Len(s) - i : b[j] = s[j + i]
    BY <1>1
  <2>3. n = a \o b
    BY DEF RemoveAt
  <2> HIDE DEF n, a, b
  <2>4. /\ n \in Seq(S) /\ Len(n) = Len(a) + Len(b)
        /\ \A j \in 1 .. Len(a) : n[j] = a[j]
        /\ \A j \in 1 .. Len(b) : n[Len(a) + j] = b[j]
    <3>1. /\ a \o b \in Seq(S) /\ Len(a \o b) = Len(a) + Len(b)
          /\ \A k \in 1 .. Len(a) : (a \o b)[k] = a[k]
          /\ \A k \in 1 .. Len(b) : (a \o b)[Len(a) + k] = b[k]
      <4>1. a \in Seq(S) /\ b \in Seq(S)
        BY <2>1, <2>2
      <4> QED
        BY <4>1, ConcatElements
    <3> QED
      BY <3>1, <2>3
  <2>5. ASSUME NEW j \in 1 .. Len(s) - 1
        PROVE  n[j] = s[From(j)]
    <3>1. CASE j < i
      <4>1. j \in 1 .. i - 1
        BY <3>1, <1>1
      <4>2. n[j] = a[j] /\ a[j] = s[j]
        BY <4>1, <2>1, <2>4
      <4> QED
        BY <4>2, <3>1
    <3>2. CASE j >= i
      <4> DEFINE k == j - (i - 1)
      <4>1. k \in 1 .. Len(s) - i /\ (i - 1) + k = j /\ k + i = j + 1
        BY <3>2, <1>1
      <4> HIDE DEF k
      <4>2. n[j] = b[k] /\ b[k] = s[j + 1]
        BY <4>1, <2>1, <2>2, <2>4
      <4> QED
        BY <4>2, <3>2, <1>1
    <3> QED
      BY <3>1, <3>2, <1>1
  <2> QED
    BY <2>1, <2>2, <2>4, <2>5, <1>1
<1>3. \A j \in 1 .. Len(s) - 1 : From(j) \in 1 .. Len(s) /\ From(j) # i
  BY <1>1
<1>4. \A j, k \in 1 .. Len(s) - 1 : From(j) = From(k) => j = k
  BY <1>1
<1>5. \A j \in 1 .. Len(s) : j # i => \E k \in 1 .. Len(s) - 1 : From(k) = j
  <2> SUFFICES ASSUME NEW j \in 1 .. Len(s), j # i
               PROVE  \E k \in 1 .. Len(s) - 1 : From(k) = j
    OBVIOUS
  <2>1. CASE j < i
    <3>1. j \in 1 .. Len(s) - 1 /\ From(j) = j
      BY <1>1, <2>1
    <3> QED
      BY <3>1
  <2>2. CASE j > i
    <3>1. j - 1 \in 1 .. Len(s) - 1 /\ From(j - 1) = j
      BY <1>1, <2>2
    <3> QED
      BY <3>1
  <2> QED
    BY <1>1, <2>1, <2>2
<1> HIDE DEF n, From
<1>6. IsInjective(n)
  BY <1>1, <1>2, <1>3, <1>4 DEF IsInjective
<1>7. Range(n) = Range(s) \ {s[i]}
  <2>1. \A j \in 1 .. Len(s) : s[j] = s[i] => j = i
    BY <1>1 DEF IsInjective
  <2>2. \A y \in Range(n) : y \in Range(s) \ {s[i]}
    BY <1>1, <1>2, <1>3, <2>1 DEF Range
  <2>3. \A y \in Range(s) \ {s[i]} : y \in Range(n)
    <3> SUFFICES ASSUME NEW j \in 1 .. Len(s), s[j] # s[i]
                 PROVE  s[j] \in Range(n)
      BY <1>1 DEF Range
    <3>1. PICK k \in 1 .. Len(s) - 1 : From(k) = j
      BY <1>5
    <3> QED
      BY <3>1, <1>2 DEF Range
  <2> QED
    BY <2>2, <2>3
<1> QED
  BY <1>2, <1>6, <1>7 DEF n

\* A finite set of numbers has a largest element.
LEMMA LargestElement ==
  ASSUME NEW S \in SUBSET Nat, IsFiniteSet(S), S # {}
  PROVE  \E x \in S : \A y \in S : y <= x
<1> DEFINE Above(x) == {y \in S : y > x}
           T == {Above(x) : x \in S}
<1>1. \A x \in S : Above(x) \in SUBSET S /\ Above(x) \in T
  OBVIOUS
<1>2. T # {} /\ \A U \in T : \E x \in S : U = Above(x)
  OBVIOUS
<1> HIDE DEF T
<1>3. T \subseteq FiniteSubsetsOf(S)
  <2>1. FiniteSubsetsOf(S) = SUBSET S
    BY FS_FiniteSubsetsOfFinite
  <2> QED
    BY <1>1, <1>2, <2>1
<1>4. PICK U \in T : \A V \in T : <<V, U>> \notin StrictSubsetOrdering(S)
  <2>1. IsWellFoundedOn(StrictSubsetOrdering(S), FiniteSubsetsOf(S))
    BY FS_StrictSubsetOrderingWellFounded
  <2>2. \E U \in T : \A V \in T : ~ (<<V, U>> \in StrictSubsetOrdering(S))
    BY <1>2, <1>3, <2>1, WFMin
  <2> QED
    BY <2>2
<1>5. PICK x \in S : U = Above(x)
  BY <1>2
<1>6. ASSUME NEW y \in S, y > x
      PROVE  FALSE
  <2>1. Above(y) \subseteq U /\ y \in U /\ y \notin Above(y)
    <3>1. \A z \in S : z > y => z > x
      BY <1>6
    <3>2. ~ (y > y)
      OBVIOUS
    <3> QED
      BY <1>5, <1>6, <3>1, <3>2
  <2>2. <<Above(y), U>> \in StrictSubsetOrdering(S)
    BY <2>1, <1>1, <1>5 DEF StrictSubsetOrdering
  <2> QED
    BY <2>2, <1>1, <1>4
<1> QED
  BY <1>6

-----------------------------------------------------------------------------
(* The invariant. *)

(* Where a waiter of t can be: on a list, or taken off it by a Set or an    *)
(* Unlock that has yet to run its callback.  Each is a post that t is owed. *)
OnLists(t) == {w \in Waitables : t \in Range(waiters[w])}
Setters(t) == {e \in Events : t \in Range(detached[e])}
Unlockers(t) == {u \in Threads : pc[u] = "notify" /\ target[u] = t}

Owed(t) ==
  Cardinality(OnLists(t)) + Cardinality(Setters(t)) + Cardinality(Unlockers(t)) + posted[t]

\* How many posts that is, by what t has counted so far.
Expected(t) ==
  CASE pc[t] \in {"addInTurn", "addAny"} -> Len(added[t])
    [] pc[t] = "awaitInTurn" -> 1
    [] pc[t] = "removeAny" -> Len(added[t]) + Cardinality(signaled[t]) - 1
    [] pc[t] = "awaitCallbacks" -> left[t]
    [] OTHER -> 0

ListsInv ==
  /\ \A w \in Waitables : IsInjective(waiters[w])
  /\ \A e \in Events : IsInjective(detached[e])

\* What a thread finds in its own variables.
LocalsOK(t) ==
  /\ pc[t] # "idle" => calls[t] < Len(Calls[t])
  /\ IsInjective(atOnce[t]) /\ IsInjective(added[t])
  /\ Range(atOnce[t]) \cap Range(added[t]) = {}
  /\ pc[t] \in {"addInTurn", "addAny"} => Range(atOnce[t]) \cap OnLists(t) = {}
  /\ inTurn[t] # {} => pc[t] \in {"addInTurn", "awaitInTurn"} /\ added[t] = <<>>
  /\ pc[t] = "awaitInTurn" => added[t] = <<>>
  /\ pc[t] \in {"idle", "addInTurn", "awaitInTurn", "addAny"} => signaled[t] = {}
  /\ pc[t] \in {"addInTurn", "awaitInTurn"} =>
       Range(atOnce[t]) \cup inTurn[t] \subseteq Range(Call(t).args)
  /\ signaled[t] \cap (OnLists(t) \cup Range(added[t])) = {}
  /\ pc[t] = "awaitCallbacks" => signaled[t] # {} /\ added[t] = <<>>

Owned(t) == {m \in Mutexes : owner[m] = t}

\* The mutexes that t has, or will be passed while it waits.
Claims(t) ==
  Mutexes \cap (IF pc[t] \in {"addInTurn", "awaitInTurn"} THEN Range(Call(t).args) \ inTurn[t]
                ELSE IF pc[t] \in {"addAny", "removeAny"} THEN Range(added[t]) \cup signaled[t]
                ELSE signaled[t])

MutexesOK(t) ==
  /\ Owned(t) \cup (OnLists(t) \cap Mutexes) = Claims(t)
  /\ pc[t] # "addInTurn" => Owned(t) \cap OnLists(t) = {}
  /\ pc[t] = "addInTurn" => Owned(t) = Claims(t)

\* The waitables that are not order dependent come first in every call for all.
UnorderedFirst ==
  \A t \in Threads : \A c \in Range(Calls[t]) :
    c.op = "WaitForAll" => Range(AtOnce(c)) \cap Mutexes = {}

\* What t has comes before what it waits for, and that before what it will wait for.
OrderOK(t) ==
  /\ pc[t] \in {"addInTurn", "awaitInTurn"} =>
       /\ Range(atOnce[t]) \cap Mutexes = {}
       /\ \A m \in Claims(t), w \in inTurn[t] : Address[m] < Address[w]
  /\ pc[t] = "addInTurn" => OnLists(t) \cap Mutexes = {}
  /\ pc[t] = "awaitInTurn" =>
       \A m \in Owned(t), w \in OnLists(t) : Address[m] < Address[w]

ThreadOK(t) ==
  /\ LocalsOK(t) /\ Owed(t) = Expected(t) /\ MutexesOK(t)
  /\ UnorderedFirst => OrderOK(t)

WaitInv == TypeOK /\ ListsInv /\ \A t \in Threads : ThreadOK(t)

-----------------------------------------------------------------------------
(* The count of the posts that a thread is owed. *)

\* The places can be counted.
LEMMA PlacesFinite ==
  ASSUME NEW t \in Threads
  PROVE  /\ IsFiniteSet(OnLists(t)) /\ Cardinality(OnLists(t)) \in Nat
         /\ IsFiniteSet(Setters(t)) /\ Cardinality(Setters(t)) \in Nat
         /\ IsFiniteSet(Unlockers(t)) /\ Cardinality(Unlockers(t)) \in Nat
<1>1. OnLists(t) \in SUBSET Waitables /\ Setters(t) \in SUBSET Waitables
  BY DEF OnLists, Setters, Waitables
<1>2. Unlockers(t) \in SUBSET Threads
  BY DEF Unlockers
<1> QED
  BY <1>1, <1>2, WaitingAssumption, FS_Subset, FS_CardinalityType

\* A thread that is owed no post has no waiter anywhere; its semaphore is at zero.
LEMMA NothingOwed ==
  ASSUME TypeOK, NEW t \in Threads, Owed(t) = 0
  PROVE  OnLists(t) = {} /\ Setters(t) = {} /\ Unlockers(t) = {} /\ posted[t] = 0
<1>1. \A a, b, c, d \in Nat : a + b + c + d = 0 => a = 0 /\ b = 0 /\ c = 0 /\ d = 0
  OBVIOUS
<1>2. /\ Cardinality(OnLists(t)) \in Nat /\ Cardinality(Setters(t)) \in Nat
      /\ Cardinality(Unlockers(t)) \in Nat /\ posted[t] \in Nat
  BY PlacesFinite DEF TypeOK
<1>3. /\ Cardinality(OnLists(t)) = 0 /\ Cardinality(Setters(t)) = 0
      /\ Cardinality(Unlockers(t)) = 0 /\ posted[t] = 0
  BY <1>1, <1>2 DEF Owed
<1> QED
  BY <1>3, PlacesFinite, FS_EmptySet

\* A thread that is owed one post has a waiter in at most one place.
LEMMA OneList ==
  ASSUME TypeOK, NEW t \in Threads, Owed(t) = 1, NEW v \in OnLists(t), NEW w \in OnLists(t)
  PROVE  v = w
<1>1. \A a, b, c, d \in Nat : a + b + c + d = 1 => a <= 1
  OBVIOUS
<1>2. /\ Cardinality(OnLists(t)) \in Nat /\ Cardinality(Setters(t)) \in Nat
      /\ Cardinality(Unlockers(t)) \in Nat /\ posted[t] \in Nat
  BY PlacesFinite DEF TypeOK
<1>3. Cardinality(OnLists(t)) <= 1
  BY <1>1, <1>2 DEF Owed
<1>4. Cardinality(OnLists(t)) # 0
  BY PlacesFinite, FS_EmptySet
<1>5. Cardinality(OnLists(t)) = 1
  BY <1>2, <1>3, <1>4
<1>6. \E x : OnLists(t) = {x}
  BY <1>5, PlacesFinite, FS_Singleton
<1> QED
  BY <1>6

\* The count is a number.
LEMMA OwedType ==
  ASSUME TypeOK, NEW t \in Threads
  PROVE  Owed(t) \in Nat /\ Owed(t) >= Cardinality(OnLists(t)) + posted[t]
  BY PlacesFinite DEF Owed, TypeOK

\* Nothing of t is anywhere else than before.
Same(t) ==
  /\ OnLists(t)' = OnLists(t) /\ Setters(t)' = Setters(t)
  /\ Unlockers(t)' = Unlockers(t) /\ posted'[t] = posted[t]

\* How the count changes with one place: not at all,
LEMMA SameOwed ==
  ASSUME NEW t \in Threads, Same(t)
  PROVE  Owed(t)' = Owed(t)
  BY DEF Same, Owed

\* by AddWaiter,
LEMMA ListOwed ==
  ASSUME TypeOK, NEW t \in Threads, NEW w, w \notin OnLists(t),
         OnLists(t)' = OnLists(t) \cup {w}, Setters(t)' = Setters(t),
         Unlockers(t)' = Unlockers(t), posted'[t] = posted[t]
  PROVE  Owed(t)' = Owed(t) + 1
<1>1. Cardinality(OnLists(t)') = Cardinality(OnLists(t)) + 1
  BY PlacesFinite, FS_AddElement
<1> QED
  BY <1>1, PlacesFinite DEF Owed, TypeOK

\* by RemoveWaiter,
LEMMA UnlistOwed ==
  ASSUME TypeOK, NEW t \in Threads, NEW w \in OnLists(t),
         OnLists(t)' = OnLists(t) \ {w}, Setters(t)' = Setters(t),
         Unlockers(t)' = Unlockers(t), posted'[t] = posted[t]
  PROVE  Owed(t)' = Owed(t) - 1
<1>1. Cardinality(OnLists(t)') = Cardinality(OnLists(t)) - 1
  BY PlacesFinite, FS_RemoveElement
<1> QED
  BY <1>1, PlacesFinite DEF Owed, TypeOK

\* by a wait of the semaphore;
LEMMA AwaitOwed ==
  ASSUME TypeOK, NEW t \in Threads, posted'[t] = posted[t] - 1,
         OnLists(t)' = OnLists(t), Setters(t)' = Setters(t), Unlockers(t)' = Unlockers(t)
  PROVE  Owed(t)' = Owed(t) - 1
  BY PlacesFinite DEF Owed, TypeOK

\* Set and Unlock move a waiter from a list to the callbacks in flight,
LEMMA SetOwed ==
  ASSUME TypeOK, NEW t \in Threads, NEW e \in OnLists(t), e \notin Setters(t),
         OnLists(t)' = OnLists(t) \ {e}, Setters(t)' = Setters(t) \cup {e},
         Unlockers(t)' = Unlockers(t), posted'[t] = posted[t]
  PROVE  Owed(t)' = Owed(t)
<1>1. Cardinality(OnLists(t)') = Cardinality(OnLists(t)) - 1
  BY PlacesFinite, FS_RemoveElement
<1>2. Cardinality(Setters(t)') = Cardinality(Setters(t)) + 1
  BY PlacesFinite, FS_AddElement
<1> QED
  BY <1>1, <1>2, PlacesFinite DEF Owed, TypeOK

\* with one owner or the other,
LEMMA UnlockOwed ==
  ASSUME TypeOK, NEW t \in Threads, NEW m \in OnLists(t), NEW u, u \notin Unlockers(t),
         OnLists(t)' = OnLists(t) \ {m}, Unlockers(t)' = Unlockers(t) \cup {u},
         Setters(t)' = Setters(t), posted'[t] = posted[t]
  PROVE  Owed(t)' = Owed(t)
<1>1. Cardinality(OnLists(t)') = Cardinality(OnLists(t)) - 1
  BY PlacesFinite, FS_RemoveElement
<1>2. Cardinality(Unlockers(t)') = Cardinality(Unlockers(t)) + 1
  BY PlacesFinite, FS_AddElement
<1> QED
  BY <1>1, <1>2, PlacesFinite DEF Owed, TypeOK

\* and the callback turns it into a post.
LEMMA PostOwed ==
  ASSUME TypeOK, NEW t \in Threads, posted'[t] = posted[t] + 1, OnLists(t)' = OnLists(t),
         \/ /\ Setters(t)' = Setters(t)
            /\ \E u \in Unlockers(t) : Unlockers(t)' = Unlockers(t) \ {u}
         \/ /\ Unlockers(t)' = Unlockers(t)
            /\ \E e \in Setters(t) : Setters(t)' = Setters(t) \ {e}
  PROVE  Owed(t)' = Owed(t)
<1>1. CASE /\ Setters(t)' = Setters(t)
           /\ \E u \in Unlockers(t) : Unlockers(t)' = Unlockers(t) \ {u}
  <2>1. Cardinality(Unlockers(t)') = Cardinality(Unlockers(t)) - 1
    BY <1>1, PlacesFinite, FS_RemoveElement
  <2> QED
    BY <1>1, <2>1, PlacesFinite DEF Owed, TypeOK
<1>2. CASE /\ Unlockers(t)' = Unlockers(t)
           /\ \E e \in Setters(t) : Setters(t)' = Setters(t) \ {e}
  <2>1. Cardinality(Setters(t)') = Cardinality(Setters(t)) - 1
    BY <1>2, PlacesFinite, FS_RemoveElement
  <2> QED
    BY <1>2, <2>1, PlacesFinite DEF Owed, TypeOK
<1> QED
  BY <1>1, <1>2

-----------------------------------------------------------------------------
(* What a step of one thread does to the others. *)

SameLocals(u) ==
  /\ pc'[u] = pc[u] /\ calls'[u] = calls[u] /\ inTurn'[u] = inTurn[u]
  /\ atOnce'[u] = atOnce[u] /\ added'[u] = added[u] /\ signaled'[u] = signaled[u]
  /\ left'[u] = left[u]

\* The invariant of u survives the steps that leave its variables and count alone.
LEMMA Bystander ==
  ASSUME NEW u \in Threads, ThreadOK(u), SameLocals(u), Owed(u)' = Owed(u),
         Owned(u)' = Owned(u), OnLists(u)' \subseteq OnLists(u),
         OnLists(u)' \cap Mutexes = OnLists(u) \cap Mutexes
  PROVE  ThreadOK(u)'
<1>1. LocalsOK(u)'
  BY DEF ThreadOK, LocalsOK, SameLocals, Call
<1>2. Expected(u)' = Expected(u) /\ Claims(u)' = Claims(u)
  BY DEF Expected, Claims, SameLocals, Call
<1>3. MutexesOK(u)'
  BY <1>2 DEF ThreadOK, MutexesOK, SameLocals
<1>4. OrderOK(u) => OrderOK(u)'
  BY <1>2 DEF OrderOK, SameLocals
<1> QED
  BY <1>1, <1>2, <1>3, <1>4 DEF ThreadOK, UnorderedFirst

\* A thread that is not about to run a callback leaves the callbacks alone.
LEMMA SameUnlockers ==
  ASSUME NEW t \in Threads, pc[t] # "notify", pc'[t] # "notify", UNCHANGED target,
         \A u \in Threads \ {t} : pc'[u] = pc[u]
  PROVE  \A u \in Threads : Unlockers(u)' = Unlockers(u)
  BY DEF Unlockers

\* AddWaiter, when it returns true: one more waiter of t, and nobody else's.
LEMMA AddedPlaces ==
  ASSUME TypeOK, ListsInv, NEW t \in Threads, NEW w \in Waitables, Added(t, w),
         w \notin OnLists(t)
  PROVE  /\ waiters' \in [Waitables -> Seq(Threads)] /\ ListsInv'
         /\ OnLists(t)' = OnLists(t) \cup {w}
         /\ \A u \in Threads \ {t} : OnLists(u)' = OnLists(u)
         /\ \A u \in Threads : Setters(u)' = Setters(u) /\ Owned(u)' = Owned(u)
<1>1. waiters[w] \in Seq(Threads) /\ IsInjective(waiters[w]) /\ t \notin Range(waiters[w])
  BY DEF TypeOK, ListsInv, OnLists
<1>2. /\ <<t>> \o waiters[w] \in Seq(Threads) /\ IsInjective(<<t>> \o waiters[w])
      /\ Range(<<t>> \o waiters[w]) = Range(waiters[w]) \cup {t}
  BY <1>1, ConsRange
<1>3. /\ waiters' \in [Waitables -> Seq(Threads)]
      /\ waiters'[w] = <<t>> \o waiters[w]
      /\ \A v \in Waitables \ {w} : waiters'[v] = waiters[v]
  BY <1>2 DEF Added, TypeOK
<1>4. ListsInv'
  BY <1>2, <1>3 DEF ListsInv, Added
<1>5. \A v \in Waitables, u \in Threads :
        u \in Range(waiters'[v]) <=> u \in Range(waiters[v]) \/ (v = w /\ u = t)
  BY <1>2, <1>3
<1> QED
  BY <1>3, <1>4, <1>5 DEF OnLists, Setters, Owned, Added

\* AddWaiter, when it returns false: t owns the mutex, and no list changes.
LEMMA TakenPlaces ==
  ASSUME TypeOK, NEW t \in Threads, NEW w \in Waitables, Taken(t, w)
  PROVE  /\ owner' \in [Mutexes -> Threads \cup {Null}]
         /\ \A u \in Threads : OnLists(u)' = OnLists(u) /\ Setters(u)' = Setters(u)
         /\ Owned(t)' = Owned(t) \cup ({w} \cap Mutexes)
         /\ \A u \in Threads \ {t} : Owned(u)' = Owned(u)
         /\ w \notin Owned(t)
<1>1. \A u \in Threads : OnLists(u)' = OnLists(u) /\ Setters(u)' = Setters(u)
  BY DEF Taken, OnLists, Setters
<1>2. CASE w \in Mutexes
  <2>1. w \notin Events /\ owner[w] = Null /\ t # Null
    BY <1>2, WaitingAssumption DEF Taken, Ready
  <2>2. owner' = [owner EXCEPT ![w] = t] /\ owner \in [Mutexes -> Threads \cup {Null}]
    BY <1>2 DEF Taken, Set, TypeOK
  <2> QED
    BY <1>1, <1>2, <2>1, <2>2, WaitingAssumption DEF Owned
<1>3. CASE w \notin Mutexes
  <2>1. owner' = owner
    BY <1>3 DEF Taken
  <2> QED
    BY <1>1, <1>3, <2>1 DEF Owned, TypeOK
<1> QED
  BY <1>2, <1>3

\* RemoveWaiter, when it returns true: one waiter of t less, and nobody else's.
LEMMA RemovedPlaces ==
  ASSUME TypeOK, ListsInv, NEW t \in Threads, NEW w \in Waitables, Removed(t, w)
  PROVE  /\ waiters' \in [Waitables -> Seq(Threads)] /\ ListsInv'
         /\ w \in OnLists(t) /\ OnLists(t)' = OnLists(t) \ {w}
         /\ \A u \in Threads \ {t} : OnLists(u)' = OnLists(u)
         /\ \A u \in Threads : Setters(u)' = Setters(u) /\ Owned(u)' = Owned(u)
<1>1. waiters[w] \in Seq(Threads) /\ IsInjective(waiters[w])
  BY DEF TypeOK, ListsInv
<1>2. PICK i \in DOMAIN waiters[w] :
        waiters[w][i] = t /\ waiters' = [waiters EXCEPT ![w] = RemoveAt(@, i)]
  BY DEF Removed
<1> DEFINE s == RemoveAt(waiters[w], i)
<1>3. s \in Seq(Threads) /\ IsInjective(s) /\ Range(s) = Range(waiters[w]) \ {t}
  BY <1>1, <1>2, RemoveAtRange
<1>4. t \in Range(waiters[w])
  BY <1>2 DEF Range
<1> HIDE DEF s
<1>5. /\ waiters' \in [Waitables -> Seq(Threads)]
      /\ waiters'[w] = s
      /\ \A v \in Waitables \ {w} : waiters'[v] = waiters[v]
  BY <1>2, <1>3 DEF TypeOK, s
<1>6. ListsInv'
  BY <1>3, <1>5 DEF ListsInv, Removed
<1>7. \A v \in Waitables, u \in Threads :
        u \in Range(waiters'[v]) <=> u \in Range(waiters[v]) /\ ~(v = w /\ u = t)
  BY <1>3, <1>5
<1> QED
  BY <1>4, <1>5, <1>6, <1>7 DEF OnLists, Setters, Owned, Removed

\* A step that touches the variables and waiters of t only keeps the others' invariant.
LEMMA OthersOK ==
  ASSUME WaitInv, NEW t \in Threads,
         \A u \in Threads \ {t} : SameLocals(u) /\ Same(u) /\ Owned(u)' = Owned(u)
  PROVE  \A u \in Threads \ {t} : ThreadOK(u)'
<1> SUFFICES ASSUME NEW u \in Threads \ {t}
             PROVE  ThreadOK(u)'
  OBVIOUS
<1>1. ThreadOK(u) /\ SameLocals(u) /\ Same(u) /\ Owned(u)' = Owned(u)
  BY DEF WaitInv
<1>2. OnLists(u)' = OnLists(u)
  BY <1>1 DEF Same
<1> QED
  BY <1>1, <1>2, SameOwed, Bystander

-----------------------------------------------------------------------------
(* Calls *)

\* The call that t is in.
LEMMA CallFacts ==
  ASSUME TypeOK, NEW t \in Threads, calls[t] < Len(Calls[t])
  PROVE  /\ Call(t).op \in {"WaitFor", "WaitForAll", "WaitForAny"}
         /\ Call(t).args \in Seq(Waitables) /\ IsInjective(Call(t).args)
         /\ Call(t) \in Range(Calls[t])
<1> DEFINE C == [op   : {"WaitFor", "WaitForAll", "WaitForAny"},
                 args : Seq(Waitables) \ {<<>>}]
<1>1. Calls[t] \in Seq(C) /\ calls[t] \in Nat
  BY WaitingAssumption DEF TypeOK
<1> HIDE DEF C
<1>2. calls[t] + 1 \in 1 .. Len(Calls[t])
  BY <1>1
<1>3. Calls[t][calls[t] + 1] \in C /\ Calls[t][calls[t] + 1] \in Range(Calls[t])
  BY <1>1, <1>2, InRange
<1>4. Call(t) \in C /\ Call(t) \in Range(Calls[t])
  BY <1>3 DEF Call
<1>5. IsInjective(Call(t).args)
  BY <1>4, WaitingAssumption
<1> QED
  BY <1>4, <1>5 DEF C

\* What WaitForAll waits for one at a time.
LEMMA InTurnFacts ==
  ASSUME TypeOK, NEW t \in Threads, calls[t] < Len(Calls[t])
  PROVE  /\ InTurn(Call(t)) \subseteq Range(Call(t).args)
         /\ Range(Call(t).args) \subseteq Waitables
         /\ Call(t).op = "WaitForAll" => InTurn(Call(t)) = Range(Call(t).args) \cap Mutexes
         /\ Call(t).op # "WaitForAny" =>
              Range(Call(t).args) \cap Mutexes \subseteq InTurn(Call(t))
  BY CallFacts, InRange DEF InTurn, IsOrderDependent

\* What the waits wait for together.
LEMMA AtOnceFacts ==
  ASSUME TypeOK, NEW t \in Threads, calls[t] < Len(Calls[t])
  PROVE  /\ AtOnce(Call(t)) \in Seq(Waitables) /\ IsInjective(AtOnce(Call(t)))
         /\ Range(AtOnce(Call(t))) \subseteq Range(Call(t).args)
<1> DEFINE args == Call(t).args
           U == {w \in Range(args) : ~IsOrderDependent(w)}
           n == Cardinality(U)
<1>1. args \in Seq(Waitables) /\ IsInjective(args) /\ Len(args) \in Nat
  BY CallFacts
<1>2. n \in Nat /\ n <= Len(args)
  <2> HIDE DEF args
  <2>1. args \in [1 .. Len(args) -> Range(args)] /\ IsFiniteSet(1 .. Len(args))
    BY <1>1, FS_Interval DEF Range
  <2>2. \A y \in Range(args) : \E i \in 1 .. Len(args) : args[i] = y
    BY <1>1, InRange
  <2>3. args \in Surjection(1 .. Len(args), Range(args))
    BY <2>1, <2>2 DEF Surjection
  <2>4. IsFiniteSet(Range(args)) /\ Cardinality(Range(args)) <= Cardinality(1 .. Len(args))
    BY <2>1, <2>3, FS_Surjection
  <2>5. Cardinality(1 .. Len(args)) = Len(args)
    <3>1. \A b \in Nat : Cardinality(1 .. b) = b
      <4> SUFFICES ASSUME NEW b \in Nat
                   PROVE  Cardinality(1 .. b) = b
        OBVIOUS
      <4>1. Cardinality(1 .. b) = IF 1 > b THEN 0 ELSE b - 1 + 1
        BY FS_Interval
      <4> QED
        BY <4>1
    <3> QED
      BY <1>1, <3>1
  <2>6. U \in SUBSET Range(args)
    OBVIOUS
  <2>7. IsFiniteSet(U) /\ Cardinality(U) <= Cardinality(Range(args))
    BY <2>4, <2>6, FS_Subset
  <2>8. Cardinality(U) \in Nat /\ Cardinality(Range(args)) \in Nat
    BY <2>4, <2>7, FS_CardinalityType
  <2> QED
    BY <2>4, <2>5, <2>7, <2>8, <1>1
<1>3. /\ SubSeq(args, 1, n) \in Seq(Waitables) /\ Len(SubSeq(args, 1, n)) = n
      /\ \A i \in 1 .. n : SubSeq(args, 1, n)[i] = args[i]
  <2> HIDE DEF n, args
  <2> QED
    BY <1>1, <1>2
<1>4. IsInjective(SubSeq(args, 1, n)) /\ Range(SubSeq(args, 1, n)) \subseteq Range(args)
  <2> DEFINE s == SubSeq(args, 1, n)
  <2> HIDE DEF n, args, s
  <2>1. \A i \in 1 .. n : i \in 1 .. Len(args)
    BY <1>1, <1>2
  <2>2. \A i \in 1 .. n : s[i] = args[i]
    BY <1>3 DEF s
  <2>3. s \in Seq(Waitables) /\ Len(s) = n
    BY <1>3 DEF s
  <2>4. IsInjective(s)
    BY <1>1, <2>1, <2>2, <2>3, InRange
  <2>5. \A y \in Range(s) : y \in Range(args)
    BY <1>1, <2>1, <2>2, <2>3, InRange
  <2> QED
    BY <2>4, <2>5 DEF s
<1>5. Call(t).op \in {"WaitFor", "WaitForAll", "WaitForAny"}
  BY CallFacts
<1>6. CASE Call(t).op = "WaitFor"
  <2>1. AtOnce(Call(t)) = <<>>
    BY <1>6 DEF AtOnce
  <2> QED
    BY <2>1, EmptyRange
<1>7. CASE Call(t).op = "WaitForAll"
  <2>1. AtOnce(Call(t)) = SubSeq(args, 1, n)
    BY <1>7 DEF AtOnce
  <2> HIDE DEF args, n
  <2>2. AtOnce(Call(t)) \in Seq(Waitables) /\ IsInjective(AtOnce(Call(t)))
    BY <2>1, <1>3, <1>4
  <2> QED
    BY <2>1, <2>2, <1>4 DEF args
<1>8. CASE Call(t).op = "WaitForAny"
  <2>1. AtOnce(Call(t)) = args
    BY <1>8 DEF AtOnce
  <2> QED
    BY <2>1, <1>1
<1> QED
  BY <1>5, <1>6, <1>7, <1>8

\* The entry of each of the three waits.
LEMMA BeginStep ==
  ASSUME WaitInv, NEW t \in Threads, Begin(t)
  PROVE  WaitInv'
<1> DEFINE c == Call(t)
<1>1. TypeOK /\ ListsInv /\ ThreadOK(t) /\ pc[t] = "idle" /\ calls[t] < Len(Calls[t])
  BY DEF WaitInv, Begin
<1>2. Owed(t) = 0
  BY <1>1 DEF ThreadOK, Expected
<1>3. OnLists(t) = {}
  BY <1>1, <1>2, NothingOwed
<1>4. Owned(t) = {}
  BY <1>1, <1>3 DEF ThreadOK, LocalsOK, MutexesOK, Claims
<1>5. /\ AtOnce(c) \in Seq(Waitables) /\ IsInjective(AtOnce(c))
      /\ Range(AtOnce(c)) \subseteq Range(c.args) /\ Range(c.args) \subseteq Waitables
      /\ InTurn(c) \subseteq Range(c.args)
      /\ c.op # "WaitForAny" => Range(c.args) \cap Mutexes \subseteq InTurn(c)
  BY <1>1, AtOnceFacts, InTurnFacts
<1>6. /\ pc'[t] = IF c.op = "WaitForAny" THEN "addAny" ELSE "addInTurn"
      /\ inTurn'[t] = IF c.op = "WaitForAny" THEN {} ELSE InTurn(c)
      /\ atOnce'[t] = AtOnce(c) /\ added'[t] = <<>> /\ signaled'[t] = {}
      /\ UNCHANGED <<waitables, calls, posted, left, target>>
      /\ Call(t)' = c
  BY <1>1 DEF Begin, Set, Goto, TypeOK, Call
<1> HIDE DEF c
<1>7. TypeOK'
  <2>1. /\ InTurn(c) \in SUBSET Waitables /\ AtOnce(c) \in Seq(Waitables)
        /\ <<>> \in Seq(Waitables)
    BY <1>5
  <2>2. UNCHANGED <<ready, sets, owner, waiters, detached>>
    BY <1>6 DEF waitables
  <2> QED
    BY <2>1, <2>2, <1>1 DEF TypeOK, Begin, Set, Goto, c
<1>8. ListsInv'
  BY <1>1, <1>6 DEF ListsInv, waitables
<1>9. \A u \in Threads : Unlockers(u)' = Unlockers(u)
  BY <1>1, <1>6, SameUnlockers DEF Begin, Goto, TypeOK
<1>10. \A u \in Threads : Same(u) /\ Owned(u)' = Owned(u)
  BY <1>6, <1>9 DEF Same, OnLists, Setters, Owned, waitables
<1>11. \A u \in Threads \ {t} : SameLocals(u)
  BY <1>1 DEF Begin, Set, Goto, SameLocals, TypeOK
<1>12. ThreadOK(t)'
  <2>1. OnLists(t)' = {} /\ Owned(t)' = {} /\ Owed(t)' = 0
    BY <1>2, <1>3, <1>4, <1>10, SameOwed DEF Same
  <2>2. Expected(t)' = 0
    BY <1>6 DEF Expected
  <2>3. IsInjective(<<>>) /\ Range(<<>>) = {}
    BY EmptyRange
  <2>4. LocalsOK(t)'
    BY <1>1, <1>5, <1>6, <2>1, <2>3 DEF LocalsOK
  <2>5. Claims(t)' = {}
    BY <1>5, <1>6, <2>3 DEF Claims
  <2>6. UnorderedFirst => OrderOK(t)'
    <3>1. UnorderedFirst /\ c.op # "WaitForAny" => Range(AtOnce(c)) \cap Mutexes = {}
      BY <1>1, <2>3, CallFacts DEF UnorderedFirst, AtOnce, c
    <3> QED
      BY <1>6, <2>1, <2>5, <3>1 DEF OrderOK
  <2> QED
    BY <2>1, <2>2, <2>4, <2>5, <2>6 DEF ThreadOK, MutexesOK, UnorderedFirst
<1> QED
  BY <1>7, <1>8, <1>10, <1>11, <1>12, OthersOK DEF WaitInv

-----------------------------------------------------------------------------
(* The order dependent waitables, one at a time *)

\* WaitForImpl and the sorted part of WaitForAllImpl: AddWaiter.
LEMMA AddInTurnStep ==
  ASSUME WaitInv, NEW t \in Threads, AddInTurn(t)
  PROVE  WaitInv'
<1>1. TypeOK /\ ListsInv /\ ThreadOK(t) /\ pc[t] = "addInTurn"
  BY DEF WaitInv, AddInTurn
<1>2. PICK w \in Waitables :
        /\ w \in inTurn[t] /\ \A v \in inTurn[t] : Address[w] <= Address[v]
        /\ (Taken(t, w) /\ UNCHANGED pc) \/ (Added(t, w) /\ Goto(t, "awaitInTurn"))
        /\ inTurn' = [inTurn EXCEPT ![t] = @ \ {w}]
  <2>1. PICK w \in Waitables :
          /\ NextTurn(t, w)
          /\ (Taken(t, w) /\ UNCHANGED pc) \/ (Added(t, w) /\ Goto(t, "awaitInTurn"))
          /\ inTurn' = [inTurn EXCEPT ![t] = @ \ {w}]
    BY DEF AddInTurn
  <2>2. w \in inTurn[t] /\ \A v \in inTurn[t] : Address[w] <= Address[v]
    BY <2>1 DEF NextTurn
  <2> QED
    BY <2>1, <2>2
<1>3. added[t] = <<>> /\ Len(added[t]) = 0 /\ signaled[t] = {}
  BY <1>1, <1>2 DEF ThreadOK, LocalsOK
<1>4. Owed(t) = 0
  BY <1>1, <1>3 DEF ThreadOK, Expected
<1>5. OnLists(t) = {}
  BY <1>1, <1>4, NothingOwed
<1>6. UNCHANGED <<calls, posted, atOnce, added, signaled, left, target, ready, sets, detached>>
  BY <1>2 DEF AddInTurn, Taken, Added
<1>7. inTurn'[t] = inTurn[t] \ {w} /\ \A u \in Threads \ {t} : inTurn'[u] = inTurn[u]
  BY <1>1, <1>2 DEF TypeOK
<1>8. w \notin Owned(t) /\ (w \in Mutexes => w \notin Claims(t))
  BY <1>1, <1>2 DEF Claims, ThreadOK, MutexesOK
<1>9. CASE Taken(t, w) /\ UNCHANGED pc
  <2>1. /\ owner' \in [Mutexes -> Threads \cup {Null}] /\ UNCHANGED waiters
        /\ \A u \in Threads : OnLists(u)' = OnLists(u) /\ Setters(u)' = Setters(u)
        /\ Owned(t)' = Owned(t) \cup ({w} \cap Mutexes)
        /\ \A u \in Threads \ {t} : Owned(u)' = Owned(u)
    BY <1>1, <1>9, TakenPlaces DEF Taken
  <2>2. TypeOK' /\ ListsInv'
    BY <1>1, <1>2, <1>6, <1>9, <2>1 DEF TypeOK, ListsInv
  <2>3. \A u \in Threads : Unlockers(u)' = Unlockers(u)
    BY <1>1, <1>6, <1>9, SameUnlockers
  <2>4. \A u \in Threads : Same(u)
    BY <1>6, <2>1, <2>3 DEF Same
  <2>5. \A u \in Threads \ {t} : SameLocals(u)
    BY <1>6, <1>7, <1>9 DEF SameLocals
  <2>6. ThreadOK(t)'
    <3>1. Owed(t)' = 0 /\ Expected(t)' = 0
      BY <1>1, <1>3, <1>4, <1>6, <1>9, <2>4, SameOwed DEF Expected
    <3>2. Call(t)' = Call(t)
      BY <1>6 DEF Call
    <3>3. Claims(t)' = Claims(t) \cup ({w} \cap Mutexes)
      BY <1>1, <1>2, <1>7, <1>9, <3>2 DEF Claims, ThreadOK, LocalsOK
    <3>4. LocalsOK(t)'
      BY <1>1, <1>3, <1>6, <1>7, <1>9, <2>1, <3>2 DEF ThreadOK, LocalsOK
    <3>5. MutexesOK(t)'
      BY <1>1, <1>5, <1>9, <2>1, <3>3 DEF ThreadOK, MutexesOK
    <3>6. OrderOK(t) => OrderOK(t)'
      <4>1. \A v \in inTurn'[t] : v \in inTurn[t] /\ Address[w] < Address[v]
        BY <1>1, <1>2, <1>7, WaitingAssumption DEF TypeOK
      <4> QED
        BY <1>1, <1>5, <1>6, <1>9, <2>1, <3>3, <4>1 DEF OrderOK
    <3> QED
      BY <1>1, <3>1, <3>4, <3>5, <3>6 DEF ThreadOK, UnorderedFirst
  <2> QED
    BY <2>1, <2>2, <2>4, <2>5, <2>6, OthersOK DEF WaitInv
<1>10. CASE Added(t, w) /\ Goto(t, "awaitInTurn")
  <2>1. /\ waiters' \in [Waitables -> Seq(Threads)] /\ ListsInv' /\ UNCHANGED owner
        /\ OnLists(t)' = OnLists(t) \cup {w}
        /\ \A u \in Threads \ {t} : OnLists(u)' = OnLists(u)
        /\ \A u \in Threads : Setters(u)' = Setters(u) /\ Owned(u)' = Owned(u)
    BY <1>1, <1>5, <1>10, AddedPlaces DEF Added
  <2>2. pc'[t] = "awaitInTurn" /\ \A u \in Threads \ {t} : pc'[u] = pc[u]
    BY <1>1, <1>10 DEF Goto, TypeOK
  <2>3. TypeOK'
    BY <1>1, <1>2, <1>6, <1>10, <2>1 DEF TypeOK, Goto
  <2>4. \A u \in Threads : Unlockers(u)' = Unlockers(u)
    BY <1>1, <1>6, <2>2, SameUnlockers
  <2>5. \A u \in Threads \ {t} : Same(u) /\ SameLocals(u)
    BY <1>6, <1>7, <2>1, <2>2, <2>4 DEF Same, SameLocals
  <2>6. ThreadOK(t)'
    <3>1. Owed(t)' = 1
      <4>1. w \notin OnLists(t) /\ posted'[t] = posted[t]
        BY <1>5, <1>6
      <4>2. Owed(t)' = Owed(t) + 1
        BY <1>1, <4>1, <2>1, <2>4, ListOwed
      <4> QED
        BY <1>4, <4>2
    <3>2. Call(t)' = Call(t) /\ Expected(t)' = 1
      BY <1>6, <2>2 DEF Call, Expected
    <3>3. Claims(t)' = Claims(t) \cup ({w} \cap Mutexes)
      BY <1>1, <1>2, <1>7, <2>2, <3>2 DEF Claims, ThreadOK, LocalsOK
    <3>4. LocalsOK(t)'
      BY <1>1, <1>3, <1>6, <1>7, <2>1, <2>2, <3>2 DEF ThreadOK, LocalsOK
    <3>5. MutexesOK(t)'
      BY <1>1, <1>5, <1>8, <2>1, <2>2, <3>3 DEF ThreadOK, MutexesOK
    <3>6. OrderOK(t) => OrderOK(t)'
      <4>1. \A v \in inTurn'[t] : v \in inTurn[t] /\ Address[w] < Address[v]
        BY <1>1, <1>2, <1>7, WaitingAssumption DEF TypeOK
      <4>2. \A m \in Owned(t)' : m \in Claims(t)
        BY <1>1, <2>1 DEF ThreadOK, MutexesOK
      <4> QED
        BY <1>1, <1>2, <1>5, <1>6, <2>1, <2>2, <3>3, <4>1, <4>2 DEF OrderOK
    <3> QED
      BY <1>1, <3>1, <3>2, <3>4, <3>5, <3>6 DEF ThreadOK, UnorderedFirst
  <2> QED
    BY <2>1, <2>3, <2>5, <2>6, OthersOK DEF WaitInv
<1> QED
  BY <1>2, <1>9, <1>10

\* A wait of the semaphore, after which only the place of t is another one.
LEMMA AwaitFacts ==
  ASSUME TypeOK, NEW t \in Threads, Await(t), UNCHANGED <<waitables, target>>,
         pc[t] # "notify", pc'[t] # "notify", \A u \in Threads \ {t} : pc'[u] = pc[u]
  PROVE  /\ posted' \in [Threads -> Nat]
         /\ \A u \in Threads \ {t} : Same(u)
         /\ \A u \in Threads : OnLists(u)' = OnLists(u) /\ Owned(u)' = Owned(u)
         /\ Owed(t)' = Owed(t) - 1
         /\ OnLists(t) # {} => Owed(t)' > 0
<1>1. posted[t] \in Nat /\ posted[t] - 1 \in Nat
  BY DEF Await, TypeOK
<1>2. /\ posted' \in [Threads -> Nat] /\ posted'[t] = posted[t] - 1
      /\ \A u \in Threads \ {t} : posted'[u] = posted[u]
  BY <1>1 DEF Await, TypeOK
<1>3. \A u \in Threads : Unlockers(u)' = Unlockers(u)
  BY SameUnlockers
<1>4. \A u \in Threads :
        OnLists(u)' = OnLists(u) /\ Setters(u)' = Setters(u) /\ Owned(u)' = Owned(u)
  BY DEF waitables, OnLists, Setters, Owned
<1>5. Owed(t)' = Owed(t) - 1
  BY <1>2, <1>3, <1>4, AwaitOwed
<1>6. ASSUME OnLists(t) # {}
      PROVE  Owed(t)' > 0
  <2>1. Cardinality(OnLists(t)) # 0 /\ Cardinality(OnLists(t)) \in Nat
    BY <1>6, PlacesFinite, FS_EmptySet
  <2>2. posted[t] > 0
    BY DEF Await
  <2> QED
    BY <1>1, <1>5, <2>1, <2>2, OwedType
<1> QED
  BY <1>2, <1>3, <1>4, <1>5, <1>6 DEF Same

\* The wait for the waitable that has just got a waiter.
LEMMA AwaitInTurnStep ==
  ASSUME WaitInv, NEW t \in Threads, AwaitInTurn(t)
  PROVE  WaitInv'
<1>1. TypeOK /\ ListsInv /\ ThreadOK(t) /\ pc[t] = "awaitInTurn"
  BY DEF WaitInv, AwaitInTurn
<1>2. /\ pc'[t] = "addInTurn" /\ \A u \in Threads \ {t} : pc'[u] = pc[u]
      /\ UNCHANGED <<waitables, calls, inTurn, atOnce, added, signaled, left, target>>
  BY <1>1 DEF AwaitInTurn, Goto, TypeOK, locals
<1>3. /\ posted' \in [Threads -> Nat]
      /\ \A u \in Threads \ {t} : Same(u)
      /\ \A u \in Threads : OnLists(u)' = OnLists(u) /\ Owned(u)' = Owned(u)
      /\ Owed(t)' = Owed(t) - 1
      /\ OnLists(t) # {} => Owed(t)' > 0
  BY <1>1, <1>2, AwaitFacts DEF AwaitInTurn
<1>4. TypeOK' /\ ListsInv'
  BY <1>1, <1>2, <1>3 DEF TypeOK, ListsInv, waitables, AwaitInTurn, Goto
<1>5. \A u \in Threads \ {t} : SameLocals(u)
  BY <1>2 DEF SameLocals
<1>6. ThreadOK(t)'
  <2>1. Owed(t)' = 0 /\ added[t] = <<>> /\ OnLists(t) = {}
    BY <1>1, <1>3 DEF ThreadOK, LocalsOK, Expected
  <2>2. Expected(t)' = 0 /\ Call(t)' = Call(t)
    BY <1>2, <2>1 DEF Expected, Call
  <2>3. LocalsOK(t)'
    BY <1>1, <1>2, <1>3, <2>1, <2>2 DEF ThreadOK, LocalsOK
  <2>4. Claims(t)' = Claims(t)
    BY <1>1, <1>2, <2>2 DEF Claims
  <2>5. MutexesOK(t)'
    BY <1>1, <1>2, <1>3, <2>1, <2>4 DEF ThreadOK, MutexesOK
  <2>6. OrderOK(t) => OrderOK(t)'
    BY <1>1, <1>2, <1>3, <2>1, <2>4 DEF OrderOK
  <2> QED
    BY <1>1, <2>1, <2>2, <2>3, <2>5, <2>6 DEF ThreadOK, UnorderedFirst
<1> QED
  BY <1>3, <1>4, <1>5, <1>6, OthersOK DEF WaitInv

-----------------------------------------------------------------------------
(* The other waitables of WaitForAll *)

\* The loop that adds the waiters.
LEMMA AddAtOnceStep ==
  ASSUME WaitInv, NEW t \in Threads, AddAtOnce(t)
  PROVE  WaitInv'
<1> DEFINE w == Head(atOnce[t])
<1>1. /\ TypeOK /\ ListsInv /\ ThreadOK(t)
      /\ pc[t] = "addInTurn" /\ inTurn[t] = {} /\ atOnce[t] # <<>>
      /\ atOnce[t] \in Seq(Waitables) /\ added[t] \in Seq(Waitables)
  BY DEF WaitInv, AddAtOnce, TypeOK
<1>2. /\ w \in Waitables /\ w \in Range(atOnce[t])
      /\ Tail(atOnce[t]) \in Seq(Waitables) /\ IsInjective(Tail(atOnce[t]))
      /\ Range(Tail(atOnce[t])) = Range(atOnce[t]) \ {w}
  BY <1>1, HeadTail DEF ThreadOK, LocalsOK
<1>3. /\ UNCHANGED <<pc, calls, posted, inTurn, signaled, left, target, ready, sets, detached>>
      /\ atOnce' = [atOnce EXCEPT ![t] = Tail(@)]
      /\ \/ Taken(t, w) /\ UNCHANGED added
         \/ Added(t, w) /\ added' = [added EXCEPT ![t] = Append(@, w)]
  BY DEF AddAtOnce, Taken, Added
<1> HIDE DEF w
<1>4. atOnce'[t] = Tail(atOnce[t]) /\ \A u \in Threads \ {t} : atOnce'[u] = atOnce[u]
  BY <1>1, <1>3 DEF TypeOK
<1>5. w \notin OnLists(t) /\ w \notin Range(added[t]) /\ w \in Range(Call(t).args)
  BY <1>1, <1>2 DEF ThreadOK, LocalsOK
<1>6. \A u \in Threads : Unlockers(u)' = Unlockers(u)
  BY <1>3 DEF Unlockers
<1>7. Call(t)' = Call(t)
  BY <1>3 DEF Call
<1>8. Owed(t) = Len(added[t])
  BY <1>1 DEF ThreadOK, Expected
<1>9. w \in Mutexes => w \in Owned(t)
  BY <1>1, <1>5 DEF ThreadOK, MutexesOK, Claims
<1>10. CASE Taken(t, w) /\ UNCHANGED added
  <2>1. /\ owner' \in [Mutexes -> Threads \cup {Null}] /\ UNCHANGED waiters
        /\ \A u \in Threads : OnLists(u)' = OnLists(u) /\ Setters(u)' = Setters(u)
        /\ Owned(t)' = Owned(t) \cup ({w} \cap Mutexes)
        /\ \A u \in Threads \ {t} : Owned(u)' = Owned(u)
        /\ w \notin Owned(t)
    BY <1>1, <1>2, <1>10, TakenPlaces DEF Taken
  <2>2. TypeOK' /\ ListsInv'
    BY <1>1, <1>2, <1>3, <1>10, <2>1 DEF TypeOK, ListsInv
  <2>3. \A u \in Threads : Same(u)
    BY <1>3, <1>6, <2>1 DEF Same
  <2>4. \A u \in Threads \ {t} : SameLocals(u)
    BY <1>3, <1>4, <1>10 DEF SameLocals
  <2>5. ThreadOK(t)'
    <3>1. Owed(t)' = Expected(t)'
      BY <1>1, <1>3, <1>8, <1>10, <2>3, SameOwed DEF Expected
    <3>2. LocalsOK(t)'
      BY <1>1, <1>2, <1>3, <1>4, <1>7, <1>10, <2>1 DEF ThreadOK, LocalsOK
    <3>3. Claims(t)' = Claims(t) /\ Owned(t)' = Owned(t)
      BY <1>1, <1>3, <1>7, <1>9, <2>1 DEF Claims
    <3>4. MutexesOK(t)'
      BY <1>1, <1>3, <2>1, <3>3 DEF ThreadOK, MutexesOK
    <3>5. OrderOK(t) => OrderOK(t)'
      BY <1>1, <1>2, <1>3, <1>4, <2>1, <3>3 DEF OrderOK
    <3> QED
      BY <1>1, <3>1, <3>2, <3>4, <3>5 DEF ThreadOK, UnorderedFirst
  <2> QED
    BY <2>1, <2>2, <2>3, <2>4, <2>5, OthersOK DEF WaitInv
<1>11. CASE Added(t, w) /\ added' = [added EXCEPT ![t] = Append(@, w)]
  <2>1. /\ waiters' \in [Waitables -> Seq(Threads)] /\ ListsInv' /\ UNCHANGED owner
        /\ OnLists(t)' = OnLists(t) \cup {w}
        /\ \A u \in Threads \ {t} : OnLists(u)' = OnLists(u)
        /\ \A u \in Threads : Setters(u)' = Setters(u) /\ Owned(u)' = Owned(u)
    BY <1>1, <1>2, <1>5, <1>11, AddedPlaces DEF Added
  <2>2. /\ added'[t] = Append(added[t], w)
        /\ \A u \in Threads \ {t} : added'[u] = added[u]
    BY <1>1, <1>11 DEF TypeOK
  <2>3. /\ Append(added[t], w) \in Seq(Waitables) /\ IsInjective(Append(added[t], w))
        /\ Len(Append(added[t], w)) = Len(added[t]) + 1
        /\ Range(Append(added[t], w)) = Range(added[t]) \cup {w}
    BY <1>1, <1>2, <1>5, AppendRange DEF ThreadOK, LocalsOK
  <2>4. TypeOK'
    BY <1>1, <1>2, <1>3, <1>11, <2>1, <2>3 DEF TypeOK
  <2>5. \A u \in Threads \ {t} : Same(u) /\ SameLocals(u)
    BY <1>3, <1>4, <1>6, <2>1, <2>2 DEF Same, SameLocals
  <2>6. ThreadOK(t)'
    <3>1. Owed(t)' = Owed(t) + 1
      <4>1. posted'[t] = posted[t]
        BY <1>3
      <4> QED
        BY <1>1, <1>5, <1>6, <2>1, <4>1, ListOwed
    <3>2. Owed(t)' = Expected(t)'
      BY <1>1, <1>3, <1>8, <2>2, <2>3, <3>1 DEF Expected
    <3>3. LocalsOK(t)'
      BY <1>1, <1>2, <1>3, <1>4, <1>7, <2>1, <2>2, <2>3 DEF ThreadOK, LocalsOK
    <3>4. Claims(t)' = Claims(t)
      BY <1>1, <1>3, <1>7 DEF Claims
    <3>5. MutexesOK(t)'
      BY <1>1, <1>3, <1>9, <2>1, <3>4 DEF ThreadOK, MutexesOK
    <3>6. OrderOK(t) => OrderOK(t)'
      BY <1>1, <1>2, <1>3, <1>4, <2>1, <3>4 DEF OrderOK
    <3> QED
      BY <1>1, <3>2, <3>3, <3>5, <3>6 DEF ThreadOK, UnorderedFirst
  <2> QED
    BY <2>1, <2>4, <2>5, <2>6, OthersOK DEF WaitInv
<1> QED
  BY <1>3, <1>10, <1>11

\* The loop that waits for them, and the end of WaitForAll.
LEMMA AwaitAtOnceStep ==
  ASSUME WaitInv, NEW t \in Threads, AwaitAtOnce(t)
  PROVE  WaitInv'
<1>1. /\ TypeOK /\ ListsInv /\ ThreadOK(t)
      /\ pc[t] = "addInTurn" /\ inTurn[t] = {} /\ atOnce[t] = <<>>
      /\ added[t] \in Seq(Waitables)
      /\ UNCHANGED <<waitables, calls, inTurn, atOnce, left, target>>
  BY DEF WaitInv, AwaitAtOnce, TypeOK
<1>2. Owed(t) = Len(added[t])
  BY <1>1 DEF ThreadOK, Expected
<1>3. Call(t)' = Call(t)
  BY <1>1 DEF Call
<1>4. CASE /\ added[t] # <<>>
           /\ Await(t)
           /\ added' = [added EXCEPT ![t] = Tail(@)]
           /\ UNCHANGED <<pc, signaled>>
  <2>1. /\ Tail(added[t]) \in Seq(Waitables) /\ IsInjective(Tail(added[t]))
        /\ Len(Tail(added[t])) = Len(added[t]) - 1
        /\ Range(Tail(added[t])) \subseteq Range(added[t])
    BY <1>1, <1>4, HeadTail DEF ThreadOK, LocalsOK
  <2>2. added'[t] = Tail(added[t]) /\ \A u \in Threads \ {t} : added'[u] = added[u]
    BY <1>1, <1>4 DEF TypeOK
  <2>3. /\ posted' \in [Threads -> Nat]
        /\ \A u \in Threads \ {t} : Same(u)
        /\ \A u \in Threads : OnLists(u)' = OnLists(u) /\ Owned(u)' = Owned(u)
        /\ Owed(t)' = Owed(t) - 1
    BY <1>1, <1>4, AwaitFacts
  <2>4. TypeOK' /\ ListsInv'
    BY <1>1, <1>4, <2>1, <2>3 DEF TypeOK, ListsInv, waitables
  <2>5. \A u \in Threads \ {t} : SameLocals(u)
    BY <1>1, <1>4, <2>2 DEF SameLocals
  <2>6. ThreadOK(t)'
    <3>1. Owed(t)' = Expected(t)'
      BY <1>1, <1>2, <1>4, <2>1, <2>2, <2>3 DEF Expected
    <3>2. LocalsOK(t)'
      BY <1>1, <1>3, <1>4, <2>1, <2>2, <2>3 DEF ThreadOK, LocalsOK
    <3>3. Claims(t)' = Claims(t)
      BY <1>1, <1>3, <1>4 DEF Claims
    <3>4. MutexesOK(t)'
      BY <1>1, <1>4, <2>3, <3>3 DEF ThreadOK, MutexesOK
    <3>5. OrderOK(t) => OrderOK(t)'
      BY <1>1, <1>4, <2>3, <3>3 DEF OrderOK
    <3> QED
      BY <1>1, <3>1, <3>2, <3>4, <3>5 DEF ThreadOK, UnorderedFirst
  <2> QED
    BY <2>3, <2>4, <2>5, <2>6, OthersOK DEF WaitInv
<1>5. CASE /\ added[t] = <<>>
           /\ signaled' = Set(signaled, t, Range(Call(t).args))
           /\ Goto(t, "holding")
           /\ UNCHANGED <<posted, added>>
  <2>1. OnLists(t) = {} /\ Owed(t) = 0 /\ calls[t] < Len(Calls[t])
    BY <1>1, <1>2, <1>5, NothingOwed DEF ThreadOK, LocalsOK
  <2>2. Range(Call(t).args) \subseteq Waitables
    BY <1>1, <2>1, InTurnFacts
  <2>3. /\ pc'[t] = "holding" /\ \A u \in Threads \ {t} : pc'[u] = pc[u]
        /\ signaled'[t] = Range(Call(t).args)
        /\ \A u \in Threads \ {t} : signaled'[u] = signaled[u]
    BY <1>1, <1>5 DEF TypeOK, Goto, Set
  <2>4. \A u \in Threads : Unlockers(u)' = Unlockers(u)
    BY <1>1, <2>3, SameUnlockers
  <2>5. \A u \in Threads : Same(u) /\ Owned(u)' = Owned(u)
    BY <1>1, <1>5, <2>4 DEF Same, OnLists, Setters, Owned, waitables
  <2>6. TypeOK' /\ ListsInv'
    BY <1>1, <1>5, <2>2 DEF TypeOK, ListsInv, waitables, Goto, Set
  <2>7. \A u \in Threads \ {t} : SameLocals(u)
    BY <1>1, <1>5, <2>3 DEF SameLocals
  <2>8. ThreadOK(t)'
    <3>1. OnLists(t)' = {} /\ Owed(t)' = 0 /\ Expected(t)' = 0
      BY <2>1, <2>3, <2>5, SameOwed DEF Same, Expected
    <3>2. Range(added[t]) = {}
      BY <1>5, EmptyRange
    <3>3. LocalsOK(t)'
      BY <1>1, <1>3, <1>5, <2>1, <2>3, <3>1, <3>2 DEF ThreadOK, LocalsOK
    <3>4. Claims(t)' = Claims(t)
      BY <1>1, <1>3, <2>3 DEF Claims
    <3>5. MutexesOK(t)'
      BY <1>1, <2>1, <2>3, <2>5, <3>1, <3>4 DEF ThreadOK, MutexesOK
    <3> QED
      BY <2>3, <3>1, <3>3, <3>5 DEF ThreadOK, OrderOK
  <2> QED
    BY <2>5, <2>6, <2>7, <2>8, OthersOK DEF WaitInv
<1> QED
  BY <1>4, <1>5 DEF AwaitAtOnce

-----------------------------------------------------------------------------
(* WaitForAny *)

\* The loop that adds the waiters, until one waitable is ready.
LEMMA AddAnyStep ==
  ASSUME WaitInv, NEW t \in Threads, AddAny(t)
  PROVE  WaitInv'
<1> DEFINE w == Head(atOnce[t])
<1>1. /\ TypeOK /\ ListsInv /\ ThreadOK(t)
      /\ pc[t] = "addAny" /\ atOnce[t] # <<>>
      /\ atOnce[t] \in Seq(Waitables) /\ added[t] \in Seq(Waitables)
      /\ UNCHANGED <<calls, posted, inTurn, left, target>>
  BY DEF WaitInv, AddAny, TypeOK
<1>2. /\ w \in Waitables /\ w \in Range(atOnce[t])
      /\ Tail(atOnce[t]) \in Seq(Waitables) /\ IsInjective(Tail(atOnce[t]))
      /\ Range(Tail(atOnce[t])) = Range(atOnce[t]) \ {w}
  BY <1>1, HeadTail DEF ThreadOK, LocalsOK
<1>3. CASE /\ Taken(t, w)
           /\ signaled' = Set(signaled, t, {w})
           /\ atOnce' = Set(atOnce, t, <<>>)
           /\ Goto(t, "removeAny")
           /\ UNCHANGED added
  <2> HIDE DEF w
  <2>1. /\ owner' \in [Mutexes -> Threads \cup {Null}]
        /\ \A u \in Threads : OnLists(u)' = OnLists(u) /\ Setters(u)' = Setters(u)
        /\ Owned(t)' = Owned(t) \cup ({w} \cap Mutexes)
        /\ \A u \in Threads \ {t} : Owned(u)' = Owned(u)
        /\ UNCHANGED <<ready, sets, waiters, detached>>
    BY <1>1, <1>2, <1>3, TakenPlaces DEF Taken
  <2>2. /\ pc'[t] = "removeAny" /\ signaled'[t] = {w} /\ atOnce'[t] = <<>>
        /\ \A u \in Threads \ {t} :
             pc'[u] = pc[u] /\ signaled'[u] = signaled[u] /\ atOnce'[u] = atOnce[u]
    BY <1>1, <1>3 DEF TypeOK, Goto, Set
  <2>3. TypeOK' /\ ListsInv'
    <3>1. {w} \in SUBSET Waitables /\ <<>> \in Seq(Waitables)
      BY <1>2
    <3> QED
      BY <1>1, <1>3, <2>1, <3>1 DEF TypeOK, ListsInv, Goto, Set
  <2>4. \A u \in Threads : Unlockers(u)' = Unlockers(u)
    BY <1>1, <2>2, SameUnlockers
  <2>5. \A u \in Threads : Same(u)
    BY <1>1, <2>1, <2>4 DEF Same
  <2>6. \A u \in Threads \ {t} : SameLocals(u)
    BY <1>1, <1>3, <2>2 DEF SameLocals
  <2>7. ThreadOK(t)'
    <3>1. Owed(t)' = Len(added[t])
      BY <1>1, <2>5, SameOwed DEF ThreadOK, Expected
    <3>2. Expected(t)' = Len(added[t])
      <4>1. Cardinality({w}) = 1
        BY FS_Singleton
      <4>2. Len(added[t]) \in Nat
        BY <1>1
      <4>3. Expected(t)' = Len(added'[t]) + Cardinality(signaled'[t]) - 1
        BY <2>2 DEF Expected
      <4>4. Expected(t)' = Len(added[t]) + 1 - 1
        BY <1>3, <2>2, <4>1, <4>3
      <4> QED
        BY <4>2, <4>4
    <3>3. IsInjective(<<>>) /\ Range(<<>>) = {}
      BY EmptyRange
    <3>4. w \notin OnLists(t) /\ w \notin Range(added[t]) /\ signaled[t] = {}
      BY <1>1, <1>2 DEF ThreadOK, LocalsOK
    <3>5. LocalsOK(t)'
      BY <1>1, <1>3, <2>1, <2>2, <3>3, <3>4 DEF ThreadOK, LocalsOK
    <3>6. Claims(t)' = Claims(t) \cup ({w} \cap Mutexes)
      BY <1>1, <1>3, <2>2, <3>4 DEF Claims
    <3>7. MutexesOK(t)'
      BY <1>1, <2>1, <2>2, <3>4, <3>6 DEF ThreadOK, MutexesOK
    <3> QED
      BY <2>2, <3>1, <3>2, <3>5, <3>7 DEF ThreadOK, OrderOK
  <2> QED
    BY <2>1, <2>3, <2>5, <2>6, <2>7, OthersOK DEF WaitInv
<1>4. CASE /\ Added(t, w)
           /\ added' = [added EXCEPT ![t] = Append(@, w)]
           /\ atOnce' = [atOnce EXCEPT ![t] = Tail(@)]
           /\ UNCHANGED <<pc, signaled>>
  <2> HIDE DEF w
  <2>1. w \notin OnLists(t) /\ w \notin Range(added[t])
    BY <1>1, <1>2 DEF ThreadOK, LocalsOK
  <2>2. /\ waiters' \in [Waitables -> Seq(Threads)] /\ ListsInv'
        /\ UNCHANGED <<ready, sets, owner, detached>>
        /\ OnLists(t)' = OnLists(t) \cup {w}
        /\ \A u \in Threads \ {t} : OnLists(u)' = OnLists(u)
        /\ \A u \in Threads : Setters(u)' = Setters(u) /\ Owned(u)' = Owned(u)
    BY <1>1, <1>2, <1>4, <2>1, AddedPlaces DEF Added
  <2>3. /\ added'[t] = Append(added[t], w) /\ atOnce'[t] = Tail(atOnce[t])
        /\ \A u \in Threads \ {t} : added'[u] = added[u] /\ atOnce'[u] = atOnce[u]
    BY <1>1, <1>4 DEF TypeOK
  <2>4. /\ Append(added[t], w) \in Seq(Waitables) /\ IsInjective(Append(added[t], w))
        /\ Len(Append(added[t], w)) = Len(added[t]) + 1
        /\ Range(Append(added[t], w)) = Range(added[t]) \cup {w}
    BY <1>1, <1>2, <2>1, AppendRange DEF ThreadOK, LocalsOK
  <2>5. TypeOK'
    BY <1>1, <1>2, <1>4, <2>2, <2>4 DEF TypeOK
  <2>6. \A u \in Threads : Unlockers(u)' = Unlockers(u)
    BY <1>1, <1>4 DEF Unlockers
  <2>7. \A u \in Threads \ {t} : Same(u) /\ SameLocals(u)
    BY <1>1, <1>4, <2>2, <2>3, <2>6 DEF Same, SameLocals
  <2>8. ThreadOK(t)'
    <3>1. Owed(t)' = Owed(t) + 1
      <4>1. posted'[t] = posted[t]
        BY <1>1
      <4> QED
        BY <1>1, <2>1, <2>2, <2>6, <4>1, ListOwed
    <3>2. Owed(t)' = Expected(t)'
      BY <1>1, <1>4, <2>3, <2>4, <3>1 DEF ThreadOK, Expected
    <3>3. LocalsOK(t)'
      BY <1>1, <1>2, <1>4, <2>1, <2>2, <2>3, <2>4 DEF ThreadOK, LocalsOK
    <3>4. Claims(t)' = Claims(t) \cup ({w} \cap Mutexes)
      BY <1>1, <1>4, <2>3, <2>4 DEF Claims
    <3>5. w \notin Owned(t)
      BY <1>1, <2>1, <1>4 DEF ThreadOK, MutexesOK, Claims, LocalsOK, Owned
    <3>6. MutexesOK(t)'
      BY <1>1, <1>4, <2>2, <3>4, <3>5 DEF ThreadOK, MutexesOK
    <3> QED
      BY <1>1, <1>4, <3>2, <3>3, <3>6 DEF ThreadOK, OrderOK
  <2> QED
    BY <2>2, <2>5, <2>7, <2>8, OthersOK DEF WaitInv
<1> QED
  BY <1>3, <1>4 DEF AddAny

\* The wait for the first callback, if none was.
LEMMA AwaitAnyStep ==
  ASSUME WaitInv, NEW t \in Threads, AwaitAny(t)
  PROVE  WaitInv'
<1>1. TypeOK /\ ListsInv /\ ThreadOK(t) /\ pc[t] = "addAny" /\ atOnce[t] = <<>>
  BY DEF WaitInv, AwaitAny
<1>2. /\ pc'[t] = "removeAny" /\ \A u \in Threads \ {t} : pc'[u] = pc[u]
      /\ UNCHANGED <<waitables, calls, inTurn, atOnce, added, signaled, left, target>>
  BY <1>1 DEF AwaitAny, Goto, TypeOK, locals
<1>3. /\ posted' \in [Threads -> Nat]
      /\ \A u \in Threads \ {t} : Same(u)
      /\ \A u \in Threads : OnLists(u)' = OnLists(u) /\ Owned(u)' = Owned(u)
      /\ Owed(t)' = Owed(t) - 1
  BY <1>1, <1>2, AwaitFacts DEF AwaitAny
<1>4. TypeOK' /\ ListsInv'
  BY <1>1, <1>2, <1>3 DEF TypeOK, ListsInv, waitables, AwaitAny, Goto
<1>5. \A u \in Threads \ {t} : SameLocals(u)
  BY <1>2 DEF SameLocals
<1>6. ThreadOK(t)'
  <2>1. signaled[t] = {} /\ Cardinality(signaled[t]) = 0 /\ Owed(t) = Len(added[t])
    BY <1>1, FS_EmptySet DEF ThreadOK, LocalsOK, Expected
  <2>2. Owed(t)' = Expected(t)'
    <3>1. Len(added[t]) \in Nat
      BY <1>1 DEF TypeOK
    <3> QED
      BY <1>2, <1>3, <2>1, <3>1 DEF Expected
  <2>3. LocalsOK(t)'
    BY <1>1, <1>2, <1>3, <2>1 DEF ThreadOK, LocalsOK
  <2>4. Claims(t)' = Claims(t)
    BY <1>1, <1>2 DEF Claims
  <2>5. MutexesOK(t)'
    BY <1>1, <1>2, <1>3, <2>4 DEF ThreadOK, MutexesOK
  <2> QED
    BY <1>2, <2>2, <2>3, <2>5 DEF ThreadOK, OrderOK
<1> QED
  BY <1>3, <1>4, <1>5, <1>6, OthersOK DEF WaitInv

\* The loop that removes the waiters.
LEMMA RemoveAnyStep ==
  ASSUME WaitInv, NEW t \in Threads, RemoveAny(t)
  PROVE  WaitInv'
<1> DEFINE w == Head(added[t])
<1>1. /\ TypeOK /\ ListsInv /\ ThreadOK(t)
      /\ pc[t] = "removeAny" /\ added[t] # <<>> /\ added[t] \in Seq(Waitables)
      /\ added' = [added EXCEPT ![t] = Tail(@)]
      /\ UNCHANGED <<pc, calls, posted, inTurn, atOnce, left, target>>
      /\ signaled[t] \in SUBSET Waitables
  BY DEF WaitInv, RemoveAny, TypeOK
<1>2. /\ w \in Waitables /\ w \in Range(added[t])
      /\ Tail(added[t]) \in Seq(Waitables) /\ IsInjective(Tail(added[t]))
      /\ Len(Tail(added[t])) = Len(added[t]) - 1 /\ Len(added[t]) \in Nat
      /\ Range(Tail(added[t])) = Range(added[t]) \ {w}
  BY <1>1, HeadTail DEF ThreadOK, LocalsOK
<1>3. added'[t] = Tail(added[t]) /\ \A u \in Threads \ {t} : added'[u] = added[u]
  BY <1>1 DEF TypeOK
<1>4. /\ w \notin signaled[t]
      /\ IsFiniteSet(signaled[t]) /\ Cardinality(signaled[t]) \in Nat
  BY <1>1, <1>2, WaitingAssumption, FS_Subset, FS_CardinalityType DEF ThreadOK, LocalsOK
<1>5. \A u \in Threads : Unlockers(u)' = Unlockers(u)
  BY <1>1 DEF Unlockers
<1>6. Owed(t) = Len(added[t]) + Cardinality(signaled[t]) - 1
  BY <1>1 DEF ThreadOK, Expected
<1>7. CASE Removed(t, w) /\ UNCHANGED signaled
  <2> HIDE DEF w
  <2>1. /\ waiters' \in [Waitables -> Seq(Threads)] /\ ListsInv'
        /\ w \in OnLists(t) /\ OnLists(t)' = OnLists(t) \ {w}
        /\ \A u \in Threads \ {t} : OnLists(u)' = OnLists(u)
        /\ \A u \in Threads : Setters(u)' = Setters(u) /\ Owned(u)' = Owned(u)
        /\ UNCHANGED <<ready, sets, owner, detached>>
    BY <1>1, <1>2, <1>7, RemovedPlaces DEF Removed
  <2>2. TypeOK'
    BY <1>1, <1>2, <1>7, <2>1 DEF TypeOK
  <2>3. \A u \in Threads \ {t} : Same(u) /\ SameLocals(u)
    BY <1>1, <1>3, <1>5, <1>7, <2>1 DEF Same, SameLocals
  <2>4. ThreadOK(t)'
    <3>1. Owed(t)' = Owed(t) - 1
      <4>1. posted'[t] = posted[t]
        BY <1>1
      <4> QED
        BY <1>1, <1>5, <2>1, <4>1, UnlistOwed
    <3>2. Owed(t)' = Expected(t)'
      <4>1. Expected(t)' = Len(added[t]) - 1 + Cardinality(signaled[t]) - 1
        BY <1>1, <1>2, <1>3, <1>7 DEF Expected
      <4> QED
        BY <1>2, <1>4, <1>6, <3>1, <4>1
    <3>3. LocalsOK(t)'
      BY <1>1, <1>2, <1>3, <1>7, <2>1 DEF ThreadOK, LocalsOK
    <3>4. Claims(t)' = Claims(t) \ {w}
      BY <1>1, <1>2, <1>3, <1>4, <1>7 DEF Claims
    <3>5. w \notin Owned(t)
      BY <1>1, <2>1 DEF ThreadOK, MutexesOK
    <3>6. MutexesOK(t)'
      BY <1>1, <2>1, <3>4, <3>5 DEF ThreadOK, MutexesOK
    <3> QED
      BY <1>1, <3>2, <3>3, <3>6 DEF ThreadOK, OrderOK
  <2> QED
    BY <2>1, <2>2, <2>3, <2>4, OthersOK DEF WaitInv
<1>8. CASE NotRemoved(t, w) /\ signaled' = [signaled EXCEPT ![t] = @ \cup {w}]
  <2> HIDE DEF w
  <2>1. UNCHANGED <<ready, sets, owner, waiters, detached>> /\ w \notin OnLists(t)
    BY <1>8 DEF NotRemoved, waitables, OnLists
  <2>2. /\ signaled'[t] = signaled[t] \cup {w}
        /\ \A u \in Threads \ {t} : signaled'[u] = signaled[u]
    BY <1>1, <1>8 DEF TypeOK
  <2>3. TypeOK' /\ ListsInv'
    BY <1>1, <1>2, <1>8, <2>1 DEF TypeOK, ListsInv
  <2>4. \A u \in Threads : Same(u) /\ Owned(u)' = Owned(u)
    BY <1>1, <1>5, <2>1 DEF Same, OnLists, Setters, Owned
  <2>5. \A u \in Threads \ {t} : SameLocals(u)
    BY <1>1, <1>3, <2>2 DEF SameLocals
  <2>6. ThreadOK(t)'
    <3>1. Cardinality(signaled'[t]) = Cardinality(signaled[t]) + 1
      <4>1. Cardinality(signaled[t] \cup {w}) = Cardinality(signaled[t]) + 1
        BY <1>4, FS_AddElement
      <4> QED
        BY <2>2, <4>1
    <3>2. Owed(t)' = Owed(t)
      BY <2>4, SameOwed
    <3>3. Owed(t)' = Expected(t)'
      BY <1>1, <1>2, <1>3, <1>4, <1>6, <3>1, <3>2 DEF Expected
    <3>4. OnLists(t)' = OnLists(t)
      BY <2>4 DEF Same
    <3>5. LocalsOK(t)'
      BY <1>1, <1>2, <1>3, <2>1, <2>2, <3>4 DEF ThreadOK, LocalsOK
    <3>6. Claims(t)' = Claims(t)
      BY <1>1, <1>2, <1>3, <2>2 DEF Claims
    <3>7. MutexesOK(t)'
      BY <1>1, <2>4, <3>4, <3>6 DEF ThreadOK, MutexesOK
    <3> QED
      BY <1>1, <3>3, <3>5, <3>7 DEF ThreadOK, OrderOK
  <2> QED
    BY <2>3, <2>4, <2>5, <2>6, OthersOK DEF WaitInv
<1> QED
  BY <1>7, <1>8 DEF RemoveAny

\* How many callbacks it is that could not be removed.
LEMMA CountCallbacksStep ==
  ASSUME WaitInv, NEW t \in Threads, CountCallbacks(t)
  PROVE  WaitInv'
<1>1. /\ TypeOK /\ ListsInv /\ ThreadOK(t) /\ pc[t] = "removeAny" /\ added[t] = <<>>
      /\ UNCHANGED <<calls, posted, inTurn, atOnce, added, signaled, target>>
      /\ UNCHANGED <<ready, sets, owner, waiters, detached>>
      /\ signaled[t] \in SUBSET Waitables
  BY DEF WaitInv, CountCallbacks, waitables, TypeOK
<1>2. /\ pc'[t] = "awaitCallbacks" /\ left'[t] = Cardinality(signaled[t]) - 1
      /\ \A u \in Threads \ {t} : pc'[u] = pc[u] /\ left'[u] = left[u]
  BY <1>1 DEF CountCallbacks, Goto, Set, TypeOK
<1>3. Owed(t) = Cardinality(signaled[t]) - 1
  <2>1. IsFiniteSet(signaled[t]) /\ Cardinality(signaled[t]) \in Nat
    BY <1>1, WaitingAssumption, FS_Subset, FS_CardinalityType
  <2>2. Owed(t) = Len(added[t]) + Cardinality(signaled[t]) - 1 /\ Len(added[t]) = 0
    BY <1>1 DEF ThreadOK, Expected
  <2> QED
    BY <2>1, <2>2
<1>4. Owed(t) \in Nat /\ signaled[t] # {}
  <2>1. Owed(t) \in Nat
    BY <1>1, OwedType
  <2>2. Cardinality({}) = 0
    BY FS_EmptySet
  <2> QED
    BY <1>3, <2>1, <2>2
<1>5. TypeOK' /\ ListsInv'
  BY <1>1, <1>3, <1>4 DEF TypeOK, ListsInv, CountCallbacks, Goto, Set
<1>6. \A u \in Threads : Unlockers(u)' = Unlockers(u)
  BY <1>1, <1>2, SameUnlockers
<1>7. \A u \in Threads : Same(u) /\ Owned(u)' = Owned(u)
  BY <1>1, <1>6 DEF Same, OnLists, Setters, Owned
<1>8. \A u \in Threads \ {t} : SameLocals(u)
  BY <1>1, <1>2 DEF SameLocals
<1>9. ThreadOK(t)'
  <2>1. Owed(t)' = Expected(t)'
    BY <1>2, <1>3, <1>7, SameOwed DEF Expected
  <2>2. OnLists(t)' = OnLists(t) /\ Owned(t)' = Owned(t)
    BY <1>7 DEF Same
  <2>3. LocalsOK(t)'
    BY <1>1, <1>2, <1>4, <2>2 DEF ThreadOK, LocalsOK
  <2>4. Claims(t)' = Claims(t)
    <3>1. Range(added[t]) = {}
      BY <1>1, EmptyRange
    <3> QED
      BY <1>1, <1>2, <3>1 DEF Claims
  <2>5. MutexesOK(t)'
    BY <1>1, <1>2, <2>2, <2>4 DEF ThreadOK, MutexesOK
  <2> QED
    BY <1>2, <2>1, <2>3, <2>5 DEF ThreadOK, OrderOK
<1> QED
  BY <1>5, <1>7, <1>8, <1>9, OthersOK DEF WaitInv

\* The loop that waits for them, and the end of WaitForAny.
LEMMA AwaitCallbacksStep ==
  ASSUME WaitInv, NEW t \in Threads, AwaitCallbacks(t)
  PROVE  WaitInv'
<1>1. /\ TypeOK /\ ListsInv /\ ThreadOK(t) /\ pc[t] = "awaitCallbacks" /\ left[t] \in Nat
      /\ UNCHANGED <<waitables, calls, inTurn, atOnce, added, signaled, target>>
  BY DEF WaitInv, AwaitCallbacks, TypeOK
<1>2. Owed(t) = left[t]
  BY <1>1 DEF ThreadOK, Expected
<1>3. CASE /\ left[t] > 0
           /\ Await(t)
           /\ left' = [left EXCEPT ![t] = @ - 1]
           /\ UNCHANGED pc
  <2>1. /\ left'[t] = left[t] - 1 /\ left[t] - 1 \in Nat
        /\ \A u \in Threads \ {t} : left'[u] = left[u]
    BY <1>1, <1>3 DEF TypeOK
  <2>2. /\ posted' \in [Threads -> Nat]
        /\ \A u \in Threads \ {t} : Same(u)
        /\ \A u \in Threads : OnLists(u)' = OnLists(u) /\ Owned(u)' = Owned(u)
        /\ Owed(t)' = Owed(t) - 1
    BY <1>1, <1>3, AwaitFacts
  <2>3. TypeOK' /\ ListsInv'
    BY <1>1, <1>3, <2>1, <2>2 DEF TypeOK, ListsInv, waitables
  <2>4. \A u \in Threads \ {t} : SameLocals(u)
    BY <1>1, <1>3, <2>1 DEF SameLocals
  <2>5. ThreadOK(t)'
    <3>1. Owed(t)' = Expected(t)'
      BY <1>1, <1>2, <1>3, <2>1, <2>2 DEF Expected
    <3>2. LocalsOK(t)'
      BY <1>1, <1>3, <2>2 DEF ThreadOK, LocalsOK
    <3>3. MutexesOK(t)'
      BY <1>1, <1>3, <2>2 DEF ThreadOK, MutexesOK, Claims
    <3> QED
      BY <1>1, <1>3, <3>1, <3>2, <3>3 DEF ThreadOK, OrderOK
  <2> QED
    BY <2>2, <2>3, <2>4, <2>5, OthersOK DEF WaitInv
<1>4. CASE /\ left[t] <= 0
           /\ Goto(t, "holding")
           /\ UNCHANGED <<posted, left>>
  <2>1. Owed(t) = 0 /\ OnLists(t) = {}
    BY <1>1, <1>2, <1>4, NothingOwed
  <2>2. pc'[t] = "holding" /\ \A u \in Threads \ {t} : pc'[u] = pc[u]
    BY <1>1, <1>4 DEF Goto, TypeOK
  <2>3. TypeOK' /\ ListsInv'
    BY <1>1, <1>4 DEF TypeOK, ListsInv, waitables, Goto
  <2>4. \A u \in Threads : Unlockers(u)' = Unlockers(u)
    BY <1>1, <2>2, SameUnlockers
  <2>5. \A u \in Threads : Same(u) /\ Owned(u)' = Owned(u)
    BY <1>1, <1>4, <2>4 DEF Same, OnLists, Setters, Owned, waitables
  <2>6. \A u \in Threads \ {t} : SameLocals(u)
    BY <1>1, <1>4, <2>2 DEF SameLocals
  <2>7. ThreadOK(t)'
    <3>1. Owed(t)' = 0 /\ Expected(t)' = 0 /\ OnLists(t)' = {}
      BY <2>1, <2>2, <2>5, SameOwed DEF Expected, Same
    <3>2. LocalsOK(t)'
      BY <1>1, <2>2, <3>1 DEF ThreadOK, LocalsOK
    <3>3. MutexesOK(t)'
      BY <1>1, <2>1, <2>2, <2>5, <3>1 DEF ThreadOK, MutexesOK, Claims
    <3> QED
      BY <2>2, <3>1, <3>2, <3>3 DEF ThreadOK, OrderOK
  <2> QED
    BY <2>3, <2>5, <2>6, <2>7, OthersOK DEF WaitInv
<1> QED
  BY <1>3, <1>4 DEF AwaitCallbacks

-----------------------------------------------------------------------------
(* The caller and the events *)

\* Mutex::Unlock, with and without a waiter.
LEMMA UnlockStep ==
  ASSUME WaitInv, NEW t \in Threads, NEW m \in Mutexes, Unlock(t, m)
  PROVE  WaitInv'
<1>1. /\ TypeOK /\ ListsInv /\ ThreadOK(t) /\ pc[t] = "holding" /\ m \in signaled[t]
      /\ signaled' = [signaled EXCEPT ![t] = @ \ {m}]
      /\ UNCHANGED <<ready, sets, detached, calls, posted, inTurn, atOnce, added, left>>
      /\ m \in Waitables /\ waiters[m] \in Seq(Threads) /\ IsInjective(waiters[m])
  BY DEF WaitInv, Unlock, TypeOK, ListsInv, Waitables
<1>2. /\ signaled'[t] = signaled[t] \ {m}
      /\ \A u \in Threads \ {t} : signaled'[u] = signaled[u]
  BY <1>1 DEF TypeOK
<1>3. Owed(t) = 0
  BY <1>1 DEF ThreadOK, Expected
<1>4. OnLists(t) = {} /\ Unlockers(t) = {}
  BY <1>1, <1>3, NothingOwed
<1>5. owner[m] = t /\ Claims(t) = signaled[t] \cap Mutexes
  BY <1>1, <1>4 DEF ThreadOK, MutexesOK, Claims, Owned
<1>6. Null \notin Threads
  BY WaitingAssumption
<1>7. CASE /\ waiters[m] = <<>>
           /\ owner' = Set(owner, m, Null)
           /\ UNCHANGED <<waiters, pc, target>>
  <2>1. TypeOK' /\ ListsInv'
    BY <1>1, <1>7 DEF TypeOK, ListsInv, Set
  <2>2. \A u \in Threads : Same(u)
    BY <1>1, <1>7 DEF Same, OnLists, Setters, Unlockers
  <2>3. /\ Owned(t)' = Owned(t) \ {m}
        /\ \A u \in Threads \ {t} : Owned(u)' = Owned(u)
    BY <1>1, <1>5, <1>6, <1>7 DEF Owned, Set, TypeOK
  <2>4. \A u \in Threads \ {t} : SameLocals(u)
    BY <1>1, <1>2, <1>7 DEF SameLocals
  <2>5. ThreadOK(t)'
    <3>1. Owed(t)' = 0 /\ Expected(t)' = 0 /\ OnLists(t)' = {}
      BY <1>1, <1>3, <1>4, <1>7, <2>2, SameOwed DEF Expected, Same
    <3>2. LocalsOK(t)'
      BY <1>1, <1>2, <1>7, <3>1 DEF ThreadOK, LocalsOK
    <3>3. MutexesOK(t)'
      BY <1>1, <1>2, <1>4, <1>7, <2>3, <3>1 DEF ThreadOK, MutexesOK, Claims
    <3> QED
      BY <1>1, <1>7, <3>1, <3>2, <3>3 DEF ThreadOK, OrderOK
  <2> QED
    BY <2>1, <2>2, <2>3, <2>4, <2>5, OthersOK DEF WaitInv
<1>8. CASE /\ waiters[m] # <<>>
           /\ owner' = Set(owner, m, Head(waiters[m]))
           /\ waiters' = [waiters EXCEPT ![m] = Tail(@)]
           /\ target' = Set(target, t, Head(waiters[m]))
           /\ Goto(t, "notify")
  <2>1. PICK h \in Threads, s \in Seq(Threads) :
          /\ h = Head(waiters[m]) /\ s = Tail(waiters[m]) /\ h \in Range(waiters[m])
          /\ IsInjective(s) /\ Range(s) = Range(waiters[m]) \ {h}
    BY <1>1, <1>8, HeadTail
  <2>2. /\ owner' = Set(owner, m, h) /\ waiters' = [waiters EXCEPT ![m] = s]
        /\ target' = Set(target, t, h)
    BY <1>8, <2>1
  <2>3. /\ pc'[t] = "notify" /\ target'[t] = h
        /\ \A u \in Threads \ {t} : pc'[u] = pc[u] /\ target'[u] = target[u]
    BY <1>1, <1>8, <2>2 DEF Goto, Set, TypeOK
  <2>4. waiters'[m] = s /\ \A v \in Waitables \ {m} : waiters'[v] = waiters[v]
    BY <1>1, <2>2 DEF TypeOK
  <2>5. TypeOK'
    <3>1. /\ owner' \in [Mutexes -> Threads \cup {Null}]
          /\ waiters' \in [Waitables -> Seq(Threads)]
          /\ target' \in [Threads -> Threads \cup {Null}]
      BY <1>1, <2>2 DEF TypeOK, Set
    <3>2. /\ pc' \in [Threads -> {"idle", "addInTurn", "awaitInTurn", "addAny", "removeAny",
                               "awaitCallbacks", "holding", "notify"}]
          /\ signaled' \in [Threads -> SUBSET Waitables]
      BY <1>1, <1>8 DEF TypeOK, Goto
    <3> QED
      BY <1>1, <3>1, <3>2 DEF TypeOK
  <2>6. ListsInv'
    BY <1>1, <2>1, <2>4 DEF ListsInv
  <2>7. /\ m \in OnLists(h) /\ OnLists(h)' = OnLists(h) \ {m}
        /\ \A u \in Threads \ {h} : OnLists(u)' = OnLists(u)
    BY <1>1, <2>1, <2>4 DEF OnLists
  <2>8. h # t
    BY <1>4, <2>7
  <2>9. /\ Unlockers(h)' = Unlockers(h) \cup {t} /\ t \notin Unlockers(h)
        /\ \A u \in Threads \ {h} : Unlockers(u)' = Unlockers(u)
    BY <1>1, <2>3 DEF Unlockers
  <2>10. \A u \in Threads : Setters(u)' = Setters(u) /\ posted'[u] = posted[u]
    BY <1>1 DEF Setters
  <2>11. /\ Owned(t)' = Owned(t) \ {m}
         /\ Owned(h)' = Owned(h) \cup {m} /\ m \notin Owned(h)
         /\ \A u \in Threads \ {t, h} : Owned(u)' = Owned(u)
    BY <1>1, <1>5, <2>1, <2>2, <2>8 DEF Owned, Set, TypeOK
  <2>12. \A u \in Threads \ {t} : SameLocals(u)
    BY <1>1, <1>2, <2>3 DEF SameLocals
  <2>13. ThreadOK(t)'
    <3>1. Same(t)
      BY <2>7, <2>8, <2>9, <2>10 DEF Same
    <3>2. Owed(t)' = 0 /\ Expected(t)' = 0 /\ OnLists(t)' = {}
      BY <1>3, <1>4, <2>3, <3>1, SameOwed DEF Expected, Same
    <3>3. LocalsOK(t)'
      BY <1>1, <1>2, <2>3, <3>2 DEF ThreadOK, LocalsOK
    <3>4. MutexesOK(t)'
      BY <1>1, <1>2, <1>4, <2>3, <2>11, <3>2 DEF ThreadOK, MutexesOK, Claims
    <3> QED
      BY <2>3, <3>2, <3>3, <3>4 DEF ThreadOK, OrderOK
  <2>14. ThreadOK(h)'
    <3>1. ThreadOK(h) /\ SameLocals(h)
      BY <2>1, <2>8, <2>12 DEF WaitInv
    <3>2. Owed(h)' = Owed(h)
      BY <1>1, <2>1, <2>7, <2>9, <2>10, UnlockOwed
    <3>3. Expected(h)' = Expected(h) /\ Claims(h)' = Claims(h)
      BY <3>1 DEF Expected, Claims, SameLocals, Call
    <3>4. pc[h] # "addInTurn"
      BY <2>7, <2>11, <3>1 DEF ThreadOK, MutexesOK
    <3>5. LocalsOK(h)'
      BY <2>7, <3>1 DEF ThreadOK, LocalsOK, SameLocals, Call
    <3>6. MutexesOK(h)'
      BY <2>7, <2>11, <3>1, <3>3, <3>4 DEF ThreadOK, MutexesOK, SameLocals
    <3>7. OrderOK(h) => OrderOK(h)'
      <4>1. pc[h] = "awaitInTurn" => OnLists(h)' = {}
        <5> SUFFICES ASSUME pc[h] = "awaitInTurn", NEW w \in OnLists(h), w # m
                     PROVE  FALSE
          BY <2>7
        <5>1. Owed(h) = 1
          BY <3>1 DEF ThreadOK, Expected
        <5> QED
          BY <1>1, <2>7, <5>1, OneList
      <4> QED
        BY <3>1, <3>3, <3>4, <4>1 DEF OrderOK, SameLocals
    <3> QED
      BY <3>1, <3>2, <3>3, <3>5, <3>6, <3>7 DEF ThreadOK, UnorderedFirst
  <2>15. \A u \in Threads \ {t, h} : ThreadOK(u)'
    <3> SUFFICES ASSUME NEW u \in Threads \ {t, h}
                 PROVE  ThreadOK(u)'
      OBVIOUS
    <3>1. Same(u) /\ SameLocals(u) /\ Owned(u)' = Owned(u) /\ ThreadOK(u)
      BY <2>7, <2>9, <2>10, <2>11, <2>12 DEF Same, WaitInv
    <3>2. OnLists(u)' = OnLists(u)
      BY <3>1 DEF Same
    <3> QED
      BY <3>1, <3>2, SameOwed, Bystander
  <2> QED
    BY <2>5, <2>6, <2>13, <2>14, <2>15 DEF WaitInv
<1> QED
  BY <1>7, <1>8 DEF Unlock

\* Post adds to one semaphore.
LEMMA PostType ==
  ASSUME TypeOK, NEW h, posted' = [posted EXCEPT ![h] = @ + 1]
  PROVE  posted' \in [Threads -> Nat]
<1>1. posted \in [Threads -> Nat]
  BY DEF TypeOK
<1>2. \A u \in Threads : posted'[u] = IF u = h THEN posted[u] + 1 ELSE posted[u]
  BY <1>1
<1>3. \A u \in Threads : posted'[u] \in Nat
  BY <1>1, <1>2
<1>4. DOMAIN posted' = Threads /\ posted' = [u \in DOMAIN posted' |-> posted'[u]]
  BY <1>1
<1> QED
  BY <1>3, <1>4

\* The callback that Unlock runs.
LEMMA NotifyTargetStep ==
  ASSUME WaitInv, NEW t \in Threads, NotifyTarget(t)
  PROVE  WaitInv'
<1>1. /\ TypeOK /\ ListsInv /\ ThreadOK(t) /\ pc[t] = "notify"
      /\ UNCHANGED <<waitables, calls, inTurn, atOnce, added, signaled, left>>
      /\ target[t] \in Threads \cup {Null}
  BY DEF WaitInv, NotifyTarget, TypeOK
<1>2. PICK h : h = target[t]
  OBVIOUS
<1>3. posted' = [posted EXCEPT ![h] = @ + 1] /\ target' = Set(target, t, Null)
  BY <1>2 DEF NotifyTarget, Post
<1>4. /\ pc'[t] = "holding" /\ target'[t] = Null
      /\ \A u \in Threads \ {t} : pc'[u] = pc[u] /\ target'[u] = target[u]
  BY <1>1, <1>3 DEF NotifyTarget, Goto, Set, TypeOK
<1>5. TypeOK' /\ ListsInv'
  <2>1. /\ posted' \in [Threads -> Nat] /\ target' \in [Threads -> Threads \cup {Null}]
        /\ pc' \in [Threads -> {"idle", "addInTurn", "awaitInTurn", "addAny", "removeAny",
                             "awaitCallbacks", "holding", "notify"}]
    BY <1>1, <1>3, PostType DEF TypeOK, NotifyTarget, Goto, Set
  <2>2. UNCHANGED <<ready, sets, owner, waiters, detached>>
    BY <1>1 DEF waitables
  <2> QED
    BY <1>1, <2>1, <2>2 DEF TypeOK, ListsInv
<1>6. \A u \in Threads :
        OnLists(u)' = OnLists(u) /\ Setters(u)' = Setters(u) /\ Owned(u)' = Owned(u)
  BY <1>1 DEF OnLists, Setters, Owned, waitables
<1>7. /\ \A u \in Threads \ {h} : Unlockers(u)' = Unlockers(u) /\ posted'[u] = posted[u]
      /\ h \in Threads => t \in Unlockers(h) /\ Unlockers(h)' = Unlockers(h) \ {t}
      /\ h \in Threads => posted'[h] = posted[h] + 1
  BY <1>1, <1>2, <1>3, <1>4 DEF Unlockers, TypeOK
<1>8. Owed(t) = 0 /\ Unlockers(t) = {} /\ OnLists(t) = {}
  BY <1>1, NothingOwed DEF ThreadOK, Expected
<1>9. h # t
  BY <1>1, <1>2, <1>8 DEF Unlockers
<1>10. \A u \in Threads : Owed(u)' = Owed(u)
  <2> SUFFICES ASSUME NEW u \in Threads
               PROVE  Owed(u)' = Owed(u)
    OBVIOUS
  <2>1. CASE u = h
    BY <1>1, <1>6, <1>7, <2>1, PostOwed
  <2>2. CASE u # h
    BY <1>6, <1>7, <2>2, SameOwed DEF Same
  <2> QED
    BY <2>1, <2>2
<1>11. \A u \in Threads \ {t} : SameLocals(u)
  BY <1>1, <1>4 DEF SameLocals
<1>12. \A u \in Threads \ {t} : ThreadOK(u)'
  <2> SUFFICES ASSUME NEW u \in Threads \ {t}
               PROVE  ThreadOK(u)'
    OBVIOUS
  <2>1. ThreadOK(u) /\ SameLocals(u) /\ Owed(u)' = Owed(u)
    BY <1>10, <1>11 DEF WaitInv
  <2> QED
    BY <1>6, <2>1, Bystander
<1>13. ThreadOK(t)'
  <2>1. Owed(t)' = 0 /\ Expected(t)' = 0
    BY <1>4, <1>8, <1>10 DEF Expected
  <2>2. LocalsOK(t)'
    BY <1>1, <1>4, <1>6 DEF ThreadOK, LocalsOK
  <2>3. MutexesOK(t)'
    BY <1>1, <1>4, <1>6 DEF ThreadOK, MutexesOK, Claims
  <2>4. OrderOK(t)'
    BY <1>4 DEF OrderOK
  <2> QED
    BY <2>1, <2>2, <2>3, <2>4 DEF ThreadOK
<1> QED
  BY <1>5, <1>12, <1>13 DEF WaitInv

\* The caller goes on.
LEMMA DoneStep ==
  ASSUME WaitInv, NEW t \in Threads, Done(t)
  PROVE  WaitInv'
<1>1. /\ TypeOK /\ ListsInv /\ ThreadOK(t) /\ pc[t] = "holding"
      /\ signaled[t] \cap Mutexes = {}
      /\ UNCHANGED <<waitables, posted, inTurn, atOnce, added, left, target>>
  BY DEF WaitInv, Done
<1>2. /\ pc'[t] = "idle" /\ signaled'[t] = {} /\ calls'[t] = calls[t] + 1
      /\ \A u \in Threads \ {t} :
           pc'[u] = pc[u] /\ signaled'[u] = signaled[u] /\ calls'[u] = calls[u]
  BY <1>1 DEF Done, Goto, Set, TypeOK
<1>3. TypeOK' /\ ListsInv'
  <2>1. calls[t] < Len(Calls[t]) /\ calls[t] \in Nat /\ Len(Calls[t]) \in Nat
    BY <1>1, WaitingAssumption DEF ThreadOK, LocalsOK, TypeOK
  <2>2. ASSUME NEW u \in Threads
        PROVE  calls'[u] <= Len(Calls[u])
    <3>1. CASE u = t
      BY <1>2, <2>1, <3>1
    <3>2. CASE u # t
      BY <1>1, <1>2, <3>2 DEF TypeOK
    <3> QED
      BY <3>1, <3>2
  <2>3. calls' \in [Threads -> Nat]
    BY <1>1, <2>1 DEF Done, TypeOK
  <2> QED
    BY <1>1, <2>2, <2>3 DEF TypeOK, ListsInv, waitables, Done, Goto, Set
<1>4. \A u \in Threads : Unlockers(u)' = Unlockers(u)
  BY <1>1, <1>2, SameUnlockers
<1>5. \A u \in Threads : Same(u) /\ Owned(u)' = Owned(u)
  BY <1>1, <1>4 DEF Same, OnLists, Setters, Owned, waitables
<1>6. \A u \in Threads \ {t} : SameLocals(u)
  BY <1>1, <1>2 DEF SameLocals
<1>7. ThreadOK(t)'
  <2>1. Owed(t) = 0 /\ OnLists(t) = {}
    BY <1>1, NothingOwed DEF ThreadOK, Expected
  <2>2. Owed(t)' = 0 /\ Expected(t)' = 0 /\ OnLists(t)' = {}
    BY <1>2, <1>5, <2>1, SameOwed DEF Expected, Same
  <2>3. LocalsOK(t)'
    BY <1>1, <1>2, <2>2 DEF ThreadOK, LocalsOK
  <2>4. MutexesOK(t)'
    BY <1>1, <1>2, <1>5, <2>1, <2>2 DEF ThreadOK, MutexesOK, Claims
  <2>5. OrderOK(t)'
    BY <1>2 DEF OrderOK
  <2> QED
    BY <2>2, <2>3, <2>4, <2>5 DEF ThreadOK
<1> QED
  BY <1>3, <1>5, <1>6, <1>7, OthersOK DEF WaitInv

\* Event::Set takes the whole list.
LEMMA SetEventStep ==
  ASSUME WaitInv, NEW e \in Events, SetEvent(e)
  PROVE  WaitInv'
<1>1. /\ TypeOK /\ ListsInv /\ e \in Waitables /\ e \notin Mutexes
      /\ detached[e] = <<>> /\ sets[e] < MaxSets[e]
      /\ ready' = ready \cup {e}
      /\ sets' = [sets EXCEPT ![e] = @ + 1]
      /\ detached' = [detached EXCEPT ![e] = waiters[e]]
      /\ waiters' = [waiters EXCEPT ![e] = <<>>]
      /\ UNCHANGED <<owner, pc, calls, posted, inTurn, atOnce, added, signaled, left, target>>
  BY WaitingAssumption DEF WaitInv, SetEvent, locals, Waitables
<1>2. /\ waiters'[e] = <<>> /\ detached'[e] = waiters[e]
      /\ \A w \in Waitables \ {e} : waiters'[w] = waiters[w]
      /\ \A d \in Events \ {e} : detached'[d] = detached[d]
  BY <1>1 DEF TypeOK
<1>3. Range(<<>>) = {} /\ IsInjective(<<>>)
  BY EmptyRange
<1>4. TypeOK'
  <2>1. sets[e] + 1 <= MaxSets[e] /\ sets[e] + 1 \in Nat
    <3>1. MaxSets[e] \in Nat
      BY WaitingAssumption
    <3> QED
      BY <1>1, <3>1 DEF TypeOK
  <2>2. sets' \in [Events -> Nat] /\ \A d \in Events : sets'[d] <= MaxSets[d]
    BY <1>1, <2>1 DEF TypeOK
  <2>3. <<>> \in Seq(Threads)
    OBVIOUS
  <2> QED
    BY <1>1, <2>2, <2>3 DEF TypeOK
<1>5. ListsInv'
  BY <1>1, <1>2, <1>3 DEF ListsInv
<1>6. \A u \in Threads : ThreadOK(u)'
  <2> SUFFICES ASSUME NEW u \in Threads
               PROVE  ThreadOK(u)'
    OBVIOUS
  <2>1. OnLists(u)' = OnLists(u) \ {e} /\ e \notin Setters(u)
    BY <1>1, <1>2, <1>3 DEF OnLists, Setters
  <2>2. Setters(u)' = IF e \in OnLists(u) THEN Setters(u) \cup {e} ELSE Setters(u)
    BY <1>1, <1>2, <1>3 DEF OnLists, Setters
  <2>3. Unlockers(u)' = Unlockers(u) /\ posted'[u] = posted[u] /\ Owned(u)' = Owned(u)
    BY <1>1 DEF Unlockers, Owned
  <2>4. Owed(u)' = Owed(u)
    <3>1. CASE e \in OnLists(u)
      BY <1>1, <2>1, <2>2, <2>3, <3>1, SetOwed
    <3>2. CASE e \notin OnLists(u)
      BY <2>1, <2>2, <2>3, <3>2, SameOwed DEF Same
    <3> QED
      BY <3>1, <3>2
  <2>5. SameLocals(u) /\ ThreadOK(u)
    BY <1>1 DEF SameLocals, WaitInv
  <2> QED
    BY <1>1, <2>1, <2>3, <2>4, <2>5, Bystander
<1> QED
  BY <1>4, <1>5, <1>6 DEF WaitInv

\* The callbacks that Set runs.
LEMMA NotifyNextStep ==
  ASSUME WaitInv, NEW e \in Events, NotifyNext(e)
  PROVE  WaitInv'
<1>1. /\ TypeOK /\ ListsInv /\ detached[e] # <<>>
      /\ detached[e] \in Seq(Threads) /\ IsInjective(detached[e])
      /\ UNCHANGED <<ready, sets, owner, waiters, pc, calls, inTurn, atOnce, added,
                     signaled, left, target>>
  BY DEF WaitInv, NotifyNext, locals, ListsInv, TypeOK
<1>2. PICK h \in Threads, s \in Seq(Threads) :
        /\ h = Head(detached[e]) /\ s = Tail(detached[e]) /\ h \in Range(detached[e])
        /\ IsInjective(s) /\ Range(s) = Range(detached[e]) \ {h}
  BY <1>1, HeadTail
<1>3. posted' = [posted EXCEPT ![h] = @ + 1] /\ detached' = [detached EXCEPT ![e] = s]
  BY <1>2 DEF NotifyNext, Post
<1>4. /\ posted'[h] = posted[h] + 1 /\ \A u \in Threads \ {h} : posted'[u] = posted[u]
      /\ detached'[e] = s /\ \A d \in Events \ {e} : detached'[d] = detached[d]
  BY <1>1, <1>3 DEF TypeOK
<1>5. TypeOK' /\ ListsInv'
  <2>1. posted' \in [Threads -> Nat] /\ detached' \in [Events -> Seq(Threads)]
    <3>1. posted' \in [Threads -> Nat]
      BY <1>1, <1>3, PostType
    <3>2. detached' \in [Events -> Seq(Threads)]
      BY <1>1, <1>3 DEF TypeOK
    <3> QED
      BY <3>1, <3>2
  <2>2. TypeOK'
    BY <1>1, <2>1 DEF TypeOK
  <2> QED
    BY <1>1, <1>2, <1>4, <2>2 DEF ListsInv
<1>6. /\ e \in Setters(h) /\ Setters(h)' = Setters(h) \ {e}
      /\ \A u \in Threads \ {h} : Setters(u)' = Setters(u)
  BY <1>2, <1>4 DEF Setters
<1>7. \A u \in Threads : ThreadOK(u)'
  <2> SUFFICES ASSUME NEW u \in Threads
               PROVE  ThreadOK(u)'
    OBVIOUS
  <2>1. OnLists(u)' = OnLists(u) /\ Unlockers(u)' = Unlockers(u) /\ Owned(u)' = Owned(u)
    BY <1>1 DEF OnLists, Unlockers, Owned
  <2>2. Owed(u)' = Owed(u)
    <3>1. CASE u = h
      BY <1>1, <1>4, <1>6, <2>1, <3>1, PostOwed
    <3>2. CASE u # h
      BY <1>4, <1>6, <2>1, <3>2, SameOwed DEF Same
    <3> QED
      BY <3>1, <3>2
  <2>3. SameLocals(u) /\ ThreadOK(u)
    BY <1>1 DEF SameLocals, WaitInv
  <2> QED
    BY <2>1, <2>2, <2>3, Bystander
<1> QED
  BY <1>5, <1>7 DEF WaitInv

\* Event::Reset.
LEMMA ResetEventStep ==
  ASSUME WaitInv, NEW e \in Events, ResetEvent(e)
  PROVE  WaitInv'
<1>1. /\ TypeOK /\ ListsInv /\ ready' = ready \ {e}
      /\ UNCHANGED <<sets, owner, waiters, detached, pc, calls, posted, inTurn, atOnce,
                     added, signaled, left, target>>
  BY DEF WaitInv, ResetEvent, locals
<1>2. TypeOK' /\ ListsInv'
  BY <1>1 DEF TypeOK, ListsInv
<1>3. \A u \in Threads : Same(u) /\ SameLocals(u) /\ Owned(u)' = Owned(u)
  BY <1>1 DEF Same, SameLocals, OnLists, Setters, Unlockers, Owned
<1>4. \A u \in Threads : ThreadOK(u)'
  <2> SUFFICES ASSUME NEW u \in Threads
               PROVE  ThreadOK(u)'
    OBVIOUS
  <2>1. ThreadOK(u) /\ Same(u) /\ SameLocals(u) /\ Owned(u)' = Owned(u)
    BY <1>3 DEF WaitInv
  <2>2. OnLists(u)' = OnLists(u)
    BY <2>1 DEF Same
  <2> QED
    BY <2>1, <2>2, SameOwed, Bystander
<1> QED
  BY <1>2, <1>4 DEF WaitInv

\* The invariant holds initially, and every step keeps it.
LEMMA WaitInit == Init => WaitInv
<1> SUFFICES ASSUME Init
             PROVE  WaitInv
  OBVIOUS
<1>1. Range(<<>>) = {} /\ IsInjective(<<>>)
  BY EmptyRange
<1>2. TypeOK
  <2>1. \A t \in Threads : Len(Calls[t]) \in Nat
    BY WaitingAssumption
  <2>2. /\ sets \in [Events -> Nat] /\ \A e \in Events : sets[e] <= MaxSets[e]
        /\ calls \in [Threads -> Nat] /\ \A t \in Threads : calls[t] <= Len(Calls[t])
    BY <2>1, WaitingAssumption DEF Init
  <2>3. <<>> \in Seq(Threads) /\ <<>> \in Seq(Waitables)
    OBVIOUS
  <2> QED
    BY <2>2, <2>3 DEF Init, TypeOK
<1>3. ListsInv
  BY <1>1 DEF Init, ListsInv
<1>4. ASSUME NEW t \in Threads
      PROVE  ThreadOK(t)
  <2>1. OnLists(t) = {} /\ Setters(t) = {} /\ Unlockers(t) = {} /\ posted[t] = 0
    BY <1>1 DEF Init, OnLists, Setters, Unlockers
  <2>2. Owed(t) = 0
    BY <2>1, FS_EmptySet DEF Owed
  <2>3. Owned(t) = {}
    BY WaitingAssumption DEF Init, Owned
  <2>4. pc[t] = "idle" /\ signaled[t] = {} /\ added[t] = <<>> /\ atOnce[t] = <<>> /\ inTurn[t] = {}
    BY DEF Init
  <2>5. LocalsOK(t)
    BY <1>1, <2>1, <2>4 DEF LocalsOK
  <2>6. Expected(t) = 0 /\ Claims(t) = {}
    BY <2>4 DEF Expected, Claims
  <2>7. OrderOK(t)
    BY <2>4 DEF OrderOK
  <2> QED
    BY <2>1, <2>2, <2>3, <2>4, <2>5, <2>6, <2>7 DEF ThreadOK, MutexesOK
<1> QED
  BY <1>2, <1>3, <1>4 DEF WaitInv

LEMMA WaitStep == WaitInv /\ [Next]_waitingVars => WaitInv'
<1> SUFFICES ASSUME WaitInv, [Next]_waitingVars
             PROVE  WaitInv'
  OBVIOUS
<1>1. ASSUME NEW t \in Threads, Step(t)
      PROVE  WaitInv'
  <2>1. CASE Caller(t)
    BY <2>1, BeginStep, NotifyTargetStep, DoneStep, UnlockStep DEF Caller
  <2>2. CASE WaitForAll(t)
    BY <2>2, AddInTurnStep, AwaitInTurnStep, AddAtOnceStep, AwaitAtOnceStep
    DEF WaitForAll, WaitFor
  <2>3. CASE WaitForAny(t)
    BY <2>3, AddAnyStep, AwaitAnyStep, RemoveAnyStep, CountCallbacksStep, AwaitCallbacksStep
    DEF WaitForAny
  <2> QED
    BY <1>1, <2>1, <2>2, <2>3 DEF Step
<1>2. ASSUME NEW e \in Events, SetEvent(e) \/ NotifyNext(e) \/ ResetEvent(e)
      PROVE  WaitInv'
  BY <1>2, SetEventStep, NotifyNextStep, ResetEventStep
<1>3. CASE UNCHANGED waitingVars
  <2>1. UNCHANGED <<ready, sets, owner, waiters, detached, pc, calls, posted, inTurn,
                    atOnce, added, signaled, left, target>>
    BY <1>3 DEF waitingVars, waitables, locals
  <2>2. TypeOK' /\ ListsInv'
    BY <2>1 DEF WaitInv, TypeOK, ListsInv
  <2>3. ASSUME NEW u \in Threads
        PROVE  ThreadOK(u)'
    <3>1. Same(u) /\ SameLocals(u) /\ Owned(u)' = Owned(u) /\ OnLists(u)' = OnLists(u)
      BY <2>1 DEF Same, SameLocals, OnLists, Setters, Unlockers, Owned
    <3>2. ThreadOK(u)
      BY DEF WaitInv
    <3> QED
      BY <3>1, <3>2, SameOwed, Bystander
  <2> QED
    BY <2>2, <2>3 DEF WaitInv
<1> QED
  BY <1>1, <1>2, <1>3 DEF Next

-----------------------------------------------------------------------------
(* The theorems. *)

(* The invariant of the waits: a thread is owed as many posts as it will    *)
(* wait for, and owns or is listed on exactly the mutexes that its call has *)
(* asked for so far.                                                        *)
THEOREM WaitInvariance == Spec => []WaitInv
<1> QED
  BY WaitInit, WaitStep, PTL DEF Spec

\* Every variable of Waiting keeps its type; no semaphore is ever below zero.
THEOREM WaitingTypeCorrect == Spec => []TypeOK
<1>1. WaitInv => TypeOK
  BY DEF WaitInv
<1> QED
  BY <1>1, WaitInvariance, PTL

(* When WaitFor, WaitForAll or WaitForAny has returned, none of its waiters *)
(* is on a list, no callback of it is in flight and the semaphore of the    *)
(* thread is at zero: nothing is owed to it.                                *)
THEOREM WaitsLeaveNothing == Spec => []NothingLeftBehind
<1>1. WaitInv => NothingLeftBehind
  <2> SUFFICES ASSUME WaitInv, NEW t \in Threads, pc[t] \in {"idle", "holding", "notify"}
               PROVE  /\ posted[t] = 0 /\ ~InFlight(t)
                      /\ \A w \in Waitables : t \notin Range(waiters[w])
    BY DEF NothingLeftBehind
  <2>1. TypeOK /\ Owed(t) = 0
    BY DEF WaitInv, ThreadOK, Expected
  <2>2. OnLists(t) = {} /\ Setters(t) = {} /\ Unlockers(t) = {} /\ posted[t] = 0
    BY <2>1, NothingOwed
  <2> QED
    BY <2>2 DEF OnLists, Setters, Unlockers, InFlight
<1> QED
  BY <1>1, WaitInvariance, PTL

(* The caller of a wait owns exactly the mutexes that the wait has returned, *)
(* and WaitForAny never returns without a waitable.                          *)
THEOREM WaitsTellTheTruth == Spec => []ResultIsTrue
<1>1. WaitInv => ResultIsTrue
  <2> SUFFICES ASSUME WaitInv, NEW t \in Threads
               PROVE  /\ pc[t] = "awaitCallbacks" => signaled[t] # {}
                      /\ pc[t] \in {"idle", "holding", "notify"} =>
                           signaled[t] \cap Mutexes = {m \in Mutexes : owner[m] = t}
    BY DEF ResultIsTrue
  <2>1. TypeOK /\ ThreadOK(t)
    BY DEF WaitInv
  <2>2. CASE pc[t] = "awaitCallbacks"
    BY <2>1, <2>2 DEF ThreadOK, LocalsOK
  <2>3. CASE pc[t] \in {"idle", "holding", "notify"}
    <3>1. OnLists(t) = {}
      BY <2>1, <2>3, NothingOwed DEF ThreadOK, Expected
    <3>2. Owned(t) = signaled[t] \cap Mutexes
      BY <2>1, <2>3, <3>1 DEF ThreadOK, MutexesOK, Claims
    <3> QED
      BY <2>3, <3>2 DEF Owned
  <2> QED
    BY <2>2, <2>3
<1> QED
  BY <1>1, WaitInvariance, PTL
\* Among some waitables one has the largest address.
LEMMA LargestAddress ==
  ASSUME NEW B \in SUBSET Waitables, B # {}
  PROVE  \E m \in B : \A w \in B : Address[w] <= Address[m]
<1>1. IsFiniteSet(B) /\ Address \in [Waitables -> Nat]
  BY WaitingAssumption, FS_Subset
<1> DEFINE f == [m \in B |-> Address[m]]
           A == {f[m] : m \in B}
<1>2. f \in Surjection(B, A)
  BY DEF Surjection
<1>3. IsFiniteSet(A)
  BY <1>1, <1>2, FS_Surjection
<1>4. A \in SUBSET Nat /\ A # {}
  BY <1>1
<1>5. PICK x \in A : \A y \in A : y <= x
  BY <1>3, <1>4, LargestElement
<1> QED
  BY <1>5

(* No threads wait for each other in a circle: WaitForAll acquires mutexes  *)
(* in the order of their addresses, and of those that a circle waits for    *)
(* one would have the largest address.  The calls must name the events      *)
(* before the mutexes: otherwise WaitForAllImpl adds a waiter to a mutex    *)
(* that it has, and waits for itself.                                       *)
THEOREM NoCircles == UnorderedFirst => (Spec => []NoCircularWait)
<1> SUFFICES ASSUME UnorderedFirst
             PROVE  Spec => []NoCircularWait
  OBVIOUS
<1>1. WaitInv => NoCircularWait
  <2> SUFFICES ASSUME WaitInv, NEW S \in SUBSET Threads, S # {},
                      \A t \in S : \E u \in S : Blocks(t, u)
               PROVE  FALSE
    BY DEF NoCircularWait
  <2> DEFINE B == {m \in Mutexes : \E t \in S : m \in OnLists(t)}
  <2>1. ASSUME NEW t \in S
        PROVE  /\ pc[t] = "awaitInTurn"
               /\ \E m \in Mutexes : m \in OnLists(t) /\ owner[m] \in S
    <3>1. PICK u \in S : Blocks(t, u)
      OBVIOUS
    <3>2. PICK m \in Mutexes : t \in Range(waiters[m]) /\ owner[m] = u
      BY <3>1 DEF Blocks
    <3>3. m \in OnLists(t)
      BY <3>2 DEF OnLists, Waitables
    <3>4. pc[t] # "addInTurn"
      BY <3>3 DEF WaitInv, ThreadOK, OrderOK
    <3> QED
      BY <3>1, <3>2, <3>3, <3>4 DEF Blocks
  <2>2. B # {} /\ B \in SUBSET Waitables
    BY <2>1 DEF Waitables
  <2>3. PICK m \in B : \A w \in B : Address[w] <= Address[m]
    BY <2>2, LargestAddress
  <2>4. PICK t \in S : m \in OnLists(t)
    OBVIOUS
  <2>5. PICK v \in Mutexes : v \in OnLists(t) /\ owner[v] \in S
    BY <2>1
  <2>6. Owed(t) = 1
    BY <2>1 DEF WaitInv, ThreadOK, Expected
  <2>7. v = m
    BY <2>4, <2>5, <2>6, OneList DEF WaitInv
  <2> DEFINE u == owner[m]
  <2>8. u \in S /\ m \in Owned(u)
    BY <2>5, <2>7 DEF Owned
  <2>9. PICK w \in Mutexes : w \in OnLists(u)
    BY <2>1, <2>8
  <2>10. Address[m] < Address[w]
    BY <2>1, <2>8, <2>9 DEF WaitInv, ThreadOK, OrderOK
  <2>11. w \in B
    BY <2>8, <2>9
  <2>12. Address[w] <= Address[m] /\ Address[w] \in Nat /\ Address[m] \in Nat
    BY <2>2, <2>3, <2>11, WaitingAssumption
  <2> QED
    BY <2>10, <2>12
<1> QED
  BY <1>1, WaitInvariance, PTL

(* Under the same condition WaitForAll never has a waiter on a mutex while  *)
(* it adds those of the other waitables.                                    *)
THEOREM OrderedWaits == UnorderedFirst => (Spec => []OneAtATime)
<1> SUFFICES ASSUME UnorderedFirst
             PROVE  Spec => []OneAtATime
  OBVIOUS
<1>1. WaitInv => OneAtATime
  BY DEF WaitInv, ThreadOK, OrderOK, OneAtATime, OnLists, Waitables
<1> QED
  BY <1>1, WaitInvariance, PTL

=============================================================================
