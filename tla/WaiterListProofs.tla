-------------------------- MODULE WaiterListProofs --------------------------
(***************************************************************************)
(* What the proofs about Mutex, Event and Semaphore need to know of the    *)
(* list of waiters: the words that its operations write, the order of the  *)
(* list when a waiter comes or goes, and the list as a thread finds it by  *)
(* following the links.                                                    *)
(***************************************************************************)
EXTENDS WaiterList, Sequences, FiniteSetTheorems, WellFoundedInduction, TLAPS

-----------------------------------------------------------------------------
(* Words *)

\* The new words that the operations build are words.
LEMMA ListWordTypes ==
  /\ ZeroWord \in Word
  /\ \A w \in Word : AddAba(w) \in Word
  /\ \A w \in Word, p \in Pointers : WithHead(w, p) \in Word
  /\ \A w \in Word : Locked(w) \in Word /\ Unlocked(w) \in Word
<1>1. ZeroWord \in Word
  BY WaiterListAssumption DEF Word, ZeroWord, Pointers
<1>2. ASSUME NEW w \in Word PROVE AddAba(w) \in Word
  BY WaiterListAssumption DEF Word, AddAba
<1>3. ASSUME NEW w \in Word, NEW p \in Pointers PROVE SetPointer(w, p) \in Word
  BY DEF Word, SetPointer
<1>4. ASSUME NEW w \in Word PROVE Locked(w) \in Word /\ Unlocked(w) \in Word
  BY DEF Word, Locked, Unlocked
<1> QED BY <1>1, <1>2, <1>3, <1>4 DEF WithHead

\* The fields of the words that the operations write, when the tag does not wrap.
LEMMA ListWordFields ==
  /\ ZeroWord.ptr = Null /\ ZeroWord.flag = FALSE /\ ZeroWord.lock = FALSE /\ ZeroWord.aba = 0
  /\ \A w \in Word : /\ Unlocked(w).ptr = w.ptr /\ Unlocked(w).flag = w.flag
                     /\ Unlocked(w).lock = FALSE /\ Unlocked(w).aba = w.aba
  /\ \A w \in Word, p \in Pointers : w.aba + 1 # AbaRange =>
       /\ WithHead(w, p).ptr = p /\ WithHead(w, p).flag = w.flag
       /\ WithHead(w, p).lock = w.lock /\ WithHead(w, p).aba = w.aba + 1
  /\ \A w \in Word : w.aba + 1 # AbaRange =>
       /\ AddAba(Locked(w)).ptr = w.ptr /\ AddAba(Locked(w)).flag = w.flag
       /\ AddAba(Locked(w)).lock = TRUE /\ AddAba(Locked(w)).aba = w.aba + 1
<1>1. ZeroWord.ptr = Null /\ ZeroWord.flag = FALSE /\ ZeroWord.lock = FALSE /\ ZeroWord.aba = 0
  BY DEF ZeroWord
<1>2. ASSUME NEW w \in Word
      PROVE  /\ Unlocked(w).ptr = w.ptr /\ Unlocked(w).flag = w.flag
             /\ Unlocked(w).lock = FALSE /\ Unlocked(w).aba = w.aba
  BY DEF Word, Unlocked
<1>3. ASSUME NEW w \in Word, NEW p \in Pointers, w.aba + 1 # AbaRange
      PROVE  /\ WithHead(w, p).ptr = p /\ WithHead(w, p).flag = w.flag
             /\ WithHead(w, p).lock = w.lock /\ WithHead(w, p).aba = w.aba + 1
  BY <1>3 DEF Word, WithHead, AddAba, SetPointer
<1>4. ASSUME NEW w \in Word, w.aba + 1 # AbaRange
      PROVE  /\ AddAba(Locked(w)).ptr = w.ptr /\ AddAba(Locked(w)).flag = w.flag
             /\ AddAba(Locked(w)).lock = TRUE /\ AddAba(Locked(w)).aba = w.aba + 1
  BY <1>4 DEF Word, Locked, AddAba
<1> QED BY <1>1, <1>2, <1>3, <1>4

-----------------------------------------------------------------------------
(* The order of the list *)

\* A waiter pushed in front of an ordered list gives an ordered list.
LEMMA PushOrder ==
  ASSUME NEW S \in SUBSET Threads, NEW depth \in [Threads -> Int],
         NEW first \in Pointers, NEW link \in [Threads -> Pointers],
         InOrder(depth, S, first, link),
         NEW t \in Threads, t \notin S, link[t] = first
  PROVE  \E d \in [Threads -> Int] :
            InOrder(d, S \cup {t}, t, link) /\ \A w \in S : d[w] = depth[w]
<1> DEFINE d == [depth EXCEPT ![t] = IF first = Null THEN 0 ELSE depth[first] - 1]
<1>1. t # Null /\ (first # Null => first \in Threads)
  BY WaiterListAssumption DEF Pointers
<1>2. d \in [Threads -> Int]
  BY <1>1
<1>3. \A w \in S : w # t /\ w \in Threads /\ d[w] = depth[w]
  OBVIOUS
<1>4. d[t] = IF first = Null THEN 0 ELSE depth[first] - 1
  OBVIOUS
<1>5. \A w \in S : first # Null /\ d[t] < d[w]
  BY <1>1, <1>3, <1>4 DEF InOrder
<1> HIDE DEF d
<1>6. \A w \in S \cup {t} : t # Null /\ d[t] <= d[w]
  BY <1>1, <1>2, <1>5
<1>7. \A v, w \in S \cup {t} : d[v] = d[w] => v = w
  BY <1>2, <1>3, <1>5 DEF InOrder
<1>8. \A w \in S \cup {t} : link[w] # Null => link[w] \in S \cup {t} /\ d[w] < d[link[w]]
  BY <1>1, <1>2, <1>3, <1>5 DEF InOrder
<1>9. \A v, w \in S \cup {t} : d[w] < d[v] => link[w] # Null /\ d[link[w]] <= d[v]
  <2> SUFFICES ASSUME NEW v \in S \cup {t}, NEW w \in S \cup {t}, d[w] < d[v]
               PROVE  link[w] # Null /\ d[link[w]] <= d[v]
    OBVIOUS
  <2>1. v \in S
    BY <1>2, <1>5
  <2>2. CASE w = t
    BY <2>1, <2>2, <1>3, <1>5 DEF InOrder
  <2>3. CASE w \in S
    BY <2>1, <2>3, <1>3 DEF InOrder
  <2> QED BY <2>2, <2>3
<1>10. InOrder(d, S \cup {t}, t, link)
  BY <1>6, <1>7, <1>8, <1>9 DEF InOrder
<1> QED BY <1>2, <1>3, <1>10

\* An ordered list without its first waiter is ordered.
LEMMA PopOrder ==
  ASSUME NEW S \in SUBSET Threads, NEW depth \in [Threads -> Int],
         NEW first \in Pointers, NEW link \in [Threads -> Pointers],
         InOrder(depth, S, first, link), first # Null
  PROVE  InOrder(depth, S \ {first}, link[first], link)
<1>1. first \in S
  BY DEF InOrder
<1>2. \A w \in S \ {first} : depth[first] < depth[w]
  BY <1>1 DEF InOrder
<1>3. \A w \in S : link[w] # first
  BY <1>1, <1>2, WaiterListAssumption DEF InOrder
<1> QED BY <1>1, <1>2, <1>3 DEF InOrder

\* An ordered list without a waiter further down is ordered.
LEMMA UnlinkOrder ==
  ASSUME NEW S \in SUBSET Threads, NEW depth \in [Threads -> Int],
         NEW first \in Pointers, NEW link \in [Threads -> Pointers],
         InOrder(depth, S, first, link), NEW c \in S, NEW t \in Threads, link[c] = t
  PROVE  InOrder(depth, S \ {t}, first, [link EXCEPT ![c] = link[t]])
<1> DEFINE l == [link EXCEPT ![c] = link[t]]
<1>1. t # Null /\ t \in S /\ depth[c] < depth[t] /\ c # t
  BY WaiterListAssumption DEF InOrder
<1>2. first # t /\ (first # Null => first \in S \ {t})
  BY <1>1 DEF InOrder
<1>3. \A w \in S : link[w] = t => w = c
  <2> SUFFICES ASSUME NEW w \in S, link[w] = t, w # c PROVE FALSE
    OBVIOUS
  <2>1. depth[w] < depth[t]
    BY <1>1 DEF InOrder
  <2>2. depth[w] < depth[c] \/ depth[c] < depth[w]
    BY DEF InOrder
  <2>3. depth[w] < depth[c] => depth[t] <= depth[c]
    BY DEF InOrder
  <2>4. depth[c] < depth[w] => depth[t] <= depth[w]
    BY DEF InOrder
  <2> QED BY <1>1, <2>1, <2>2, <2>3, <2>4
<1>4. l[c] = link[t] /\ \A w \in Threads : w # c => l[w] = link[w]
  OBVIOUS
<1> HIDE DEF l
<1>5. \A w \in S \ {t} : l[w] # Null => l[w] \in S \ {t} /\ depth[w] < depth[l[w]]
  <2> SUFFICES ASSUME NEW w \in S \ {t}, l[w] # Null
               PROVE  l[w] \in S \ {t} /\ depth[w] < depth[l[w]]
    OBVIOUS
  <2>1. CASE w = c
    BY <1>1, <1>4, <2>1 DEF InOrder
  <2>2. CASE w # c
    BY <1>3, <1>4, <2>2 DEF InOrder
  <2> QED BY <2>1, <2>2
<1>6. \A v, w \in S \ {t} : depth[w] < depth[v] => l[w] # Null /\ depth[l[w]] <= depth[v]
  <2> SUFFICES ASSUME NEW v \in S \ {t}, NEW w \in S \ {t}, depth[w] < depth[v]
               PROVE  l[w] # Null /\ depth[l[w]] <= depth[v]
    OBVIOUS
  <2>1. CASE w = c
    <3>1. depth[t] < depth[v]
      BY <1>1, <2>1 DEF InOrder
    <3> QED BY <1>1, <1>4, <2>1, <3>1 DEF InOrder
  <2>2. CASE w # c
    BY <1>4, <2>2 DEF InOrder
  <2> QED BY <2>1, <2>2
<1>7. InOrder(depth, S \ {t}, first, l)
  BY <1>2, <1>5, <1>6 DEF InOrder
<1> QED BY <1>7 DEF l

-----------------------------------------------------------------------------
(* The list as a thread follows it *)

\* Induction for a set of numbers.
LEMMA SetInduction ==
  ASSUME NEW N \in SUBSET Nat, 0 \in N, \A n \in N : n + 1 \in N
  PROVE  N = Nat
<1> SUFFICES ASSUME NEW d \in Nat, d \notin N
             PROVE  FALSE
  OBVIOUS
<1> DEFINE Outside == {x \in 0 .. d : x \notin N}
           T == {0 .. x : x \in Outside}
<1>1. /\ d \in Outside /\ \A x \in Outside : x \in Nat /\ x \notin N /\ x <= d
      /\ \A x \in Nat : x <= d /\ x \notin N => x \in Outside
  OBVIOUS
<1>2. /\ \A x \in Outside : 0 .. x \in T
      /\ \A U \in T : \E x \in Outside : U = 0 .. x
  OBVIOUS
<1> HIDE DEF T, Outside
<1>3. T \subseteq FiniteSubsetsOf(0 .. d) /\ T # {}
  <2>1. FiniteSubsetsOf(0 .. d) = SUBSET (0 .. d)
    <3>1. IsFiniteSet(0 .. d)
      BY FS_Interval
    <3> QED
      BY <3>1, FS_FiniteSubsetsOfFinite
  <2>2. \A x \in Outside : 0 .. x \in SUBSET (0 .. d)
    BY <1>1
  <2> QED
    BY <1>1, <1>2, <2>1, <2>2
<1>4. PICK U \in T : \A V \in T : <<V, U>> \notin StrictSubsetOrdering(0 .. d)
  <2>1. IsWellFoundedOn(StrictSubsetOrdering(0 .. d), FiniteSubsetsOf(0 .. d))
    BY FS_StrictSubsetOrderingWellFounded
  <2>2. \E U \in T : \A V \in T : ~ (<<V, U>> \in StrictSubsetOrdering(0 .. d))
    BY <1>3, <2>1, WFMin
  <2> QED
    BY <2>2
<1>5. PICK x \in Outside : U = 0 .. x
  BY <1>2
<1>6. x \in Nat /\ x \notin N /\ x <= d /\ x # 0
  BY <1>1, <1>5
<1>7. x - 1 \in Nat /\ x - 1 \notin N /\ x - 1 <= d
  <2>1. x - 1 \in N => (x - 1) + 1 \in N
    OBVIOUS
  <2> QED
    BY <1>6, <2>1
<1>8. 0 .. (x - 1) \in T
  BY <1>1, <1>2, <1>7
<1>9. <<0 .. (x - 1), 0 .. x>> \in StrictSubsetOrdering(0 .. d)
  <2>1. /\ 0 .. (x - 1) \subseteq 0 .. x /\ 0 .. x \subseteq 0 .. d
        /\ x \in 0 .. x /\ x \notin 0 .. (x - 1)
    BY <1>6
  <2> QED
    BY <2>1 DEF StrictSubsetOrdering
<1> QED
  BY <1>4, <1>5, <1>8, <1>9

\* How many waiters of S come before w.
Rank(depth, S, w) == Cardinality({v \in S : depth[v] < depth[w]})

\* The ranks of the waiters are 0, 1, and so on.
LEMMA Ranks ==
  ASSUME NEW S, IsFiniteSet(S), NEW depth \in [Threads -> Int], S \subseteq Threads,
         \A v, w \in S : depth[v] = depth[w] => v = w
  PROVE  /\ Cardinality(S) \in Nat
         /\ \A w \in S : Rank(depth, S, w) \in 0 .. Cardinality(S) - 1
         /\ \A v, w \in S : Rank(depth, S, v) < Rank(depth, S, w) <=> depth[v] < depth[w]
         /\ \A v, w \in S : Rank(depth, S, v) = Rank(depth, S, w) => v = w
         /\ \A k \in 0 .. Cardinality(S) - 1 : \E w \in S : Rank(depth, S, w) = k
<1> DEFINE Before(w) == {v \in S : depth[v] < depth[w]}
<1>0. Cardinality(S) \in Nat
  BY FS_CardinalityType
<1>1. ASSUME NEW w \in S
      PROVE  /\ IsFiniteSet(Before(w)) /\ Cardinality(Before(w)) \in Nat
             /\ Cardinality(Before(w)) < Cardinality(S)
  <2>1. Before(w) \subseteq S /\ w \notin Before(w)
    OBVIOUS
  <2>2. IsFiniteSet(Before(w)) /\ Cardinality(Before(w)) <= Cardinality(S)
    BY <2>1, FS_Subset
  <2>3. Cardinality(Before(w)) # Cardinality(S)
    BY <2>1, FS_Subset
  <2>4. Cardinality(Before(w)) \in Nat
    BY <2>2, FS_CardinalityType
  <2> QED
    BY <1>0, <2>2, <2>3, <2>4
<1>2. ASSUME NEW v \in S, NEW w \in S, depth[v] < depth[w]
      PROVE  Cardinality(Before(v)) < Cardinality(Before(w))
  <2>1. Before(v) \subseteq Before(w) /\ v \in Before(w) /\ v \notin Before(v)
    BY <1>2
  <2>2. IsFiniteSet(Before(w)) /\ Cardinality(Before(w)) \in Nat /\ Cardinality(Before(v)) \in Nat
    BY <1>1
  <2> HIDE DEF Before
  <2>3. /\ Cardinality(Before(v)) <= Cardinality(Before(w))
        /\ Cardinality(Before(v)) # Cardinality(Before(w))
    BY <2>1, <2>2, FS_Subset
  <2> QED
    BY <2>2, <2>3
<1> DEFINE r == [w \in S |-> Cardinality(Before(w))]
<1>3. \A w \in S : Rank(depth, S, w) = Cardinality(Before(w)) /\ r[w] = Cardinality(Before(w))
  BY DEF Rank
<1>4. r \in [S -> 0 .. Cardinality(S) - 1]
  BY <1>0, <1>1
<1> HIDE DEF Before, r
<1>5. \A v, w \in S : depth[v] \in Int /\ depth[w] \in Int
  OBVIOUS
<1>6. \A v, w \in S : r[v] < r[w] <=> depth[v] < depth[w]
  <2> SUFFICES ASSUME NEW v \in S, NEW w \in S
               PROVE  r[v] < r[w] <=> depth[v] < depth[w]
    OBVIOUS
  <2>1. r[v] \in Nat /\ r[w] \in Nat
    BY <1>4
  <2>2. depth[v] < depth[w] => r[v] < r[w]
    BY <1>2, <1>3
  <2>3. depth[w] < depth[v] => r[w] < r[v]
    BY <1>2, <1>3
  <2>4. depth[w] = depth[v] => w = v
    OBVIOUS
  <2> QED
    BY <1>5, <2>1, <2>2, <2>3, <2>4
<1>7. \A v, w \in S : r[v] = r[w] => v = w
  <2> SUFFICES ASSUME NEW v \in S, NEW w \in S, r[v] = r[w]
               PROVE  v = w
    OBVIOUS
  <2>1. r[v] \in Nat /\ ~(depth[v] < depth[w]) /\ ~(depth[w] < depth[v])
    BY <1>4, <1>6
  <2> QED
    BY <1>5, <2>1
<1>8. \A k \in 0 .. Cardinality(S) - 1 : \E w \in S : r[w] = k
  <2>1. r \in Injection(S, 0 .. Cardinality(S) - 1)
    BY <1>4, <1>7 DEF Injection, IsInjective
  <2>2. /\ IsFiniteSet(0 .. Cardinality(S) - 1)
        /\ Cardinality(0 .. Cardinality(S) - 1) = Cardinality(S)
    BY <1>0, FS_Interval
  <2>3. r \in Surjection(S, 0 .. Cardinality(S) - 1)
    BY <2>1, <2>2, FS_Injection
  <2> QED
    BY <2>3 DEF Surjection
<1> QED
  BY <1>0, <1>3, <1>4, <1>6, <1>7, <1>8

\* The waiter of rank k, Null after the last one.
AtRank(depth, S, k) ==
  IF k < Cardinality(S) THEN CHOOSE w \in S : Rank(depth, S, w) = k ELSE Null

\* Following the links from the first waiter visits the waiters rank by rank.
LEMMA LinksFollowRanks ==
  ASSUME NEW S, IsFiniteSet(S), NEW depth \in [Threads -> Int], S \subseteq Threads,
         NEW first, NEW link, InOrder(depth, S, first, link)
  PROVE  /\ \A k \in Nat : k < Cardinality(S) =>
              AtRank(depth, S, k) \in S /\ Rank(depth, S, AtRank(depth, S, k)) = k
         /\ AtRank(depth, S, 0) = first
         /\ \A k \in Nat : AtRank(depth, S, k + 1) =
              IF AtRank(depth, S, k) = Null THEN Null ELSE link[AtRank(depth, S, k)]
<1> DEFINE n == Cardinality(S)
           r(w) == Rank(depth, S, w)
           A(k) == AtRank(depth, S, k)
<1>1. /\ n \in Nat /\ \A w \in S : r(w) \in 0 .. n - 1
      /\ \A v, w \in S : r(v) < r(w) <=> depth[v] < depth[w]
      /\ \A v, w \in S : r(v) = r(w) => v = w
      /\ \A k \in 0 .. n - 1 : \E w \in S : r(w) = k
  <2>1. \A v, w \in S : depth[v] = depth[w] => v = w
    BY DEF InOrder
  <2> QED
    BY <2>1, Ranks
<1>2. Null \notin S /\ \A w \in S : depth[w] \in Int
  BY WaiterListAssumption
<1>3. ASSUME NEW k \in Nat, k < n
      PROVE  A(k) \in S /\ r(A(k)) = k
  <2>1. \E w \in S : r(w) = k
    BY <1>1, <1>3
  <2> QED
    BY <1>3, <2>1 DEF AtRank
<1>4. ASSUME NEW k \in Nat, ~(k < n)
      PROVE  A(k) = Null
  BY <1>4 DEF AtRank
<1>5. ASSUME NEW w \in S
      PROVE  A(r(w)) = w
  <2>1. r(w) \in Nat /\ r(w) < n
    BY <1>1
  <2>2. A(r(w)) \in S /\ r(A(r(w))) = r(w)
    BY <1>3, <2>1
  <2> HIDE DEF r, A
  <2> QED
    BY <1>1, <2>2
<1> HIDE DEF n, r, A
<1>6. A(0) = first
  <2>1. CASE first = Null
    <3>1. S = {}
      BY <2>1 DEF InOrder
    <3>2. n = 0
      BY <3>1, FS_EmptySet DEF n
    <3> QED
      BY <2>1, <3>2, <1>4
  <2>2. CASE first # Null
    <3>1. first \in S /\ \A w \in S : depth[first] <= depth[w]
      BY <2>2 DEF InOrder
    <3>2. r(first) \in 0 .. n - 1 /\ \A w \in S : ~(r(w) < r(first))
      BY <3>1, <1>1, <1>2
    <3>3. r(first) = 0
      <4>1. CASE n = 0
        BY <4>1, <3>2, <1>1
      <4>2. CASE n > 0
        <5>1. PICK w \in S : r(w) = 0
          BY <4>2, <1>1
        <5> QED
          BY <5>1, <3>2, <1>1
      <4> QED
        BY <4>1, <4>2, <1>1
    <3> QED
      BY <3>1, <3>3, <1>5
  <2> QED
    BY <2>1, <2>2
<1>7. ASSUME NEW k \in Nat
      PROVE  A(k + 1) = IF A(k) = Null THEN Null ELSE link[A(k)]
  <2>1. CASE ~(k < n)
    BY <2>1, <1>1, <1>4
  <2>2. CASE k < n
    <3> DEFINE w == A(k)
    <3>1. w \in S /\ r(w) = k /\ w # Null
      BY <2>2, <1>2, <1>3
    <3>2. CASE k + 1 < n
      <4> DEFINE u == A(k + 1)
      <4>1. u \in S /\ r(u) = k + 1
        BY <3>2, <1>3
      <4> HIDE DEF u, w
      <4>2. depth[w] < depth[u]
        BY <3>1, <4>1, <1>1
      <4>3. /\ link[w] # Null /\ link[w] \in S
            /\ depth[w] < depth[link[w]] /\ depth[link[w]] <= depth[u]
        BY <3>1, <4>1, <4>2 DEF InOrder
      <4>4. r(w) < r(link[w]) /\ ~(r(u) < r(link[w])) /\ r(link[w]) \in Nat
        BY <3>1, <4>1, <4>3, <1>1, <1>2
      <4>5. r(link[w]) = r(u)
        BY <3>1, <4>1, <4>4
      <4>6. link[w] = u
        BY <4>1, <4>3, <4>5, <1>1
      <4> QED
        BY <3>1, <4>6 DEF u, w
    <3>3. CASE ~(k + 1 < n)
      <4>1. A(k + 1) = Null
        BY <3>3, <1>4
      <4> HIDE DEF w
      <4>2. ASSUME link[w] # Null
            PROVE  FALSE
        <5>1. link[w] \in S /\ depth[w] < depth[link[w]]
          BY <3>1, <4>2 DEF InOrder
        <5>2. r(w) < r(link[w]) /\ r(link[w]) \in 0 .. n - 1
          BY <3>1, <5>1, <1>1
        <5> QED
          BY <3>1, <3>3, <5>2, <1>1
      <4> QED
        BY <3>1, <4>1, <4>2 DEF w
    <3> QED
      BY <3>2, <3>3
  <2> QED
    BY <2>1, <2>2
<1> QED
  BY <1>3, <1>6, <1>7 DEF n, r, A

\* A function that follows the links from p is what From says.
LEMMA FromIs ==
  ASSUME NEW p, NEW A, A = [k \in Nat |-> A[k]], A[0] = p,
         \A k \in Nat : A[k + 1] = IF A[k] = Null THEN Null ELSE next[A[k]]
  PROVE  From(p) = A
<1> DEFINE F(f) == [k \in Nat |-> IF k = 0 THEN p
                                  ELSE IF f[k - 1] = Null THEN Null ELSE next[f[k - 1]]]
           C == From(p)
<1>1. A = F(A)
  <2>1. ASSUME NEW k \in Nat
        PROVE  A[k] = F(A)[k]
    <3>1. CASE k = 0
      BY <3>1
    <3>2. CASE k # 0
      <4>1. k - 1 \in Nat /\ (k - 1) + 1 = k
        BY <3>2
      <4>2. A[k] = IF A[k - 1] = Null THEN Null ELSE next[A[k - 1]]
        BY <4>1
      <4> QED
        BY <3>2, <4>2
    <3> QED
      BY <3>1, <3>2
  <2> QED
    BY <2>1
<1>2. C = CHOOSE f : f = F(f)
  BY DEF From
<1> HIDE DEF C
<1>3. C = F(C)
  <2> HIDE DEF F
  <2> QED
    BY <1>1, <1>2
<1> DEFINE N == {k \in Nat : C[k] = A[k]}
<1>4. N \in SUBSET Nat /\ 0 \in N
  BY <1>3
<1>5. ASSUME NEW k \in N
      PROVE  k + 1 \in N
  <2>1. C[k + 1] = IF C[k] = Null THEN Null ELSE next[C[k]]
    <3>1. k + 1 \in Nat /\ k + 1 # 0 /\ (k + 1) - 1 = k
      OBVIOUS
    <3>2. F(C)[k + 1] = IF C[k] = Null THEN Null ELSE next[C[k]]
      BY <3>1
    <3> HIDE DEF F
    <3> QED
      BY <1>3, <3>2
  <2>2. k \in Nat /\ C[k] = A[k]
    OBVIOUS
  <2>3. C[k + 1] = A[k + 1]
    BY <2>1, <2>2
  <2> HIDE DEF F
  <2> QED
    BY <2>2, <2>3
<1>6. N = Nat
  <2> HIDE DEF N
  <2> QED
    BY <1>4, <1>5, SetInduction
<1>7. C = [k \in Nat |-> C[k]]
  BY <1>3
<1>8. \A k \in Nat : C[k] = A[k]
  BY <1>6
<1> HIDE DEF F, N
<1>9. C = A
  BY <1>7, <1>8
<1> QED
  BY <1>9 DEF C

(* The sequence q holds what is found by following the links from first. *)
Follows(q, first, link) ==
  /\ first = IF q = <<>> THEN Null ELSE q[1]
  /\ \A i \in 1 .. Len(q) : link[q[i]] = IF i = Len(q) THEN Null ELSE q[i + 1]

\* When the links are in order, they lead through the waiters of S, one after the other.
LEMMA SequenceOf ==
  ASSUME NEW S, IsFiniteSet(S), NEW depth \in [Threads -> Int], S \subseteq Threads,
         NEW first, NEW link, InOrder(depth, S, first, link)
  PROVE  \E q \in Seq(S) :
           /\ Len(q) = Cardinality(S) /\ Follows(q, first, link)
           /\ \A w \in S : \E i \in 1 .. Len(q) : q[i] = w
           /\ \A i, j \in 1 .. Len(q) : q[i] = q[j] => i = j
<1> DEFINE n == Cardinality(S)
           A(k) == AtRank(depth, S, k)
           q == [i \in 1 .. n |-> A(i - 1)]
<1>1. /\ \A k \in Nat : k < n => A(k) \in S /\ Rank(depth, S, A(k)) = k
      /\ A(0) = first
      /\ \A k \in Nat : A(k + 1) = IF A(k) = Null THEN Null ELSE link[A(k)]
  BY LinksFollowRanks
<1>2. /\ n \in Nat
      /\ \A w \in S : Rank(depth, S, w) \in 0 .. n - 1
      /\ \A v, w \in S : Rank(depth, S, v) = Rank(depth, S, w) => v = w
  <2>1. \A v, w \in S : depth[v] = depth[w] => v = w
    BY DEF InOrder
  <2> QED
    BY <2>1, Ranks
<1>3. A(n) = Null
  BY <1>2 DEF AtRank
<1> HIDE DEF n, A
<1>4. /\ q \in Seq(S) /\ Len(q) = n
      /\ \A i \in 1 .. n : q[i] = A(i - 1) /\ q[i] \in S /\ Rank(depth, S, q[i]) = i - 1
  BY <1>1, <1>2
<1>5. Follows(q, first, link)
  <2>1. (q = <<>> <=> n = 0) /\ (n # 0 => 1 \in 1 .. n)
    BY <1>2, <1>4
  <2>2. first = IF q = <<>> THEN Null ELSE q[1]
    <3>1. n # 0 => q[1] = A(0)
      BY <1>4, <2>1
    <3> HIDE DEF q
    <3> QED
      BY <1>1, <1>3, <2>1, <3>1
  <2>3. ASSUME NEW i \in 1 .. n
        PROVE  link[q[i]] = IF i = n THEN Null ELSE q[i + 1]
    <3>1. i - 1 \in Nat /\ (i - 1) + 1 = i /\ q[i] # Null
      BY <1>2, <1>4, WaiterListAssumption
    <3>2. A(i) = link[q[i]]
      BY <1>1, <1>4, <3>1
    <3>3. i # n => q[i + 1] = A(i)
      BY <1>2, <1>4
    <3> QED
      BY <1>3, <3>2, <3>3
  <2> HIDE DEF q
  <2> QED
    BY <1>4, <2>2, <2>3 DEF Follows
<1>6. ASSUME NEW w \in S
      PROVE  \E i \in 1 .. n : q[i] = w
  <2>1. /\ Rank(depth, S, w) + 1 \in 1 .. n
        /\ Rank(depth, S, q[Rank(depth, S, w) + 1]) = Rank(depth, S, w)
        /\ q[Rank(depth, S, w) + 1] \in S
    BY <1>2, <1>4
  <2> QED
    BY <1>2, <2>1
<1>7. \A i, j \in 1 .. n : q[i] = q[j] => i = j
  <2> SUFFICES ASSUME NEW i \in 1 .. n, NEW j \in 1 .. n, q[i] = q[j]
               PROVE  i = j
    OBVIOUS
  <2>1. Rank(depth, S, q[i]) = i - 1 /\ Rank(depth, S, q[j]) = j - 1
    BY <1>4
  <2> HIDE DEF q
  <2> QED
    BY <1>2, <2>1
<1> HIDE DEF q
<1> QED
  BY <1>4, <1>5, <1>6, <1>7 DEF n

\* What begins with p visits a sequence that follows the links, and then stays at Null.
LEMMA FromVisits ==
  ASSUME NEW p, NEW q \in Seq(Threads), Follows(q, p, next)
  PROVE  \A k \in Nat : From(p)[k] = IF k < Len(q) THEN q[k + 1] ELSE Null
<1> DEFINE A == [k \in Nat |-> IF k < Len(q) THEN q[k + 1] ELSE Null]
<1>1. Len(q) \in Nat /\ (q = <<>> <=> Len(q) = 0) /\ Null \notin Threads
      /\ \A i \in 1 .. Len(q) : q[i] \in Threads
  BY WaiterListAssumption
<1>2. \A k \in Nat : A[k] = IF k < Len(q) THEN q[k + 1] ELSE Null
  OBVIOUS
<1>3. A = [k \in Nat |-> A[k]]
  OBVIOUS
<1> HIDE DEF A
<1>4. A[0] = p
  BY <1>1, <1>2 DEF Follows
<1>5. ASSUME NEW k \in Nat
      PROVE  A[k + 1] = IF A[k] = Null THEN Null ELSE next[A[k]]
  <2>1. CASE k < Len(q)
    <3>1. k + 1 \in 1 .. Len(q) /\ A[k] = q[k + 1] /\ A[k] # Null
      BY <1>1, <1>2, <2>1
    <3>2. next[q[k + 1]] = IF k + 1 = Len(q) THEN Null ELSE q[(k + 1) + 1]
      BY <3>1 DEF Follows
    <3>3. A[k + 1] = IF k + 1 < Len(q) THEN q[(k + 1) + 1] ELSE Null
      BY <1>2
    <3> QED
      BY <1>1, <3>1, <3>2, <3>3
  <2>2. CASE ~(k < Len(q))
    BY <1>1, <1>2, <2>2
  <2> QED
    BY <2>1, <2>2
<1>6. From(p) = A
  BY <1>3, <1>4, <1>5, FromIs
<1> QED
  BY <1>2, <1>6

\* The chain visits a sequence that follows the links from the first waiter.
LEMMA ChainOf ==
  ASSUME NEW q \in Seq(Threads), Follows(q, mWaiters.ptr, next)
  PROVE  \A k \in Nat : Chain[k] = IF k < Len(q) THEN q[k + 1] ELSE Null
  BY FromVisits DEF Chain

\* The waiters that are found by following the links, when the links are in order.
LEMMA OrderedList ==
  ASSUME NEW S, IsFiniteSet(S), NEW depth \in [Threads -> Int], S \subseteq Threads,
         InOrder(depth, S, mWaiters.ptr, next)
  PROVE  ListIs(S)
<1> DEFINE n == Cardinality(S)
<1>1. PICK q \in Seq(S) : /\ Len(q) = n /\ Follows(q, mWaiters.ptr, next)
                          /\ \A w \in S : \E i \in 1 .. Len(q) : q[i] = w
  BY SequenceOf
<1>2. n \in Nat /\ q \in Seq(Threads) /\ \A i \in 1 .. n : q[i] \in S
  BY <1>1
<1>3. \A k \in Nat : Chain[k] = IF k < n THEN q[k + 1] ELSE Null
  BY <1>1, <1>2, ChainOf
<1> HIDE DEF n
<1>4. {Chain[k] : k \in 0 .. n} = S \cup {Null}
  <2>1. \A k \in 0 .. n : k \in Nat /\ (k < n => k + 1 \in 1 .. n)
    BY <1>2
  <2>2. \A k \in 0 .. n : Chain[k] \in S \cup {Null}
    BY <1>2, <1>3, <2>1
  <2>3. ASSUME NEW w \in S
        PROVE  \E k \in 0 .. n : Chain[k] = w
    <3>1. PICK i \in 1 .. n : q[i] = w
      BY <1>1
    <3>2. i - 1 \in Nat /\ i - 1 \in 0 .. n /\ i - 1 < n /\ (i - 1) + 1 = i
      BY <1>2
    <3>3. Chain[i - 1] = q[i]
      BY <1>3, <3>2
    <3> QED
      BY <3>1, <3>2, <3>3
  <2>4. n \in 0 .. n /\ Chain[n] = Null
    BY <1>2, <1>3
  <2> QED
    BY <2>2, <2>3, <2>4
<1>5. Chain[n] = Null
  BY <1>2, <1>3
<1> QED
  BY <1>4, <1>5 DEF ListIs, n

=============================================================================
