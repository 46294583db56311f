------------------------ MODULE MetaSchedulerProofs -------------------------
(***************************************************************************)
(* For any finite sets of threads and meta threads, any schedulers and run *)
(* modes: the meta threads of MetaScheduler are shared as they should be,  *)
(* and Run keeps its lists, its count of active schedulers, its waiters    *)
(* and its affinity in step with one another.                              *)
(***************************************************************************)
EXTENDS MetaScheduler, FiniteSetTheorems, SequenceTheorems, TLAPS

-----------------------------------------------------------------------------
(* A sequence without repetitions as a set that grows and shrinks.          *)

LEMMA AppendOne ==
  ASSUME NEW S, NEW s \in Seq(S), NEW x \in S, IsInjective(s), x \notin Range(s)
  PROVE  /\ Append(s, x) \in Seq(S) /\ IsInjective(Append(s, x))
         /\ Range(Append(s, x)) = Range(s) \cup {x}
         /\ Len(Append(s, x)) = Len(s) + 1
<1> DEFINE r == Append(s, x)
<1>1. /\ r \in Seq(S) /\ Len(r) = Len(s) + 1 /\ r[Len(s) + 1] = x
      /\ \A i \in 1 .. Len(s) : r[i] = s[i]
  BY AppendProperties
<1>2. DOMAIN r = 1 .. Len(s) + 1 /\ DOMAIN s = 1 .. Len(s) /\ Len(s) \in Nat
  BY <1>1
<1>3. \A i \in 1 .. Len(s) : s[i] \in Range(s)
  BY <1>2 DEF Range
<1> HIDE DEF r
<1>4. IsInjective(r)
  BY <1>1, <1>2, <1>3 DEF IsInjective
<1>5. Range(r) = Range(s) \cup {x}
  BY <1>1, <1>2 DEF Range
<1> QED
  BY <1>1, <1>4, <1>5 DEF r

LEMMA FrontOne ==
  ASSUME NEW S, NEW s \in Seq(S), s # <<>>, IsInjective(s)
  PROVE  /\ Last(s) \in S /\ Last(s) \in Range(s)
         /\ Front(s) \in Seq(S) /\ IsInjective(Front(s))
         /\ Range(Front(s)) = Range(s) \ {Last(s)}
         /\ Len(Front(s)) = Len(s) - 1
<1> DEFINE f == Front(s)
<1>1. Len(s) \in Nat \ {0} /\ DOMAIN s = 1 .. Len(s) /\ \A i \in 1 .. Len(s) : s[i] \in S
  BY EmptySeq
<1>2. /\ f \in Seq(S) /\ Len(f) = Len(s) - 1 /\ DOMAIN f = 1 .. Len(s) - 1
      /\ \A i \in 1 .. Len(s) - 1 : f[i] = s[i]
  BY <1>1 DEF Front
<1>3. Last(s) = s[Len(s)]
  BY DEF Last
<1> HIDE DEF f
<1>4. IsInjective(f)
  BY <1>1, <1>2 DEF IsInjective
<1>5. Range(f) = Range(s) \ {Last(s)}
  BY <1>1, <1>2, <1>3 DEF IsInjective, Range
<1>6. Last(s) \in S /\ Last(s) \in Range(s)
  BY <1>1, <1>3 DEF Range
<1> QED
  BY <1>2, <1>4, <1>5, <1>6 DEF f

\* The sequence of a finite set has each of its elements once.
LEMMA SetToSeqOne ==
  ASSUME NEW S, IsFiniteSet(S)
  PROVE  SetToSeq(S) \in Seq(S) /\ IsInjective(SetToSeq(S))
<1>1. Cardinality(S) \in Nat /\ ExistsBijection(1 .. Cardinality(S), S)
  BY FS_CardinalityType
<1>2. \E f \in [1 .. Cardinality(S) -> S] : IsInjective(f)
  BY <1>1 DEF ExistsBijection, Bijection, Injection
<1>3. SetToSeq(S) \in [1 .. Cardinality(S) -> S] /\ IsInjective(SetToSeq(S))
  BY <1>2 DEF SetToSeq
<1> QED
  BY <1>1, <1>3

-----------------------------------------------------------------------------
(* Places in a sequence, and a selection of its elements.                   *)

\* The elements of a finite set of numbers are the first, the second and so on.
LEMMA Places ==
  ASSUME NEW P \in SUBSET Nat, IsFiniteSet(P)
  PROVE  /\ Cardinality(P) \in Nat
         /\ \A i \in P : Upto(P, i) \in 1 .. Cardinality(P)
         /\ \A i, j \in P : i < j => Upto(P, i) < Upto(P, j)
         /\ \A i, j \in P : Upto(P, i) = Upto(P, j) => i = j
         /\ \A k \in 1 .. Cardinality(P) : \E i \in P : Upto(P, i) = k
<1> DEFINE N == Cardinality(P)
           U(i) == {j \in P : j <= i}
           r == [i \in P |-> Cardinality(U(i))]
<1>0. N \in Nat
  BY FS_CardinalityType
<1>1. ASSUME NEW i \in P
      PROVE  IsFiniteSet(U(i)) /\ Cardinality(U(i)) \in 1 .. N
  <2>1. U(i) \subseteq P /\ i \in U(i)
    OBVIOUS
  <2> HIDE DEF U
  <2>2. IsFiniteSet(U(i)) /\ Cardinality(U(i)) <= N
    BY <2>1, FS_Subset
  <2>3. Cardinality(U(i)) \in Nat
    BY <2>2, FS_CardinalityType
  <2>4. Cardinality(U(i)) # 0
    BY <2>1, <2>2, FS_EmptySet
  <2> HIDE DEF N
  <2> QED
    BY <1>0, <2>2, <2>3, <2>4
<1>2. ASSUME NEW i \in P, NEW j \in P, i < j
      PROVE  Cardinality(U(i)) < Cardinality(U(j))
  <2>1. U(i) \subseteq U(j) /\ j \in U(j) /\ j \notin U(i)
    <3>1. \A k \in P : k \in Int
      OBVIOUS
    <3>2. i \in Int /\ j \in Int /\ i <= j /\ j <= j /\ ~(j <= i)
      BY <1>2, <3>1
    <3>3. \A k \in P : k <= i => k <= j
      BY <3>1, <3>2
    <3> QED
      BY <3>2, <3>3
  <2>2. /\ IsFiniteSet(U(j)) /\ Cardinality(U(j)) \in 1 .. N /\ Cardinality(U(i)) \in 1 .. N
    BY <1>1
  <2> HIDE DEF U, N
  <2>3. Cardinality(U(i)) <= Cardinality(U(j)) /\ Cardinality(U(i)) # Cardinality(U(j))
    BY <2>1, <2>2, FS_Subset
  <2> QED
    BY <1>0, <2>2, <2>3
<1>3. \A i \in P : Upto(P, i) = Cardinality(U(i)) /\ r[i] = Cardinality(U(i))
  BY DEF Upto
<1>4. r \in [P -> 1 .. N]
  BY <1>1
<1> HIDE DEF U, r, N
<1>5. \A i, j \in P : i < j => r[i] < r[j]
  BY <1>2, <1>3
<1>6. \A i, j \in P : r[i] = r[j] => i = j
  <2> SUFFICES ASSUME NEW i \in P, NEW j \in P, r[i] = r[j]
               PROVE  i = j
    OBVIOUS
  <2>1. r[i] \in Int /\ ~(i < j) /\ ~(j < i)
    BY <1>4, <1>5
  <2> QED
    BY <2>1
<1>7. \A k \in 1 .. N : \E i \in P : r[i] = k
  <2>1. r \in Injection(P, 1 .. N)
    BY <1>4, <1>6 DEF Injection, IsInjective
  <2>2. IsFiniteSet(1 .. N) /\ Cardinality(1 .. N) = N
    BY <1>0, FS_Interval
  <2>3. r \in Surjection(P, 1 .. N)
    BY <2>1, <2>2, FS_Injection DEF N
  <2> QED
    BY <2>3 DEF Surjection
<1> QED
  BY <1>0, <1>3, <1>4, <1>5, <1>6, <1>7 DEF N

\* A sequence without repetitions is as long as it has elements.
LEMMA RangeCount ==
  ASSUME NEW S, NEW q \in Seq(S), IsInjective(q)
  PROVE  /\ Range(q) \subseteq S /\ IsFiniteSet(Range(q))
         /\ Cardinality(Range(q)) = Len(q) /\ Len(q) \in Nat
<1>1. Len(q) \in Nat /\ DOMAIN q = 1 .. Len(q) /\ \A i \in 1 .. Len(q) : q[i] \in S
  OBVIOUS
<1>2. q \in [1 .. Len(q) -> Range(q)] /\ Range(q) \subseteq S
  BY <1>1 DEF Range
<1>3. q \in Bijection(1 .. Len(q), Range(q))
  BY <1>1, <1>2 DEF Bijection, Injection, Surjection, Range
<1>4. ExistsBijection(1 .. Len(q), Range(q))
  BY <1>3 DEF ExistsBijection
<1>5. Cardinality(Range(q)) = Len(q)
  BY <1>1, <1>4, FS_CountingElements
<1>6. IsFiniteSet(Range(q))
  BY <1>1, <1>4, FS_NatBijection
<1> QED
  BY <1>1, <1>2, <1>5, <1>6

LEMMA SelectionOf ==
  ASSUME NEW S, NEW q \in Seq(S), IsInjective(q), NEW T
  PROVE  /\ Selection(q, T) \in Seq(S) /\ IsInjective(Selection(q, T))
         /\ Range(Selection(q, T)) = Range(q) \cap T
<1> DEFINE P == {i \in DOMAIN q : q[i] \in T}
           c == [k \in 1 .. Cardinality(P) |-> CHOOSE i \in P : Upto(P, i) = k]
           f == Selection(q, T)
<1>1. /\ DOMAIN q = 1 .. Len(q) /\ \A i \in P : q[i] \in S /\ q[i] \in T /\ i \in DOMAIN q
      /\ P \in SUBSET Nat /\ P \subseteq 1 .. Len(q) /\ Len(q) \in Nat
      /\ \A i \in DOMAIN q : q[i] \in T => i \in P
  OBVIOUS
<1>2. f = [k \in 1 .. Cardinality(P) |-> q[c[k]]]
  BY DEF Selection
<1>3. \A k \in 1 .. Cardinality(P) : c[k] = CHOOSE i \in P : Upto(P, i) = k
  OBVIOUS
<1> HIDE DEF P, c, f
<1>4. IsFiniteSet(P)
  <2>1. IsFiniteSet(1 .. Len(q))
    BY <1>1, FS_Interval
  <2> QED
    BY <1>1, <2>1, FS_Subset
<1>5. /\ Cardinality(P) \in Nat
      /\ \A i \in P : Upto(P, i) \in 1 .. Cardinality(P)
      /\ \A i, j \in P : Upto(P, i) = Upto(P, j) => i = j
      /\ \A k \in 1 .. Cardinality(P) : \E i \in P : Upto(P, i) = k
  BY <1>1, <1>4, Places
<1>6. \A k \in 1 .. Cardinality(P) : c[k] \in P /\ Upto(P, c[k]) = k
  BY <1>3, <1>5
<1>7. \A i \in P : c[Upto(P, i)] = i
  BY <1>5, <1>6
<1>8. /\ DOMAIN f = 1 .. Cardinality(P)
      /\ \A k \in 1 .. Cardinality(P) : f[k] = q[c[k]] /\ f[k] \in S
  BY <1>1, <1>2, <1>6
<1>9. f \in Seq(S)
  <2>1. f \in [1 .. Cardinality(P) -> S]
    BY <1>1, <1>2, <1>6
  <2> QED
    BY <1>5, <2>1, IsASeq
<1>10. IsInjective(f)
  <2> SUFFICES ASSUME NEW k \in 1 .. Cardinality(P), NEW l \in 1 .. Cardinality(P), f[k] = f[l]
               PROVE  k = l
    BY <1>8 DEF IsInjective
  <2>1. c[k] \in DOMAIN q /\ c[l] \in DOMAIN q /\ q[c[k]] = q[c[l]]
    BY <1>1, <1>6, <1>8
  <2>2. c[k] = c[l]
    BY <2>1 DEF IsInjective
  <2> QED
    BY <1>6, <2>2
<1>11. Range(f) = Range(q) \cap T
  <2>1. ASSUME NEW k \in DOMAIN f PROVE f[k] \in Range(q) \cap T
    BY <1>1, <1>6, <1>8 DEF Range
  <2>2. ASSUME NEW i \in DOMAIN q, q[i] \in T PROVE \E k \in DOMAIN f : f[k] = q[i]
    <3>1. i \in P /\ Upto(P, i) \in 1 .. Cardinality(P) /\ c[Upto(P, i)] = i
      BY <1>1, <1>5, <1>7, <2>2
    <3> QED
      BY <1>8, <3>1
  <2> QED
    BY <2>1, <2>2 DEF Range
<1> QED
  BY <1>9, <1>10, <1>11 DEF f

LEMMA ConcatOne ==
  ASSUME NEW S, NEW p \in Seq(S), NEW q \in Seq(S), IsInjective(p), IsInjective(q),
         Range(p) \cap Range(q) = {}
  PROVE  /\ p \o q \in Seq(S) /\ IsInjective(p \o q) /\ Range(p \o q) = Range(p) \cup Range(q)
         /\ Len(p \o q) = Len(p) + Len(q)
<1> DEFINE f == p \o q
<1>1. /\ f \in Seq(S) /\ Len(f) = Len(p) + Len(q) /\ Len(p) \in Nat /\ Len(q) \in Nat
      /\ \A i \in 1 .. Len(f) : f[i] = IF i <= Len(p) THEN p[i] ELSE q[i - Len(p)]
  BY ConcatProperties
<1> HIDE DEF f
<1>2. DOMAIN f = 1 .. Len(p) + Len(q) /\ DOMAIN p = 1 .. Len(p) /\ DOMAIN q = 1 .. Len(q)
  BY <1>1
<1>3. \A i \in DOMAIN f : \/ i \in DOMAIN p /\ f[i] = p[i]
                          \/ i \notin DOMAIN p /\ i - Len(p) \in DOMAIN q /\ f[i] = q[i - Len(p)]
  BY <1>1, <1>2
<1>4. IsInjective(f)
  <2> SUFFICES ASSUME NEW i \in DOMAIN f, NEW j \in DOMAIN f, f[i] = f[j]
               PROVE  i = j
    BY DEF IsInjective
  <2>1. /\ \A k \in DOMAIN p : p[k] \in Range(p)
        /\ \A k \in DOMAIN q : q[k] \in Range(q)
    BY DEF Range
  <2>2. CASE i \in DOMAIN p /\ j \in DOMAIN p
    BY <1>3, <2>2 DEF IsInjective
  <2>3. CASE i \notin DOMAIN p /\ j \notin DOMAIN p
    <3>1. i - Len(p) = j - Len(p)
      BY <1>3, <2>3 DEF IsInjective
    <3> QED
      BY <1>1, <1>2, <3>1
  <2> QED
    BY <1>3, <2>1, <2>2, <2>3
<1>5. Range(f) = Range(p) \cup Range(q)
  <2>1. \A i \in DOMAIN p : i \in DOMAIN f /\ f[i] = p[i]
    BY <1>1, <1>2
  <2>2. ASSUME NEW i \in DOMAIN q PROVE i + Len(p) \in DOMAIN f /\ f[i + Len(p)] = q[i]
    <3>1. i + Len(p) \in DOMAIN f /\ ~(i + Len(p) <= Len(p)) /\ (i + Len(p)) - Len(p) = i
      BY <1>1, <1>2
    <3> QED
      BY <1>1, <1>2, <3>1
  <2> QED
    BY <1>3, <2>1, <2>2 DEF Range
<1> QED
  BY <1>1, <1>4, <1>5 DEF f

LEMMA TailOne ==
  ASSUME NEW S, NEW q \in Seq(S), q # <<>>, IsInjective(q)
  PROVE  /\ Head(q) \in S /\ Head(q) \in Range(q)
         /\ Tail(q) \in Seq(S) /\ IsInjective(Tail(q)) /\ Range(Tail(q)) = Range(q) \ {Head(q)}
<1> DEFINE f == Tail(q)
<1>1. Len(q) \in Nat \ {0} /\ DOMAIN q = 1 .. Len(q) /\ \A i \in 1 .. Len(q) : q[i] \in S
  BY EmptySeq
<1>2. /\ f \in Seq(S) /\ Len(f) = Len(q) - 1 /\ Head(q) = q[1]
      /\ \A i \in 1 .. Len(f) : f[i] = q[i + 1]
  BY HeadTailProperties
<1> HIDE DEF f
<1>3. DOMAIN f = 1 .. Len(q) - 1
  BY <1>2
<1>4. IsInjective(f)
  <2> SUFFICES ASSUME NEW i \in DOMAIN f, NEW j \in DOMAIN f, f[i] = f[j]
               PROVE  i = j
    BY DEF IsInjective
  <2>1. i + 1 \in DOMAIN q /\ j + 1 \in DOMAIN q
    BY <1>1, <1>3
  <2>2. i + 1 = j + 1
    BY <1>2, <1>3, <2>1 DEF IsInjective
  <2> QED
    BY <1>1, <1>3, <2>2
<1>5. Range(f) = Range(q) \ {Head(q)}
  <2>1. ASSUME NEW i \in DOMAIN f PROVE f[i] \in Range(q) /\ f[i] # Head(q)
    <3>1. i + 1 \in DOMAIN q /\ 1 \in DOMAIN q /\ i + 1 # 1
      BY <1>1, <1>3
    <3> QED
      BY <1>2, <1>3, <3>1 DEF IsInjective, Range
  <2>2. ASSUME NEW i \in DOMAIN q, q[i] # Head(q) PROVE i - 1 \in DOMAIN f /\ f[i - 1] = q[i]
    <3>1. i - 1 \in DOMAIN f /\ (i - 1) + 1 = i
      BY <1>1, <1>2, <1>3, <2>2
    <3> QED
      BY <1>2, <1>3, <3>1
  <2> QED
    BY <2>1, <2>2 DEF Range
<1>6. Head(q) \in S /\ Head(q) \in Range(q)
  BY <1>1, <1>2 DEF Range
<1> QED
  BY <1>2, <1>4, <1>5, <1>6 DEF f

LEMMA RemoveAtOne ==
  ASSUME NEW S, NEW q \in Seq(S), NEW n \in 1 .. Len(q), IsInjective(q)
  PROVE  /\ q[n] \in S /\ q[n] \in Range(q)
         /\ RemoveAt(q, n) \in Seq(S) /\ IsInjective(RemoveAt(q, n))
         /\ Range(RemoveAt(q, n)) = Range(q) \ {q[n]} /\ Len(RemoveAt(q, n)) = Len(q) - 1
<1> DEFINE f == RemoveAt(q, n)
<1>1. /\ Len(q) \in Nat /\ DOMAIN q = 1 .. Len(q) /\ \A i \in 1 .. Len(q) : q[i] \in S
      /\ n \in Nat /\ 1 <= n /\ n <= Len(q)
  OBVIOUS
<1>2. /\ f \in Seq(S) /\ Len(f) = Len(q) - 1
      /\ \A i \in 1 .. Len(q) - 1 : f[i] = IF i < n THEN q[i] ELSE q[i + 1]
  <2> DEFINE a == SubSeq(q, 1, n - 1)
             b == SubSeq(q, n + 1, Len(q))
  <2>1. /\ a \in Seq(S) /\ Len(a) = n - 1 /\ \A i \in 1 .. n - 1 : a[i] = q[i]
    BY <1>1
  <2>2. /\ b \in Seq(S) /\ Len(b) = Len(q) - n
        /\ \A i \in 1 .. Len(q) - n : b[i] = q[i + n]
    <3>1. /\ b \in Seq(S) /\ Len(b) = IF n + 1 <= Len(q) THEN Len(q) - (n + 1) + 1 ELSE 0
          /\ \A i \in 1 .. Len(q) - (n + 1) + 1 : b[i] = q[(n + 1) + i - 1]
      <4>1. n + 1 \in Int /\ Len(q) \in Int /\ \A i \in (n + 1) .. Len(q) : q[i] \in S
        BY <1>1
      <4> QED
        BY <4>1, SubSeqProperties
    <3> HIDE DEF b
    <3>2. Len(b) = Len(q) - n /\ Len(q) - (n + 1) + 1 = Len(q) - n
      <4>1. Len(q) \in Nat /\ n \in Nat /\ n <= Len(q)
        BY <1>1
      <4>2. Len(b) = IF n + 1 <= Len(q) THEN Len(q) - (n + 1) + 1 ELSE 0
        BY <3>1
      <4> QED
        BY <4>1, <4>2
    <3>3. \A i \in 1 .. Len(q) - n : (n + 1) + i - 1 = i + n
      BY <1>1
    <3> QED
      BY <3>1, <3>2, <3>3
  <2>3. f = a \o b
    BY DEF RemoveAt
  <2> HIDE DEF a, b, f
  <2>4. /\ f \in Seq(S) /\ Len(f) = Len(a) + Len(b)
        /\ \A i \in 1 .. Len(f) : f[i] = IF i <= Len(a) THEN a[i] ELSE b[i - Len(a)]
    <3>1. a \in Seq(S) /\ b \in Seq(S)
      BY <2>1, <2>2
    <3> QED
      BY <2>3, <3>1, ConcatProperties
  <2>5. ASSUME NEW i \in 1 .. Len(q) - 1
        PROVE  f[i] = IF i < n THEN q[i] ELSE q[i + 1]
    <3>1. CASE i < n
      <4>1. i \in 1 .. n - 1 /\ i <= n - 1
        BY <1>1, <3>1
      <4>2. Len(a) = n - 1 /\ i \in 1 .. Len(f)
        BY <1>1, <2>1, <2>2, <2>4
      <4>3. f[i] = a[i]
        BY <2>4, <4>1, <4>2
      <4>4. a[i] = q[i]
        BY <2>1, <4>1
      <4> QED
        BY <3>1, <4>3, <4>4
    <3>2. CASE ~(i < n)
      <4>1. i - (n - 1) \in 1 .. Len(q) - n /\ (i - (n - 1)) + n = i + 1 /\ ~(i <= n - 1)
        BY <1>1, <3>2
      <4>2. f[i] = b[i - (n - 1)]
        <5>1. Len(a) = n - 1 /\ i \in 1 .. Len(f)
          BY <1>1, <2>1, <2>2, <2>4
        <5> QED
          BY <2>4, <4>1, <5>1
      <4>3. b[i - (n - 1)] = q[(i - (n - 1)) + n]
        BY <2>2, <4>1
      <4> QED
        BY <3>2, <4>1, <4>2, <4>3
    <3> QED
      BY <3>1, <3>2
  <2> QED
    BY <1>1, <2>1, <2>2, <2>4, <2>5
<1> HIDE DEF f
<1>3. DOMAIN f = 1 .. Len(q) - 1
  BY <1>2
<1> DEFINE from == [i \in DOMAIN f |-> IF i < n THEN i ELSE i + 1]
<1>4. /\ \A i \in DOMAIN f : from[i] \in DOMAIN q /\ from[i] # n /\ f[i] = q[from[i]]
      /\ \A i, j \in DOMAIN f : from[i] = from[j] => i = j
      /\ \A k \in DOMAIN q : k # n => \E i \in DOMAIN f : from[i] = k
  <2>1. \A i \in DOMAIN f : from[i] \in DOMAIN q /\ from[i] # n /\ f[i] = q[from[i]]
    BY <1>1, <1>2, <1>3
  <2>2. \A i, j \in DOMAIN f : from[i] = from[j] => i = j
    BY <1>1, <1>3
  <2>3. ASSUME NEW k \in DOMAIN q, k # n PROVE \E i \in DOMAIN f : from[i] = k
    <3>1. CASE k < n
      <4>1. k \in DOMAIN f /\ from[k] = k
        BY <1>1, <1>3, <3>1
      <4> QED
        BY <4>1
    <3>2. CASE k > n
      <4>1. k - 1 \in DOMAIN f /\ from[k - 1] = k
        BY <1>1, <1>3, <3>2
      <4> QED
        BY <4>1
    <3> QED
      BY <1>1, <2>3, <3>1, <3>2
  <2> QED
    BY <2>1, <2>2, <2>3
<1> HIDE DEF from
<1>5. IsInjective(f)
  BY <1>4 DEF IsInjective
<1>6. Range(f) = Range(q) \ {q[n]}
  BY <1>1, <1>4 DEF IsInjective, Range
<1> QED
  BY <1>1, <1>2, <1>5, <1>6 DEF f, Range

-----------------------------------------------------------------------------
(* The set of the operating system is the affinity it is made from. *)

LEMMA CpuSet ==
  ASSUME NEW A \in Affinities, A # {}
  PROVE  CreateCpuSet(A) = A /\ CreateAffinity(A) = A
<1> DEFINE B == (A \ {0}) \cup {0}
           m == Max(B)
<1>1. A \subseteq 0 .. 31 /\ B \subseteq 0 .. 31 /\ B \in SUBSET Nat /\ 0 \in B
  BY DEF Affinities, ProcessorIds, MaxProcessorId
<1>2. IsFiniteSet(B) /\ Cardinality(B) # 0
  <2>1. IsFiniteSet(B)
    <3>1. IsFiniteSet(0 .. 31)
      <4>1. 0 \in Int /\ 31 \in Int
        OBVIOUS
      <4> QED
        BY <4>1, FS_Interval
    <3> HIDE DEF B
    <3> QED
      BY <1>1, <3>1, FS_Subset
  <2> HIDE DEF B
  <2> QED
    BY <1>1, <2>1, FS_EmptySet
<1>3. \E i \in B : \A j \in B : i >= j
  <2> HIDE DEF B
  <2>1. /\ Cardinality(B) \in Nat
        /\ \A i \in B : Upto(B, i) \in 1 .. Cardinality(B)
        /\ \A i, j \in B : i < j => Upto(B, i) < Upto(B, j)
        /\ \A k \in 1 .. Cardinality(B) : \E i \in B : Upto(B, i) = k
    BY <1>1, <1>2, Places
  <2>2. Cardinality(B) \in 1 .. Cardinality(B)
    BY <1>2, <2>1
  <2>3. PICK i \in B : Upto(B, i) = Cardinality(B)
    BY <2>1, <2>2
  <2>4. ASSUME NEW j \in B PROVE i >= j
    <3>1. ~(i < j)
      BY <2>1, <2>3
    <3> QED
      BY <1>1, <3>1
  <2> QED
    BY <2>4
<1>4. m \in B /\ \A j \in B : m >= j
  BY <1>3 DEF Max
<1>5. GetHighestSetProcessor(A) = m
  BY DEF GetHighestSetProcessor
<1>6. m \in A
  <2>1. CASE m = 0
    <3>1. \A j \in A : j = 0
      BY <1>1, <1>4, <2>1
    <3> QED
      BY <2>1, <3>1
  <2>2. CASE m # 0
    BY <1>4, <2>2
  <2> QED
    BY <2>1, <2>2
<1>7. \A j \in A : m >= j /\ j \in Nat /\ m \in Nat
  BY <1>1, <1>4
<1> HIDE DEF m, B
<1>8. CreateCpuSet(A) = {m} \cup {p \in 0 .. m - 1 : p \in A}
  BY <1>5 DEF CreateCpuSet
<1>9. CreateCpuSet(A) = A
  <2>1. ASSUME NEW j \in A PROVE j = m \/ j \in 0 .. m - 1
    BY <1>7
  <2> QED
    BY <1>6, <1>8, <2>1
<1>10. CreateAffinity(A) = A
  BY DEF CreateAffinity, Affinities
<1> QED
  BY <1>9, <1>10

-----------------------------------------------------------------------------
(* The invariant. *)

\* Where a thread has no meta thread yet, and where it has one.
Before == {"outside", "client", "acquire", "acquireSleep", "acquireWait", "acquireRemove"}
InLoop == {"loop", "each", "run", "ran", "rest", "restWait",
           "stopped", "remove", "unlink", "removeWait"}
Labels == Before \cup InLoop \cup {"begin", "release", "returned"}

SharedTypes ==
  /\ idleMeta \in Seq(MetaThreads) /\ IsInjective(idleMeta)
  /\ unborn \subseteq Late /\ sleepers \subseteq Threads /\ metaLock \in Threads \cup {Null}
  /\ held \in [Threads -> MetaThreads \cup {Null}] /\ pc \in [Threads -> Labels]

\* The lock is kept between a test that finds nothing and the sleep.
LockOK ==
  /\ metaLock # Null => pc[metaLock] = "acquireSleep" /\ idleMeta = <<>>
  /\ \A t \in Threads : pc[t] = "acquireSleep" => metaLock = t
  /\ \A t \in sleepers : pc[t] = "acquireWait"

HeldOK ==
  /\ Range(idleMeta) \cap unborn = {}
  /\ \A t \in Threads :
       /\ pc[t] \in InLoop \cup {"begin", "release"} => held[t] # Null
       /\ held[t] # Null => /\ held[t] \notin Range(idleMeta) \cup unborn
                            /\ \A u \in Threads : held[u] = held[t] => u = t

Attended ==
  sleepers # {} => Len(idleMeta) <= Cardinality(Acquiring) + Cardinality(Late \ unborn)

SharedInv == SharedTypes /\ LockOK /\ HeldOK /\ Attended

\* The sets that are counted are finite.
LEMMA Counts ==
  ASSUME SharedTypes
  PROVE  /\ IsFiniteSet(Acquiring) /\ Cardinality(Acquiring) \in Nat
         /\ IsFiniteSet(Late \ unborn) /\ Cardinality(Late \ unborn) \in Nat
         /\ Len(idleMeta) \in Nat
<1>1. IsFiniteSet(Acquiring)
  BY MetaSchedulerAssumption, FS_Subset DEF Acquiring
<1>2. IsFiniteSet(Late \ unborn)
  BY MetaSchedulerAssumption, FS_Subset, Late \ unborn \subseteq MetaThreads
<1> QED
  BY <1>1, <1>2, FS_CardinalityType DEF SharedTypes

\* A step that leaves the meta threads and those who wait for them alone.
LEMMA ElsewhereShared ==
  ASSUME SharedInv, NEW t \in Threads, NEW s \in Labels \ {"acquireSleep"},
         UNCHANGED <<idleMeta, metaLock, sleepers, unborn, held>>,
         pc' = [pc EXCEPT ![t] = s],
         pc[t] \notin {"acquire", "acquireSleep", "acquireWait"},
         s \in InLoop \cup {"begin", "release"} => held[t] # Null
  PROVE  SharedInv'
<1>1. Acquiring \subseteq Acquiring'
  BY DEF SharedInv, SharedTypes, Acquiring
<1>2. SharedTypes' /\ LockOK' /\ HeldOK'
  BY DEF SharedInv, SharedTypes, LockOK, HeldOK
<1>3. Cardinality(Acquiring) <= Cardinality(Acquiring')
  <2>1. IsFiniteSet(Acquiring')
    BY MetaSchedulerAssumption, FS_Subset DEF Acquiring
  <2> QED
    BY <1>1, <2>1, FS_Subset
<1>4. Attended'
  <2>1. Cardinality(Acquiring') \in Nat
    BY MetaSchedulerAssumption, FS_Subset, FS_CardinalityType DEF Acquiring
  <2> QED
    BY <1>3, <2>1, Counts DEF SharedInv, Attended
<1> QED
  BY <1>2, <1>4 DEF SharedInv

LEMMA SharedAlone ==
  ASSUME SharedInv, UNCHANGED <<idleMeta, metaLock, sleepers, unborn, held, pc>>
  PROVE  SharedInv'
  BY DEF SharedInv, SharedTypes, LockOK, HeldOK, Attended, Acquiring

-----------------------------------------------------------------------------
(* The steps that take a meta thread, or give one back.                     *)

LEMMA CreateShared ==
  ASSUME SharedInv, NEW m \in MetaThreads, CreateMetaThread(m)
  PROVE  SharedInv'
<1>1. /\ m \in unborn /\ m \in Late /\ metaLock = Null /\ unborn' = unborn \ {m}
      /\ idleMeta' = Append(idleMeta, m) /\ UNCHANGED <<metaLock, sleepers, pc, held>>
  BY DEF CreateMetaThread, SharedInv, SharedTypes
<1>2. /\ idleMeta' \in Seq(MetaThreads) /\ IsInjective(idleMeta')
      /\ Range(idleMeta') = Range(idleMeta) \cup {m} /\ Len(idleMeta') = Len(idleMeta) + 1
  BY <1>1, AppendOne DEF SharedInv, SharedTypes, HeldOK
<1>3. SharedTypes' /\ LockOK' /\ HeldOK'
  <2>1. SharedTypes'
    BY <1>1, <1>2 DEF SharedInv, SharedTypes
  <2>2. LockOK'
    BY <1>1 DEF SharedInv, LockOK
  <2>3. HeldOK'
    BY <1>1, <1>2 DEF SharedInv, HeldOK
  <2> QED
    BY <2>1, <2>2, <2>3
<1>4. Attended'
  <2>1. Late \ unborn' = (Late \ unborn) \cup {m} /\ m \notin Late \ unborn
    BY <1>1
  <2>2. Cardinality(Late \ unborn') = Cardinality(Late \ unborn) + 1
    BY <2>1, Counts, FS_AddElement DEF SharedInv
  <2>3. Acquiring' = Acquiring
    BY <1>1 DEF Acquiring
  <2> QED
    BY <1>1, <1>2, <2>2, <2>3, Counts DEF SharedInv, Attended
<1> QED
  BY <1>3, <1>4 DEF SharedInv

LEMMA TakeShared ==
  ASSUME SharedInv, NEW t \in Threads, AcquireTest(t), idleMeta # <<>>
  PROVE  SharedInv'
<1>1. /\ pc[t] \in {"acquire", "acquireWait"} /\ t \notin sleepers /\ metaLock = Null
      /\ held' = [held EXCEPT ![t] = Last(idleMeta)] /\ idleMeta' = Front(idleMeta)
      /\ pc' = [pc EXCEPT ![t] = "acquireRemove"] /\ UNCHANGED <<metaLock, sleepers, unborn>>
  BY DEF AcquireTest, Goto
<1>2. /\ Last(idleMeta) \in MetaThreads /\ Last(idleMeta) \in Range(idleMeta)
      /\ idleMeta' \in Seq(MetaThreads) /\ IsInjective(idleMeta')
      /\ Range(idleMeta') = Range(idleMeta) \ {Last(idleMeta)}
      /\ Len(idleMeta') = Len(idleMeta) - 1
  BY <1>1, FrontOne DEF SharedInv, SharedTypes
<1>3. SharedTypes'
  BY <1>1, <1>2 DEF SharedInv, SharedTypes, Labels, Before
<1>4. LockOK'
  BY <1>1 DEF SharedInv, SharedTypes, LockOK
<1>5. HeldOK'
  <2>1. Range(idleMeta') \cap unborn' = {}
    BY <1>1, <1>2 DEF SharedInv, HeldOK
  <2>2. held'[t] = Last(idleMeta) /\ \A u \in Threads \ {t} : held'[u] = held[u] /\ pc'[u] = pc[u]
    BY <1>1 DEF SharedInv, SharedTypes
  <2>3. \A u \in Threads \ {t} : held[u] # Last(idleMeta)
    BY <1>2, MetaSchedulerAssumption DEF SharedInv, HeldOK
  <2>4. Last(idleMeta) \notin unborn
    BY <1>2 DEF SharedInv, HeldOK
  <2>5. pc'[t] = "acquireRemove"
    BY <1>1 DEF SharedInv, SharedTypes
  <2>6. ASSUME NEW u \in Threads
        PROVE  /\ pc'[u] \in InLoop \cup {"begin", "release"} => held'[u] # Null
               /\ held'[u] # Null => /\ held'[u] \notin Range(idleMeta') \cup unborn'
                                     /\ \A v \in Threads : held'[v] = held'[u] => v = u
    <3>1. CASE u = t
      BY <1>1, <1>2, <2>2, <2>3, <2>4, <2>5, <3>1 DEF InLoop
    <3>2. CASE u # t
      BY <1>1, <1>2, <2>2, <2>3, <3>2 DEF SharedInv, HeldOK
    <3> QED
      BY <3>1, <3>2
  <2> QED
    BY <2>1, <2>6 DEF HeldOK
<1>6. Attended'
  <2>1. Acquiring' = Acquiring \ {t} /\ t \in Acquiring
    BY <1>1 DEF SharedInv, SharedTypes, Acquiring
  <2>2. Cardinality(Acquiring') = Cardinality(Acquiring) - 1
    BY <2>1, Counts, FS_RemoveElement DEF SharedInv
  <2> QED
    BY <1>1, <1>2, <2>2, Counts DEF SharedInv, Attended
<1> QED
  BY <1>3, <1>4, <1>5, <1>6 DEF SharedInv

\* A thread that finds none leaves, or keeps the lock until it sleeps.
LEMMA FindNoneShared ==
  ASSUME SharedInv, NEW t \in Threads, AcquireTest(t), idleMeta = <<>>
  PROVE  SharedInv'
<1>1. /\ metaLock = Null /\ UNCHANGED <<idleMeta, held, sleepers, unborn>>
      /\ pc[t] \in {"acquire", "acquireWait"} /\ t \notin sleepers
      /\ \/ pc' = [pc EXCEPT ![t] = "acquireRemove"] /\ UNCHANGED metaLock
         \/ pc' = [pc EXCEPT ![t] = "acquireSleep"] /\ metaLock' = t
  BY DEF AcquireTest, Goto
<1>2. SharedTypes'
  BY <1>1 DEF SharedInv, SharedTypes, Labels, Before
<1>3. LockOK'
  BY <1>1, MetaSchedulerAssumption DEF SharedInv, SharedTypes, LockOK
<1>4. HeldOK'
  BY <1>1 DEF SharedInv, SharedTypes, HeldOK, InLoop
<1>5. Attended'
  <2>1. Len(idleMeta') = 0
    BY <1>1
  <2> HIDE DEF SharedInv
  <2>2. Cardinality(Acquiring') \in Nat /\ Cardinality(Late \ unborn') \in Nat
    BY <1>1, Counts, MetaSchedulerAssumption, FS_Subset, FS_CardinalityType
    DEF SharedInv, Acquiring
  <2> QED
    BY <2>1, <2>2 DEF Attended
<1> QED
  BY <1>2, <1>3, <1>4, <1>5 DEF SharedInv

LEMMA SleepShared ==
  ASSUME SharedInv, NEW t \in Threads, AcquireSleep(t)
  PROVE  SharedInv'
<1>1. /\ metaLock = t /\ idleMeta = <<>> /\ pc[t] = "acquireSleep"
      /\ metaLock' = Null /\ sleepers' = sleepers \cup {t}
      /\ pc' = [pc EXCEPT ![t] = "acquireWait"] /\ UNCHANGED <<idleMeta, held, unborn>>
  BY MetaSchedulerAssumption DEF AcquireSleep, Goto, SharedInv, LockOK
<1>2. SharedTypes'
  BY <1>1 DEF SharedInv, SharedTypes, Labels, Before
<1>3. LockOK'
  BY <1>1 DEF SharedInv, SharedTypes, LockOK
<1>4. HeldOK'
  BY <1>1 DEF SharedInv, SharedTypes, HeldOK, InLoop
<1>5. Attended'
  <2>1. Len(idleMeta') = 0
    BY <1>1
  <2>2. Cardinality(Acquiring') \in Nat /\ Cardinality(Late \ unborn') \in Nat
    BY <1>1, Counts, MetaSchedulerAssumption, FS_Subset, FS_CardinalityType
    DEF SharedInv, Acquiring
  <2> QED
    BY <2>1, <2>2 DEF Attended
<1> QED
  BY <1>2, <1>3, <1>4, <1>5 DEF SharedInv

\* The one who gives a meta thread back wakes somebody who comes for it.
LEMMA ReleaseShared ==
  ASSUME SharedInv, NEW t \in Threads, ReleaseMetaThread(t)
  PROVE  SharedInv'
<1>1. /\ pc[t] = "release" /\ metaLock = Null /\ idleMeta' = Append(idleMeta, held[t])
      /\ held' = [held EXCEPT ![t] = Null] /\ pc' = [pc EXCEPT ![t] = "returned"]
      /\ UNCHANGED <<metaLock, unborn>>
  BY DEF ReleaseMetaThread, Goto
<1>2. held[t] # Null /\ held[t] \in MetaThreads /\ held[t] \notin Range(idleMeta) \cup unborn
  BY <1>1 DEF SharedInv, SharedTypes, HeldOK
<1>3. /\ idleMeta' \in Seq(MetaThreads) /\ IsInjective(idleMeta')
      /\ Range(idleMeta') = Range(idleMeta) \cup {held[t]} /\ Len(idleMeta') = Len(idleMeta) + 1
  BY <1>1, <1>2, AppendOne DEF SharedInv, SharedTypes
<1>4. (sleepers = {} /\ sleepers' = {}) \/ \E u \in sleepers : sleepers' = sleepers \ {u}
  BY DEF ReleaseMetaThread
<1>5. SharedTypes'
  BY <1>1, <1>3, <1>4 DEF SharedInv, SharedTypes, Labels
<1>6. LockOK'
  BY <1>1, <1>4 DEF SharedInv, SharedTypes, LockOK
<1>7. HeldOK'
  <2>1. held'[t] = Null /\ \A u \in Threads \ {t} : held'[u] = held[u] /\ pc'[u] = pc[u]
    BY <1>1 DEF SharedInv, SharedTypes
  <2>2. pc'[t] = "returned"
    BY <1>1 DEF SharedInv, SharedTypes
  <2>3. \A u \in Threads \ {t} : held[u] # held[t]
    BY <1>2 DEF SharedInv, HeldOK
  <2> QED
    BY <1>1, <1>2, <1>3, <2>1, <2>2, <2>3 DEF SharedInv, HeldOK, InLoop
<1>8. Attended'
  <2>1. CASE sleepers' = {}
    BY <2>1 DEF Attended
  <2>2. ASSUME NEW u \in sleepers, sleepers' = sleepers \ {u}
        PROVE  Attended'
    <3>1. pc[u] = "acquireWait" /\ u \in Threads /\ u # t
      BY <1>1 DEF SharedInv, SharedTypes, LockOK
    <3>2. Acquiring' = Acquiring \cup {u} /\ u \notin Acquiring
      BY <1>1, <2>2, <3>1 DEF SharedInv, SharedTypes, Acquiring
    <3>3. Cardinality(Acquiring') = Cardinality(Acquiring) + 1
      BY <3>2, Counts, FS_AddElement DEF SharedInv
    <3> QED
      BY <1>1, <1>3, <3>3, Counts DEF SharedInv, Attended
  <2> QED
    BY <1>4, <2>1, <2>2
<1> QED
  BY <1>5, <1>6, <1>7, <1>8 DEF SharedInv

-----------------------------------------------------------------------------
(* The steps that disturb less. *)

\* Everybody who sleeps is woken.
LEMMA InterruptShared ==
  ASSUME SharedInv, NEW t \in Threads, InterruptCallback(t)
  PROVE  SharedInv'
<1>1. sleepers' = {} /\ UNCHANGED <<idleMeta, metaLock, unborn, pc, held>>
  BY DEF InterruptCallback
<1> QED
  BY <1>1 DEF SharedInv, SharedTypes, LockOK, HeldOK, Attended

\* A thread that wakes up for no reason may come for a meta thread as well.
LEMMA SpuriousShared ==
  ASSUME SharedInv, NEW t \in Threads, SpuriousWakeup(t)
  PROVE  SharedInv'
<1>1. UNCHANGED <<idleMeta, metaLock, unborn, pc, held>>
  BY DEF SpuriousWakeup
<1>2. sleepers' = sleepers \/ (t \in sleepers /\ sleepers' = sleepers \ {t})
  BY DEF SpuriousWakeup
<1>3. CASE sleepers' = sleepers
  BY <1>1, <1>3, SharedAlone
<1>4. CASE t \in sleepers /\ sleepers' = sleepers \ {t}
  <2>1. SharedTypes' /\ LockOK' /\ HeldOK'
    BY <1>1, <1>4 DEF SharedInv, SharedTypes, LockOK, HeldOK
  <2>2. Acquiring' = Acquiring \cup {t} /\ t \notin Acquiring
    BY <1>1, <1>4 DEF SharedInv, SharedTypes, LockOK, Acquiring
  <2>3. Cardinality(Acquiring') = Cardinality(Acquiring) + 1
    BY <2>2, Counts, FS_AddElement DEF SharedInv
  <2>4. Attended'
    BY <1>1, <1>4, <2>3, Counts DEF SharedInv, Attended
  <2> QED
    BY <2>1, <2>4 DEF SharedInv
<1> QED
  BY <1>2, <1>3, <1>4

LEMMA AcquireEndsShared ==
  ASSUME SharedInv, NEW t \in Threads, AcquireAdd(t) \/ AcquireRemove(t)
  PROVE  SharedInv'
<1>1. CASE AcquireAdd(t)
  <2>1. /\ pc[t] = "client" /\ UNCHANGED <<idleMeta, metaLock, sleepers, unborn, held>>
        /\ \E s \in {"acquire", "returned"} : pc' = [pc EXCEPT ![t] = s]
    BY <1>1 DEF AcquireAdd, Goto, metas
  <2> QED
    BY <2>1, ElsewhereShared DEF Labels, Before, InLoop
<1>2. CASE AcquireRemove(t)
  <2>1. /\ pc[t] = "acquireRemove" /\ UNCHANGED <<idleMeta, metaLock, sleepers, unborn, held>>
        /\ pc' = [pc EXCEPT ![t] = IF held[t] = Null THEN "returned" ELSE "begin"]
    BY <1>2 DEF AcquireRemove, Goto, metas
  <2>2. CASE held[t] = Null
    BY <2>1, <2>2, ElsewhereShared DEF Labels, InLoop
  <2>3. CASE held[t] # Null
    BY <2>1, <2>3, ElsewhereShared DEF Labels, InLoop
  <2> QED
    BY <2>2, <2>3
<1> QED
  BY <1>1, <1>2

\* Run that returns early destroys the meta thread, which is held by nobody then.
LEMMA BeginShared ==
  ASSUME SharedInv, NEW t \in Threads, Begin(t)
  PROVE  SharedInv'
<1>1. /\ pc[t] = "begin" /\ UNCHANGED <<idleMeta, metaLock, sleepers, unborn>>
      /\ \/ held' = [held EXCEPT ![t] = Null] /\ pc' = [pc EXCEPT ![t] = "returned"]
         \/ held' = held /\ pc' = [pc EXCEPT ![t] = "loop"]
  BY DEF Begin, Goto, metas
<1>2. CASE held' = held /\ pc' = [pc EXCEPT ![t] = "loop"]
  <2>1. held[t] # Null
    BY <1>1 DEF SharedInv, HeldOK
  <2> QED
    BY <1>1, <1>2, <2>1, ElsewhereShared DEF Labels, InLoop
<1>3. CASE held' = [held EXCEPT ![t] = Null] /\ pc' = [pc EXCEPT ![t] = "returned"]
  <2>1. SharedTypes'
    BY <1>1, <1>3 DEF SharedInv, SharedTypes, Labels
  <2>2. LockOK'
    BY <1>1, <1>3 DEF SharedInv, SharedTypes, LockOK
  <2>3. HeldOK'
    BY <1>1, <1>3 DEF SharedInv, SharedTypes, HeldOK, InLoop
  <2>4. Acquiring' = Acquiring
    BY <1>1, <1>3 DEF SharedInv, SharedTypes, Acquiring
  <2>5. Attended'
    BY <1>1, <2>4 DEF SharedInv, Attended
  <2> QED
    BY <2>1, <2>2, <2>3, <2>5 DEF SharedInv
<1> QED
  BY <1>1, <1>2, <1>3

\* The steps of the loop and of the stop path.
LEMMA LoopShared ==
  ASSUME SharedInv, NEW t \in Threads,
         \/ LoopHead(t) \/ Each(t) \/ RunScheduler(t) \/ GoIdle(t) \/ StayActive(t) \/ Rest(t)
         \/ Stopped(t) \/ RemoveIdle(t) \/ Unlink(t) \/ RemoveAwaken(t) \/ Restore(t)
  PROVE  SharedInv'
<1>1. /\ pc[t] \in InLoop /\ UNCHANGED <<idleMeta, metaLock, sleepers, unborn, held>>
      /\ \E s \in InLoop \cup {"release"} : pc' = [pc EXCEPT ![t] = s]
  <2>1. CASE LoopHead(t)
    BY <2>1 DEF LoopHead, Goto, metas, InLoop
  <2>2. CASE Each(t)
    BY <2>2 DEF Each, Goto, metas, InLoop
  <2>3. CASE RunScheduler(t)
    BY <2>3 DEF RunScheduler, Goto, metas, InLoop
  <2>4. CASE GoIdle(t)
    BY <2>4 DEF GoIdle, Goto, metas, InLoop
  <2>5. CASE StayActive(t)
    BY <2>5 DEF StayActive, Goto, metas, InLoop
  <2>6. CASE Rest(t)
    BY <2>6 DEF Rest, Goto, metas, InLoop
  <2>7. CASE Stopped(t)
    BY <2>7 DEF Stopped, Goto, metas, InLoop
  <2>8. CASE RemoveIdle(t) \/ Unlink(t) \/ RemoveAwaken(t)
    BY <2>8
    DEF RemoveIdle, Unlink, RemoveAwaken, AwaitCallback, NextIdle, Goto, metas, InLoop
  <2>9. CASE Restore(t)
    BY <2>9 DEF Restore, Goto, metas, InLoop
  <2> QED
    BY <2>1, <2>2, <2>3, <2>4, <2>5, <2>6, <2>7, <2>8, <2>9
<1>2. held[t] # Null
  BY <1>1 DEF SharedInv, HeldOK
<1>3. PICK s \in InLoop \cup {"release"} : pc' = [pc EXCEPT ![t] = s]
  BY <1>1
<1>4. s \in Labels \ {"acquireSleep"}
  BY DEF Labels, InLoop
<1>5. pc[t] \notin {"acquire", "acquireSleep", "acquireWait"}
  BY <1>1 DEF InLoop
<1> QED
  BY <1>1, <1>2, <1>3, <1>4, <1>5, ElsewhereShared

LEMMA ClientShared ==
  ASSUME SharedInv, NEW t \in Threads, Client(t)
  PROVE  SharedInv'
<1>1. CASE AcquireContext(t)
  <2>1. /\ pc[t] \in {"outside", "client"} /\ pc' = [pc EXCEPT ![t] = "client"]
        /\ UNCHANGED <<idleMeta, metaLock, sleepers, unborn, held>>
    BY <1>1 DEF AcquireContext, Goto, metas
  <2> QED
    BY <2>1, ElsewhereShared DEF Labels, Before, InLoop
<1>2. CASE Release(t)
  BY <1>2, SharedAlone DEF Release, metas
<1> QED
  BY <1>1, <1>2 DEF Client

-----------------------------------------------------------------------------
(* The invariant holds. *)

LEMMA InitShared == Init => SharedInv
<1> SUFFICES ASSUME Init PROVE SharedInv
  OBVIOUS
<1>1. IsFiniteSet(MetaThreads \ Late)
  BY MetaSchedulerAssumption, FS_Subset, MetaThreads \ Late \subseteq MetaThreads
<1>2. SetToSeq(MetaThreads \ Late) \in Seq(MetaThreads \ Late)
      /\ IsInjective(SetToSeq(MetaThreads \ Late))
  BY <1>1, SetToSeqOne
<1>3. idleMeta \in Seq(MetaThreads \ Late) /\ IsInjective(idleMeta)
  BY <1>2 DEF Init
<1>4. Range(idleMeta) \subseteq MetaThreads \ Late
  BY <1>3 DEF Range
<1>5. idleMeta \in Seq(MetaThreads)
  BY <1>3
<1>6. SharedTypes
  BY <1>3, <1>5 DEF Init, SharedTypes, Labels, Before
<1>7. LockOK /\ Attended
  BY DEF Init, LockOK, Attended
<1>8. HeldOK
  BY <1>4 DEF Init, HeldOK, InLoop
<1> QED
  BY <1>6, <1>7, <1>8 DEF SharedInv

LEMMA StepShared ==
  ASSUME SharedInv, NEW t \in Threads, Step(t)
  PROVE  SharedInv'
<1>1. CASE AcquireAdd(t) \/ AcquireRemove(t)
  BY <1>1, AcquireEndsShared
<1>2. CASE AcquireTest(t)
  BY <1>2, TakeShared, FindNoneShared
<1>3. CASE AcquireSleep(t)
  BY <1>3, SleepShared
<1>4. CASE Begin(t)
  BY <1>4, BeginShared
<1>5. CASE \/ LoopHead(t) \/ Each(t) \/ RunScheduler(t) \/ GoIdle(t) \/ StayActive(t) \/ Rest(t)
           \/ Stopped(t) \/ RemoveIdle(t) \/ Unlink(t) \/ RemoveAwaken(t) \/ Restore(t)
  BY <1>5, LoopShared
<1>6. CASE ReleaseMetaThread(t)
  BY <1>6, ReleaseShared
<1> QED
  BY <1>1, <1>2, <1>3, <1>4, <1>5, <1>6 DEF Step

LEMMA CallbackShared ==
  ASSUME SharedInv, NEW t \in Threads, Callback(t)
  PROVE  SharedInv'
<1>1. CASE InterruptCallback(t)
  BY <1>1, InterruptShared
<1>2. CASE UntilCallback(t)
  BY <1>2, SharedAlone DEF UntilCallback, metas
<1>3. CASE \E s \in Scheds : HasWorkCallback(t, s)
  BY <1>3, SharedAlone DEF HasWorkCallback, metas
<1> QED
  BY <1>1, <1>2, <1>3 DEF Callback

LEMMA OutsideShared ==
  ASSUME SharedInv, Outside
  PROVE  SharedInv'
<1>1. CASE \E s \in Scheds : PostWork(s) \/ UnlockWork(s)
  BY <1>1, SharedAlone DEF PostWork, UnlockWork, metas
<1>2. ASSUME NEW m \in MetaThreads, CreateMetaThread(m) PROVE SharedInv'
  BY <1>2, CreateShared
<1>3. ASSUME NEW t \in Threads, SetDone(t) PROVE SharedInv'
  BY <1>3, SharedAlone DEF SetDone, metas
<1>4. ASSUME NEW t \in Threads, SpuriousWakeup(t) PROVE SharedInv'
  BY <1>4, SpuriousShared
<1> QED
  BY <1>1, <1>2, <1>3, <1>4 DEF Outside

LEMMA NextShared == SharedInv /\ [Next]_vars => SharedInv'
<1> SUFFICES ASSUME SharedInv, [Next]_vars PROVE SharedInv'
  OBVIOUS
<1>1. CASE Outside
  BY <1>1, OutsideShared
<1>2. ASSUME NEW t \in Threads, Step(t) PROVE SharedInv'
  BY <1>2, StepShared
<1>3. ASSUME NEW t \in Threads, Callback(t) PROVE SharedInv'
  BY <1>3, CallbackShared
<1>4. ASSUME NEW t \in Threads, Client(t) PROVE SharedInv'
  BY <1>4, ClientShared
<1>5. CASE UNCHANGED vars
  BY <1>5, SharedAlone DEF vars, metas
<1> QED
  BY <1>1, <1>2, <1>3, <1>4, <1>5 DEF Next, Finished

LEMMA SharedImplies == SharedInv => MetaThreadsAreShared
  BY DEF SharedInv, SharedTypes, HeldOK, Attended, MetaThreadsAreShared

(* A meta thread is idle, or held by one thread, and while a thread sleeps  *)
(* on mIdleMetaThreadAvailable each idle one has somebody who comes for it, *)
(* except as many as CreateMetaThread has added: the lock that              *)
(* AcquireMetaThread keeps from its test to its wait, and the WakeOne of    *)
(* ReleaseMetaThread, lose no wakeup.                                       *)
THEOREM MetaThreadsShared == Spec => []MetaThreadsAreShared
<1>1. Spec => []SharedInv
  BY InitShared, NextShared, PTL DEF Spec
<1> QED
  BY <1>1, SharedImplies, PTL

-----------------------------------------------------------------------------
(* The invariant of Run: the waiters of a thread, its lists, its counts,    *)
(* where it is, and its affinity.                                           *)

AcquireLabels == {"acquire", "acquireSleep", "acquireWait", "acquireRemove"}
RunLabels == {"loop", "each", "run", "ran", "rest", "restWait"}
StopLabels == {"stopped", "remove", "unlink", "removeWait"}

\* The schedulers whose has-work condition has a waiter of the thread, those
\* whose callback is on its way to it, and both.
Waits(t) == {s \in Scheds : t \in onWork[s]}
Comes(t) == {s \in Scheds : <<"hasWork", t, s>> \in calling}
Awaited(t) == Waits(t) \cup Comes(t)

\* The idle schedulers of a Run that have been called, and the active ones that poll.
CalledOf(r) == {s \in Range(r.idle) : r.lastState[s] # "Idle"}
PollingOf(r) == {s \in Range(r.active) : r.lastState[s] = "Polling"}

RunRecords ==
  [stop : BOOLEAN, activeCount : Nat, polling : Nat, active : Seq(Scheds), idle : Seq(Scheds),
   at : Nat, state : States, lastState : [Scheds -> States], oldAffinity : Affinities]

EventTypes ==
  /\ done \subseteq Threads
  /\ onDone \in [Threads -> SUBSET {"interrupt", "until"}]
  /\ hasWork \subseteq Scheds /\ onWork \in [Scheds -> SUBSET Threads]
  /\ calling \subseteq ({"interrupt", "until"} \X Threads) \cup ({"hasWork"} \X Threads \X Scheds)

SetTypes ==
  /\ locked \subseteq Scheds /\ unheard \subseteq Scheds
  /\ notifying \in [Scheds -> Threads \cup {Null}]

LoadTypes ==
  /\ work \in [Scheds -> Nat] /\ unposted \in [Scheds -> Nat]
  /\ mRefCount \in [Threads -> 0 .. MaxRefs]

RunTypes ==
  /\ dozing \subseteq Threads
  /\ interrupted \in [Threads -> BOOLEAN] /\ waiterDone \in [Threads -> BOOLEAN]
  /\ run \in [Threads -> RunRecords] /\ affinity \in [Threads -> Affinities]

(* A waiter on the until event is there only before the event is set, and   *)
(* its callback comes only after that.                                      *)
WaitersOK(t) ==
  /\ onDone[t] # {} => t \notin done
  /\ <<"interrupt", t>> \in calling \/ <<"until", t>> \in calling \/ waiterDone[t] => t \in done
  /\ "interrupt" \in onDone[t] \/ <<"interrupt", t>> \in calling =>
       pc[t] \in AcquireLabels /\ ~waiterDone[t]
  /\ "until" \in onDone[t] \/ <<"until", t>> \in calling => pc[t] \in InLoop /\ ~run[t].stop

ListsOK(t) ==
  LET r == run[t]
  IN  /\ IsInjective(r.active) /\ IsInjective(r.idle) /\ Range(r.active) \cap Range(r.idle) = {}
      /\ \A s \in Range(r.active) : r.lastState[s] # "Idle"
      /\ \A s \in Range(r.idle) : r.lastState[s] # "Polling"
      /\ \A s \in Scheds : s \in Awaited(t) <=> s \in Range(r.idle) /\ r.lastState[s] = "Idle"
      /\ Waits(t) \cap Comes(t) = {}
      /\ pc[t] \in RunLabels => Range(r.active) \cup Range(r.idle) = Range(Enabled(held[t]))

(* Each callback that may yet come adds one to activeCount, and no more     *)
(* than that can be added: the count never exceeds the schedulers.          *)
CountsOK(t) ==
  LET r == run[t]
  IN  /\ r.polling = Cardinality(PollingOf(r))
      /\ r.activeCount + Cardinality(Awaited(t)) <= Len(Schedulers)
      /\ pc[t] \in RunLabels => r.activeCount = Len(r.active) + Cardinality(CalledOf(r))

PlaceOK(t) ==
  LET r == run[t]
  IN  /\ pc[t] \notin InLoop => r = NoRun
      /\ pc[t] \in StopLabels => r.stop
      /\ pc[t] = "each" => r.at \in 1 .. Len(r.active) + 1
      /\ pc[t] \in {"run", "ran"} => r.at \in 1 .. Len(r.active)
      /\ pc[t] \in {"rest", "restWait"} => r.active = <<>>
      /\ pc[t] \in {"unlink", "removeWait"} => r.idle # <<>>
      /\ t \in dozing => \/ pc[t] = "removeWait"
                         \/ pc[t] = "restWait" /\ r.activeCount = 0 /\ ~r.stop

AffinityOK(t) ==
  IF pc[t] \notin InLoop \/ run[t].oldAffinity = {} THEN affinity[t] = Home[t]
  ELSE run[t].oldAffinity = Home[t]

ThreadOK(t) == WaitersOK(t) /\ ListsOK(t) /\ CountsOK(t) /\ PlaceOK(t) /\ AffinityOK(t)

RunInv ==
  /\ EventTypes /\ LoadTypes /\ RunTypes
  /\ \A t \in Threads : ThreadOK(t)

-----------------------------------------------------------------------------
(* What steps have in common. *)

LEMMA AllSchedulers ==
  /\ IsFiniteSet(Scheds) /\ Cardinality(Scheds) = Len(Schedulers) /\ Len(Schedulers) \in Nat
  /\ \A m : /\ Enabled(m) \in Seq(Scheds) /\ IsInjective(Enabled(m))
            /\ Len(Enabled(m)) \in Nat /\ Len(Enabled(m)) <= Len(Schedulers)
<1>1. IsFiniteSet(Scheds) /\ Cardinality(Scheds) = Len(Schedulers) /\ Len(Schedulers) \in Nat
  BY MetaSchedulerAssumption, RangeCount DEF Scheds
<1>2. ASSUME NEW m
      PROVE  /\ Enabled(m) \in Seq(Scheds) /\ IsInjective(Enabled(m))
             /\ Len(Enabled(m)) \in Nat /\ Len(Enabled(m)) <= Len(Schedulers)
  <2>1. Enabled(m) \in Seq(Scheds) /\ IsInjective(Enabled(m))
    BY MetaSchedulerAssumption, SelectionOf DEF Enabled
  <2>2. /\ Range(Enabled(m)) \subseteq Scheds /\ Cardinality(Range(Enabled(m))) = Len(Enabled(m))
        /\ Len(Enabled(m)) \in Nat
    BY <2>1, RangeCount
  <2>3. Cardinality(Range(Enabled(m))) <= Cardinality(Scheds)
    BY <1>1, <2>2, FS_Subset
  <2> QED
    BY <1>1, <2>1, <2>2, <2>3
<1> QED
  BY <1>1, <1>2

\* A set of schedulers is finite, and one more or less counts one.
LEMMA SomeSchedulers ==
  ASSUME NEW A \in SUBSET Scheds
  PROVE  /\ IsFiniteSet(A) /\ Cardinality(A) \in Nat
         /\ \A s \in Scheds : /\ s \notin A => Cardinality(A \cup {s}) = Cardinality(A) + 1
                              /\ s \in A => Cardinality(A \ {s}) = Cardinality(A) - 1
                              /\ s \in A => Cardinality(A) > 0
<1>1. IsFiniteSet(A)
  BY AllSchedulers, FS_Subset
<1>2. Cardinality(A) \in Nat
  BY <1>1, FS_CardinalityType
<1>3. ASSUME NEW s \in Scheds
      PROVE  /\ s \notin A => Cardinality(A \cup {s}) = Cardinality(A) + 1
             /\ s \in A => Cardinality(A \ {s}) = Cardinality(A) - 1
             /\ s \in A => Cardinality(A) > 0
  <2>1. s \in A => Cardinality(A) # 0
    BY <1>1, FS_EmptySet
  <2>2. Cardinality(A \cup {s}) = IF s \in A THEN Cardinality(A) ELSE Cardinality(A) + 1
    BY <1>1, FS_AddElement
  <2>3. Cardinality(A \ {s}) = IF s \in A THEN Cardinality(A) - 1 ELSE Cardinality(A)
    BY <1>1, FS_RemoveElement
  <2> QED
    BY <1>2, <2>1, <2>2, <2>3
<1> QED
  BY <1>1, <1>2, <1>3

LEMMA RunFields ==
  ASSUME NEW r \in RunRecords
  PROVE  /\ r.stop \in BOOLEAN /\ r.activeCount \in Nat /\ r.polling \in Nat /\ r.at \in Nat
         /\ r.active \in Seq(Scheds) /\ r.idle \in Seq(Scheds) /\ r.state \in States
         /\ r.lastState \in [Scheds -> States] /\ r.oldAffinity \in Affinities
         /\ Range(r.active) \subseteq Scheds /\ Range(r.idle) \subseteq Scheds
         /\ CalledOf(r) \in SUBSET Scheds /\ PollingOf(r) \in SUBSET Scheds
         /\ Len(r.active) \in Nat
<1>1. /\ r.stop \in BOOLEAN /\ r.activeCount \in Nat /\ r.polling \in Nat /\ r.at \in Nat
      /\ r.active \in Seq(Scheds) /\ r.idle \in Seq(Scheds) /\ r.state \in States
      /\ r.lastState \in [Scheds -> States] /\ r.oldAffinity \in Affinities
  BY DEF RunRecords
<1>2. Range(r.active) \subseteq Scheds /\ Range(r.idle) \subseteq Scheds
  BY <1>1 DEF Range
<1> QED
  BY <1>1, <1>2 DEF CalledOf, PollingOf

LEMMA NoRunOK ==
  /\ NoRun \in RunRecords /\ Range(NoRun.active) = {} /\ Range(NoRun.idle) = {}
  /\ IsInjective(NoRun.active) /\ IsInjective(NoRun.idle)
  /\ Cardinality(PollingOf(NoRun)) = 0 /\ Cardinality(CalledOf(NoRun)) = 0
<1>1. /\ NoRun.active = <<>> /\ NoRun.idle = <<>> /\ NoRun \in RunRecords
  BY DEF NoRun, RunRecords, States, Affinities
<1>2. Range(<<>>) = {} /\ IsInjective(<<>>)
  BY DEF Range, IsInjective
<1>3. PollingOf(NoRun) = {} /\ CalledOf(NoRun) = {}
  BY <1>1, <1>2 DEF PollingOf, CalledOf
<1> QED
  BY <1>1, <1>2, <1>3, FS_EmptySet

\* A thread that a step does not touch.
LEMMA ThreadAlone ==
  ASSUME NEW t \in Threads, ThreadOK(t),
         pc'[t] = pc[t], held'[t] = held[t], run'[t] = run[t], affinity'[t] = affinity[t],
         onDone'[t] = onDone[t], waiterDone'[t] = waiterDone[t], t \in done' <=> t \in done,
         t \in dozing' => t \in dozing,
         <<"interrupt", t>> \in calling' <=> <<"interrupt", t>> \in calling,
         <<"until", t>> \in calling' <=> <<"until", t>> \in calling,
         Awaited(t)' = Awaited(t), Waits(t)' \cap Comes(t)' = {}
  PROVE  ThreadOK(t)'
<1>1. WaitersOK(t)'
  BY DEF ThreadOK, WaitersOK
<1>2. ListsOK(t)'
  BY DEF ThreadOK, ListsOK
<1>3. CountsOK(t)'
  BY DEF ThreadOK, CountsOK
<1>4. PlaceOK(t)'
  BY DEF ThreadOK, PlaceOK
<1>5. AffinityOK(t)'
  BY DEF ThreadOK, AffinityOK
<1> QED
  BY <1>1, <1>2, <1>3, <1>4, <1>5 DEF ThreadOK

\* A step of one thread that leaves the events alone.
LEMMA OthersAlone ==
  ASSUME RunInv, NEW t \in Threads, UNCHANGED <<done, onDone, onWork, calling, waiterDone>>,
         \A u \in Threads \ {t} :
           /\ pc'[u] = pc[u] /\ held'[u] = held[u] /\ run'[u] = run[u]
           /\ affinity'[u] = affinity[u] /\ (u \in dozing' => u \in dozing)
  PROVE  \A u \in Threads \ {t} : ThreadOK(u)'
<1> SUFFICES ASSUME NEW u \in Threads \ {t}
             PROVE  ThreadOK(u)'
  OBVIOUS
<1>1. Waits(u)' = Waits(u) /\ Comes(u)' = Comes(u)
  BY DEF Waits, Comes
<1>2. ThreadOK(u) /\ Waits(u) \cap Comes(u) = {}
  BY DEF RunInv, ThreadOK, ListsOK
<1>3. Awaited(u)' = Awaited(u) /\ Waits(u)' \cap Comes(u)' = {}
  BY <1>1, <1>2 DEF Awaited
<1> QED
  BY <1>2, <1>3, ThreadAlone

\* The lists and the counts stay when the thread stays in its loop or leaves it.
LEMMA ListsAlone ==
  ASSUME NEW t \in Threads, ThreadOK(t),
         run'[t].active = run[t].active, run'[t].idle = run[t].idle,
         run'[t].lastState = run[t].lastState, run'[t].polling = run[t].polling,
         run'[t].activeCount = run[t].activeCount,
         Waits(t)' = Waits(t), Comes(t)' = Comes(t),
         pc'[t] \in RunLabels => pc[t] \in RunLabels /\ held'[t] = held[t]
  PROVE  ListsOK(t)' /\ CountsOK(t)'
<1>1. ListsOK(t)'
  BY DEF ThreadOK, ListsOK, Awaited
<1>2. CountsOK(t)'
  BY DEF ThreadOK, CountsOK, Awaited, PollingOf, CalledOf
<1> QED
  BY <1>1, <1>2

\* The callback of a has-work condition is told from the others by its length.
LEMMA Tuples == \A a, b, c, d, e : <<a, b>> # <<c, d, e>>
<1> SUFFICES ASSUME NEW a, NEW b, NEW c, NEW d, NEW e, <<a, b>> = <<c, d, e>>
             PROVE  FALSE
  OBVIOUS
<1>1. Len(<<a, b>>) = 2 /\ Len(<<c, d, e>>) = 3
  OBVIOUS
<1> QED
  BY <1>1

\* A step that only takes the lock, wakes a thread, or posts nothing.
LEMMA AllAlone ==
  ASSUME RunInv, UNCHANGED <<done, onDone, onWork, calling, waiterDone, pc, held, run, affinity>>,
         dozing' \subseteq dozing
  PROVE  \A t \in Threads : ThreadOK(t)'
<1> SUFFICES ASSUME NEW t \in Threads
             PROVE  ThreadOK(t)'
  OBVIOUS
<1>1. Waits(t)' = Waits(t) /\ Comes(t)' = Comes(t)
  BY DEF Waits, Comes
<1>2. ThreadOK(t) /\ Waits(t) \cap Comes(t) = {}
  BY DEF RunInv, ThreadOK, ListsOK
<1>3. Awaited(t)' = Awaited(t) /\ Waits(t)' \cap Comes(t)' = {}
  BY <1>1, <1>2 DEF Awaited
<1> QED
  BY <1>2, <1>3, ThreadAlone

-----------------------------------------------------------------------------
(* The events and their callbacks. *)

LEMMA SetDoneRun ==
  ASSUME RunInv, SharedTypes, NEW t \in Threads, SetDone(t), UNCHANGED mRefCount
  PROVE  RunInv'
<1>1. /\ t \notin done /\ done' = done \cup {t}
      /\ calling' = calling \cup {<<kind, t>> : kind \in onDone[t]}
      /\ onDone' = [onDone EXCEPT ![t] = {}]
      /\ UNCHANGED <<hasWork, onWork, work, unposted, pc, held, interrupted, waiterDone, run,
                     dozing, affinity, mRefCount>>
  BY DEF SetDone, loads, acquire
<1>2. /\ EventTypes /\ LoadTypes /\ RunTypes
      /\ \A u \in Threads : ThreadOK(u)
  BY DEF RunInv
<1>3. LoadTypes' /\ RunTypes'
  BY <1>1, <1>2 DEF LoadTypes, RunTypes
<1>4. /\ onDone'[t] = {} /\ \A u \in Threads \ {t} : onDone'[u] = onDone[u]
      /\ onDone[t] \subseteq {"interrupt", "until"}
  BY <1>1, <1>2 DEF EventTypes
<1>5. EventTypes'
  <2>1. calling' \subseteq ({"interrupt", "until"} \X Threads) \cup ({"hasWork"} \X Threads \X Scheds)
    BY <1>1, <1>2, <1>4 DEF EventTypes
  <2>2. onDone' \in [Threads -> SUBSET {"interrupt", "until"}]
    BY <1>1, <1>2 DEF EventTypes
  <2> QED
    BY <1>1, <1>2, <2>1, <2>2 DEF EventTypes
<1>6. ASSUME NEW u \in Threads
      PROVE  /\ Waits(u)' = Waits(u) /\ Comes(u)' = Comes(u) /\ Waits(u) \cap Comes(u) = {}
             /\ Awaited(u)' = Awaited(u)
  <2>1. \A s : <<"hasWork", u, s>> \in calling' <=> <<"hasWork", u, s>> \in calling
    BY <1>1, Tuples
  <2>2. Waits(u)' = Waits(u) /\ Comes(u)' = Comes(u)
    BY <1>1, <2>1 DEF Waits, Comes
  <2> QED
    BY <1>2, <2>2 DEF ThreadOK, ListsOK, Awaited
<1>7. ASSUME NEW u \in Threads, u # t
      PROVE  ThreadOK(u)'
  <2>1. \A kind : <<kind, u>> \in calling' <=> <<kind, u>> \in calling
    BY <1>1, <1>7
  <2>2. u \in done' <=> u \in done
    BY <1>1, <1>7
  <2>3. onDone'[u] = onDone[u]
    BY <1>4, <1>7
  <2>4. Awaited(u)' = Awaited(u) /\ Waits(u)' \cap Comes(u)' = {}
    BY <1>6
  <2> QED
    BY <1>1, <1>2, <2>1, <2>2, <2>3, <2>4, ThreadAlone
<1>8. ThreadOK(t)'
  <2>1. ThreadOK(t)
    BY <1>2
  <2>2. WaitersOK(t)'
    <3>1. \A kind \in {"interrupt", "until"} :
            <<kind, t>> \in calling' => kind \in onDone[t]
      BY <1>1, <2>1 DEF ThreadOK, WaitersOK
    <3>2. t \in done' /\ ~waiterDone[t]
      BY <1>1, <2>1 DEF ThreadOK, WaitersOK
    <3> QED
      BY <1>1, <1>4, <2>1, <3>1, <3>2 DEF ThreadOK, WaitersOK
  <2>3. ListsOK(t)' /\ CountsOK(t)'
    BY <1>1, <1>6, <2>1, ListsAlone
  <2>4. PlaceOK(t)' /\ AffinityOK(t)'
    BY <1>1, <2>1 DEF ThreadOK, PlaceOK, AffinityOK
  <2> QED
    BY <2>2, <2>3, <2>4 DEF ThreadOK
<1> QED
  BY <1>3, <1>5, <1>7, <1>8 DEF RunInv

LEMMA PostWorkRun ==
  ASSUME RunInv, SharedTypes, NEW s \in Scheds, PostWork(s), UNCHANGED mRefCount
  PROVE  RunInv'
<1>1. /\ unposted[s] > 0 /\ unposted' = [unposted EXCEPT ![s] = @ - 1]
      /\ work' = [work EXCEPT ![s] = @ + 1]
      /\ UNCHANGED <<done, onDone, pc, held, interrupted, waiterDone, run, dozing, affinity,
                     mRefCount>>
  BY DEF PostWork, acquire
<1>2. /\ EventTypes /\ LoadTypes /\ RunTypes
      /\ \A u \in Threads : ThreadOK(u)
  BY DEF RunInv
<1>3. LoadTypes' /\ RunTypes'
  BY <1>1, <1>2 DEF LoadTypes, RunTypes
<1>4. CASE UNCHANGED <<hasWork, onWork, calling>>
  <2>1. EventTypes'
    BY <1>1, <1>2, <1>4 DEF EventTypes
  <2>2. \A u \in Threads : ThreadOK(u)'
    BY <1>1, <1>4, AllAlone
  <2> QED
    BY <1>3, <2>1, <2>2 DEF RunInv
<1>5. CASE /\ hasWork' = hasWork \cup {s}
           /\ calling' = calling \cup {<<"hasWork", t, s>> : t \in onWork[s]}
           /\ onWork' = [onWork EXCEPT ![s] = {}]
  <2>1. EventTypes'
    <3>1. onWork[s] \subseteq Threads
      BY <1>2 DEF EventTypes
    <3>2. calling' \subseteq ({"interrupt", "until"} \X Threads) \cup ({"hasWork"} \X Threads \X Scheds)
      BY <1>2, <1>5, <3>1 DEF EventTypes
    <3> QED
      BY <1>1, <1>2, <1>5, <3>2 DEF EventTypes
  <2>2. ASSUME NEW u \in Threads
        PROVE  ThreadOK(u)'
    <3>1. \A kind : <<kind, u>> \in calling' <=> <<kind, u>> \in calling
      BY <1>5, Tuples
    <3>2. /\ \A r \in Scheds : u \in onWork'[r] <=> u \in onWork[r] /\ r # s
          /\ \A r \in Scheds : <<"hasWork", u, r>> \in calling'
               <=> <<"hasWork", u, r>> \in calling \/ (r = s /\ u \in onWork[s])
      BY <1>2, <1>5 DEF EventTypes
    <3>3. Waits(u) \cap Comes(u) = {}
      BY <1>2 DEF ThreadOK, ListsOK
    <3>4. Awaited(u)' = Awaited(u) /\ Waits(u)' \cap Comes(u)' = {}
      BY <3>2, <3>3 DEF Awaited, Waits, Comes
    <3> QED
      BY <1>1, <1>2, <3>1, <3>4, ThreadAlone
  <2> QED
    BY <1>3, <2>1, <2>2 DEF RunInv
<1> QED
  BY <1>4, <1>5 DEF PostWork

LEMMA InterruptRun ==
  ASSUME RunInv, SharedTypes, NEW t \in Threads, InterruptCallback(t), UNCHANGED mRefCount
  PROVE  RunInv'
<1>1. /\ <<"interrupt", t>> \in calling /\ calling' = calling \ {<<"interrupt", t>>}
      /\ interrupted' = [interrupted EXCEPT ![t] = TRUE]
      /\ waiterDone' = [waiterDone EXCEPT ![t] = TRUE]
      /\ UNCHANGED <<done, onDone, hasWork, onWork, work, unposted, pc, held, run, dozing,
                     affinity, mRefCount>>
  BY DEF InterruptCallback, loads
<1>2. /\ EventTypes /\ LoadTypes /\ RunTypes
      /\ \A u \in Threads : ThreadOK(u)
  BY DEF RunInv
<1>3. LoadTypes' /\ RunTypes' /\ EventTypes'
  BY <1>1, <1>2 DEF LoadTypes, RunTypes, EventTypes
<1>4. waiterDone'[t] /\ \A u \in Threads \ {t} : waiterDone'[u] = waiterDone[u]
  BY <1>1, <1>2 DEF RunTypes
<1>5. ASSUME NEW u \in Threads
      PROVE  /\ Waits(u)' = Waits(u) /\ Comes(u)' = Comes(u) /\ Waits(u) \cap Comes(u) = {}
             /\ Awaited(u)' = Awaited(u)
  <2>1. \A s : <<"hasWork", u, s>> \in calling' <=> <<"hasWork", u, s>> \in calling
    BY <1>1, Tuples
  <2>2. Waits(u)' = Waits(u) /\ Comes(u)' = Comes(u)
    BY <1>1, <2>1 DEF Waits, Comes
  <2> QED
    BY <1>2, <2>2 DEF ThreadOK, ListsOK, Awaited
<1>6. ASSUME NEW u \in Threads, u # t
      PROVE  ThreadOK(u)'
  <2>1. \A kind : <<kind, u>> \in calling' <=> <<kind, u>> \in calling
    BY <1>1, <1>6
  <2>2. waiterDone'[u] = waiterDone[u]
    BY <1>4, <1>6
  <2>3. Awaited(u)' = Awaited(u) /\ Waits(u)' \cap Comes(u)' = {}
    BY <1>5
  <2> QED
    BY <1>1, <1>2, <2>1, <2>2, <2>3, ThreadAlone
<1>7. ThreadOK(t)'
  <2>1. ThreadOK(t)
    BY <1>2
  <2>2. WaitersOK(t)'
    <3>1. t \in done /\ onDone[t] = {}
      BY <1>1, <2>1 DEF ThreadOK, WaitersOK
    <3>2. <<"interrupt", t>> \notin calling' /\ (<<"until", t>> \in calling' => <<"until", t>> \in calling)
      BY <1>1
    <3> QED
      BY <1>1, <1>4, <2>1, <3>1, <3>2 DEF ThreadOK, WaitersOK
  <2>3. ListsOK(t)' /\ CountsOK(t)'
    BY <1>1, <1>5, <2>1, ListsAlone
  <2>4. PlaceOK(t)' /\ AffinityOK(t)'
    BY <1>1, <2>1 DEF ThreadOK, PlaceOK, AffinityOK
  <2> QED
    BY <2>2, <2>3, <2>4 DEF ThreadOK
<1> QED
  BY <1>3, <1>6, <1>7 DEF RunInv

LEMMA UntilRun ==
  ASSUME RunInv, SharedTypes, NEW t \in Threads, UntilCallback(t), UNCHANGED mRefCount
  PROVE  RunInv'
<1>1. /\ <<"until", t>> \in calling /\ calling' = calling \ {<<"until", t>>}
      /\ run' = [run EXCEPT ![t].stop = TRUE]
      /\ dozing' = IF run[t].activeCount = 0 THEN dozing \ {t} ELSE dozing
      /\ UNCHANGED <<done, onDone, hasWork, onWork, work, unposted, pc, held, interrupted,
                     waiterDone, affinity, mRefCount>>
  BY DEF UntilCallback, Wake, loads, acquire
<1>2. /\ EventTypes /\ LoadTypes /\ RunTypes
      /\ \A u \in Threads : ThreadOK(u)
  BY DEF RunInv
<1>3. /\ run' \in [Threads -> RunRecords] /\ run'[t] = [run[t] EXCEPT !.stop = TRUE]
      /\ \A u \in Threads \ {t} : run'[u] = run[u]
  BY <1>1, <1>2 DEF RunTypes, RunRecords
<1>4. LoadTypes' /\ RunTypes' /\ EventTypes'
  BY <1>1, <1>2, <1>3 DEF LoadTypes, RunTypes, EventTypes
<1>5. /\ run'[t].stop /\ run'[t].active = run[t].active /\ run'[t].idle = run[t].idle
      /\ run'[t].lastState = run[t].lastState /\ run'[t].polling = run[t].polling
      /\ run'[t].activeCount = run[t].activeCount /\ run'[t].at = run[t].at
      /\ run'[t].oldAffinity = run[t].oldAffinity
  <2>1. run[t] \in RunRecords
    BY <1>2 DEF RunTypes
  <2> QED
    BY <1>3, <2>1 DEF RunRecords
<1>6. ASSUME NEW u \in Threads
      PROVE  /\ Waits(u)' = Waits(u) /\ Comes(u)' = Comes(u) /\ Waits(u) \cap Comes(u) = {}
             /\ Awaited(u)' = Awaited(u)
  <2>1. \A s : <<"hasWork", u, s>> \in calling' <=> <<"hasWork", u, s>> \in calling
    BY <1>1, Tuples
  <2>2. Waits(u)' = Waits(u) /\ Comes(u)' = Comes(u)
    BY <1>1, <2>1 DEF Waits, Comes
  <2> QED
    BY <1>2, <2>2 DEF ThreadOK, ListsOK, Awaited
<1>7. ASSUME NEW u \in Threads, u # t
      PROVE  ThreadOK(u)'
  <2>1. \A kind : <<kind, u>> \in calling' <=> <<kind, u>> \in calling
    BY <1>1, <1>7
  <2>2. run'[u] = run[u] /\ (u \in dozing' => u \in dozing)
    BY <1>1, <1>3, <1>7
  <2>3. Awaited(u)' = Awaited(u) /\ Waits(u)' \cap Comes(u)' = {}
    BY <1>6
  <2> QED
    BY <1>1, <1>2, <2>1, <2>2, <2>3, ThreadAlone
<1>8. ThreadOK(t)'
  <2>1. ThreadOK(t) /\ pc[t] \in InLoop
    BY <1>1, <1>2 DEF ThreadOK, WaitersOK
  <2>2. WaitersOK(t)'
    <3>1. t \in done /\ onDone[t] = {}
      BY <1>1, <2>1 DEF ThreadOK, WaitersOK
    <3>2. /\ <<"until", t>> \notin calling'
          /\ (<<"interrupt", t>> \in calling' => <<"interrupt", t>> \in calling)
      BY <1>1
    <3> QED
      BY <1>1, <2>1, <3>1, <3>2 DEF ThreadOK, WaitersOK
  <2>3. ListsOK(t)' /\ CountsOK(t)'
    BY <1>1, <1>5, <1>6, <2>1, ListsAlone
  <2>4. PlaceOK(t)'
    BY <1>1, <1>5, <2>1 DEF ThreadOK, PlaceOK
  <2>5. AffinityOK(t)'
    BY <1>1, <1>5, <2>1 DEF ThreadOK, AffinityOK
  <2> QED
    BY <2>2, <2>3, <2>4, <2>5 DEF ThreadOK
<1> QED
  BY <1>4, <1>7, <1>8 DEF RunInv

(* The callback of a has-work condition counts its scheduler before the     *)
(* thread has moved it.                                                     *)
LEMMA HasWorkRun ==
  ASSUME RunInv, SharedTypes, NEW t \in Threads, NEW s \in Scheds, HasWorkCallback(t, s),
         UNCHANGED mRefCount
  PROVE  RunInv'
<1> DEFINE r == run[t]
           q == [r EXCEPT !.activeCount = @ + 1, !.lastState[s] = "Working"]
<1>1. /\ <<"hasWork", t, s>> \in calling /\ calling' = calling \ {<<"hasWork", t, s>>}
      /\ run' = [run EXCEPT ![t].activeCount = @ + 1, ![t].lastState[s] = "Working"]
      /\ dozing' = IF run[t].activeCount = 0 THEN dozing \ {t} ELSE dozing
      /\ UNCHANGED <<done, onDone, hasWork, onWork, work, unposted, pc, held, interrupted,
                     waiterDone, affinity, mRefCount>>
  BY DEF HasWorkCallback, Wake, loads, acquire
<1>2. /\ EventTypes /\ LoadTypes /\ RunTypes
      /\ \A u \in Threads : ThreadOK(u)
  BY DEF RunInv
<1>3. r \in RunRecords
  BY <1>2 DEF RunTypes
<1>4. /\ q.stop = r.stop /\ q.active = r.active /\ q.idle = r.idle /\ q.polling = r.polling
      /\ q.activeCount = r.activeCount + 1 /\ q.at = r.at /\ q.oldAffinity = r.oldAffinity
      /\ q.lastState = [r.lastState EXCEPT ![s] = "Working"] /\ q \in RunRecords
  <2>1. /\ q.stop = r.stop /\ q.active = r.active /\ q.idle = r.idle /\ q.polling = r.polling
        /\ q.activeCount = r.activeCount + 1 /\ q.at = r.at /\ q.oldAffinity = r.oldAffinity
        /\ q.lastState = [r.lastState EXCEPT ![s] = "Working"] /\ q.state = r.state
    BY <1>3 DEF RunRecords
  <2>2. [r.lastState EXCEPT ![s] = "Working"] \in [Scheds -> States] /\ r.activeCount + 1 \in Nat
    BY <1>3, RunFields DEF States
  <2>3. q = [[r EXCEPT !.activeCount = r.activeCount + 1]
               EXCEPT !.lastState = [r.lastState EXCEPT ![s] = "Working"]]
    BY <1>3 DEF RunRecords
  <2>4. q \in RunRecords
    BY <1>3, <2>2, <2>3 DEF RunRecords
  <2> QED
    BY <2>1, <2>4
<1>5. /\ run' \in [Threads -> RunRecords] /\ run'[t] = q
      /\ \A u \in Threads \ {t} : run'[u] = run[u]
  BY <1>1, <1>2, <1>3, <1>4 DEF RunTypes
<1>6. LoadTypes' /\ RunTypes' /\ EventTypes'
  BY <1>1, <1>2, <1>5 DEF LoadTypes, RunTypes, EventTypes
<1>7. \A u \in Threads : \A kind : <<kind, u>> \in calling' <=> <<kind, u>> \in calling
  BY <1>1, Tuples
<1>8. ASSUME NEW u \in Threads, u # t
      PROVE  ThreadOK(u)'
  <2>1. \A v : <<"hasWork", u, v>> \in calling' <=> <<"hasWork", u, v>> \in calling
    BY <1>1, <1>8
  <2>2. run'[u] = run[u] /\ (u \in dozing' => u \in dozing)
    BY <1>1, <1>5, <1>8
  <2>3. Waits(u) \cap Comes(u) = {}
    BY <1>2 DEF ThreadOK, ListsOK
  <2>4. Awaited(u)' = Awaited(u) /\ Waits(u)' \cap Comes(u)' = {}
    BY <1>1, <2>1, <2>3 DEF Awaited, Waits, Comes
  <2> QED
    BY <1>1, <1>2, <1>7, <2>2, <2>4, ThreadAlone
<1> HIDE DEF q
<1>9. ThreadOK(t)'
  <2>1. ThreadOK(t)
    BY <1>2
  <2>2. /\ s \in Awaited(t) /\ s \in Range(r.idle) /\ r.lastState[s] = "Idle"
        /\ s \notin Range(r.active) /\ s \notin Waits(t)
    BY <1>1, <2>1 DEF ThreadOK, ListsOK, Awaited, Comes
  <2>3. pc[t] \in InLoop
    BY <2>1, <2>2, NoRunOK DEF ThreadOK, PlaceOK
  <2>4. Waits(t)' = Waits(t) /\ Comes(t)' = Comes(t) \ {s} /\ Awaited(t)' = Awaited(t) \ {s}
    <3>1. Waits(t)' = Waits(t) /\ Comes(t)' = Comes(t) \ {s}
      BY <1>1 DEF Waits, Comes
    <3> QED
      BY <2>2, <3>1 DEF Awaited
  <2>5. q.lastState[s] = "Working" /\ \A v \in Scheds \ {s} : q.lastState[v] = r.lastState[v]
    BY <1>3, <1>4 DEF RunRecords
  <2>6. Range(r.active) \subseteq Scheds /\ Range(r.idle) \subseteq Scheds
    BY <1>3, RunFields
  <2>7. WaitersOK(t)'
    BY <1>1, <1>4, <1>5, <1>7, <2>1 DEF ThreadOK, WaitersOK
  <2>8. ListsOK(t)'
    <3>1. \A v \in Range(r.active) : q.lastState[v] # "Idle"
      BY <2>1, <2>5, <2>6 DEF ThreadOK, ListsOK
    <3>2. \A v \in Range(r.idle) : q.lastState[v] # "Polling"
      BY <2>1, <2>5, <2>6 DEF ThreadOK, ListsOK
    <3>3. \A v \in Scheds : v \in Awaited(t)' <=> v \in Range(r.idle) /\ q.lastState[v] = "Idle"
      BY <2>1, <2>4, <2>5 DEF ThreadOK, ListsOK
    <3>4. Waits(t)' \cap Comes(t)' = {}
      BY <2>1, <2>4 DEF ThreadOK, ListsOK
    <3> QED
      BY <1>1, <1>4, <1>5, <2>1, <3>1, <3>2, <3>3, <3>4 DEF ThreadOK, ListsOK
  <2>9. CountsOK(t)'
    <3>1. PollingOf(q) = PollingOf(r)
      BY <1>4, <2>2, <2>5, <2>6 DEF PollingOf
    <3>2. CalledOf(q) = CalledOf(r) \cup {s} /\ s \notin CalledOf(r)
      BY <1>4, <2>2, <2>5, <2>6 DEF CalledOf
    <3>3. /\ Cardinality(CalledOf(q)) = Cardinality(CalledOf(r)) + 1
          /\ Cardinality(CalledOf(r)) \in Nat
      BY <1>3, <3>2, RunFields, SomeSchedulers
    <3>4. /\ Cardinality(Awaited(t)') = Cardinality(Awaited(t)) - 1
          /\ Cardinality(Awaited(t)) \in Nat
      <4>1. Awaited(t) \in SUBSET Scheds
        BY DEF Awaited, Waits, Comes
      <4> QED
        BY <2>2, <2>4, <4>1, SomeSchedulers
    <3>5. q.activeCount = r.activeCount + 1 /\ r.activeCount \in Nat /\ Len(r.active) \in Nat
      BY <1>3, <1>4, RunFields
    <3>6. r.activeCount + Cardinality(Awaited(t)) <= Len(Schedulers)
      BY <2>1 DEF ThreadOK, CountsOK
    <3>7. q.activeCount + Cardinality(Awaited(t)') <= Len(Schedulers)
      BY <3>4, <3>5, <3>6, AllSchedulers
    <3>8. pc[t] \in RunLabels => q.activeCount = Len(q.active) + Cardinality(CalledOf(q))
      <4>1. pc[t] \in RunLabels => r.activeCount = Len(r.active) + Cardinality(CalledOf(r))
        BY <2>1 DEF ThreadOK, CountsOK
      <4>2. q.active = r.active
        BY <1>4
      <4> HIDE DEF r
      <4> QED
        BY <3>3, <3>5, <4>1, <4>2
    <3>9. q.polling = Cardinality(PollingOf(q))
      BY <1>4, <2>1, <3>1 DEF ThreadOK, CountsOK
    <3> QED
      BY <1>1, <1>5, <3>7, <3>8, <3>9 DEF CountsOK
  <2>10. PlaceOK(t)'
    BY <1>1, <1>4, <1>5, <2>1, <2>3 DEF ThreadOK, PlaceOK
  <2>11. AffinityOK(t)'
    BY <1>1, <1>4, <1>5, <2>1 DEF ThreadOK, AffinityOK
  <2> QED
    BY <2>7, <2>8, <2>9, <2>10, <2>11 DEF ThreadOK
<1> QED
  BY <1>6, <1>8, <1>9 DEF RunInv

-----------------------------------------------------------------------------
(* The steps outside of the loop. *)

LEMMA AcquireAddRun ==
  ASSUME RunInv, SharedTypes, NEW t \in Threads, AcquireAdd(t), UNCHANGED mRefCount
  PROVE  RunInv'
<1>1. /\ pc[t] = "client"
      /\ UNCHANGED <<done, hasWork, onWork, calling, work, unposted, held, interrupted,
                     waiterDone, run, dozing, affinity, mRefCount>>
      /\ \/ onDone' = onDone /\ pc' = [pc EXCEPT ![t] = "returned"]
         \/ /\ t \notin done /\ onDone' = [onDone EXCEPT ![t] = @ \cup {"interrupt"}]
            /\ pc' = [pc EXCEPT ![t] = "acquire"]
  BY DEF AcquireAdd, Goto, loads, acquire
<1>2. /\ EventTypes /\ LoadTypes /\ RunTypes
      /\ \A u \in Threads : ThreadOK(u)
  BY DEF RunInv
<1>3. LoadTypes' /\ RunTypes' /\ EventTypes'
  BY <1>1, <1>2 DEF LoadTypes, RunTypes, EventTypes
<1>4. ASSUME NEW u \in Threads
      PROVE  /\ Waits(u)' = Waits(u) /\ Comes(u)' = Comes(u) /\ Waits(u)' \cap Comes(u)' = {}
             /\ Awaited(u)' = Awaited(u)
  BY <1>1, <1>2 DEF ThreadOK, ListsOK, Waits, Comes, Awaited
<1>5. \A u \in Threads \ {t} : pc'[u] = pc[u] /\ onDone'[u] = onDone[u]
  BY <1>1, <1>2 DEF SharedTypes, EventTypes
<1>6. ASSUME NEW u \in Threads, u # t
      PROVE  ThreadOK(u)'
  BY <1>1, <1>2, <1>4, <1>5, <1>6, ThreadAlone
<1>7. ThreadOK(t)'
  <2>1. ThreadOK(t)
    BY <1>2
  <2>2. \/ pc'[t] = "returned" /\ onDone'[t] = onDone[t]
        \/ pc'[t] = "acquire" /\ onDone'[t] = onDone[t] \cup {"interrupt"} /\ t \notin done
    BY <1>1, <1>2 DEF SharedTypes, EventTypes
  <2>3. WaitersOK(t)'
    BY <1>1, <2>1, <2>2 DEF ThreadOK, WaitersOK, AcquireLabels, InLoop
  <2>4. ListsOK(t)' /\ CountsOK(t)'
    BY <1>1, <1>4, <2>1, <2>2, ListsAlone DEF RunLabels
  <2>5. PlaceOK(t)' /\ AffinityOK(t)'
    BY <1>1, <2>1, <2>2 DEF ThreadOK, PlaceOK, AffinityOK, InLoop, StopLabels
  <2> QED
    BY <2>3, <2>4, <2>5 DEF ThreadOK
<1> QED
  BY <1>3, <1>6, <1>7 DEF RunInv

LEMMA AcquireRemoveRun ==
  ASSUME RunInv, SharedTypes, NEW t \in Threads, AcquireRemove(t), UNCHANGED mRefCount
  PROVE  RunInv'
<1>1. /\ pc[t] = "acquireRemove" /\ ("interrupt" \in onDone[t] \/ waiterDone[t])
      /\ onDone' = [onDone EXCEPT ![t] = @ \ {"interrupt"}]
      /\ pc' = [pc EXCEPT ![t] = IF held[t] = Null THEN "returned" ELSE "begin"]
      /\ UNCHANGED <<done, hasWork, onWork, calling, work, unposted, held, interrupted,
                     waiterDone, run, dozing, affinity, mRefCount>>
  BY DEF AcquireRemove, Goto, loads, acquire
<1>2. /\ EventTypes /\ LoadTypes /\ RunTypes
      /\ \A u \in Threads : ThreadOK(u)
  BY DEF RunInv
<1>3. LoadTypes' /\ RunTypes' /\ EventTypes'
  BY <1>1, <1>2 DEF LoadTypes, RunTypes, EventTypes
<1>4. ASSUME NEW u \in Threads
      PROVE  /\ Waits(u)' = Waits(u) /\ Comes(u)' = Comes(u) /\ Waits(u)' \cap Comes(u)' = {}
             /\ Awaited(u)' = Awaited(u)
  BY <1>1, <1>2 DEF ThreadOK, ListsOK, Waits, Comes, Awaited
<1>5. /\ \A u \in Threads \ {t} : pc'[u] = pc[u] /\ onDone'[u] = onDone[u]
      /\ onDone'[t] = onDone[t] \ {"interrupt"} /\ pc'[t] \in {"returned", "begin"}
  BY <1>1, <1>2 DEF SharedTypes, EventTypes
<1>6. ASSUME NEW u \in Threads, u # t
      PROVE  ThreadOK(u)'
  BY <1>1, <1>2, <1>4, <1>5, <1>6, ThreadAlone
<1>7. ThreadOK(t)'
  <2>1. ThreadOK(t)
    BY <1>2
  <2>2. <<"interrupt", t>> \notin calling
    BY <1>1, <2>1 DEF ThreadOK, WaitersOK
  <2>3. WaitersOK(t)'
    BY <1>1, <1>5, <2>1, <2>2 DEF ThreadOK, WaitersOK, InLoop
  <2>4. ListsOK(t)' /\ CountsOK(t)'
    BY <1>1, <1>4, <1>5, <2>1, ListsAlone DEF RunLabels
  <2>5. PlaceOK(t)' /\ AffinityOK(t)'
    BY <1>1, <1>5, <2>1 DEF ThreadOK, PlaceOK, AffinityOK, InLoop, StopLabels
  <2> QED
    BY <2>3, <2>4, <2>5 DEF ThreadOK
<1> QED
  BY <1>3, <1>6, <1>7 DEF RunInv

\* A step outside of the loop that leaves the events and the run alone.
LEMMA OutsideRun ==
  ASSUME RunInv, SharedTypes, NEW t \in Threads,
         UNCHANGED <<done, onDone, hasWork, onWork, calling, work, unposted, interrupted,
                     waiterDone, run, dozing, affinity>>,
         mRefCount' \in [Threads -> 0 .. MaxRefs],
         \A u \in Threads \ {t} : pc'[u] = pc[u] /\ held'[u] = held[u],
         pc[t] \notin InLoop, pc'[t] \notin InLoop,
         pc[t] \in AcquireLabels => pc'[t] \in AcquireLabels
  PROVE  RunInv'
<1>1. /\ EventTypes /\ LoadTypes /\ RunTypes
      /\ \A u \in Threads : ThreadOK(u)
  BY DEF RunInv
<1>2. LoadTypes' /\ RunTypes' /\ EventTypes'
  BY <1>1 DEF LoadTypes, RunTypes, EventTypes
<1>3. \A u \in Threads \ {t} : ThreadOK(u)'
  BY OthersAlone
<1>4. ThreadOK(t)'
  <2>1. ThreadOK(t)
    BY <1>1
  <2>2. WaitersOK(t)'
    BY <2>1 DEF ThreadOK, WaitersOK
  <2>3. Waits(t)' = Waits(t) /\ Comes(t)' = Comes(t) /\ pc'[t] \notin RunLabels
    BY DEF Waits, Comes, RunLabels, InLoop
  <2>4. ListsOK(t)' /\ CountsOK(t)'
    BY <2>1, <2>3, ListsAlone
  <2>5. PlaceOK(t)' /\ AffinityOK(t)'
    <3>1. pc'[t] \notin StopLabels \cup RunLabels \cup {"unlink", "removeWait"}
      BY DEF StopLabels, RunLabels, InLoop
    <3>2. t \notin dozing
      BY <2>1 DEF ThreadOK, PlaceOK, InLoop
    <3> QED
      BY <2>1, <3>1, <3>2 DEF ThreadOK, PlaceOK, AffinityOK, RunLabels
  <2> QED
    BY <2>2, <2>4, <2>5 DEF ThreadOK
<1> QED
  BY <1>2, <1>3, <1>4 DEF RunInv

-----------------------------------------------------------------------------
(* The steps of the loop and of the stop path. *)

LEMMA InLoopRun ==
  ASSUME RunInv, SharedTypes, NEW t \in Threads, NEW q \in RunRecords,
         run' = [run EXCEPT ![t] = q],
         UNCHANGED <<done, onDone, calling, interrupted, waiterDone, held, affinity>>,
         LoadTypes', hasWork' \subseteq Scheds, onWork' \in [Scheds -> SUBSET Threads],
         dozing' \subseteq dozing \cup {t},
         \A u \in Threads \ {t} : \A s \in Scheds : u \in onWork'[s] <=> u \in onWork[s],
         NEW l \in InLoop, pc' = [pc EXCEPT ![t] = l], pc[t] \in InLoop,
         q.stop = run[t].stop, q.oldAffinity = run[t].oldAffinity,
         ListsOK(t)', CountsOK(t)', PlaceOK(t)'
  PROVE  RunInv'
<1>1. /\ EventTypes /\ LoadTypes /\ RunTypes
      /\ \A u \in Threads : ThreadOK(u)
  BY DEF RunInv
<1>2. /\ run'[t] = q /\ \A u \in Threads \ {t} : run'[u] = run[u]
      /\ run' \in [Threads -> RunRecords]
      /\ pc'[t] = l /\ \A u \in Threads \ {t} : pc'[u] = pc[u]
  BY <1>1 DEF RunTypes, SharedTypes
<1>3. EventTypes' /\ RunTypes'
  BY <1>1, <1>2 DEF EventTypes, RunTypes
<1>4. ASSUME NEW u \in Threads, u # t
      PROVE  ThreadOK(u)'
  <2>1. ThreadOK(u) /\ Waits(u) \cap Comes(u) = {}
    BY <1>1 DEF ThreadOK, ListsOK
  <2>2. Waits(u)' = Waits(u) /\ Comes(u)' = Comes(u)
    BY <1>4 DEF Waits, Comes
  <2>3. Awaited(u)' = Awaited(u) /\ Waits(u)' \cap Comes(u)' = {}
    BY <2>1, <2>2 DEF Awaited
  <2>4. pc'[u] = pc[u] /\ run'[u] = run[u] /\ (u \in dozing' => u \in dozing)
    BY <1>2, <1>4
  <2> QED
    BY <2>1, <2>3, <2>4, ThreadAlone
<1>5. ThreadOK(t)'
  <2>1. ThreadOK(t)
    BY <1>1
  <2>2. WaitersOK(t)'
    <3>1. pc[t] \notin AcquireLabels
      BY DEF AcquireLabels, InLoop
    <3> QED
      BY <1>2, <2>1, <3>1 DEF ThreadOK, WaitersOK
  <2>3. AffinityOK(t)'
    BY <1>2, <2>1 DEF ThreadOK, AffinityOK
  <2> QED
    BY <2>2, <2>3 DEF ThreadOK
<1> QED
  BY <1>3, <1>4, <1>5 DEF RunInv

\* A step of the loop that changes neither the lists nor the events.
LEMMA SameListsRun ==
  ASSUME RunInv, SharedTypes, NEW t \in Threads, NEW q \in RunRecords,
         run' = [run EXCEPT ![t] = q],
         UNCHANGED <<done, onDone, onWork, calling, interrupted, waiterDone, held, affinity>>,
         LoadTypes', hasWork' \subseteq Scheds, dozing' \subseteq dozing \cup {t},
         NEW l \in InLoop, pc' = [pc EXCEPT ![t] = l], pc[t] \in InLoop,
         l \in RunLabels => pc[t] \in RunLabels,
         q.stop = run[t].stop, q.oldAffinity = run[t].oldAffinity, q.active = run[t].active,
         q.idle = run[t].idle, q.lastState = run[t].lastState, q.polling = run[t].polling,
         q.activeCount = run[t].activeCount, PlaceOK(t)'
  PROVE  RunInv'
<1>1. ThreadOK(t) /\ run'[t] = q /\ pc'[t] = l /\ onWork \in [Scheds -> SUBSET Threads]
  BY DEF RunInv, EventTypes, RunTypes, SharedTypes
<1>2. Waits(t)' = Waits(t) /\ Comes(t)' = Comes(t)
  BY DEF Waits, Comes
<1>3. ListsOK(t)' /\ CountsOK(t)'
  BY <1>1, <1>2, ListsAlone
<1> QED
  BY <1>1, <1>3, InLoopRun

LEMMA BeginRun ==
  ASSUME RunInv, SharedInv, NEW t \in Threads, Begin(t), UNCHANGED mRefCount
  PROVE  RunInv'
<1> DEFINE m == held[t]
           q == [NoRun EXCEPT
                  !.active = Enabled(m), !.activeCount = Len(Enabled(m)),
                  !.oldAffinity = IF IsEmpty(AffinityOf[m]) THEN {}
                                  ELSE CreateAffinity(affinity[t])]
<1>1. /\ pc[t] = "begin"
      /\ UNCHANGED <<done, hasWork, onWork, calling, work, unposted, interrupted, waiterDone,
                     dozing, mRefCount>>
      /\ \/ /\ held' = [held EXCEPT ![t] = Null] /\ pc' = [pc EXCEPT ![t] = "returned"]
            /\ UNCHANGED <<onDone, run, affinity>>
         \/ /\ t \notin done /\ onDone' = [onDone EXCEPT ![t] = @ \cup {"until"}]
            /\ SetAffinity(t, AffinityOf[m]) /\ run' = [run EXCEPT ![t] = q]
            /\ pc' = [pc EXCEPT ![t] = "loop"] /\ held' = held
  BY DEF Begin, Goto, metas, loads, acquire
<1>2. /\ EventTypes /\ LoadTypes /\ RunTypes /\ SharedTypes
      /\ \A u \in Threads : ThreadOK(u)
  BY DEF RunInv, SharedInv
<1>3. CASE held' = [held EXCEPT ![t] = Null] /\ pc' = [pc EXCEPT ![t] = "returned"]
           /\ UNCHANGED <<onDone, run, affinity>>
  <2>1. /\ \A u \in Threads \ {t} : pc'[u] = pc[u] /\ held'[u] = held[u]
        /\ pc'[t] = "returned"
    BY <1>2, <1>3 DEF SharedTypes
  <2>2. pc[t] \notin InLoop /\ pc'[t] \notin InLoop /\ pc[t] \notin AcquireLabels
    BY <1>1, <2>1 DEF InLoop, AcquireLabels
  <2>3. mRefCount' \in [Threads -> 0 .. MaxRefs]
    BY <1>1, <1>2 DEF LoadTypes
  <2> QED
    BY <1>1, <1>2, <1>3, <2>1, <2>2, <2>3, OutsideRun
<1>4. CASE /\ t \notin done /\ onDone' = [onDone EXCEPT ![t] = @ \cup {"until"}]
           /\ SetAffinity(t, AffinityOf[m]) /\ run' = [run EXCEPT ![t] = q]
           /\ pc' = [pc EXCEPT ![t] = "loop"] /\ held' = held
  <2>1. ThreadOK(t) /\ run[t] = NoRun /\ affinity[t] = Home[t]
    BY <1>1, <1>2 DEF ThreadOK, PlaceOK, AffinityOK, InLoop
  <2>2. /\ Home[t] \in Affinities /\ Home[t] # {} /\ affinity \in [Threads -> Affinities]
        /\ m \in MetaThreads
    BY <1>1, <1>2, MetaSchedulerAssumption
    DEF InRange, IsEmpty, Affinities, RunTypes, SharedTypes, SharedInv, HeldOK
  <2>3. /\ affinity' \in [Threads -> Affinities] /\ \A u \in Threads \ {t} : affinity'[u] = affinity[u]
        /\ IF AffinityOf[m] = {} THEN affinity'[t] = Home[t]
           ELSE CreateAffinity(affinity[t]) = Home[t]
    <3>1. CASE AffinityOf[m] = {}
      BY <1>4, <2>1, <2>2, <3>1 DEF SetAffinity, IsEmpty
    <3>2. CASE AffinityOf[m] # {}
      <4>1. affinity' = [affinity EXCEPT ![t] = CreateCpuSet(AffinityOf[m])]
        BY <1>4, <3>2 DEF SetAffinity, IsEmpty
      <4>2. CreateAffinity(affinity[t]) = Home[t]
        BY <2>1, <2>2, CpuSet
      <4>3. CreateCpuSet(AffinityOf[m]) \in Affinities
        <5>1. AffinityOf[m] \in Affinities
          BY <2>2, MetaSchedulerAssumption DEF Affinities, InRange
        <5> QED
          BY <3>2, <5>1, CpuSet
      <4> QED
        BY <2>2, <3>2, <4>1, <4>2, <4>3
    <3> QED
      BY <3>1, <3>2
  <2>4. /\ q.stop = FALSE /\ q.activeCount = Len(Enabled(m)) /\ q.polling = 0
        /\ q.active = Enabled(m) /\ q.idle = <<>> /\ q.at = 1
        /\ q.lastState = [s \in Scheds |-> "Working"]
        /\ q.oldAffinity = IF AffinityOf[m] = {} THEN {} ELSE CreateAffinity(affinity[t])
    BY DEF NoRun, IsEmpty
  <2>5. q \in RunRecords
    <3>1. Enabled(m) \in Seq(Scheds) /\ Len(Enabled(m)) \in Nat
      BY AllSchedulers
    <3>2. (IF IsEmpty(AffinityOf[m]) THEN {} ELSE CreateAffinity(affinity[t])) \in Affinities
      BY <2>2, <2>3 DEF Affinities, IsEmpty
    <3> QED
      BY <3>1, <3>2, NoRunOK DEF RunRecords
  <2> HIDE DEF q
  <2>6. /\ run'[t] = q /\ \A u \in Threads \ {t} : run'[u] = run[u]
        /\ run' \in [Threads -> RunRecords]
        /\ pc'[t] = "loop" /\ \A u \in Threads \ {t} : pc'[u] = pc[u]
        /\ onDone'[t] = onDone[t] \cup {"until"}
        /\ \A u \in Threads \ {t} : onDone'[u] = onDone[u]
    BY <1>2, <1>4, <2>5 DEF RunTypes, SharedTypes, EventTypes
  <2>7. LoadTypes' /\ RunTypes' /\ EventTypes'
    BY <1>1, <1>2, <1>4, <2>3, <2>6 DEF LoadTypes, RunTypes, EventTypes
  <2>8. ASSUME NEW u \in Threads
        PROVE  /\ Waits(u)' = Waits(u) /\ Comes(u)' = Comes(u) /\ Waits(u)' \cap Comes(u)' = {}
               /\ Awaited(u)' = Awaited(u)
    BY <1>1, <1>2 DEF ThreadOK, ListsOK, Waits, Comes, Awaited
  <2>9. ASSUME NEW u \in Threads, u # t
        PROVE  ThreadOK(u)'
    BY <1>1, <1>2, <1>4, <2>3, <2>6, <2>8, <2>9, ThreadAlone
  <2>10. ThreadOK(t)'
    <3>1. Awaited(t) = {} /\ Awaited(t)' = {}
      <4>1. Awaited(t) \subseteq Range(NoRun.idle)
        BY <2>1 DEF ThreadOK, ListsOK, Awaited, Waits, Comes
      <4> QED
        BY <2>8, <4>1, NoRunOK
    <3>2. WaitersOK(t)'
      BY <1>1, <1>4, <2>1, <2>4, <2>6 DEF ThreadOK, WaitersOK, InLoop, AcquireLabels
    <3>3. Range(q.idle) = {} /\ IsInjective(q.idle)
      BY <2>4, NoRunOK DEF NoRun
    <3>4. Range(q.active) \subseteq Scheds
      BY <2>5, RunFields
    <3>5. ListsOK(t)'
      BY <1>4, <2>4, <2>6, <2>8, <3>1, <3>3, <3>4, AllSchedulers DEF ListsOK
    <3>6. CountsOK(t)'
      <4>1. PollingOf(q) = {} /\ CalledOf(q) = {}
        BY <2>4, <3>3, <3>4 DEF PollingOf, CalledOf
      <4>2. Cardinality({}) = 0
        BY FS_EmptySet
      <4> QED
        BY <2>4, <2>6, <3>1, <4>1, <4>2, AllSchedulers DEF CountsOK
    <3>7. PlaceOK(t)'
      BY <1>1, <2>1, <2>6 DEF ThreadOK, PlaceOK, InLoop, StopLabels
    <3>8. AffinityOK(t)'
      BY <2>2, <2>3, <2>4, <2>6 DEF AffinityOK, InLoop
    <3> QED
      BY <3>2, <3>5, <3>6, <3>7, <3>8 DEF ThreadOK
  <2> QED
    BY <2>7, <2>9, <2>10 DEF RunInv
<1> QED
  BY <1>1, <1>3, <1>4

\* A thread in the loop that stays where its lists are, with its run as it is.
LEMMA SameRunRun ==
  ASSUME RunInv, SharedTypes, NEW t \in Threads,
         UNCHANGED <<done, onDone, hasWork, onWork, calling, work, unposted, mRefCount,
                     interrupted, waiterDone, run, held, affinity>>,
         dozing' \subseteq dozing \cup {t},
         NEW l \in InLoop, pc' = [pc EXCEPT ![t] = l], pc[t] \in InLoop,
         l \in RunLabels => pc[t] \in RunLabels, PlaceOK(t)'
  PROVE  RunInv'
<1>1. run[t] \in RunRecords /\ run' = [run EXCEPT ![t] = run[t]]
  BY DEF RunInv, RunTypes
<1>2. LoadTypes' /\ hasWork' \subseteq Scheds
  BY DEF RunInv, LoadTypes, EventTypes
<1> QED
  BY <1>1, <1>2, SameListsRun

LEMMA LoopHeadRun ==
  ASSUME RunInv, SharedTypes, NEW t \in Threads, LoopHead(t), UNCHANGED mRefCount
  PROVE  RunInv'
<1> DEFINE r == run[t]
           ready == {s \in Scheds : r.lastState[s] # "Idle"}
           active == r.active \o Selection(r.idle, ready)
           idle == Selection(r.idle, Scheds \ ready)
           q == [r EXCEPT !.active = active, !.activeCount = Len(active), !.at = 1, !.idle = idle]
<1>1. /\ pc[t] = "loop"
      /\ UNCHANGED <<done, onDone, hasWork, onWork, calling, work, unposted, held, interrupted,
                     waiterDone, dozing, affinity, mRefCount>>
      /\ \/ r.stop /\ pc' = [pc EXCEPT ![t] = "stopped"] /\ run' = run
         \/ run' = [run EXCEPT ![t] = q] /\ pc' = [pc EXCEPT ![t] = "each"]
         \/ run' = [run EXCEPT ![t].at = 1] /\ pc' = [pc EXCEPT ![t] = "each"]
  BY DEF LoopHead, Goto, events, loads, acquire
<1>2. /\ EventTypes /\ LoadTypes /\ RunTypes /\ ThreadOK(t) /\ r \in RunRecords
  BY DEF RunInv, RunTypes
<1>3. /\ LoadTypes' /\ hasWork' \subseteq Scheds /\ onWork' \in [Scheds -> SUBSET Threads]
  BY <1>1, <1>2 DEF LoadTypes, EventTypes
<1>4. t \notin dozing /\ pc[t] \in InLoop /\ pc[t] \in RunLabels
  BY <1>1, <1>2 DEF ThreadOK, PlaceOK, InLoop, RunLabels
<1>5. \A l \in {"stopped", "each"} : pc' = [pc EXCEPT ![t] = l] => pc'[t] = l /\ l \in InLoop
  BY DEF SharedTypes, InLoop
<1>6. CASE r.stop /\ pc' = [pc EXCEPT ![t] = "stopped"] /\ run' = run
  <2>1. PlaceOK(t)'
    BY <1>1, <1>4, <1>5, <1>6 DEF PlaceOK, InLoop
  <2> QED
    BY <1>1, <1>4, <1>5, <1>6, <2>1, SameRunRun
<1>7. CASE run' = [run EXCEPT ![t].at = 1] /\ pc' = [pc EXCEPT ![t] = "each"]
  <2> DEFINE p == [r EXCEPT !.at = 1]
  <2>1. /\ p \in RunRecords /\ p.stop = r.stop /\ p.oldAffinity = r.oldAffinity
        /\ p.active = r.active /\ p.idle = r.idle /\ p.lastState = r.lastState
        /\ p.polling = r.polling /\ p.activeCount = r.activeCount /\ p.at = 1
    BY <1>2 DEF RunRecords
  <2>2. run' = [run EXCEPT ![t] = p] /\ run'[t] = p
    BY <1>2, <1>7 DEF RunTypes
  <2> HIDE DEF p
  <2>3. PlaceOK(t)'
    <3>1. Len(r.active) \in Nat
      BY <1>2, RunFields
    <3> QED
      BY <1>1, <1>4, <1>5, <1>7, <2>1, <2>2, <3>1 DEF PlaceOK, InLoop, StopLabels
  <2> QED
    BY <1>1, <1>3, <1>4, <1>5, <1>7, <2>1, <2>2, <2>3, SameListsRun
<1>8. CASE run' = [run EXCEPT ![t] = q] /\ pc' = [pc EXCEPT ![t] = "each"]
  <2> HIDE DEF ready
  <2>1. /\ \A s \in Scheds : s \in ready <=> r.lastState[s] # "Idle"
        /\ r.active \in Seq(Scheds) /\ r.idle \in Seq(Scheds)
        /\ Range(r.active) \subseteq Scheds /\ Range(r.idle) \subseteq Scheds
        /\ IsInjective(r.active) /\ IsInjective(r.idle) /\ Range(r.active) \cap Range(r.idle) = {}
    BY <1>2, RunFields DEF ready, ThreadOK, ListsOK
  <2>2. /\ Selection(r.idle, ready) \in Seq(Scheds) /\ IsInjective(Selection(r.idle, ready))
        /\ Range(Selection(r.idle, ready)) = Range(r.idle) \cap ready
    BY <2>1, SelectionOf
  <2>3. /\ idle \in Seq(Scheds) /\ IsInjective(idle)
        /\ Range(idle) = Range(r.idle) \cap (Scheds \ ready)
    BY <2>1, SelectionOf
  <2>4. CalledOf(r) = Range(r.idle) \cap ready
    BY <2>1 DEF CalledOf
  <2>5. /\ active \in Seq(Scheds) /\ IsInjective(active)
        /\ Range(active) = Range(r.active) \cup CalledOf(r)
        /\ Len(active) = Len(r.active) + Cardinality(CalledOf(r)) /\ Len(active) \in Nat
    <3>1. Range(r.active) \cap Range(Selection(r.idle, ready)) = {}
      BY <2>1, <2>2
    <3>2. Len(Selection(r.idle, ready)) = Cardinality(CalledOf(r))
      BY <2>2, <2>4, RangeCount
    <3> DEFINE u == r.active
               v == Selection(r.idle, ready)
    <3>3. /\ u \in Seq(Scheds) /\ v \in Seq(Scheds) /\ IsInjective(u) /\ IsInjective(v)
          /\ Range(u) \cap Range(v) = {}
      BY <2>1, <2>2, <3>1
    <3>4. Range(v) = CalledOf(r) /\ Len(v) = Cardinality(CalledOf(r)) /\ active = u \o v
      BY <2>2, <2>4, <3>2
    <3> HIDE DEF u, v, active
    <3>5. /\ u \o v \in Seq(Scheds) /\ IsInjective(u \o v)
          /\ Range(u \o v) = Range(u) \cup Range(v) /\ Len(u \o v) = Len(u) + Len(v)
      BY ONLY <3>3, ConcatOne
    <3>6. Len(active) \in Nat
      BY <3>4, <3>5
    <3> QED
      BY <3>4, <3>5, <3>6 DEF u
  <2>6. r.activeCount = Len(active)
    BY <1>2, <1>4, <2>5 DEF ThreadOK, CountsOK
  <2> HIDE DEF active, idle
  <2>7. /\ q \in RunRecords /\ q.stop = r.stop /\ q.oldAffinity = r.oldAffinity
        /\ q.active = active /\ q.idle = idle /\ q.lastState = r.lastState
        /\ q.polling = r.polling /\ q.activeCount = Len(active) /\ q.at = 1
    BY <1>2, <2>3, <2>5 DEF RunRecords
  <2>8. run'[t] = q
    BY <1>2, <1>8 DEF RunTypes
  <2> HIDE DEF q
  <2>9. /\ Waits(t)' = Waits(t) /\ Comes(t)' = Comes(t) /\ Awaited(t)' = Awaited(t)
        /\ held'[t] = held[t] /\ pc'[t] = "each"
    BY <1>1, <1>5, <1>8 DEF Waits, Comes, Awaited
  <2>10. \A s \in Scheds : s \in Range(idle) <=> s \in Range(r.idle) /\ r.lastState[s] = "Idle"
    BY <2>1, <2>3
  <2>11. \A s \in Scheds : s \in Range(active) <=>
           s \in Range(r.active) \/ (s \in Range(r.idle) /\ r.lastState[s] # "Idle")
    BY <2>1, <2>4, <2>5
  <2>12. Range(idle) \subseteq Scheds /\ Range(active) \subseteq Scheds
    BY <2>3, <2>5, RangeCount
  <2>13. ListsOK(t)'
    <3>1. Range(active) \cap Range(idle) = {}
      BY <2>1, <2>10, <2>11, <2>12
    <3>2. /\ \A s \in Range(active) : r.lastState[s] # "Idle"
          /\ \A s \in Range(idle) : r.lastState[s] # "Polling"
      BY <1>2, <2>10, <2>11, <2>12 DEF ThreadOK, ListsOK
    <3>3. \A s \in Scheds : s \in Awaited(t) <=> s \in Range(idle) /\ r.lastState[s] = "Idle"
      BY <1>2, <2>10 DEF ThreadOK, ListsOK
    <3>4. Range(active) \cup Range(idle) = Range(r.active) \cup Range(r.idle)
      BY <2>1, <2>10, <2>11, <2>12
    <3>5. /\ Waits(t) \cap Comes(t) = {}
          /\ Range(r.active) \cup Range(r.idle) = Range(Enabled(held[t]))
      BY <1>2, <1>4 DEF ThreadOK, ListsOK
    <3> QED
      BY <2>3, <2>5, <2>7, <2>8, <2>9, <3>1, <3>2, <3>3, <3>4, <3>5 DEF ListsOK
  <2>14. CountsOK(t)'
    <3>1. PollingOf(q) = PollingOf(r)
      <4>1. \A s \in Scheds : s \in Range(active) /\ r.lastState[s] = "Polling"
              <=> s \in Range(r.active) /\ r.lastState[s] = "Polling"
        BY <1>2, <2>11 DEF ThreadOK, ListsOK
      <4> QED
        BY <2>1, <2>7, <2>12, <4>1 DEF PollingOf
    <3>2. CalledOf(q) = {} /\ Cardinality({}) = 0
      BY <2>7, <2>10, <2>12, FS_EmptySet DEF CalledOf
    <3>3. r.polling = Cardinality(PollingOf(r))
      BY <1>2 DEF ThreadOK, CountsOK
    <3>4. r.activeCount + Cardinality(Awaited(t)) <= Len(Schedulers)
      BY <1>2 DEF ThreadOK, CountsOK
    <3>5. q.activeCount = Len(q.active) + Cardinality(CalledOf(q))
      BY <2>5, <2>7, <3>2
    <3> QED
      BY <2>6, <2>7, <2>8, <2>9, <3>1, <3>3, <3>4, <3>5 DEF CountsOK
  <2>15. PlaceOK(t)'
    BY <1>1, <1>4, <2>5, <2>7, <2>8, <2>9 DEF PlaceOK, InLoop, StopLabels
  <2> QED
    BY <1>1, <1>3, <1>4, <1>5, <1>8, <2>7, <2>13, <2>14, <2>15, InLoopRun
<1> QED
  BY <1>1, <1>6, <1>7, <1>8

LEMMA EachRun ==
  ASSUME RunInv, SharedTypes, NEW t \in Threads, Each(t), UNCHANGED mRefCount
  PROVE  RunInv'
<1> DEFINE r == run[t]
           l == CASE r.at > Len(r.active) -> (IF r.active = <<>> THEN "rest" ELSE "loop")
                  [] r.stop /\ r.at <= Len(r.active) -> "stopped"
                  [] OTHER -> "run"
<1>1. /\ pc[t] = "each" /\ pc' = [pc EXCEPT ![t] = l]
      /\ UNCHANGED <<done, onDone, hasWork, onWork, calling, work, unposted, held, interrupted,
                     waiterDone, run, dozing, affinity, mRefCount>>
  BY DEF Each, Goto, events, loads, metas, acquire
<1>2. ThreadOK(t) /\ r \in RunRecords
  BY DEF RunInv, RunTypes
<1>3. /\ r.at \in Nat /\ Len(r.active) \in Nat /\ r.at \in 1 .. Len(r.active) + 1
  BY <1>1, <1>2, RunFields DEF ThreadOK, PlaceOK
<1>4. \/ l = "rest" /\ r.active = <<>>
      \/ l = "loop"
      \/ l = "stopped" /\ r.stop
      \/ l = "run" /\ r.at <= Len(r.active)
  BY <1>3
<1> HIDE DEF l
<1>5. pc'[t] = l /\ pc[t] \in InLoop /\ pc[t] \in RunLabels /\ l \in InLoop /\ t \notin dozing
  BY <1>1, <1>2, <1>4 DEF SharedTypes, InLoop, RunLabels, ThreadOK, PlaceOK
<1>6. PlaceOK(t)'
  BY <1>1, <1>3, <1>4, <1>5 DEF PlaceOK, InLoop, StopLabels
<1> QED
  BY <1>1, <1>5, <1>6, SameRunRun

LEMMA RunSchedulerRun ==
  ASSUME RunInv, SharedTypes, NEW t \in Threads, RunScheduler(t), UNCHANGED mRefCount
  PROVE  RunInv'
<1> DEFINE r == run[t]
           s == r.active[r.at]
           limit == IF RunModeOf[held[t]][s] = "Some" THEN SomeCount ELSE work[s]
<1>1. ThreadOK(t) /\ r \in RunRecords /\ LoadTypes /\ EventTypes /\ RunTypes
  BY DEF RunInv, RunTypes
<1>2. PICK n \in 0 .. Min({limit, work[s]}), state \in States :
        /\ work' = [work EXCEPT ![s] = @ - n] /\ run' = [run EXCEPT ![t].state = state]
        /\ hasWork' \in {hasWork, hasWork \ {s}}
  BY DEF RunScheduler
<1>3. /\ pc[t] = "run" /\ pc' = [pc EXCEPT ![t] = "ran"]
      /\ UNCHANGED <<done, onDone, onWork, calling, unposted, held, interrupted, waiterDone,
                     dozing, affinity, mRefCount>>
  BY DEF RunScheduler, Goto, acquire
<1>4. r.at \in 1 .. Len(r.active) /\ s \in Scheds
  <2>1. r.at \in 1 .. Len(r.active) /\ r.active \in Seq(Scheds)
    BY <1>1, <1>3, RunFields DEF ThreadOK, PlaceOK
  <2> QED
    BY <2>1
<1>5. n \in Nat /\ n <= work[s]
  <2>1. limit \in Nat /\ work[s] \in Nat
    BY <1>1, <1>4, MetaSchedulerAssumption DEF LoadTypes
  <2> HIDE DEF limit, s
  <2>2. \E x \in {limit, work[s]} : \A y \in {limit, work[s]} : x =< y
    BY <2>1
  <2>3. Min({limit, work[s]}) \in Nat /\ Min({limit, work[s]}) <= work[s]
    BY <2>1, <2>2 DEF Min
  <2> QED
    BY <1>2, <2>1, <2>3
<1>6. LoadTypes' /\ hasWork' \subseteq Scheds
  <2> HIDE DEF s
  <2>1. work' \in [Scheds -> Nat]
    <3>1. work[s] - n \in Nat
      BY <1>1, <1>4, <1>5 DEF LoadTypes
    <3> QED
      BY <1>1, <1>2, <3>1 DEF LoadTypes
  <2> QED
    BY <1>1, <1>2, <1>3, <2>1 DEF LoadTypes, EventTypes
<1> DEFINE p == [r EXCEPT !.state = state]
<1>7. /\ p \in RunRecords /\ p.stop = r.stop /\ p.oldAffinity = r.oldAffinity
      /\ p.active = r.active /\ p.idle = r.idle /\ p.lastState = r.lastState
      /\ p.polling = r.polling /\ p.activeCount = r.activeCount /\ p.at = r.at
  BY <1>1, <1>2 DEF RunRecords
<1>8. run' = [run EXCEPT ![t] = p] /\ run'[t] = p
  BY <1>1, <1>2 DEF RunTypes
<1> HIDE DEF p
<1>9. /\ pc'[t] = "ran" /\ pc[t] \in InLoop /\ pc[t] \in RunLabels /\ "ran" \in InLoop
      /\ t \notin dozing
  BY <1>1, <1>3 DEF SharedTypes, InLoop, RunLabels, ThreadOK, PlaceOK
<1>10. PlaceOK(t)'
  BY <1>3, <1>4, <1>7, <1>8, <1>9 DEF PlaceOK, StopLabels
<1> QED
  BY <1>3, <1>6, <1>7, <1>8, <1>9, <1>10, SameListsRun

LEMMA GoIdleRun ==
  ASSUME RunInv, SharedTypes, NEW t \in Threads, GoIdle(t), UNCHANGED mRefCount
  PROVE  RunInv'
<1> DEFINE r == run[t]
           s == r.active[r.at]
           polling == IF r.lastState[s] = "Polling" THEN r.polling - 1 ELSE r.polling
           active == RemoveAt(r.active, r.at)
           idle == Append(r.idle, s)
           q == [r EXCEPT !.lastState[s] = "Idle", !.polling = polling, !.activeCount = @ - 1,
                   !.idle = idle, !.active = active]
           p == [r EXCEPT !.lastState[s] = "Working", !.polling = polling, !.at = @ + 1]
<1>1. /\ pc[t] = "ran" /\ pc' = [pc EXCEPT ![t] = "each"]
      /\ UNCHANGED <<done, onDone, hasWork, calling, work, unposted, held, interrupted,
                     waiterDone, dozing, affinity, mRefCount>>
      /\ \/ /\ onWork' = [onWork EXCEPT ![s] = @ \cup {t}]
            /\ run' = [run EXCEPT ![t] = q]
         \/ run' = [run EXCEPT ![t] = p] /\ onWork' = onWork
  BY DEF GoIdle, Goto, loads, acquire
<1>2. /\ EventTypes /\ LoadTypes /\ RunTypes /\ ThreadOK(t) /\ r \in RunRecords
  BY DEF RunInv, RunTypes
<1>3. /\ pc[t] \in InLoop /\ pc[t] \in RunLabels /\ "each" \in InLoop /\ pc'[t] = "each"
      /\ t \notin dozing
  BY <1>1, <1>2 DEF SharedTypes, InLoop, RunLabels, ThreadOK, PlaceOK
<1>4. LoadTypes' /\ hasWork' \subseteq Scheds
  BY <1>1, <1>2 DEF LoadTypes, EventTypes
<1>5. /\ r.at \in 1 .. Len(r.active) /\ r.at \in Nat /\ Len(r.active) \in Nat \ {0}
      /\ r.active \in Seq(Scheds) /\ r.idle \in Seq(Scheds)
      /\ Range(r.active) \subseteq Scheds /\ Range(r.idle) \subseteq Scheds
      /\ IsInjective(r.active) /\ IsInjective(r.idle) /\ Range(r.active) \cap Range(r.idle) = {}
      /\ Range(r.active) \cup Range(r.idle) = Range(Enabled(held[t]))
      /\ Waits(t) \cap Comes(t) = {} /\ Awaited(t) \in SUBSET Scheds
      /\ r.polling \in Nat /\ r.activeCount \in Nat
  BY <1>1, <1>2, <1>3, RunFields DEF ThreadOK, PlaceOK, ListsOK, Awaited, Waits, Comes
<1>6. /\ s \in Scheds /\ s \in Range(r.active) /\ s \notin Range(r.idle) /\ s \notin Awaited(t)
      /\ r.lastState[s] # "Idle"
      /\ active \in Seq(Scheds) /\ IsInjective(active) /\ Range(active) = Range(r.active) \ {s}
      /\ Len(active) = Len(r.active) - 1
  <2>1. /\ s \in Scheds /\ s \in Range(r.active) /\ active \in Seq(Scheds) /\ IsInjective(active)
        /\ Range(active) = Range(r.active) \ {s} /\ Len(active) = Len(r.active) - 1
    BY <1>5, RemoveAtOne
  <2> HIDE DEF s, active
  <2>2. s \notin Range(r.idle)
    BY <1>5, <2>1
  <2> QED
    BY <1>2, <2>1, <2>2 DEF ThreadOK, ListsOK
<1> HIDE DEF s, active
<1>7. /\ idle \in Seq(Scheds) /\ IsInjective(idle) /\ Range(idle) = Range(r.idle) \cup {s}
  BY <1>5, <1>6, AppendOne
<1> HIDE DEF idle
<1>8. /\ r.polling = Cardinality(PollingOf(r))
      /\ r.activeCount + Cardinality(Awaited(t)) <= Len(Schedulers)
      /\ r.activeCount = Len(r.active) + Cardinality(CalledOf(r))
      /\ PollingOf(r) \in SUBSET Scheds /\ CalledOf(r) \in SUBSET Scheds
      /\ Cardinality(CalledOf(r)) \in Nat /\ Cardinality(Awaited(t)) \in Nat
  BY <1>2, <1>3, <1>5, RunFields, SomeSchedulers DEF ThreadOK, CountsOK
\* The scheduler does not poll from now on.
<1>9. polling = Cardinality(PollingOf(r) \ {s}) /\ polling \in Nat
  <2>1. s \in PollingOf(r) <=> r.lastState[s] = "Polling"
    BY <1>6 DEF PollingOf
  <2>2. s \in PollingOf(r) => Cardinality(PollingOf(r) \ {s}) = Cardinality(PollingOf(r)) - 1
    BY <1>6, <1>8, SomeSchedulers
  <2>3. s \notin PollingOf(r) => PollingOf(r) \ {s} = PollingOf(r)
    OBVIOUS
  <2>4. polling = Cardinality(PollingOf(r) \ {s})
    BY <1>8, <2>1, <2>2, <2>3
  <2>5. PollingOf(r) \ {s} \in SUBSET Scheds
    BY <1>8
  <2> QED
    BY <2>4, <2>5, SomeSchedulers
<1> HIDE DEF polling
<1>10. ASSUME NEW x \in RunRecords, NEW state \in States, x.lastState = [r.lastState EXCEPT ![s] = state]
       PROVE  x.lastState[s] = state /\ \A v \in Scheds \ {s} : x.lastState[v] = r.lastState[v]
  <2>1. r.lastState \in [Scheds -> States]
    BY <1>2, RunFields
  <2> QED
    BY <1>6, <1>10, <2>1
<1>11. CASE /\ onWork' = [onWork EXCEPT ![s] = @ \cup {t}]
            /\ run' = [run EXCEPT ![t] = q]
  <2>1. /\ q.stop = r.stop /\ q.oldAffinity = r.oldAffinity /\ q.active = active
        /\ q.idle = idle /\ q.polling = polling /\ q.activeCount = r.activeCount - 1
        /\ q.at = r.at /\ q.lastState = [r.lastState EXCEPT ![s] = "Idle"]
    BY <1>2 DEF RunRecords
  <2>2. q \in RunRecords
    <3>1. [r.lastState EXCEPT ![s] = "Idle"] \in [Scheds -> States]
      BY <1>2, RunFields DEF States
    <3>2. r.activeCount - 1 \in Nat
      BY <1>5, <1>8
    <3>3. q = [[[[[r EXCEPT !.lastState = [r.lastState EXCEPT ![s] = "Idle"]]
                    EXCEPT !.polling = polling] EXCEPT !.activeCount = r.activeCount - 1]
                 EXCEPT !.idle = idle] EXCEPT !.active = active]
      BY <1>2 DEF RunRecords
    <3> QED
      BY <1>2, <1>6, <1>7, <1>9, <3>1, <3>2, <3>3 DEF RunRecords
  <2>3. run'[t] = q
    BY <1>2, <1>11 DEF RunTypes
  <2> HIDE DEF q
  <2>4. q.lastState[s] = "Idle" /\ \A v \in Scheds \ {s} : q.lastState[v] = r.lastState[v]
    BY <1>10, <2>1, <2>2 DEF States
  <2>5. /\ onWork' \in [Scheds -> SUBSET Threads]
        /\ \A u \in Threads \ {t} : \A v \in Scheds : u \in onWork'[v] <=> u \in onWork[v]
        /\ \A v \in Scheds : t \in onWork'[v] <=> t \in onWork[v] \/ v = s
    BY <1>2, <1>11 DEF EventTypes
  <2>6. /\ Waits(t)' = Waits(t) \cup {s} /\ Comes(t)' = Comes(t)
        /\ Awaited(t)' = Awaited(t) \cup {s} /\ Waits(t)' \cap Comes(t)' = {}
    <3>1. Waits(t)' = Waits(t) \cup {s} /\ Comes(t)' = Comes(t)
      BY <1>1, <1>6, <2>5 DEF Waits, Comes
    <3> QED
      BY <1>5, <1>6, <3>1 DEF Awaited
  <2>7. ListsOK(t)'
    <3>1. Range(active) \cap Range(idle) = {} /\ Range(active) \cup Range(idle) = Range(Enabled(held[t]))
      BY <1>5, <1>6, <1>7
    <3>2. \A v \in Range(active) : q.lastState[v] # "Idle"
      BY <1>2, <1>5, <1>6, <2>4 DEF ThreadOK, ListsOK
    <3>3. \A v \in Range(idle) : q.lastState[v] # "Polling"
      BY <1>2, <1>5, <1>7, <2>4 DEF ThreadOK, ListsOK
    <3>4. \A v \in Scheds : v \in Awaited(t)' <=> v \in Range(idle) /\ q.lastState[v] = "Idle"
      BY <1>2, <1>6, <1>7, <2>4, <2>6 DEF ThreadOK, ListsOK
    <3>5. held'[t] = held[t]
      BY <1>1
    <3> QED
      BY <1>6, <1>7, <2>1, <2>3, <2>6, <3>1, <3>2, <3>3, <3>4, <3>5 DEF ListsOK
  <2>8. CountsOK(t)'
    <3>1. PollingOf(q) = PollingOf(r) \ {s}
      BY <1>5, <1>6, <2>1, <2>4 DEF PollingOf
    <3>2. CalledOf(q) = CalledOf(r)
      BY <1>5, <1>6, <1>7, <2>1, <2>4 DEF CalledOf
    <3>3. Cardinality(Awaited(t)') = Cardinality(Awaited(t)) + 1
      BY <1>5, <1>6, <2>6, SomeSchedulers
    <3>4. q.activeCount + Cardinality(Awaited(t)') <= Len(Schedulers)
      <4>1. q.activeCount = r.activeCount - 1 /\ r.activeCount \in Nat
        BY <1>5, <2>1
      <4> QED
        BY <1>8, <3>3, <4>1, AllSchedulers
    <3>5. q.activeCount = Len(q.active) + Cardinality(CalledOf(q))
      <4>1. q.activeCount = r.activeCount - 1 /\ Len(q.active) = Len(r.active) - 1
        BY <1>6, <2>1
      <4> HIDE DEF r
      <4> QED
        BY <1>5, <1>8, <3>2, <4>1
    <3> QED
      BY <1>9, <2>1, <2>3, <3>1, <3>4, <3>5 DEF CountsOK
  <2>9. PlaceOK(t)'
    <3>1. q.at \in 1 .. Len(q.active) + 1
      BY <1>5, <1>6, <2>1
    <3> QED
      BY <1>1, <1>3, <2>3, <3>1 DEF PlaceOK, StopLabels
  <2> QED
    BY <1>1, <1>3, <1>4, <1>11, <2>1, <2>2, <2>5, <2>7, <2>8, <2>9, InLoopRun
<1>12. CASE run' = [run EXCEPT ![t] = p] /\ onWork' = onWork
  <2>1. /\ p.stop = r.stop /\ p.oldAffinity = r.oldAffinity /\ p.active = r.active
        /\ p.idle = r.idle /\ p.polling = polling /\ p.activeCount = r.activeCount
        /\ p.at = r.at + 1 /\ p.lastState = [r.lastState EXCEPT ![s] = "Working"]
    BY <1>2 DEF RunRecords
  <2>2. p \in RunRecords
    <3>1. [r.lastState EXCEPT ![s] = "Working"] \in [Scheds -> States]
      BY <1>2, RunFields DEF States
    <3>2. p = [[[r EXCEPT !.lastState = [r.lastState EXCEPT ![s] = "Working"]]
                  EXCEPT !.polling = polling] EXCEPT !.at = r.at + 1]
      BY <1>2 DEF RunRecords
    <3>3. r.at + 1 \in Nat
      BY <1>5
    <3> QED
      BY <1>2, <1>9, <3>1, <3>2, <3>3 DEF RunRecords
  <2>3. run'[t] = p
    BY <1>2, <1>12 DEF RunTypes
  <2> HIDE DEF p
  <2>4. p.lastState[s] = "Working" /\ \A v \in Scheds \ {s} : p.lastState[v] = r.lastState[v]
    BY <1>10, <2>1, <2>2 DEF States
  <2>5. /\ onWork' \in [Scheds -> SUBSET Threads]
        /\ \A u \in Threads \ {t} : \A v \in Scheds : u \in onWork'[v] <=> u \in onWork[v]
    BY <1>2, <1>12 DEF EventTypes
  <2>6. Waits(t)' = Waits(t) /\ Comes(t)' = Comes(t) /\ Awaited(t)' = Awaited(t)
    BY <1>1, <1>12 DEF Waits, Comes, Awaited
  <2>7. ListsOK(t)'
    <3>1. \A v \in Range(r.active) : p.lastState[v] # "Idle"
      BY <1>2, <1>5, <1>6, <2>4 DEF ThreadOK, ListsOK
    <3>2. \A v \in Range(r.idle) : p.lastState[v] # "Polling"
      BY <1>2, <1>5, <2>4 DEF ThreadOK, ListsOK
    <3>3. \A v \in Scheds : v \in Awaited(t) <=> v \in Range(r.idle) /\ p.lastState[v] = "Idle"
      BY <1>2, <1>6, <2>4 DEF ThreadOK, ListsOK
    <3>4. held'[t] = held[t]
      BY <1>1
    <3> QED
      BY <1>5, <2>1, <2>3, <2>6, <3>1, <3>2, <3>3, <3>4 DEF ListsOK
  <2>8. CountsOK(t)'
    <3>1. PollingOf(p) = PollingOf(r) \ {s}
      BY <1>5, <1>6, <2>1, <2>4 DEF PollingOf
    <3>2. CalledOf(p) = CalledOf(r)
      BY <1>5, <1>6, <2>1, <2>4 DEF CalledOf
    <3> QED
      BY <1>8, <1>9, <2>1, <2>3, <2>6, <3>1, <3>2 DEF CountsOK
  <2>9. PlaceOK(t)'
    <3>1. p.at \in 1 .. Len(p.active) + 1
      BY <1>5, <2>1
    <3> QED
      BY <1>1, <1>3, <2>3, <3>1 DEF PlaceOK, StopLabels
  <2> QED
    BY <1>1, <1>3, <1>4, <1>12, <2>1, <2>2, <2>5, <2>7, <2>8, <2>9, InLoopRun
<1> QED
  BY <1>1, <1>11, <1>12

LEMMA StayActiveRun ==
  ASSUME RunInv, SharedTypes, NEW t \in Threads, StayActive(t), UNCHANGED mRefCount
  PROVE  RunInv'
<1> DEFINE r == run[t]
           s == r.active[r.at]
           polling == IF r.state = r.lastState[s] THEN r.polling
                      ELSE IF r.state = "Polling" THEN r.polling + 1 ELSE r.polling - 1
           q == [r EXCEPT !.lastState[s] = r.state, !.at = @ + 1, !.polling = polling]
<1>1. /\ pc[t] = "ran" /\ r.state # "Idle" /\ pc' = [pc EXCEPT ![t] = "each"]
      /\ UNCHANGED <<done, onDone, onWork, hasWork, calling, work, unposted, held, interrupted,
                     waiterDone, dozing, affinity, mRefCount>>
      /\ run' = [run EXCEPT ![t] = q]
  BY DEF StayActive, Goto, loads, acquire, events
<1>2. /\ EventTypes /\ LoadTypes /\ RunTypes /\ ThreadOK(t) /\ r \in RunRecords
  BY DEF RunInv, RunTypes
<1>3. /\ pc[t] \in InLoop /\ pc[t] \in RunLabels /\ "each" \in InLoop /\ pc'[t] = "each"
      /\ t \notin dozing
  BY <1>1, <1>2 DEF SharedTypes, InLoop, RunLabels, ThreadOK, PlaceOK
<1>4. LoadTypes' /\ hasWork' \subseteq Scheds
  BY <1>1, <1>2 DEF LoadTypes, EventTypes
<1>5. /\ r.at \in 1 .. Len(r.active) /\ r.at \in Nat /\ Len(r.active) \in Nat \ {0}
      /\ r.active \in Seq(Scheds) /\ r.idle \in Seq(Scheds)
      /\ Range(r.active) \subseteq Scheds /\ Range(r.idle) \subseteq Scheds
      /\ IsInjective(r.active) /\ IsInjective(r.idle) /\ Range(r.active) \cap Range(r.idle) = {}
      /\ Range(r.active) \cup Range(r.idle) = Range(Enabled(held[t]))
      /\ Waits(t) \cap Comes(t) = {}
      /\ r.polling \in Nat /\ r.activeCount \in Nat /\ r.state \in States
      /\ r.lastState \in [Scheds -> States]
  BY <1>1, <1>2, <1>3, RunFields DEF ThreadOK, PlaceOK, ListsOK
<1>6. s \in Scheds /\ s \in Range(r.active) /\ s \notin Range(r.idle) /\ r.lastState[s] # "Idle"
  <2>1. s \in Scheds /\ s \in Range(r.active)
    BY <1>5, RemoveAtOne
  <2> HIDE DEF s
  <2>2. s \notin Range(r.idle)
    BY <1>5, <2>1
  <2> QED
    BY <1>2, <2>1, <2>2 DEF ThreadOK, ListsOK
<1> HIDE DEF s
<1>7. r.polling = Cardinality(PollingOf(r)) /\ PollingOf(r) \in SUBSET Scheds
  BY <1>2, RunFields DEF ThreadOK, CountsOK
<1> DEFINE P == IF r.state = "Polling" THEN PollingOf(r) \cup {s} ELSE PollingOf(r) \ {s}
<1>8. polling = Cardinality(P) /\ polling \in Nat
  <2>1. s \in PollingOf(r) <=> r.lastState[s] = "Polling"
    BY <1>6 DEF PollingOf
  <2>2. /\ s \in PollingOf(r) => /\ Cardinality(PollingOf(r) \ {s}) = Cardinality(PollingOf(r)) - 1
                                 /\ PollingOf(r) \cup {s} = PollingOf(r)
        /\ s \notin PollingOf(r) => /\ Cardinality(PollingOf(r) \cup {s}) = Cardinality(PollingOf(r)) + 1
                                    /\ PollingOf(r) \ {s} = PollingOf(r)
    BY <1>6, <1>7, SomeSchedulers
  <2>3. r.state \in {"Working", "Polling"} /\ r.lastState[s] \in {"Working", "Polling"}
    BY <1>1, <1>5, <1>6 DEF States
  <2> DEFINE n == r.polling
             old == r.lastState[s]
             new == r.state
             Q == PollingOf(r)
  <2>4. /\ n = Cardinality(Q) /\ (s \in Q <=> old = "Polling")
        /\ polling = IF new = old THEN n ELSE IF new = "Polling" THEN n + 1 ELSE n - 1
        /\ P = IF new = "Polling" THEN Q \cup {s} ELSE Q \ {s}
        /\ new \in {"Working", "Polling"} /\ old \in {"Working", "Polling"}
    BY <1>7, <2>1, <2>3
  <2>5. /\ s \in Q => Cardinality(Q \ {s}) = Cardinality(Q) - 1 /\ Q \cup {s} = Q
        /\ s \notin Q => Cardinality(Q \cup {s}) = Cardinality(Q) + 1 /\ Q \ {s} = Q
    BY <2>2
  <2> HIDE DEF n, old, new, Q, P, polling, r
  <2>6. polling = Cardinality(P)
    <3>1. CASE new = "Polling"
      BY <2>4, <2>5, <3>1
    <3>2. CASE new = "Working"
      BY <2>4, <2>5, <3>2
    <3> QED
      BY <2>4, <3>1, <3>2
  <2>7. P \in SUBSET Scheds
    BY <1>6, <1>7 DEF P
  <2> QED
    BY <2>6, <2>7, SomeSchedulers
<1> HIDE DEF polling
<1>9. /\ q.stop = r.stop /\ q.oldAffinity = r.oldAffinity /\ q.active = r.active
      /\ q.idle = r.idle /\ q.polling = polling /\ q.activeCount = r.activeCount
      /\ q.at = r.at + 1 /\ q.lastState = [r.lastState EXCEPT ![s] = r.state]
  BY <1>2 DEF RunRecords
<1>10. q \in RunRecords
  <2>1. [r.lastState EXCEPT ![s] = r.state] \in [Scheds -> States] /\ r.at + 1 \in Nat
    BY <1>5, <1>6
  <2>2. q = [[[r EXCEPT !.lastState = [r.lastState EXCEPT ![s] = r.state]]
                EXCEPT !.at = r.at + 1] EXCEPT !.polling = polling]
    BY <1>2 DEF RunRecords
  <2> QED
    BY <1>2, <1>8, <2>1, <2>2 DEF RunRecords
<1>11. run'[t] = q
  BY <1>1, <1>2 DEF RunTypes
<1> HIDE DEF q
<1>12. q.lastState[s] = r.state /\ \A v \in Scheds \ {s} : q.lastState[v] = r.lastState[v]
  BY <1>5, <1>6, <1>9
<1>13. /\ onWork' \in [Scheds -> SUBSET Threads]
       /\ \A u \in Threads \ {t} : \A v \in Scheds : u \in onWork'[v] <=> u \in onWork[v]
  BY <1>1, <1>2 DEF EventTypes
<1>14. Waits(t)' = Waits(t) /\ Comes(t)' = Comes(t) /\ Awaited(t)' = Awaited(t) /\ held'[t] = held[t]
  BY <1>1 DEF Waits, Comes, Awaited
<1>15. ListsOK(t)'
  <2>1. \A v \in Range(r.active) : q.lastState[v] # "Idle"
    BY <1>1, <1>2, <1>5, <1>6, <1>12 DEF ThreadOK, ListsOK
  <2>2. \A v \in Range(r.idle) : q.lastState[v] # "Polling"
    BY <1>2, <1>5, <1>6, <1>12 DEF ThreadOK, ListsOK
  <2>3. \A v \in Scheds : v \in Awaited(t) <=> v \in Range(r.idle) /\ q.lastState[v] = "Idle"
    BY <1>2, <1>6, <1>12 DEF ThreadOK, ListsOK
  <2> QED
    BY <1>5, <1>9, <1>11, <1>14, <2>1, <2>2, <2>3 DEF ListsOK
<1>16. CountsOK(t)'
  <2>1. PollingOf(q) = P
    BY <1>1, <1>5, <1>6, <1>9, <1>12 DEF PollingOf
  <2>2. CalledOf(q) = CalledOf(r)
    BY <1>5, <1>6, <1>9, <1>12 DEF CalledOf
  <2>3. /\ r.activeCount + Cardinality(Awaited(t)) <= Len(Schedulers)
        /\ r.activeCount = Len(r.active) + Cardinality(CalledOf(r))
    BY <1>2, <1>3 DEF ThreadOK, CountsOK
  <2> QED
    BY <1>8, <1>9, <1>11, <1>14, <2>1, <2>2, <2>3 DEF CountsOK
<1>17. PlaceOK(t)'
  <2>1. q.at \in 1 .. Len(q.active) + 1
    BY <1>5, <1>9
  <2> QED
    BY <1>1, <1>3, <1>11, <2>1 DEF PlaceOK, StopLabels
<1> QED
  BY <1>1, <1>3, <1>4, <1>9, <1>10, <1>13, <1>15, <1>16, <1>17, InLoopRun

LEMMA RestRun ==
  ASSUME RunInv, SharedTypes, NEW t \in Threads, Rest(t) \/ Stopped(t), UNCHANGED mRefCount
  PROVE  RunInv'
<1>1. ThreadOK(t)
  BY DEF RunInv
<1>2. CASE Rest(t)
  <2>1. /\ pc[t] \in {"rest", "restWait"}
        /\ UNCHANGED <<done, onDone, hasWork, onWork, calling, work, unposted, mRefCount,
                       interrupted, waiterDone, run, held, affinity>>
        /\ \/ pc' = [pc EXCEPT ![t] = "loop"] /\ dozing' = dozing /\ t \notin dozing
           \/ /\ pc' = [pc EXCEPT ![t] = "stopped"] /\ dozing' = dozing /\ t \notin dozing
              /\ run[t].stop
           \/ /\ pc' = [pc EXCEPT ![t] = "restWait"] /\ dozing' = dozing \cup {t}
              /\ run[t].activeCount = 0 /\ ~run[t].stop
    BY <1>2 DEF Rest, Goto, events, loads, acquire
  <2>2. run[t].active = <<>> /\ pc[t] \in InLoop /\ pc[t] \in RunLabels
    BY <1>1, <2>1 DEF ThreadOK, PlaceOK, InLoop, RunLabels
  <2>3. PICK l \in {"loop", "stopped", "restWait"} : pc' = [pc EXCEPT ![t] = l] /\ pc'[t] = l
    BY <2>1 DEF SharedTypes
  <2>4. PlaceOK(t)'
    BY <2>1, <2>2, <2>3 DEF SharedTypes, PlaceOK, InLoop, StopLabels
  <2> QED
    BY <2>1, <2>2, <2>3, <2>4, SameRunRun DEF InLoop
<1>3. CASE Stopped(t)
  <2>1. /\ pc[t] = "stopped" /\ pc' = [pc EXCEPT ![t] = "remove"]
        /\ UNCHANGED <<done, onDone, hasWork, onWork, calling, work, unposted, mRefCount,
                       interrupted, waiterDone, run, held, affinity, dozing>>
    BY <1>3 DEF Stopped, Goto, events, loads, acquire
  <2>2. /\ pc'[t] = "remove" /\ pc[t] \in InLoop /\ "remove" \in InLoop
        /\ "remove" \notin RunLabels /\ run[t].stop /\ t \notin dozing
    BY <1>1, <2>1 DEF SharedTypes, ThreadOK, PlaceOK, InLoop, RunLabels, StopLabels
  <2>3. PlaceOK(t)'
    BY <2>1, <2>2 DEF PlaceOK
  <2> QED
    BY <2>1, <2>2, <2>3, SameRunRun
<1> QED
  BY <1>2, <1>3

LEMMA RemoveIdleRun ==
  ASSUME RunInv, SharedTypes, NEW t \in Threads,
         RemoveIdle(t) \/ Unlink(t) \/ RemoveAwaken(t), UNCHANGED mRefCount
  PROVE  RunInv'
<1> DEFINE r == run[t]
           s == Head(r.idle)
           idle == Tail(r.idle)
           q == [r EXCEPT !.idle = idle]
<1>i. ThreadOK(t)
  BY DEF RunInv
<1>1. /\ pc[t] \in {"remove", "unlink", "removeWait"} /\ t \notin dozing /\ r.idle # <<>>
      /\ UNCHANGED <<done, onDone, hasWork, calling, work, unposted, held, interrupted,
                     waiterDone, affinity, mRefCount>>
      /\ \/ /\ \/ t \in onWork[s] /\ onWork' = [onWork EXCEPT ![s] = @ \ {t}]
               \/ r.lastState[s] # "Idle" /\ onWork' = onWork
            /\ run' = [run EXCEPT ![t].idle = Tail(@)] /\ pc' = [pc EXCEPT ![t] = "remove"]
            /\ dozing' = dozing
         \/ /\ pc' = [pc EXCEPT ![t] = "removeWait"] /\ dozing' = dozing \cup {t}
            /\ run' = run /\ onWork' = onWork
         \/ /\ pc' = [pc EXCEPT ![t] = "unlink"] /\ dozing' = dozing
            /\ run' = run /\ onWork' = onWork
  <2>1. CASE RemoveIdle(t)
    BY <1>i, <2>1
    DEF RemoveIdle, AwaitCallback, NextIdle, Goto, loads, acquire, ThreadOK, PlaceOK
  <2>2. CASE Unlink(t)
    BY <1>i, <2>2
    DEF Unlink, AwaitCallback, NextIdle, Goto, loads, acquire, ThreadOK, PlaceOK
  <2>3. CASE RemoveAwaken(t)
    BY <1>i, <2>3
    DEF RemoveAwaken, AwaitCallback, NextIdle, Goto, loads, acquire, ThreadOK, PlaceOK
  <2> QED
    BY <2>1, <2>2, <2>3
<1>2. /\ EventTypes /\ LoadTypes /\ RunTypes /\ ThreadOK(t) /\ r \in RunRecords
  BY DEF RunInv, RunTypes
<1>3. /\ pc[t] \in InLoop /\ pc[t] \notin RunLabels /\ r.stop
      /\ {"remove", "unlink", "removeWait"} \subseteq InLoop
      /\ "remove" \notin RunLabels /\ "unlink" \notin RunLabels /\ "removeWait" \notin RunLabels
      /\ \A l \in InLoop : pc' = [pc EXCEPT ![t] = l] => pc'[t] = l
  BY <1>1, <1>2 DEF SharedTypes, InLoop, RunLabels, StopLabels, ThreadOK, PlaceOK
<1>4. LoadTypes' /\ hasWork' \subseteq Scheds
  BY <1>1, <1>2 DEF LoadTypes, EventTypes
<1>5. /\ r.active \in Seq(Scheds) /\ r.idle \in Seq(Scheds)
      /\ Range(r.active) \subseteq Scheds /\ Range(r.idle) \subseteq Scheds
      /\ IsInjective(r.active) /\ IsInjective(r.idle) /\ Range(r.active) \cap Range(r.idle) = {}
      /\ Waits(t) \cap Comes(t) = {} /\ Awaited(t) \in SUBSET Scheds
      /\ \A v \in Scheds : v \in Awaited(t) <=> v \in Range(r.idle) /\ r.lastState[v] = "Idle"
  BY <1>2, RunFields DEF ThreadOK, ListsOK, Awaited, Waits, Comes
<1>6. /\ s \in Scheds /\ s \in Range(r.idle)
      /\ idle \in Seq(Scheds) /\ IsInjective(idle) /\ Range(idle) = Range(r.idle) \ {s}
  BY <1>1, <1>5, TailOne
<1>7. CASE /\ pc' = [pc EXCEPT ![t] = "removeWait"] /\ dozing' = dozing \cup {t}
           /\ run' = run /\ onWork' = onWork
  <2>1. PlaceOK(t)'
    BY <1>1, <1>3, <1>7 DEF PlaceOK
  <2> QED
    BY <1>1, <1>3, <1>7, <2>1, SameRunRun
<1>9. CASE /\ pc' = [pc EXCEPT ![t] = "unlink"] /\ dozing' = dozing
           /\ run' = run /\ onWork' = onWork
  <2>1. PlaceOK(t)'
    BY <1>1, <1>3, <1>9 DEF PlaceOK
  <2> QED
    BY <1>1, <1>3, <1>9, <2>1, SameRunRun
<1>8. CASE /\ \/ t \in onWork[s] /\ onWork' = [onWork EXCEPT ![s] = @ \ {t}]
              \/ r.lastState[s] # "Idle" /\ onWork' = onWork
           /\ run' = [run EXCEPT ![t].idle = Tail(@)] /\ pc' = [pc EXCEPT ![t] = "remove"]
           /\ dozing' = dozing
  <2>1. /\ q \in RunRecords /\ q.stop = r.stop /\ q.oldAffinity = r.oldAffinity
        /\ q.active = r.active /\ q.idle = idle /\ q.polling = r.polling
        /\ q.activeCount = r.activeCount /\ q.at = r.at /\ q.lastState = r.lastState
    BY <1>2, <1>6 DEF RunRecords
  <2>2. run' = [run EXCEPT ![t] = q] /\ run'[t] = q
    BY <1>2, <1>8 DEF RunTypes
  <2>a. r.lastState[s] # "Idle" => t \notin onWork[s]
    BY <1>5, <1>6 DEF Awaited, Waits
  <2> HIDE DEF q, idle, s
  <2>3. /\ onWork' \in [Scheds -> SUBSET Threads]
        /\ \A u \in Threads \ {t} : \A v \in Scheds : u \in onWork'[v] <=> u \in onWork[v]
        /\ \A v \in Scheds : t \in onWork'[v] <=> t \in onWork[v] /\ v # s
    BY <1>2, <1>6, <1>8, <2>a DEF EventTypes
  <2>4. s \notin Comes(t)
    <3>1. CASE t \in onWork[s]
      BY <1>5, <1>6, <3>1 DEF Waits
    <3>2. CASE r.lastState[s] # "Idle"
      BY <1>5, <1>6, <3>2 DEF Awaited
    <3> QED
      BY <1>8, <3>1, <3>2
  <2>5. /\ Waits(t)' = Waits(t) \ {s} /\ Comes(t)' = Comes(t) /\ Awaited(t)' = Awaited(t) \ {s}
        /\ Waits(t)' \cap Comes(t)' = {}
    <3>1. Waits(t)' = Waits(t) \ {s} /\ Comes(t)' = Comes(t)
      BY <1>1, <2>3 DEF Waits, Comes
    <3> QED
      BY <1>5, <2>4, <3>1 DEF Awaited
  <2>6. pc'[t] = "remove"
    BY <1>3, <1>8
  <2>7. ListsOK(t)'
    <3>1. /\ \A v \in Range(r.active) : r.lastState[v] # "Idle"
          /\ \A v \in Range(idle) : r.lastState[v] # "Polling"
      BY <1>2, <1>6 DEF ThreadOK, ListsOK
    <3>2. \A v \in Scheds : v \in Awaited(t)' <=> v \in Range(idle) /\ r.lastState[v] = "Idle"
      BY <1>5, <1>6, <2>5
    <3>3. Range(r.active) \cap Range(idle) = {}
      BY <1>5, <1>6
    <3> QED
      BY <1>3, <1>5, <1>6, <2>1, <2>2, <2>5, <2>6, <3>1, <3>2, <3>3 DEF ListsOK
  <2>8. CountsOK(t)'
    <3>1. PollingOf(q) = PollingOf(r)
      BY <2>1 DEF PollingOf
    <3>2. /\ r.polling = Cardinality(PollingOf(r))
          /\ r.activeCount + Cardinality(Awaited(t)) <= Len(Schedulers)
          /\ r.activeCount \in Nat
      BY <1>2, RunFields DEF ThreadOK, CountsOK
    <3>3. Cardinality(Awaited(t)') <= Cardinality(Awaited(t)) /\ Cardinality(Awaited(t)') \in Nat
          /\ Cardinality(Awaited(t)) \in Nat
      <4>1. Awaited(t)' \subseteq Awaited(t) /\ Awaited(t)' \in SUBSET Scheds
        BY <1>5, <2>5
      <4> QED
        BY <1>5, <4>1, SomeSchedulers, FS_Subset
    <3>4. r.activeCount + Cardinality(Awaited(t)') <= Len(Schedulers)
      BY <3>2, <3>3, AllSchedulers
    <3> QED
      BY <1>3, <2>1, <2>2, <2>6, <3>1, <3>2, <3>4 DEF CountsOK
  <2>9. PlaceOK(t)'
    BY <1>1, <1>3, <1>8, <2>1, <2>2, <2>6 DEF PlaceOK
  <2> QED
    BY <1>1, <1>3, <1>4, <1>8, <2>1, <2>2, <2>3, <2>7, <2>8, <2>9, InLoopRun
<1> QED
  BY <1>1, <1>7, <1>8, <1>9

\* Nothing is left once the last idle scheduler has been dealt with.
LEMMA RestoreRun ==
  ASSUME RunInv, SharedTypes, NEW t \in Threads, Restore(t), UNCHANGED mRefCount
  PROVE  RunInv'
<1> DEFINE r == run[t]
<1>1. /\ pc[t] = "remove" /\ r.idle = <<>> /\ pc' = [pc EXCEPT ![t] = "release"]
      /\ SetAffinity(t, r.oldAffinity) /\ run' = [run EXCEPT ![t] = NoRun]
      /\ UNCHANGED <<done, onDone, onWork, hasWork, calling, work, unposted, held, interrupted,
                     waiterDone, dozing, mRefCount>>
  BY DEF Restore, Goto, events, loads, acquire
<1>2. /\ EventTypes /\ LoadTypes /\ RunTypes /\ ThreadOK(t) /\ r \in RunRecords
  BY DEF RunInv, RunTypes
<1>3. affinity'[t] = Home[t] /\ affinity' \in [Threads -> Affinities]
      /\ \A u \in Threads \ {t} : affinity'[u] = affinity[u]
  <2>1. Home[t] \in Affinities /\ Home[t] # {} /\ affinity \in [Threads -> Affinities]
    BY <1>2, MetaSchedulerAssumption DEF InRange, IsEmpty, Affinities, RunTypes
  <2>2. CASE r.oldAffinity = {}
    <3>1. affinity[t] = Home[t] /\ affinity' = affinity
      BY <1>1, <1>2, <2>2 DEF ThreadOK, AffinityOK, SetAffinity, IsEmpty
    <3> QED
      BY <2>1, <3>1
  <2>3. CASE r.oldAffinity # {}
    <3>1. r.oldAffinity = Home[t] /\ affinity' = [affinity EXCEPT ![t] = CreateCpuSet(r.oldAffinity)]
      BY <1>1, <1>2, <2>3 DEF ThreadOK, AffinityOK, SetAffinity, IsEmpty, InLoop
    <3>2. CreateCpuSet(Home[t]) = Home[t]
      BY <2>1, CpuSet
    <3> QED
      BY <2>1, <3>1, <3>2
  <2> QED
    BY <2>2, <2>3
<1>4. /\ pc'[t] = "release" /\ run'[t] = NoRun /\ run' \in [Threads -> RunRecords]
      /\ \A u \in Threads \ {t} : pc'[u] = pc[u] /\ run'[u] = run[u]
  BY <1>1, <1>2, NoRunOK DEF SharedTypes, RunTypes
<1>5. EventTypes' /\ LoadTypes' /\ RunTypes'
  BY <1>1, <1>2, <1>3, <1>4 DEF EventTypes, LoadTypes, RunTypes
<1>6. \A u \in Threads \ {t} : ThreadOK(u)'
  BY <1>1, <1>3, <1>4, OthersAlone
<1>7. ThreadOK(t)'
  <2>1. /\ Waits(t)' = Waits(t) /\ Comes(t)' = Comes(t) /\ Waits(t) \cap Comes(t) = {}
        /\ Awaited(t) = {} /\ Awaited(t)' = {}
    <3>1. Waits(t)' = Waits(t) /\ Comes(t)' = Comes(t)
      BY <1>1 DEF Waits, Comes
    <3>2. Range(r.idle) = {}
      BY <1>1, NoRunOK DEF NoRun
    <3>3. Awaited(t) = {}
      BY <1>2, <3>2 DEF ThreadOK, ListsOK, Awaited, Waits, Comes
    <3> QED
      BY <1>2, <3>1, <3>3 DEF ThreadOK, ListsOK, Awaited
  <2>2. WaitersOK(t)'
    <3>1. r.stop /\ pc[t] \notin AcquireLabels
      BY <1>1, <1>2 DEF ThreadOK, PlaceOK, StopLabels, AcquireLabels
    <3> QED
      BY <1>1, <1>2, <1>4, <3>1 DEF ThreadOK, WaitersOK
  <2>3. ListsOK(t)'
    BY <1>4, <2>1, NoRunOK DEF ListsOK, RunLabels
  <2>4. CountsOK(t)'
    <3>1. NoRun.polling = 0 /\ NoRun.activeCount = 0 /\ Cardinality({}) = 0
      BY FS_EmptySet DEF NoRun
    <3> QED
      BY <1>4, <2>1, <3>1, NoRunOK, AllSchedulers DEF CountsOK, RunLabels
  <2>5. PlaceOK(t)' /\ AffinityOK(t)'
    <3>1. t \notin dozing
      BY <1>1, <1>2 DEF ThreadOK, PlaceOK
    <3> QED
      BY <1>1, <1>3, <1>4, <3>1 DEF PlaceOK, AffinityOK, InLoop, StopLabels
  <2> QED
    BY <2>2, <2>3, <2>4, <2>5 DEF ThreadOK
<1> QED
  BY <1>5, <1>6, <1>7 DEF RunInv

-----------------------------------------------------------------------------
(* The invariant of Run holds. *)

\* The steps of acquiring and giving back, and those of a client.
LEMMA MetaRun ==
  ASSUME RunInv, SharedTypes, NEW t \in Threads,
         \/ (AcquireTest(t) \/ AcquireSleep(t) \/ ReleaseMetaThread(t)) /\ UNCHANGED mRefCount
         \/ Client(t)
  PROVE  RunInv'
<1>1. LoadTypes /\ mRefCount \in [Threads -> 0 .. MaxRefs]
  BY DEF RunInv, LoadTypes
<1>2. CASE AcquireTest(t) /\ UNCHANGED mRefCount
  <2>1. /\ UNCHANGED <<done, onDone, hasWork, onWork, calling, work, unposted, interrupted,
                       waiterDone, run, dozing, affinity, mRefCount>>
        /\ pc[t] \in {"acquire", "acquireWait"}
        /\ \E l \in {"acquireRemove", "acquireSleep"} : pc' = [pc EXCEPT ![t] = l]
        /\ held' = held \/ \E m : held' = [held EXCEPT ![t] = m]
    BY <1>2 DEF AcquireTest, Goto, events, loads, acquire
  <2>2. /\ \A u \in Threads \ {t} : pc'[u] = pc[u] /\ held'[u] = held[u]
        /\ pc[t] \notin InLoop /\ pc'[t] \notin InLoop /\ pc'[t] \in AcquireLabels
    BY <2>1 DEF SharedTypes, InLoop, AcquireLabels
  <2> QED
    BY <1>1, <2>1, <2>2, OutsideRun
<1>3. CASE AcquireSleep(t) /\ UNCHANGED mRefCount
  <2>1. /\ UNCHANGED <<done, onDone, hasWork, onWork, calling, work, unposted, interrupted,
                       waiterDone, run, dozing, affinity, mRefCount, held>>
        /\ pc[t] = "acquireSleep" /\ pc' = [pc EXCEPT ![t] = "acquireWait"]
    BY <1>3 DEF AcquireSleep, Goto, events, loads, acquire
  <2>2. /\ \A u \in Threads \ {t} : pc'[u] = pc[u] /\ held'[u] = held[u]
        /\ pc[t] \notin InLoop /\ pc'[t] \notin InLoop /\ pc'[t] \in AcquireLabels
    BY <2>1 DEF SharedTypes, InLoop, AcquireLabels
  <2> QED
    BY <1>1, <2>1, <2>2, OutsideRun
<1>4. CASE ReleaseMetaThread(t) /\ UNCHANGED mRefCount
  <2>1. /\ UNCHANGED <<done, onDone, hasWork, onWork, calling, work, unposted, interrupted,
                       waiterDone, run, dozing, affinity, mRefCount>>
        /\ pc[t] = "release" /\ pc' = [pc EXCEPT ![t] = "returned"]
        /\ held' = [held EXCEPT ![t] = Null]
    BY <1>4 DEF ReleaseMetaThread, Goto, events, loads, acquire
  <2>2. /\ \A u \in Threads \ {t} : pc'[u] = pc[u] /\ held'[u] = held[u]
        /\ pc[t] \notin InLoop \cup AcquireLabels /\ pc'[t] \notin InLoop
    BY <2>1 DEF SharedTypes, InLoop, AcquireLabels
  <2> QED
    BY <1>1, <2>1, <2>2, OutsideRun
<1>5. CASE AcquireContext(t)
  <2>1. /\ UNCHANGED <<done, onDone, hasWork, onWork, calling, work, unposted, interrupted,
                       waiterDone, run, dozing, affinity, held>>
        /\ pc[t] \in {"outside", "client"} /\ pc' = [pc EXCEPT ![t] = "client"]
        /\ mRefCount[t] < MaxRefs /\ mRefCount' = [mRefCount EXCEPT ![t] = @ + 1]
    BY <1>5 DEF AcquireContext, Goto, events, loads, acquire
  <2>2. /\ \A u \in Threads \ {t} : pc'[u] = pc[u] /\ held'[u] = held[u]
        /\ pc[t] \notin InLoop \cup AcquireLabels /\ pc'[t] \notin InLoop
    BY <2>1 DEF SharedTypes, InLoop, AcquireLabels
  <2>3. mRefCount' \in [Threads -> 0 .. MaxRefs]
    BY <1>1, <2>1, MetaSchedulerAssumption
  <2> QED
    BY <2>1, <2>2, <2>3, OutsideRun
<1>6. CASE Release(t)
  <2>1. /\ UNCHANGED <<done, onDone, hasWork, onWork, calling, work, unposted, interrupted,
                       waiterDone, run, dozing, affinity, held, pc>>
        /\ pc[t] = "returned" /\ mRefCount[t] > 0
        /\ mRefCount' = [mRefCount EXCEPT ![t] = @ - 1]
    BY <1>6 DEF Release, events, loads, acquire
  <2>2. mRefCount' \in [Threads -> 0 .. MaxRefs]
    BY <1>1, <2>1, MetaSchedulerAssumption
  <2>3. pc[t] \notin InLoop \cup AcquireLabels
    BY <2>1 DEF InLoop, AcquireLabels
  <2> QED
    BY <2>1, <2>2, <2>3, OutsideRun
<1> QED
  BY <1>2, <1>3, <1>4, <1>5, <1>6 DEF Client

\* The steps that touch no thread, except to wake it.
LEMMA WakeRun ==
  ASSUME RunInv,
         \/ /\ \/ \E t \in Threads : SpuriousWakeup(t)
               \/ \E m \in MetaThreads : CreateMetaThread(m)
               \/ \E s \in Scheds : UnlockWork(s)
            /\ UNCHANGED mRefCount
         \/ UNCHANGED vars
  PROVE  RunInv'
<1>1. /\ UNCHANGED <<done, onDone, hasWork, onWork, calling, work, unposted, interrupted,
                     waiterDone, run, affinity, held, pc, mRefCount>>
      /\ dozing' \subseteq dozing
  BY DEF SpuriousWakeup, CreateMetaThread, UnlockWork, vars, events, loads, acquire
<1>2. EventTypes' /\ LoadTypes' /\ RunTypes'
  BY <1>1 DEF RunInv, EventTypes, LoadTypes, RunTypes
<1>3. \A t \in Threads : ThreadOK(t)'
  BY <1>1, AllAlone
<1> QED
  BY <1>2, <1>3 DEF RunInv

LEMMA InitRun == Init => RunInv
<1> SUFFICES ASSUME Init PROVE RunInv
  OBVIOUS
<1>1. EventTypes /\ LoadTypes
  BY MetaSchedulerAssumption DEF Init, EventTypes, LoadTypes
<1>2. \A t \in Threads : Home[t] \in Affinities /\ affinity[t] = Home[t]
  BY MetaSchedulerAssumption DEF Init
<1>3. RunTypes
  <2>1. run \in [Threads -> RunRecords]
    <3>1. run = [t \in Threads |-> NoRun]
      BY DEF Init
    <3>2. NoRun \in RunRecords
      BY NoRunOK
    <3> QED
      BY <3>1, <3>2
  <2>2. affinity \in [Threads -> Affinities]
    BY MetaSchedulerAssumption DEF Init
  <2> QED
    BY <2>1, <2>2 DEF Init, RunTypes
<1>4. ASSUME NEW t \in Threads
      PROVE  ThreadOK(t)
  <2>1. /\ run[t] = NoRun /\ pc[t] = "outside" /\ onDone[t] = {} /\ ~waiterDone[t]
        /\ calling = {} /\ dozing = {}
    BY <1>4 DEF Init
  <2>2. Waits(t) = {} /\ Comes(t) = {} /\ Awaited(t) = {}
    BY DEF Init, Waits, Comes, Awaited
  <2>3. WaitersOK(t)
    BY <2>1 DEF WaitersOK
  <2>4. ListsOK(t)
    BY <2>1, <2>2, NoRunOK DEF ListsOK, RunLabels
  <2>5. CountsOK(t)
    <3>1. NoRun.polling = 0 /\ NoRun.activeCount = 0 /\ Cardinality({}) = 0
      BY FS_EmptySet DEF NoRun
    <3> QED
      BY <2>1, <2>2, <3>1, NoRunOK, AllSchedulers DEF CountsOK, RunLabels
  <2>6. PlaceOK(t) /\ AffinityOK(t)
    BY <1>2, <2>1 DEF PlaceOK, AffinityOK, InLoop, StopLabels
  <2> QED
    BY <2>3, <2>4, <2>5, <2>6 DEF ThreadOK
<1> QED
  BY <1>1, <1>3, <1>4 DEF RunInv

LEMMA StepRun ==
  ASSUME RunInv, SharedInv, NEW t \in Threads, Step(t) \/ Callback(t), UNCHANGED mRefCount
  PROVE  RunInv'
<1>1. SharedTypes
  BY DEF SharedInv
<1>2. CASE AcquireAdd(t) \/ AcquireRemove(t) \/ Begin(t)
  BY <1>1, <1>2, AcquireAddRun, AcquireRemoveRun, BeginRun
<1>3. CASE AcquireTest(t) \/ AcquireSleep(t) \/ ReleaseMetaThread(t)
  BY <1>1, <1>3, MetaRun
<1>4. CASE LoopHead(t) \/ Each(t) \/ RunScheduler(t)
  BY <1>1, <1>4, LoopHeadRun, EachRun, RunSchedulerRun
<1>5. CASE GoIdle(t) \/ StayActive(t)
  BY <1>1, <1>5, GoIdleRun, StayActiveRun
<1>6. CASE Rest(t) \/ Stopped(t)
  BY <1>1, <1>6, RestRun
<1>7. CASE RemoveIdle(t) \/ Unlink(t) \/ RemoveAwaken(t) \/ Restore(t)
  BY <1>1, <1>7, RemoveIdleRun, RestoreRun
<1>8. CASE Callback(t)
  BY <1>1, <1>8, InterruptRun, UntilRun, HasWorkRun DEF Callback
<1> QED
  BY <1>2, <1>3, <1>4, <1>5, <1>6, <1>7, <1>8 DEF Step

LEMMA NextRun == RunInv /\ SharedInv /\ [Next]_vars => RunInv'
<1> SUFFICES ASSUME RunInv, SharedInv, [Next]_vars PROVE RunInv'
  OBVIOUS
<1>1. SharedTypes
  BY DEF SharedInv
<1>2. ASSUME NEW s \in Scheds, PostWork(s), UNCHANGED mRefCount PROVE RunInv'
  BY <1>1, <1>2, PostWorkRun
<1>3. ASSUME NEW t \in Threads, SetDone(t), UNCHANGED mRefCount PROVE RunInv'
  BY <1>1, <1>3, SetDoneRun
<1>4. ASSUME NEW t \in Threads, Step(t) \/ Callback(t), UNCHANGED mRefCount PROVE RunInv'
  BY <1>4, StepRun
<1>5. ASSUME NEW t \in Threads, Client(t) PROVE RunInv'
  BY <1>1, <1>5, MetaRun
<1>6. CASE /\ \/ \E t \in Threads : SpuriousWakeup(t)
              \/ \E m \in MetaThreads : CreateMetaThread(m)
              \/ \E s \in Scheds : UnlockWork(s)
           /\ UNCHANGED mRefCount
  BY <1>6, WakeRun
<1>7. CASE UNCHANGED vars
  BY <1>7, WakeRun
<1> QED
  BY <1>2, <1>3, <1>4, <1>5, <1>6, <1>7 DEF Next, Outside, Finished

(* A Set notifies threads that had a waiter on the condition. *)
LEMMA SetsNext == RunInv /\ SetTypes /\ [Next]_vars => SetTypes'
<1> SUFFICES ASSUME RunInv, SetTypes, [Next]_vars PROVE SetTypes'
  OBVIOUS
<1>1. CASE UNCHANGED sets
  BY <1>1 DEF SetTypes, sets
<1>2. ASSUME NEW s \in Scheds, PostWork(s) PROVE SetTypes'
  <2>1. onWork[s] \subseteq Threads
    BY DEF RunInv, EventTypes
  <2> QED
    BY <1>2, <2>1 DEF PostWork, SetTypes, sets
<1>3. ASSUME NEW s \in Scheds, UnlockWork(s) PROVE SetTypes'
  BY <1>3 DEF UnlockWork, SetTypes
<1>4. ASSUME NEW t \in Threads, Callback(t) PROVE SetTypes'
  <2>1. CASE InterruptCallback(t) \/ UntilCallback(t)
    BY <1>1, <2>1 DEF InterruptCallback, UntilCallback
  <2>2. ASSUME NEW s \in Scheds, HasWorkCallback(t, s) PROVE SetTypes'
    BY <2>2 DEF HasWorkCallback, NotifyNext, SetTypes
  <2> QED
    BY <1>4, <2>1, <2>2 DEF Callback
<1>5. ASSUME NEW t \in Threads, Step(t) PROVE UNCHANGED sets
  <2>1. CASE AcquireAdd(t) \/ AcquireTest(t) \/ AcquireSleep(t) \/ AcquireRemove(t) \/ Begin(t)
    BY <2>1 DEF AcquireAdd, AcquireTest, AcquireSleep, AcquireRemove, Begin, events
  <2>2. CASE \/ LoopHead(t) \/ Each(t) \/ RunScheduler(t) \/ GoIdle(t) \/ StayActive(t)
             \/ Rest(t)
    BY <2>2 DEF LoopHead, Each, RunScheduler, GoIdle, StayActive, Rest, events
  <2>3. CASE \/ Stopped(t) \/ RemoveIdle(t) \/ Unlink(t) \/ RemoveAwaken(t) \/ Restore(t)
             \/ ReleaseMetaThread(t)
    BY <2>3 DEF Stopped, RemoveIdle, Unlink, RemoveAwaken, Restore, ReleaseMetaThread, events
  <2> QED
    BY <1>5, <2>1, <2>2, <2>3 DEF Step
<1>6. ASSUME NEW m \in MetaThreads, CreateMetaThread(m) PROVE UNCHANGED sets
  BY <1>6 DEF CreateMetaThread, events
<1>7. ASSUME NEW t \in Threads, SetDone(t) \/ SpuriousWakeup(t) \/ Client(t)
      PROVE  UNCHANGED sets
  BY <1>7 DEF SetDone, SpuriousWakeup, Client, AcquireContext, Release, events
<1>8. CASE UNCHANGED vars
  BY <1>1, <1>8 DEF vars, events
<1> QED
  BY <1>1, <1>2, <1>3, <1>4, <1>5, <1>6, <1>7, <1>8 DEF Next, Outside, Finished

LEMMA RunInvariant == Spec => [](SharedInv /\ RunInv /\ SetTypes)
<1>1. Init => SharedInv /\ RunInv /\ SetTypes
  BY InitShared, InitRun DEF Init, SetTypes
<1>2. SharedInv /\ RunInv /\ SetTypes /\ [Next]_vars => SharedInv' /\ RunInv' /\ SetTypes'
  BY NextShared, NextRun, SetsNext
<1> QED
  BY <1>1, <1>2, PTL DEF Spec

-----------------------------------------------------------------------------
(* What it implies. *)

LEMMA TypesHold == SharedInv /\ RunInv /\ SetTypes => TypeOK
<1> SUFFICES ASSUME SharedInv, RunInv, SetTypes PROVE TypeOK
  OBVIOUS
<1>1. EventTypes /\ LoadTypes /\ RunTypes /\ SharedTypes
  BY DEF RunInv, SharedInv
<1>2. ASSUME NEW t \in Threads
      PROVE  LET r == run[t]
             IN  /\ InRun(t) \/ Stopping(t) \/ pc[t] \in
                      {"outside", "client", "acquire", "acquireSleep", "acquireWait",
                       "acquireRemove", "begin", "release", "returned"}
                 /\ r.activeCount \in 0 .. Len(Schedulers) /\ r.polling \in 0 .. Len(r.active)
                 /\ r.active \in Seq(Scheds) /\ r.idle \in Seq(Scheds)
                 /\ r.lastState \in [Scheds -> States] /\ r.state \in States
  <2> DEFINE r == run[t]
  <2>1. ThreadOK(t) /\ r \in RunRecords
    BY <1>1 DEF RunInv, RunTypes
  <2>2. /\ r.activeCount \in Nat /\ r.polling \in Nat /\ r.active \in Seq(Scheds)
        /\ r.idle \in Seq(Scheds) /\ r.lastState \in [Scheds -> States] /\ r.state \in States
    BY <2>1, RunFields
  <2>3. r.activeCount <= Len(Schedulers)
    <3>1. Awaited(t) \in SUBSET Scheds
      BY DEF Awaited, Waits, Comes
    <3>2. Cardinality(Awaited(t)) \in Nat /\ r.activeCount + Cardinality(Awaited(t)) <= Len(Schedulers)
      BY <2>1, <3>1, SomeSchedulers DEF ThreadOK, CountsOK
    <3> QED
      BY <2>2, <3>2, AllSchedulers
  <2>4. r.polling <= Len(r.active)
    <3>1. IsInjective(r.active) /\ r.polling = Cardinality(PollingOf(r))
      BY <2>1 DEF ThreadOK, ListsOK, CountsOK
    <3>2. IsFiniteSet(Range(r.active)) /\ Cardinality(Range(r.active)) = Len(r.active)
      BY <2>2, <3>1, RangeCount
    <3>3. PollingOf(r) \in SUBSET Range(r.active)
      BY DEF PollingOf
    <3> QED
      BY <3>1, <3>2, <3>3, FS_Subset
  <2>5. Len(r.active) \in Nat
    BY <2>1, RunFields
  <2>6. pc[t] \in Labels
    BY <1>1 DEF SharedTypes
  <2>7. InRun(t) \/ Stopping(t) \/ pc[t] \in
          {"outside", "client", "acquire", "acquireSleep", "acquireWait", "acquireRemove",
           "begin", "release", "returned"}
    BY <2>6 DEF Labels, Before, InLoop, InRun, Stopping
  <2> QED
    BY <2>2, <2>3, <2>4, <2>5, <2>7, AllSchedulers
<1> QED
  BY <1>1, <1>2 DEF TypeOK, EventTypes, SetTypes, LoadTypes, RunTypes, SharedTypes

LEMMA NothingHolds == RunInv => RunLeavesNothing
<1> SUFFICES ASSUME RunInv, NEW t \in Threads,
                    pc[t] \in {"outside", "client", "release", "returned"}
             PROVE  /\ onDone[t] = {} /\ \A s \in Scheds : t \notin onWork[s]
                    /\ \A c \in calling : c[2] # t
                    /\ affinity[t] = Home[t]
  BY DEF RunLeavesNothing
<1>1. /\ ThreadOK(t) /\ EventTypes /\ pc[t] \notin InLoop \cup AcquireLabels /\ run[t] = NoRun
  BY DEF RunInv, ThreadOK, PlaceOK, InLoop, AcquireLabels
<1>2. onDone[t] = {} /\ <<"interrupt", t>> \notin calling /\ <<"until", t>> \notin calling
  BY <1>1 DEF ThreadOK, WaitersOK, EventTypes
<1>3. Waits(t) = {} /\ Comes(t) = {}
  <2>1. Awaited(t) \subseteq Range(NoRun.idle)
    BY <1>1 DEF ThreadOK, ListsOK, Awaited, Waits, Comes
  <2> QED
    BY <2>1, NoRunOK DEF Awaited
<1>4. \A c \in calling : c[2] # t
  <2> SUFFICES ASSUME NEW c \in calling, c[2] = t
               PROVE  FALSE
    OBVIOUS
  <2>1. \/ c \in {"interrupt", "until"} \X Threads
        \/ c \in {"hasWork"} \X Threads \X Scheds
    BY <1>1 DEF EventTypes
  <2>2. CASE c \in {"interrupt", "until"} \X Threads
    <3>1. c = <<c[1], t>> /\ c[1] \in {"interrupt", "until"}
      BY <2>2
    <3> QED
      BY <1>2, <3>1
  <2>3. CASE c \in {"hasWork"} \X Threads \X Scheds
    <3>1. c = <<"hasWork", t, c[3]>> /\ c[3] \in Scheds
      BY <2>3
    <3>2. c[3] \in Comes(t)
      BY <3>1 DEF Comes
    <3> QED
      BY <1>3, <3>2
  <2> QED
    BY <2>1, <2>2, <2>3
<1>5. affinity[t] = Home[t]
  BY <1>1 DEF ThreadOK, AffinityOK
<1> QED
  BY <1>2, <1>3, <1>4, <1>5 DEF Waits

LEMMA ListsHold == RunInv => ListsAgree
<1> SUFFICES ASSUME RunInv, NEW t \in Threads, InRun(t)
             PROVE  LET r == run[t]
                        Called(s) == r.lastState[s] # "Idle"
                    IN  /\ Range(r.active) \cup Range(r.idle) = Range(Enabled(held[t]))
                        /\ IsInjective(r.active \o r.idle)
                        /\ r.activeCount = Len(r.active) + Cardinality({s \in Range(r.idle) : Called(s)})
                        /\ r.polling = Cardinality({s \in Range(r.active) : r.lastState[s] = "Polling"})
                        /\ \A s \in Scheds :
                             (s \in Range(r.idle) /\ ~Called(s))
                               <=> (t \in onWork[s] \/ <<"hasWork", t, s>> \in calling)
                        /\ t \in dozing => pc[t] = "restWait" /\ r.activeCount = 0 /\ ~r.stop
  BY DEF ListsAgree
<1> DEFINE r == run[t]
<1>1. ThreadOK(t) /\ r \in RunRecords /\ pc[t] \in RunLabels
  BY DEF RunInv, RunTypes, InRun, RunLabels
<1>2. IsInjective(r.active \o r.idle)
  BY <1>1, RunFields, ConcatOne DEF ThreadOK, ListsOK
<1>3. /\ Range(r.active) \cup Range(r.idle) = Range(Enabled(held[t]))
      /\ \A s \in Scheds : (s \in Range(r.idle) /\ r.lastState[s] = "Idle")
                             <=> (t \in onWork[s] \/ <<"hasWork", t, s>> \in calling)
  BY <1>1 DEF ThreadOK, ListsOK, Awaited, Waits, Comes
<1>4. /\ r.activeCount = Len(r.active) + Cardinality({s \in Range(r.idle) : r.lastState[s] # "Idle"})
      /\ r.polling = Cardinality({s \in Range(r.active) : r.lastState[s] = "Polling"})
  BY <1>1 DEF ThreadOK, CountsOK, CalledOf, PollingOf
<1>5. t \in dozing => pc[t] = "restWait" /\ r.activeCount = 0 /\ ~r.stop
  BY <1>1 DEF ThreadOK, PlaceOK, RunLabels
<1> QED
  BY <1>2, <1>3, <1>4, <1>5

(* The counts of Run stay within their bounds: activeCount, which callbacks *)
(* of the has-work conditions raise while the thread looks elsewhere, never *)
(* exceeds the schedulers, and pollingCount never drops below zero.         *)
THEOREM MetaSchedulerTypeCorrect == Spec => []TypeOK
  BY RunInvariant, TypesHold, PTL

(* When Run has returned, no waiter of the thread is left on any event and  *)
(* no callback is on its way to its frame, and the thread is back on the    *)
(* processors it came from.                                                 *)
THEOREM RunIsCleanedUp == Spec => []RunLeavesNothing
  BY RunInvariant, NothingHolds, PTL

(* In the loop of Run, every scheduler is active, or idle with exactly one  *)
(* of: a waiter, a callback on its way, a callback that has come; the two   *)
(* counts agree with that, and nobody sleeps who has something to do.       *)
THEOREM SchedulersAreTracked == Spec => []ListsAgree
  BY RunInvariant, ListsHold, PTL

=============================================================================
