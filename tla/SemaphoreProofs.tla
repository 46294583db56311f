-------------------------- MODULE SemaphoreProofs --------------------------
(***************************************************************************)
(* Proofs about Semaphore for any finite set of threads, any number of     *)
(* calls, any initial count and any width of the tag.                      *)
(***************************************************************************)
EXTENDS SemaphoreInvariant, WaiterListProofs

-----------------------------------------------------------------------------
(* Counting *)

\* The elements of Units.
LEMMA UnitsAre ==
  ASSUME NEW f \in [Threads -> Nat]
  PROVE  \A r : r \in Units(f) <=> r \in Threads \X (Nat \ {0}) /\ r[2] <= f[r[1]]
<1>1. ASSUME NEW r, r \in Units(f)
      PROVE  r \in Threads \X (Nat \ {0}) /\ r[2] <= f[r[1]]
  <2>1. PICK t \in Threads : r \in {t} \X (1 .. f[t])
    BY <1>1 DEF Units
  <2> QED
    BY <2>1
<1>2. ASSUME NEW r \in Threads \X (Nat \ {0}), r[2] <= f[r[1]]
      PROVE  r \in Units(f)
  <2>1. r[1] \in DOMAIN f /\ r \in {r[1]} \X (1 .. f[r[1]])
    BY <1>2
  <2> QED
    BY <2>1 DEF Units
<1> QED
  BY <1>1, <1>2

\* One unit more.
LEMMA OneUnitMore ==
  ASSUME NEW f \in [Threads -> Nat], NEW t \in Threads, IsFiniteSet(Units(f))
  PROVE  LET g == [f EXCEPT ![t] = @ + 1]
         IN  /\ IsFiniteSet(Units(g)) /\ Sum(g) = Sum(f) + 1
<1> DEFINE g == [f EXCEPT ![t] = @ + 1]
           x == <<t, f[t] + 1>>
<1>1. Units(g) = Units(f) \cup {x} /\ x \notin Units(f)
  <2>1. \A r \in Threads \X (Nat \ {0}) :
          r[2] <= g[r[1]] <=> r[2] <= f[r[1]] \/ (r[1] = t /\ r[2] = f[t] + 1)
    OBVIOUS
  <2>2. \A r \in Threads \X (Nat \ {0}) : r = x <=> r[1] = t /\ r[2] = f[t] + 1
    OBVIOUS
  <2>3. x \in Threads \X (Nat \ {0}) /\ ~(x[2] <= f[x[1]])
    OBVIOUS
  <2>4. /\ \A r : r \in Units(f) <=> r \in Threads \X (Nat \ {0}) /\ r[2] <= f[r[1]]
        /\ \A r : r \in Units(g) <=> r \in Threads \X (Nat \ {0}) /\ r[2] <= g[r[1]]
    <3>1. g \in [Threads -> Nat]
      OBVIOUS
    <3> HIDE DEF g
    <3> QED
      BY <3>1, UnitsAre
  <2> HIDE DEF g, x
  <2> QED
    BY <2>1, <2>2, <2>3, <2>4
<1> HIDE DEF g, x
<1>2. Cardinality(Units(f) \cup {x}) = Cardinality(Units(f)) + 1
  BY <1>1, FS_AddElement
<1>3. IsFiniteSet(Units(f) \cup {x})
  BY FS_AddElement
<1>4. IsFiniteSet(Units(g)) /\ Sum(g) = Sum(f) + 1
  BY <1>1, <1>2, <1>3 DEF Sum
<1> QED
  BY <1>4 DEF g

\* One unit less.
LEMMA OneUnitLess ==
  ASSUME NEW f \in [Threads -> Nat], NEW t \in Threads, f[t] > 0, IsFiniteSet(Units(f))
  PROVE  LET g == [f EXCEPT ![t] = @ - 1]
         IN  /\ g \in [Threads -> Nat]
             /\ IsFiniteSet(Units(g)) /\ Sum(g) = Sum(f) - 1
<1> DEFINE g == [f EXCEPT ![t] = @ - 1]
<1>1. g \in [Threads -> Nat]
  OBVIOUS
<1>2. f = [g EXCEPT ![t] = @ + 1]
  <2>1. \A u \in Threads : f[u] = IF u = t THEN g[u] + 1 ELSE g[u]
    OBVIOUS
  <2> HIDE DEF g
  <2> QED
    BY <1>1, <2>1
<1>3. Units(g) \subseteq Units(f)
  <2>1. \A r \in Threads \X (Nat \ {0}) : r[2] <= g[r[1]] => r[2] <= f[r[1]]
    OBVIOUS
  <2> HIDE DEF g
  <2> QED
    BY <1>1, <2>1, UnitsAre
<1> HIDE DEF g
<1>4. IsFiniteSet(Units(g))
  BY <1>3, FS_Subset
<1>5. Sum(f) = Sum(g) + 1
  BY <1>1, <1>2, <1>4, OneUnitMore
<1>6. Sum(g) \in Nat
  BY <1>4, FS_CardinalityType DEF Sum
<1> QED
  BY <1>1, <1>4, <1>5, <1>6 DEF g

\* No unit at all.
LEMMA NoUnits ==
  LET zero == [t \in Threads |-> 0]
  IN  zero \in [Threads -> Nat] /\ IsFiniteSet(Units(zero)) /\ Sum(zero) = 0
<1> DEFINE zero == [t \in Threads |-> 0]
<1>1. zero \in [Threads -> Nat] /\ \A r \in Threads \X (Nat \ {0}) : ~(r[2] <= zero[r[1]])
  OBVIOUS
<1> HIDE DEF zero
<1>2. Units(zero) = {}
  BY <1>1, UnitsAre
<1>3. IsFiniteSet(Units(zero)) /\ Sum(zero) = 0
  BY <1>2, FS_EmptySet DEF Sum
<1> QED
  BY <1>1, <1>3 DEF zero

\* The threads that are at one of the labels of L, if p says where each thread is.
At(p, L) == {u \in Threads : p[u] \in L}

In(l, L) == IF l \in L THEN 1 ELSE 0

\* A thread moves from one label to another one.
LEMMA Moved ==
  ASSUME NEW p \in [Threads -> SemaphoreLabels], NEW l \in SemaphoreLabels, NEW t \in Threads,
         NEW q, \A u \in Threads : q[u] = IF u = t THEN l ELSE p[u], NEW L
  PROVE  /\ Cardinality(At(p, L)) \in Nat /\ Cardinality(At(q, L)) \in Nat
         /\ Cardinality(At(q, L)) = Cardinality(At(p, L)) + In(l, L) - In(p[t], L)
<1>1. IsFiniteSet(At(p, L)) /\ IsFiniteSet(At(q, L))
  BY WaiterListAssumption, FS_Subset DEF At
<1>2. Cardinality(At(p, L)) \in Nat /\ Cardinality(At(q, L)) \in Nat
  BY <1>1, FS_CardinalityType
<1>4. CASE l \in L /\ p[t] \notin L
  <2>1. At(q, L) = At(p, L) \cup {t} /\ t \notin At(p, L)
    BY <1>4 DEF At
  <2>2. Cardinality(At(p, L) \cup {t}) = Cardinality(At(p, L)) + 1
    BY <1>1, <2>1, FS_AddElement
  <2>3. In(l, L) = 1 /\ In(p[t], L) = 0
    BY <1>4 DEF In
  <2>4. Cardinality(At(q, L)) = Cardinality(At(p, L)) + 1
    BY <2>1, <2>2
  <2> QED
    BY <1>2, <2>3, <2>4
<1>5. CASE l \notin L /\ p[t] \in L
  <2>1. At(p, L) = At(q, L) \cup {t} /\ t \notin At(q, L)
    BY <1>5 DEF At
  <2>2. Cardinality(At(q, L) \cup {t}) = Cardinality(At(q, L)) + 1
    BY <1>1, <2>1, FS_AddElement
  <2>3. Cardinality(At(q, L)) \in Nat
    BY <1>1, FS_CardinalityType
  <2> QED
    BY <1>2, <1>5, <2>1, <2>2, <2>3 DEF In
<1>6. CASE (l \in L) = (p[t] \in L)
  <2>1. At(p, L) = At(q, L)
    BY <1>6 DEF At
  <2>2. In(l, L) = In(p[t], L) /\ In(l, L) \in Nat
    BY <1>6 DEF In
  <2> QED
    BY <1>2, <2>1, <2>2
<1> QED
  BY <1>2, <1>4, <1>5, <1>6

\* A union has at most as many elements as its parts together.
LEMMA AtMost ==
  ASSUME NEW A, NEW B, IsFiniteSet(A), IsFiniteSet(B)
  PROVE  IsFiniteSet(A \cup B) /\ Cardinality(A \cup B) <= Cardinality(A) + Cardinality(B)
<1>1. /\ IsFiniteSet(A \cup B) /\ IsFiniteSet(A \cap B)
      /\ Cardinality(A \cup B) = Cardinality(A) + Cardinality(B) - Cardinality(A \cap B)
  BY FS_Union, FS_Intersection
<1>2. /\ Cardinality(A) \in Nat /\ Cardinality(B) \in Nat /\ Cardinality(A \cap B) \in Nat
  BY <1>1, FS_CardinalityType
<1> QED
  BY <1>1, <1>2

\* The values of a function are at most as many as its arguments.
LEMMA ImageBound ==
  ASSUME NEW S, IsFiniteSet(S), NEW f, NEW T, f \in [S -> T], \A y \in T : \E x \in S : f[x] = y
  PROVE  IsFiniteSet(T) /\ Cardinality(T) <= Cardinality(S)
<1>1. f \in Surjection(S, T)
  BY DEF Surjection
<1> QED
  BY <1>1, FS_Surjection

-----------------------------------------------------------------------------
(* Permits *)

CountTypes ==
  /\ mCount \in Int /\ pc \in [Threads -> SemaphoreLabels]
  /\ posted \in [Threads -> Nat] /\ posts \in [Threads -> Nat] /\ acquired \in [Threads -> Nat]
  /\ IsFiniteSet(Units(posted)) /\ IsFiniteSet(Units(posts)) /\ IsFiniteSet(Units(acquired))

ServingLabels == {"postLoad", "postSpin", "postReadNext", "postPop", "postNotify"}

\* A Post that has seen a negative counter, and has not notified a waiter yet.
Serving == At(pc, ServingLabels)

Signaled == At(pc, {"signaled"})

Left == IF mCount > 0 THEN mCount ELSE 0

(* Where the permits are: with a wait that has got one, with one that is    *)
(* about to return, in a post of a thread's own semaphore, with a Post that *)
(* looks for a waiter, or in the counter.  A Post that finds no waiter      *)
(* drops its permit, which is why this is no equation.                      *)
PermitsAccounted ==
  Sum(acquired) + Cardinality(Signaled) + Sum(posted) + Cardinality(Serving) + Left <= Permits

CountInv == CountTypes /\ PermitsAccounted

\* How a step of t changes the numbers of the threads.
LEMMA Numbers ==
  ASSUME CountTypes, NEW t \in Threads, NEW l \in SemaphoreLabels, Goto(t, l)
  PROVE  /\ pc' \in [Threads -> SemaphoreLabels]
         /\ Cardinality(Signaled) \in Nat /\ Cardinality(Serving) \in Nat
         /\ Cardinality(Signaled)' \in Nat /\ Cardinality(Serving)' \in Nat
         /\ Cardinality(Signaled)'
              = Cardinality(Signaled) + In(l, {"signaled"}) - In(pc[t], {"signaled"})
         /\ Cardinality(Serving)'
              = Cardinality(Serving) + In(l, ServingLabels) - In(pc[t], ServingLabels)
<1>1. pc \in [Threads -> SemaphoreLabels] /\ pc' = [pc EXCEPT ![t] = l]
  BY DEF Goto, CountTypes
<1>2. pc' \in [Threads -> SemaphoreLabels]
  BY <1>1
<1>3. ASSUME NEW L
      PROVE  /\ Cardinality(At(pc, L)) \in Nat /\ Cardinality(At(pc', L)) \in Nat
             /\ Cardinality(At(pc', L))
                  = Cardinality(At(pc, L)) + In(l, L) - In(pc[t], L)
  <2>1. PICK p, q : /\ p = pc /\ q = pc' /\ p \in [Threads -> SemaphoreLabels]
                    /\ \A u \in Threads : q[u] = IF u = t THEN l ELSE p[u]
    BY <1>1
  <2>2. /\ Cardinality(At(p, L)) \in Nat /\ Cardinality(At(q, L)) \in Nat
        /\ Cardinality(At(q, L)) = Cardinality(At(p, L)) + In(l, L) - In(p[t], L)
    BY <2>1, Moved
  <2> QED
    BY <2>1, <2>2
<1> QED
  BY <1>2, <1>3 DEF Signaled, Serving, ServingLabels

\* A step that moves a thread, and nothing else that the accounts know of.
LEMMA MoveOnly ==
  ASSUME CountInv, NEW t \in Threads, NEW l \in SemaphoreLabels, Goto(t, l),
         UNCHANGED <<mCount, posts, acquired, posted>>,
         l # "signaled", l \in ServingLabels => pc[t] \in ServingLabels
  PROVE  CountInv'
<1>1. CountTypes'
  BY Numbers DEF CountInv, CountTypes
<1>3. /\ Cardinality(Signaled)' <= Cardinality(Signaled)
      /\ Cardinality(Serving)' <= Cardinality(Serving)
      /\ Cardinality(Signaled)' \in Nat /\ Cardinality(Serving)' \in Nat
      /\ Cardinality(Signaled) \in Nat /\ Cardinality(Serving) \in Nat
  BY Numbers DEF CountInv, In
<1>4. /\ Sum(acquired) \in Nat /\ Sum(posted) \in Nat /\ Permits \in Nat /\ Left \in Nat
  BY FS_CardinalityType, SemaphoreAssumption DEF CountInv, CountTypes, Sum, Permits, Left
<1>5. /\ Sum(acquired)' = Sum(acquired) /\ Sum(posted)' = Sum(posted)
      /\ Permits' = Permits /\ Left' = Left
  BY DEF Permits, Left
<1>6. PermitsAccounted'
  BY <1>3, <1>4, <1>5 DEF CountInv, PermitsAccounted
<1> QED
  BY <1>1, <1>6 DEF CountInv

\* The numbers are numbers.
LEMMA CountsAreNaturals ==
  ASSUME CountInv
  PROVE  /\ Sum(acquired) \in Nat /\ Sum(posted) \in Nat /\ Sum(posts) \in Nat
         /\ InitialCount \in Nat /\ Left \in Nat
  BY FS_CardinalityType, SemaphoreAssumption DEF CountInv, CountTypes, Sum, Left

\* A wait takes a permit from the counter, or none is left and it goes to the list.
LEMMA DecrementInv ==
  ASSUME CountInv, NEW t \in Threads, AddDecrement(t)
  PROVE  CountInv'
<1> DEFINE l == IF mCount > 0 THEN "signaled" ELSE "addLoad"
<1>1. /\ Goto(t, l) /\ l \in SemaphoreLabels /\ l \notin ServingLabels /\ pc[t] = "idle"
      /\ "idle" \notin ServingLabels /\ mCount \in Int /\ mCount' = mCount - 1
      /\ UNCHANGED <<posted, posts, acquired>>
  BY DEF AddDecrement, StartRound, SemaphoreLabels, ClientLabels, ServingLabels, CountInv,
         CountTypes
<1>2. l = "signaled" <=> mCount > 0
  OBVIOUS
<1> HIDE DEF l
<1>3. /\ pc' \in [Threads -> SemaphoreLabels]
      /\ Cardinality(Signaled) \in Nat /\ Cardinality(Serving) \in Nat
      /\ Cardinality(Signaled)' = Cardinality(Signaled) + (IF mCount > 0 THEN 1 ELSE 0)
      /\ Cardinality(Serving)' = Cardinality(Serving)
  BY <1>1, <1>2, Numbers DEF In, CountInv
<1>4. Left' + (IF mCount > 0 THEN 1 ELSE 0) = Left
  BY <1>1 DEF Left
<1>5. /\ Sum(acquired)' = Sum(acquired) /\ Sum(posted)' = Sum(posted) /\ Permits' = Permits
      /\ Left' \in Nat
  BY <1>1 DEF Permits, Left
<1>6. CountTypes'
  BY <1>1, <1>3 DEF CountInv, CountTypes
<1>7. PermitsAccounted'
  BY <1>3, <1>4, <1>5, CountsAreNaturals DEF CountInv, PermitsAccounted, Permits
<1> QED
  BY <1>6, <1>7 DEF CountInv

\* A Post adds a permit to the counter, or is going to look for a waiter.
LEMMA IncrementInv ==
  ASSUME CountInv, NEW t \in Threads, PostIncrement(t)
  PROVE  CountInv'
<1> DEFINE l == IF mCount < 0 THEN "postLoad" ELSE "idle"
<1>1. /\ Goto(t, l) /\ l \in SemaphoreLabels /\ l # "signaled" /\ pc[t] = "idle"
      /\ "idle" \notin ServingLabels /\ mCount \in Int /\ mCount' = mCount + 1
      /\ posts' = [posts EXCEPT ![t] = @ + 1] /\ UNCHANGED <<posted, acquired>>
      /\ (l \in ServingLabels <=> mCount < 0)
  BY DEF PostIncrement, StartRound, SemaphoreLabels, ClientLabels, ServingLabels, CountInv,
         CountTypes
<1> HIDE DEF l
<1>3. /\ pc' \in [Threads -> SemaphoreLabels]
      /\ Cardinality(Signaled) \in Nat /\ Cardinality(Serving) \in Nat
      /\ Cardinality(Signaled)' = Cardinality(Signaled)
      /\ Cardinality(Serving)' = Cardinality(Serving) + (IF mCount < 0 THEN 1 ELSE 0)
  BY <1>1, Numbers DEF In, CountInv
<1>4. Left' + (IF mCount < 0 THEN 1 ELSE 0) = Left + 1 /\ Left' \in Nat
  BY <1>1 DEF Left
<1>5. /\ posts' \in [Threads -> Nat] /\ IsFiniteSet(Units(posts)')
      /\ Sum(posts)' = Sum(posts) + 1
  <2>1. posts \in [Threads -> Nat] /\ IsFiniteSet(Units(posts))
    BY DEF CountInv, CountTypes
  <2>2. IsFiniteSet(Units(posts')) /\ Sum(posts') = Sum(posts) + 1
    BY <1>1, <2>1, OneUnitMore
  <2> QED
    BY <1>1, <2>1, <2>2
<1>6. CountTypes'
  BY <1>1, <1>3, <1>5 DEF CountInv, CountTypes
<1>7. /\ Sum(acquired)' = Sum(acquired) /\ Sum(posted)' = Sum(posted)
      /\ Permits' = Permits + 1
  BY <1>1, <1>5, CountsAreNaturals DEF Permits
<1>8. PermitsAccounted'
  BY <1>3, <1>4, <1>7, CountsAreNaturals DEF CountInv, PermitsAccounted, Permits
<1> QED
  BY <1>6, <1>8 DEF CountInv

\* A Post hands its permit to the waiter that it has taken off the list.
LEMMA NotifyInv ==
  ASSUME CountInv, NEW t \in Threads, PostNotify(t)
  PROVE  CountInv'
<1>1. /\ Goto(t, "idle") /\ "idle" \in SemaphoreLabels /\ pc[t] = "postNotify"
      /\ "idle" \notin ServingLabels /\ "postNotify" \in ServingLabels
      /\ UNCHANGED <<mCount, posts, acquired>>
  BY DEF PostNotify, SemaphoreLabels, ClientLabels, ServingLabels
<1>3. /\ pc' \in [Threads -> SemaphoreLabels]
      /\ Cardinality(Signaled) \in Nat /\ Cardinality(Serving) \in Nat
      /\ Cardinality(Signaled)' = Cardinality(Signaled)
      /\ Cardinality(Serving)' = Cardinality(Serving) - 1
      /\ Cardinality(Serving)' \in Nat
  BY <1>1, Numbers DEF In, CountInv
<1>5. /\ posted' \in [Threads -> Nat] /\ IsFiniteSet(Units(posted)')
      /\ Sum(posted)' \in {Sum(posted), Sum(posted) + 1}
  <2>1. posted \in [Threads -> Nat] /\ IsFiniteSet(Units(posted))
    BY DEF CountInv, CountTypes
  <2>2. CASE head[t].ptr \in Threads
    <3>1. posted' = [posted EXCEPT ![head[t].ptr] = @ + 1]
      BY DEF PostNotify, Notify
    <3>2. IsFiniteSet(Units(posted')) /\ Sum(posted') = Sum(posted) + 1
      BY <2>1, <2>2, <3>1, OneUnitMore
    <3>3. posted' \in [Threads -> Nat]
      BY <2>1, <2>2, <3>1
    <3> QED
      BY <3>2, <3>3
  <2>3. CASE head[t].ptr \notin Threads
    <3>1. posted' = posted
      BY <2>1, <2>3 DEF PostNotify, Notify
    <3> QED
      BY <2>1, <3>1
  <2> QED
    BY <2>2, <2>3
<1>6. CountTypes'
  BY <1>1, <1>3, <1>5 DEF CountInv, CountTypes
<1>7. Sum(acquired)' = Sum(acquired) /\ Permits' = Permits /\ Left' = Left
  BY <1>1 DEF Permits, Left
<1>8. PermitsAccounted'
  BY <1>3, <1>5, <1>7, CountsAreNaturals DEF CountInv, PermitsAccounted, Permits
<1> QED
  BY <1>6, <1>8 DEF CountInv

\* A wait takes the post of its own semaphore, and returns with the permit.
LEMMA AwaitInv ==
  ASSUME CountInv, NEW t \in Threads, AwaitNotify(t), UNCHANGED <<mCount, posts, acquired>>
  PROVE  CountInv'
<1>1. /\ Goto(t, "signaled") /\ "signaled" \in SemaphoreLabels /\ pc[t] # "signaled"
      /\ "signaled" \notin ServingLabels /\ pc[t] \notin ServingLabels /\ posted[t] > 0
      /\ posted' = [posted EXCEPT ![t] = @ - 1]
  BY DEF AwaitNotify, SemaphoreLabels, ClientLabels, ServingLabels
<1>3. /\ pc' \in [Threads -> SemaphoreLabels]
      /\ Cardinality(Signaled) \in Nat /\ Cardinality(Serving) \in Nat
      /\ Cardinality(Signaled)' = Cardinality(Signaled) + 1
      /\ Cardinality(Serving)' = Cardinality(Serving)
  BY <1>1, Numbers DEF In, CountInv
<1>5. /\ posted' \in [Threads -> Nat] /\ IsFiniteSet(Units(posted)')
      /\ Sum(posted)' = Sum(posted) - 1
  <2>1. posted \in [Threads -> Nat] /\ IsFiniteSet(Units(posted))
    BY DEF CountInv, CountTypes
  <2> QED
    BY <1>1, <2>1, OneUnitLess
<1>6. CountTypes'
  BY <1>1, <1>3, <1>5 DEF CountInv, CountTypes
<1>7. Sum(acquired)' = Sum(acquired) /\ Permits' = Permits /\ Left' = Left
  BY DEF Permits, Left
<1>8. PermitsAccounted'
  BY <1>3, <1>5, <1>7, CountsAreNaturals DEF CountInv, PermitsAccounted, Permits
<1> QED
  BY <1>6, <1>8 DEF CountInv

\* A wait that returns has got its permit.
LEMMA ReturnInv ==
  ASSUME CountInv, NEW t \in Threads, WaitReturns(t)
  PROVE  CountInv'
<1>1. /\ Goto(t, "idle") /\ "idle" \in SemaphoreLabels /\ pc[t] = "signaled"
      /\ {"idle", "signaled"} \cap ServingLabels = {}
      /\ acquired' = [acquired EXCEPT ![t] = @ + 1] /\ UNCHANGED <<mCount, posts, posted>>
  BY DEF WaitReturns, SemaphoreLabels, ClientLabels, ServingLabels
<1>3. /\ pc' \in [Threads -> SemaphoreLabels]
      /\ Cardinality(Signaled) \in Nat /\ Cardinality(Serving) \in Nat
      /\ Cardinality(Signaled)' = Cardinality(Signaled) - 1
      /\ Cardinality(Serving)' = Cardinality(Serving)
  BY <1>1, Numbers DEF In, CountInv
<1>5. /\ acquired' \in [Threads -> Nat] /\ IsFiniteSet(Units(acquired)')
      /\ Sum(acquired)' = Sum(acquired) + 1
  <2>1. acquired \in [Threads -> Nat] /\ IsFiniteSet(Units(acquired))
    BY DEF CountInv, CountTypes
  <2>2. IsFiniteSet(Units(acquired')) /\ Sum(acquired') = Sum(acquired) + 1
    BY <1>1, <2>1, OneUnitMore
  <2> QED
    BY <1>1, <2>1, <2>2
<1>6. CountTypes'
  BY <1>1, <1>3, <1>5 DEF CountInv, CountTypes
<1>7. Sum(posted)' = Sum(posted) /\ Permits' = Permits /\ Left' = Left
  BY <1>1 DEF Permits, Left
<1>8. PermitsAccounted'
  BY <1>3, <1>5, <1>7, CountsAreNaturals DEF CountInv, PermitsAccounted, Permits
<1> QED
  BY <1>6, <1>8 DEF CountInv

\* The steps of AddWaiter and Post on the list.
LEMMA ListWorkInv ==
  ASSUME CountInv, NEW t \in Threads,
         \/ AddLoad(t) \/ AddLink(t) \/ AddPush(t)
         \/ PostLoad(t) \/ PostSpin(t) \/ PostReadNext(t) \/ PostPop(t)
  PROVE  CountInv'
<1>1. /\ UNCHANGED <<mCount, posts, acquired, posted>>
      /\ \E l \in {"addLink", "addPush", "waiting", "idle"} \cup ServingLabels :
           Goto(t, l) /\ (l \in ServingLabels => pc[t] \in ServingLabels)
  BY DEF AddLoad, AddLink, AddPush, PostLoad, PostSpin, PostReadNext, PostPop, PostBranch,
         CompareAndSwap, ServingLabels
<1>2. PICK l \in {"addLink", "addPush", "waiting", "idle"} \cup ServingLabels :
        Goto(t, l) /\ (l \in ServingLabels => pc[t] \in ServingLabels)
  BY <1>1
<1>3. l \in SemaphoreLabels /\ l # "signaled"
  BY DEF SemaphoreLabels, ServingLabels, ClientLabels
<1> QED
  BY <1>1, <1>2, <1>3, MoveOnly

\* The steps of RemoveWaiter, and the one that begins it.
LEMMA RemoveInv ==
  ASSUME CountInv, NEW t \in Threads, StartRemove(t) \/ RemoveWaiter(t),
         UNCHANGED <<mCount, posts, rounds, acquired>>
  PROVE  CountInv'
<1>1. /\ UNCHANGED posted
      /\ UNCHANGED pc \/ \E l \in RemoveLabels \cup {"idle", "inFlight"} : Goto(t, l)
  BY DEF StartRemove, RemoveWaiter, RemoveLoad, RemoveReadNext, RemovePop, RemoveLock, RemoveScan,
         RemoveUnlock, RemoveBranch, CompareAndSwap, RemoveLabels
<1>2. ASSUME NEW l \in RemoveLabels \cup {"idle", "inFlight"}, Goto(t, l)
      PROVE  CountInv'
  <2>1. l \in SemaphoreLabels /\ l # "signaled" /\ l \notin ServingLabels
    BY DEF SemaphoreLabels, ServingLabels, ClientLabels, RemoveLabels
  <2> QED
    BY <1>1, <1>2, <2>1, MoveOnly
<1>3. CASE UNCHANGED pc
  BY <1>1, <1>3 DEF CountInv, CountTypes, PermitsAccounted, Signaled, Serving, Left, Permits
<1> QED
  BY <1>1, <1>2, <1>3

\* The constructor leaves all permits in the counter.
LEMMA CountInit == Init => CountInv
<1> SUFFICES ASSUME Init
             PROVE  CountInv
  OBVIOUS
<1> DEFINE zero == [t \in Threads |-> 0]
<1>1. /\ mCount = InitialCount /\ pc = [t \in Threads |-> "idle"]
      /\ posts = zero /\ acquired = zero /\ posted = zero
  BY DEF Init, ListInit
<1>2. zero \in [Threads -> Nat] /\ IsFiniteSet(Units(zero)) /\ Sum(zero) = 0
  BY NoUnits
<1> HIDE DEF zero
<1>3. Signaled = {} /\ Serving = {}
  BY <1>1 DEF Signaled, Serving, At, ServingLabels
<1>4. Cardinality(Signaled) = 0 /\ Cardinality(Serving) = 0
  BY <1>3, FS_EmptySet
<1>5. pc \in [Threads -> SemaphoreLabels]
  BY <1>1 DEF SemaphoreLabels, ClientLabels
<1>6. mCount \in Int /\ Left = InitialCount /\ InitialCount \in Nat
  BY <1>1, SemaphoreAssumption DEF Left
<1>7. CountTypes
  BY <1>1, <1>2, <1>5, <1>6 DEF CountTypes
<1>8. PermitsAccounted
  BY <1>1, <1>2, <1>4, <1>6 DEF PermitsAccounted, Permits
<1> QED
  BY <1>7, <1>8 DEF CountInv

\* Every step keeps the accounts.
LEMMA CountNext == CountInv /\ [Next]_semaphoreVars => CountInv'
<1> SUFFICES ASSUME CountInv, [Next]_semaphoreVars
             PROVE  CountInv'
  OBVIOUS
<1>1. ASSUME NEW t \in Threads, Step(t)
      PROVE  CountInv'
  <2>1. CASE AddWaiter(t)
    BY <2>1, DecrementInv, ListWorkInv DEF AddWaiter
  <2>2. CASE Post(t)
    BY <2>2, IncrementInv, ListWorkInv, NotifyInv DEF Post
  <2>3. CASE WaitReturns(t)
    BY <2>3, ReturnInv
  <2>4. CASE ListStep(t)
    BY <2>4, AwaitInv, RemoveInv DEF ListStep
  <2> QED
    BY <1>1, <2>1, <2>2, <2>3, <2>4 DEF Step
<1>2. CASE UNCHANGED semaphoreVars
  BY <1>2 DEF semaphoreVars, listVars, CountInv, CountTypes, PermitsAccounted, Signaled, Serving,
              Left, Permits
<1> QED
  BY <1>1, <1>2 DEF Next

\* The waits that have a permit coming are served by a post or by a Post.
LEMMA GrantsBound ==
  ASSUME CountInv
  PROVE  LET G == {t \in Threads : pc[t] = "signaled" \/ Granted(t)}
         IN  Cardinality(G) <= Cardinality(Signaled) + Sum(posted) + Cardinality(Serving)
<1> DEFINE G == {t \in Threads : pc[t] = "signaled" \/ Granted(t)}
           P == {t \in Threads : posted[t] > 0}
           N == At(pc, {"postNotify"})
           H == {head[u].ptr : u \in N}
<1>1. G \subseteq Signaled \cup P \cup H
  BY DEF Signaled, At, Granted
<1>2. IsFiniteSet(P) /\ Cardinality(P) <= Sum(posted)
  <2> DEFINE f == [r \in Units(posted) |-> r[1]]
  <2>0. posted \in [Threads -> Nat] /\ IsFiniteSet(Units(posted))
    BY DEF CountInv, CountTypes
  <2>1. \A r : r \in Units(posted) <=> r \in Threads \X (Nat \ {0}) /\ r[2] <= posted[r[1]]
    BY <2>0, UnitsAre
  <2>2. f \in [Units(posted) -> P]
    BY <2>0, <2>1
  <2>3. ASSUME NEW t \in P
        PROVE  \E r \in Units(posted) : f[r] = t
    <3>1. <<t, 1>> \in Units(posted)
      BY <2>0, <2>1
    <3> QED
      BY <3>1
  <2> HIDE DEF f, P
  <2> QED
    BY <2>0, <2>2, <2>3, ImageBound DEF Sum
<1>3. IsFiniteSet(N) /\ IsFiniteSet(Serving) /\ IsFiniteSet(Signaled)
  BY WaiterListAssumption, FS_Subset DEF At, Serving, Signaled
<1>4. IsFiniteSet(H) /\ Cardinality(H) <= Cardinality(N)
  <2> DEFINE f == [u \in N |-> head[u].ptr]
  <2>1. f \in [N -> H] /\ \A y \in H : \E u \in N : f[u] = y
    OBVIOUS
  <2> HIDE DEF f, H, N
  <2> QED
    BY <1>3, <2>1, ImageBound
<1>5. N \subseteq Serving
  BY DEF At, Serving, ServingLabels
<1> HIDE DEF P, N, H
<1>6. Cardinality(N) <= Cardinality(Serving)
  BY <1>3, <1>5, FS_Subset
<1>7. /\ IsFiniteSet(Signaled \cup P) /\ IsFiniteSet((Signaled \cup P) \cup H)
      /\ Cardinality(Signaled \cup P) <= Cardinality(Signaled) + Cardinality(P)
      /\ Cardinality((Signaled \cup P) \cup H) <= Cardinality(Signaled \cup P) + Cardinality(H)
  BY <1>2, <1>3, <1>4, AtMost
<1> HIDE DEF G
<1>8. IsFiniteSet(G) /\ Cardinality(G) <= Cardinality((Signaled \cup P) \cup H)
  BY <1>1, <1>7, FS_Subset
<1>9. /\ Cardinality(G) \in Nat /\ Cardinality(P) \in Nat /\ Cardinality(H) \in Nat
      /\ Cardinality(N) \in Nat /\ Cardinality(Signaled) \in Nat /\ Cardinality(Serving) \in Nat
      /\ Cardinality(Signaled \cup P) \in Nat /\ Cardinality((Signaled \cup P) \cup H) \in Nat
      /\ Sum(posted) \in Nat
  BY <1>2, <1>3, <1>4, <1>7, <1>8, FS_CardinalityType, CountsAreNaturals
<1>10. Cardinality(G) <= Cardinality(Signaled) + Sum(posted) + Cardinality(Serving)
  BY <1>2, <1>4, <1>6, <1>7, <1>8, <1>9
<1> QED
  BY <1>10 DEF G

-----------------------------------------------------------------------------
(* The list *)

\* A step of t leaves the place and the locals of the other threads alone.
Own(t) == \A u \in Threads \ {t} :
  pc'[u] = pc[u] /\ head'[u] = head[u] /\ cached'[u] = cached[u] /\ current'[u] = current[u]

\* What follows from the types.
LEMMA Facts ==
  ASSUME Types, NEW t \in Threads
  PROVE  /\ mWaiters \in Word /\ head[t] \in Word /\ cached[t] \in Pointers
         /\ current[t] \in Pointers /\ t \in Pointers /\ t # Null
         /\ mWaiters.ptr \in Pointers /\ head[t].ptr \in Pointers
         /\ mWaiters.aba \in Int /\ head[t].aba \in Int
         /\ mWaiters.lock \in BOOLEAN /\ head[t].lock \in BOOLEAN
         /\ {"idle", "waiting", "inFlight", "signaled", "addLoad", "addLink", "addPush",
             "postLoad", "postSpin", "postReadNext", "postPop", "postNotify", "removeLoad",
             "removeReadNext", "removePop", "removeLock", "removeScan", "unlockFound",
             "unlockNotFound"} \subseteq SemaphoreLabels
  BY WaiterListAssumption
  DEF Types, Word, Pointers, SemaphoreLabels, ClientLabels, RemoveLabels

\* Where a loop continues, and what it has seen when it does.
LEMMA Branches ==
  ASSUME NEW w \in Word, NEW t \in Threads
  PROVE  /\ RemoveBranch(t, w) \in {"inFlight", "removeLoad", "removeReadNext", "removeLock"}
         /\ RemoveBranch(t, w) = "inFlight" => w.ptr = Null
         /\ RemoveBranch(t, w) = "removeReadNext" => w.ptr = t /\ w.ptr # Null /\ ~w.lock
         /\ RemoveBranch(t, w) = "removeLock" => w.ptr # t /\ w.ptr # Null /\ ~w.lock
         /\ PostBranch(w) \in {"idle", "postSpin", "postReadNext"}
         /\ PostBranch(w) = "postSpin" => w.lock
         /\ PostBranch(w) = "postReadNext" => w.ptr # Null /\ ~w.lock
  BY DEF RemoveBranch, PostBranch, Word

\* A waiter with a permit coming waits.
LEMMA GrantedAwaits ==
  ASSUME GrantOK, NEW u \in Threads, Granted(u)
  PROVE  Awaits(u)
  BY DEF GrantOK, Granted

\* The thread that finds nobody on the list has a permit coming.
LEMMA NobodyLeft ==
  ASSUME NEW depth, Ordered(depth), NEW t \in Threads, Awaits(t), mWaiters.ptr = Null
  PROVE  Granted(t)
  BY DEF Ordered, InOrder, Enqueued

(* The copies of the other threads stay true if the word stays, and with it *)
(* the links of an unlocked list; if the word has a new tag; or if a locked *)
(* word is unlocked, since no copy has the tag of a locked word.            *)
LEMMA OthersKeep ==
  ASSUME Types, StateOK, NEW depth, Ordered(depth), NEW t \in Threads, Own(t), mWaiters' \in Word,
         \A w \in Threads \ {t} : w \notin Enqueued => next'[w] = next[w],
         \/ mWaiters' = mWaiters /\ (~mWaiters.lock => \A w \in Enqueued : next'[w] = next[w])
         \/ mWaiters'.aba = mWaiters.aba + 1
         \/ mWaiters'.aba = mWaiters.aba /\ mWaiters.lock /\ ~mWaiters'.lock
  PROVE  \A u \in Threads \ {t} : LocalOK(u)' /\ SnapshotOK(u)'
<1> SUFFICES ASSUME NEW u \in Threads, u # t
             PROVE  LocalOK(u)' /\ SnapshotOK(u)'
  OBVIOUS
<1>1. /\ pc'[u] = pc[u] /\ head'[u] = head[u] /\ cached'[u] = cached[u]
      /\ LocalOK(u) /\ SnapshotOK(u)
  BY DEF Own, StateOK
<1>2. LocalOK(u)'
  <2>1. pc[u] = "addPush" => next'[u] = next[u]
    BY DEF Enqueued, Awaits, RemoveLabels
  <2> QED
    BY <1>1, <2>1 DEF LocalOK
<1>3. SnapshotOK(u)'
  <2>1. /\ mWaiters.aba \in Int /\ head[u].aba \in Int /\ mWaiters'.aba \in Int
        /\ mWaiters'.lock \in BOOLEAN
    BY Facts DEF Word
  <2>2. CASE mWaiters' = mWaiters /\ (~mWaiters.lock => \A w \in Enqueued : next'[w] = next[w])
    <3>1. ASSUME pc[u] \in {"postPop", "removePop"}, mWaiters = head[u]
          PROVE  next'[head[u].ptr] = next[head[u].ptr]
      <4>1. ~head[u].lock /\ head[u].ptr # Null
        BY <1>1, <3>1 DEF LocalOK, SnapshotLabels
      <4>2. head[u].ptr \in Enqueued
        BY <3>1, <4>1 DEF Ordered, InOrder
      <4> QED
        BY <2>2, <3>1, <4>1, <4>2
    <3> QED
      BY <1>1, <2>2, <3>1 DEF SnapshotOK
  <2>3. CASE mWaiters'.aba = mWaiters.aba + 1
    <3>1. pc[u] \in SnapshotLabels => head[u].aba < mWaiters'.aba
      BY <1>1, <2>1, <2>3 DEF SnapshotOK
    <3> QED
      BY <1>1, <2>1, <3>1 DEF SnapshotOK, SnapshotLabels
  <2>4. CASE mWaiters'.aba = mWaiters.aba /\ mWaiters.lock /\ ~mWaiters'.lock
    <3>1. pc[u] \in SnapshotLabels => head[u].aba < mWaiters'.aba
      BY <1>1, <2>1, <2>4 DEF SnapshotOK
    <3> QED
      BY <1>1, <2>1, <3>1 DEF SnapshotOK, SnapshotLabels
  <2> QED
    BY <2>2, <2>3, <2>4
<1> QED
  BY <1>2, <1>3

\* A step that notifies nobody, and after which nobody is about to notify who was not before.
LEMMA GrantKeeps ==
  ASSUME NEW t \in Threads, Own(t), posted' = posted,
         pc[t] # "postNotify", pc'[t] # "postNotify"
  PROVE  \A u \in Threads : Granted(u)' <=> Granted(u)
<1>1. \A u \in Threads : pc'[u] = "postNotify" <=> pc[u] = "postNotify"
  BY DEF Own
<1>2. \A u \in Threads : pc[u] = "postNotify" => head'[u] = head[u]
  BY DEF Own
<1> QED
  BY <1>1, <1>2 DEF Granted

\* Such a step keeps the grants in order if t goes on waiting for its permit.
LEMMA GrantOKKeeps ==
  ASSUME GrantOK, NEW t \in Threads, Own(t), posted' = posted,
         pc[t] # "postNotify", pc'[t] # "postNotify",
         Granted(t) => Awaits(t)',
         pc'[t] \in {"inFlight", "unlockNotFound"} => Granted(t)
  PROVE  GrantOK'
<1>1. \A u \in Threads : Granted(u)' <=> Granted(u)
  BY GrantKeeps
<1>2. \A u \in Threads : Granted(u) => Awaits(u)'
  <2>1. \A u \in Threads : Granted(u) => Awaits(u)
    BY GrantedAwaits
  <2>2. \A u \in Threads \ {t} : Awaits(u) => Awaits(u)'
    BY DEF Own, Awaits
  <2> QED
    BY <2>1, <2>2
<1>3. ASSUME NEW u \in Threads, posted'[u] > 0
      PROVE  posted'[u] = 1 /\ Awaits(u)'
  BY <1>2, <1>3 DEF GrantOK, Granted
<1>4. \A u \in Threads : pc'[u] = "postNotify" => pc[u] = "postNotify" /\ head'[u] = head[u]
  BY DEF Own
<1>5. ASSUME NEW u \in Threads, pc'[u] = "postNotify"
      PROVE  (head[u].ptr \in Threads /\ Awaits(head[u].ptr) /\ posted[head[u].ptr] = 0)'
  <2>1. pc[u] = "postNotify" /\ head'[u] = head[u]
    BY <1>4, <1>5
  <2>2. PICK w \in Threads : w = head[u].ptr /\ posted[w] = 0
    BY <2>1 DEF GrantOK
  <2>3. Granted(w)
    BY <2>1, <2>2 DEF Granted
  <2>4. Awaits(w)'
    BY <1>2, <2>3
  <2>5. pc'[w] \in (RemoveLabels \ {"unlockFound"}) \cup {"waiting", "inFlight"}
    BY <2>4 DEF Awaits
  <2>6. head'[u].ptr = w /\ posted'[w] = 0
    BY <2>1, <2>2
  <2> QED
    BY <2>5, <2>6 DEF Awaits
<1>6. \A u, v \in Threads :
        pc'[u] = "postNotify" /\ pc'[v] = "postNotify" /\ head'[u].ptr = head'[v].ptr => u = v
  BY <1>4 DEF GrantOK
<1>7. ASSUME NEW u \in Threads, pc'[u] \in {"inFlight", "unlockNotFound"}
      PROVE  Granted(u)'
  <2>1. CASE u = t
    BY <1>1, <1>7, <2>1
  <2>2. CASE u # t
    <3>1. Granted(u)
      BY <1>7, <2>2 DEF Own, GrantOK
    <3> QED
      BY <1>1, <3>1
  <2> QED
    BY <2>1, <2>2
<1> QED
  BY <1>3, <1>5, <1>6, <1>7 DEF GrantOK

\* A step that starts and ends no scan, and keeps the lock bit.
LEMMA WordKeeps ==
  ASSUME WordOK, NEW t \in Threads, Own(t), t \in Scanners' <=> t \in Scanners,
         mWaiters'.lock = mWaiters.lock, mWaiters'.lock => mWaiters'.ptr # Null
  PROVE  WordOK'
<1>1. Scanners' = Scanners
  BY DEF Own, Scanners
<1> QED
  BY <1>1 DEF WordOK, Scanners

(* A step of t that leaves the word and the list alone, and of which only t *)
(* has to be looked at.                                                     *)
LEMMA QuietStep ==
  ASSUME Types, StateOK, NEW depth \in [Threads -> Int], Ordered(depth),
         NEW t \in Threads, Types', Own(t), UNCHANGED <<mWaiters, posted>>,
         \A w \in Threads \ {t} : next'[w] = next[w], Awaits(t) => next'[t] = next[t],
         Awaits(t)' <=> Awaits(t), pc[t] # "postNotify", pc'[t] # "postNotify",
         t \in Scanners' <=> t \in Scanners, LocalOK(t)', SnapshotOK(t)',
         pc'[t] \in {"inFlight", "unlockNotFound"} => Granted(t),
         pc'[t] = "removeScan" =>
           current'[t] \in Enqueued /\ (t \in Enqueued => depth[current'[t]] < depth[t])
  PROVE  ListInv'
<1>1. \A w \in Enqueued : next'[w] = next[w]
  BY DEF Enqueued
<1>2. \A u \in Threads \ {t} : LocalOK(u)' /\ SnapshotOK(u)'
  BY <1>1, Facts, OthersKeep
<1>3. GrantOK'
  BY GrantedAwaits, GrantOKKeeps DEF StateOK
<1>4. WordOK'
  BY WordKeeps DEF StateOK, WordOK
<1>5. Enqueued' = Enqueued
  <2>1. \A u \in Threads : Granted(u)' <=> Granted(u)
    BY GrantKeeps
  <2>2. \A u \in Threads : Awaits(u)' <=> Awaits(u)
    BY DEF Own, Awaits
  <2> QED
    BY <2>1, <2>2 DEF Enqueued
<1>6. InOrder(depth, Enqueued, mWaiters.ptr, next')
  BY <1>1 DEF Ordered, InOrder
<1>7. Ordered(depth)'
  BY <1>5, <1>6 DEF Ordered, Own
<1> QED
  BY <1>2, <1>3, <1>4, <1>7 DEF ListInv, StateOK

\* Where a thread goes, and what that says of it.
LEMMA Gone ==
  ASSUME Types, NEW t \in Threads, NEW l \in SemaphoreLabels, Goto(t, l)
  PROVE  /\ pc' \in [Threads -> SemaphoreLabels] /\ pc'[t] = l
         /\ \A u \in Threads \ {t} : pc'[u] = pc[u]
         /\ Awaits(t)' <=> l \in (RemoveLabels \ {"unlockFound"}) \cup {"waiting", "inFlight"}
         /\ t \in Scanners' <=> l \in {"removeScan", "unlockFound", "unlockNotFound"}
<1>1. pc \in [Threads -> SemaphoreLabels] /\ pc' = [pc EXCEPT ![t] = l]
  BY DEF Types, Goto
<1>2. /\ pc' \in [Threads -> SemaphoreLabels] /\ pc'[t] = l
      /\ \A u \in Threads \ {t} : pc'[u] = pc[u]
  BY <1>1
<1> QED
  BY <1>2 DEF Awaits, Scanners

\* A step between labels at which a thread has no copy of the word that it trusts.
LEMMA PlainMove ==
  ASSUME Types, StateOK, NEW depth \in [Threads -> Int], Ordered(depth),
         NEW t \in Threads, NEW l, Goto(t, l),
         UNCHANGED <<mWaiters, next, posted, head, cached, current>>,
         \/ pc[t] = "idle" /\ l \in {"idle", "signaled", "addLoad", "postLoad"}
         \/ pc[t] = "signaled" /\ l = "idle"
         \/ pc[t] = "waiting" /\ l = "removeLoad"
         \/ pc[t] = "postSpin" /\ l = PostBranch(head[t])
  PROVE  ListInv'
<1>1. /\ l \in {"idle", "signaled", "addLoad", "postLoad", "removeLoad", "postSpin"}
      /\ l = "removeLoad" <=> pc[t] = "waiting"
      /\ l = "postSpin" => head[t].lock
  BY Facts, Branches DEF StateOK, LocalOK
<1>2. l \in SemaphoreLabels
  BY <1>1, Facts
<1>3. /\ pc' \in [Threads -> SemaphoreLabels] /\ pc'[t] = l
      /\ \A u \in Threads \ {t} : pc'[u] = pc[u]
      /\ Awaits(t)' <=> l \in (RemoveLabels \ {"unlockFound"}) \cup {"waiting", "inFlight"}
      /\ t \in Scanners' <=> l \in {"removeScan", "unlockFound", "unlockNotFound"}
  BY <1>2, Gone
<1>4. Types' /\ Own(t)
  BY <1>3 DEF Types, Own
<1>5. Awaits(t)' <=> Awaits(t)
  BY <1>1, <1>3 DEF Awaits, RemoveLabels
<1>6. t \in Scanners' <=> t \in Scanners
  BY <1>1, <1>3 DEF Scanners
<1>7. LocalOK(t)' /\ SnapshotOK(t)'
  BY <1>1, <1>3 DEF LocalOK, SnapshotOK, SnapshotLabels
<1>8. /\ pc[t] # "postNotify" /\ pc'[t] \notin {"postNotify", "inFlight", "unlockNotFound"}
      /\ pc'[t] # "removeScan"
  BY <1>1, <1>3
<1> QED
  BY <1>4, <1>5, <1>6, <1>7, <1>8, QuietStep

\* A step that reads the word, and goes where the word says.
LEMMA ReadsWord ==
  ASSUME Types, StateOK, NEW depth \in [Threads -> Int], Ordered(depth),
         NEW t \in Threads, NEW l, Goto(t, l), head' = [head EXCEPT ![t] = mWaiters],
         UNCHANGED <<mWaiters, next, posted, cached>>, current' \in [Threads -> Pointers],
         \A u \in Threads \ {t} : current'[u] = current[u],
         \/ pc[t] \in {"addLoad", "addPush"} /\ l = "addLink"
         \/ pc[t] \in {"postLoad", "postPop"} /\ l = PostBranch(mWaiters)
         \/ pc[t] \in {"removeLoad", "removePop", "removeLock"} /\ l = RemoveBranch(t, mWaiters)
  PROVE  ListInv'
<1>1. /\ l \in {"addLink", "idle", "postSpin", "postReadNext", "inFlight", "removeLoad",
                "removeReadNext", "removeLock"}
      /\ l \in {"inFlight", "removeLoad", "removeReadNext", "removeLock"} <=>
           pc[t] \in {"removeLoad", "removePop", "removeLock"}
      /\ l \in {"postReadNext", "removeReadNext", "removeLock"} =>
           ~mWaiters.lock /\ mWaiters.ptr # Null
      /\ l = "removeReadNext" => mWaiters.ptr = t
      /\ l = "removeLock" => mWaiters.ptr # t
      /\ l = "postSpin" => mWaiters.lock
      /\ l = "inFlight" => mWaiters.ptr = Null
      /\ pc[t] \in {"addLoad", "addPush", "postLoad", "postPop", "removeLoad", "removePop",
                    "removeLock"}
  BY Facts, Branches
<1>2. l \in SemaphoreLabels /\ mWaiters.aba \in Int
  BY <1>1, Facts
<1>3. /\ pc' \in [Threads -> SemaphoreLabels] /\ pc'[t] = l
      /\ \A u \in Threads \ {t} : pc'[u] = pc[u]
      /\ Awaits(t)' <=> l \in (RemoveLabels \ {"unlockFound"}) \cup {"waiting", "inFlight"}
      /\ t \in Scanners' <=> l \in {"removeScan", "unlockFound", "unlockNotFound"}
  BY <1>2, Gone
<1>4. head' \in [Threads -> Word] /\ head'[t] = mWaiters
  BY Facts DEF Types
<1>5. Types' /\ Own(t)
  BY <1>3, <1>4 DEF Types, Own
<1>6. Awaits(t)' <=> Awaits(t)
  BY <1>1, <1>3 DEF Awaits, RemoveLabels
<1>7. t \in Scanners' <=> t \in Scanners
  BY <1>1, <1>3 DEF Scanners
<1>8. LocalOK(t)' /\ SnapshotOK(t)'
  BY <1>1, <1>2, <1>3, <1>4 DEF LocalOK, SnapshotOK, SnapshotLabels
<1>9. /\ pc[t] # "postNotify" /\ pc'[t] \notin {"postNotify", "unlockNotFound"}
      /\ pc'[t] # "removeScan"
  BY <1>1, <1>3
<1>10. pc'[t] = "inFlight" => Granted(t)
  <2>1. l = "inFlight" => Awaits(t)
    BY <1>1 DEF Awaits, RemoveLabels
  <2> QED
    BY <1>1, <1>3, <2>1, NobodyLeft
<1> QED
  BY <1>5, <1>6, <1>7, <1>8, <1>9, <1>10, QuietStep

\* A step that reads the next pointer of the first waiter.
LEMMA ReadsNext ==
  ASSUME Types, StateOK, NEW depth \in [Threads -> Int], Ordered(depth),
         NEW t \in Threads, NEW l, Goto(t, l), cached' = [cached EXCEPT ![t] = next[head[t].ptr]],
         UNCHANGED <<mWaiters, next, posted, head, current>>,
         \/ pc[t] = "postReadNext" /\ l = "postPop"
         \/ pc[t] = "removeReadNext" /\ l = "removePop"
  PROVE  ListInv'
<1>2. l \in SemaphoreLabels
  BY Facts
<1>3. /\ pc' \in [Threads -> SemaphoreLabels] /\ pc'[t] = l
      /\ \A u \in Threads \ {t} : pc'[u] = pc[u]
      /\ Awaits(t)' <=> l \in (RemoveLabels \ {"unlockFound"}) \cup {"waiting", "inFlight"}
      /\ t \in Scanners' <=> l \in {"removeScan", "unlockFound", "unlockNotFound"}
  BY <1>2, Gone
<1>4. /\ LocalOK(t) /\ SnapshotOK(t) /\ head[t].ptr \in Threads
  BY Facts DEF StateOK, LocalOK, SnapshotLabels, Pointers
<1>5. cached' \in [Threads -> Pointers] /\ cached'[t] = next[head[t].ptr]
  BY <1>4 DEF Types
<1>6. Types' /\ Own(t)
  BY <1>3, <1>5 DEF Types, Own
<1>7. Awaits(t)' <=> Awaits(t)
  BY <1>3 DEF Awaits, RemoveLabels
<1>8. t \in Scanners' <=> t \in Scanners
  BY <1>3 DEF Scanners
<1>9. LocalOK(t)' /\ SnapshotOK(t)'
  BY <1>3, <1>4, <1>5 DEF LocalOK, SnapshotOK, SnapshotLabels
<1>10. /\ pc[t] # "postNotify" /\ pc'[t] \notin {"postNotify", "inFlight", "unlockNotFound"}
       /\ pc'[t] # "removeScan"
  BY <1>3
<1> QED
  BY <1>6, <1>7, <1>8, <1>9, <1>10, QuietStep

\* A wait links its waiter to the waiter that was first.
LEMMA LinkKeeps ==
  ASSUME Types, StateOK, NEW depth \in [Threads -> Int], Ordered(depth),
         NEW t \in Threads, AddLink(t)
  PROVE  ListInv'
<1>1. /\ pc[t] = "addLink" /\ Goto(t, "addPush") /\ "addPush" \in SemaphoreLabels
      /\ next' = [next EXCEPT ![t] = head[t].ptr]
      /\ UNCHANGED <<mWaiters, posted, head, cached, current>>
  BY Facts DEF AddLink
<1>3. /\ pc' \in [Threads -> SemaphoreLabels] /\ pc'[t] = "addPush"
      /\ \A u \in Threads \ {t} : pc'[u] = pc[u]
      /\ ~Awaits(t)' /\ t \notin Scanners'
  BY <1>1, Gone DEF RemoveLabels
<1>4. /\ next' \in [Threads -> Pointers] /\ next'[t] = head[t].ptr
      /\ \A w \in Threads \ {t} : next'[w] = next[w]
  BY <1>1, Facts DEF Types
<1>6. Types' /\ Own(t)
  BY <1>1, <1>3, <1>4 DEF Types, Own
<1>7. ~Awaits(t) /\ t \notin Scanners
  BY <1>1 DEF Awaits, Scanners, RemoveLabels
<1>9. LocalOK(t)' /\ SnapshotOK(t)'
  BY <1>1, <1>3, <1>4 DEF LocalOK, SnapshotOK, SnapshotLabels
<1>10. /\ pc[t] # "postNotify" /\ pc'[t] \notin {"postNotify", "inFlight", "unlockNotFound"}
       /\ pc'[t] # "removeScan"
  BY <1>1, <1>3
<1> QED
  BY <1>1, <1>3, <1>4, <1>6, <1>7, <1>9, <1>10, QuietStep

\* The invariant after a step, part by part.
LEMMA Kept ==
  ASSUME NEW t \in Threads, Types', GrantOK', WordOK', LocalOK(t)', SnapshotOK(t)',
         \A u \in Threads \ {t} : LocalOK(u)' /\ SnapshotOK(u)',
         NEW depth \in [Threads -> Int], Ordered(depth)'
  PROVE  ListInv'
<1>1. \A u \in Threads : LocalOK(u)' /\ SnapshotOK(u)'
  OBVIOUS
<1> QED
  BY <1>1 DEF ListInv, StateOK

\* The word after a thread has made p the first waiter.
LEMMA NewHead ==
  ASSUME NEW t, NEW p \in Pointers, mWaiters \in Word, NoWrap,
         mWaiters = head[t], mWaiters' = WithHead(head[t], p)
  PROVE  /\ mWaiters' \in Word /\ mWaiters'.ptr = p /\ mWaiters'.lock = mWaiters.lock
         /\ mWaiters'.aba = mWaiters.aba + 1
<1>1. PICK w \in Word : w = mWaiters /\ mWaiters' = WithHead(w, p) /\ w.aba + 1 # AbaRange
  BY DEF NoWrap
<1>2. /\ WithHead(w, p).ptr = p /\ WithHead(w, p).lock = w.lock
      /\ WithHead(w, p).aba = w.aba + 1
  BY <1>1, ListWordFields
<1>3. WithHead(w, p) \in Word
  BY ListWordTypes
<1> QED
  BY <1>1, <1>2, <1>3

\* The list with one more waiter at its head is in order.
LEMMA Pushed ==
  ASSUME Types, NEW depth \in [Threads -> Int], Ordered(depth),
         NEW t \in Threads, t \notin Enqueued, next[t] = mWaiters.ptr
  PROVE  \E d \in [Threads -> Int] :
            InOrder(d, Enqueued \cup {t}, t, next) /\ \A w \in Enqueued : d[w] = depth[w]
<1>1. Enqueued \in SUBSET Threads /\ next \in [Threads -> Pointers] /\ mWaiters.ptr \in Pointers
  BY Facts DEF Types, Enqueued
<1>2. InOrder(depth, Enqueued, mWaiters.ptr, next)
  BY DEF Ordered
<1> QED
  BY <1>1, <1>2, PushOrder

\* A waiter becomes the first one of the list.
LEMMA PushKeeps ==
  ASSUME Types, StateOK, NEW depth \in [Threads -> Int], Ordered(depth), NoWrap,
         NEW t \in Threads, pc[t] = "addPush", mWaiters = head[t],
         mWaiters' = WithHead(head[t], t), Goto(t, "waiting"),
         UNCHANGED <<next, posted, head, cached, current>>
  PROVE  ListInv'
<1>1. mWaiters \in Word /\ t \in Pointers /\ t # Null /\ "waiting" \in SemaphoreLabels
  BY Facts
<1>2. /\ mWaiters' \in Word /\ mWaiters'.ptr = t /\ mWaiters'.lock = mWaiters.lock
      /\ mWaiters'.aba = mWaiters.aba + 1
  BY <1>1, NewHead
<1>3. /\ pc' \in [Threads -> SemaphoreLabels] /\ pc'[t] = "waiting"
      /\ \A u \in Threads \ {t} : pc'[u] = pc[u]
      /\ Awaits(t)' /\ t \notin Scanners'
  BY <1>1, Gone
<1>4. Types' /\ Own(t)
  BY <1>2, <1>3 DEF Types, Own
<1>5. ~Awaits(t) /\ t \notin Scanners /\ ~Granted(t)
  <2>1. ~Awaits(t) /\ t \notin Scanners
    BY DEF Awaits, Scanners, RemoveLabels
  <2> QED
    BY <2>1, GrantedAwaits DEF StateOK
<1>6. \A u \in Threads \ {t} : LocalOK(u)' /\ SnapshotOK(u)'
  BY <1>2, <1>4, OthersKeep
<1>7. LocalOK(t)' /\ SnapshotOK(t)'
  BY <1>3 DEF LocalOK, SnapshotOK, SnapshotLabels
<1>8. GrantOK'
  BY <1>3, <1>4, <1>5, GrantOKKeeps DEF StateOK
<1>9. WordOK'
  BY <1>1, <1>2, <1>3, <1>4, <1>5, WordKeeps DEF StateOK
<1>10. Enqueued' = Enqueued \cup {t} /\ t \notin Enqueued
  <2>1. \A u \in Threads : Granted(u)' <=> Granted(u)
    BY <1>3, <1>4, GrantKeeps
  <2>2. \A u \in Threads \ {t} : Awaits(u)' <=> Awaits(u)
    BY <1>3 DEF Awaits
  <2> QED
    BY <1>3, <1>5, <2>1, <2>2 DEF Enqueued
<1>11. PICK d \in [Threads -> Int] :
         /\ InOrder(d, Enqueued \cup {t}, t, next) /\ \A w \in Enqueued : d[w] = depth[w]
  <2>1. next[t] = mWaiters.ptr
    BY DEF StateOK, LocalOK
  <2> QED
    BY <1>10, <2>1, Pushed
<1>12. Ordered(d)'
  <2>1. ASSUME NEW u \in Threads, pc'[u] = "removeScan"
        PROVE  /\ current[u] \in Enqueued \cup {t}
               /\ u \in Enqueued \cup {t} => d[current[u]] < d[u]
    BY <1>3, <1>11, <2>1 DEF Ordered
  <2>2. InOrder(d, Enqueued', mWaiters'.ptr, next')
    BY <1>2, <1>10, <1>11
  <2> QED
    BY <1>10, <2>1, <2>2 DEF Ordered
<1> QED
  BY <1>4, <1>6, <1>7, <1>8, <1>9, <1>12, Kept

\* The first waiter leaves the list: the copy that the word is compared with is the word.
LEMMA FirstLeaves ==
  ASSUME Types, StateOK, NEW depth \in [Threads -> Int], Ordered(depth), NoWrap,
         NEW t \in Threads, pc[t] \in {"postPop", "removePop"}, mWaiters = head[t],
         mWaiters' = WithHead(head[t], cached[t]),
         NEW l \in {"postNotify", "idle"}, Goto(t, l),
         UNCHANGED <<next, posted, head, cached, current>>
  PROVE  /\ Types' /\ Own(t) /\ pc'[t] = l /\ (\A u \in Threads \ {t} : pc'[u] = pc[u])
         /\ head[t].ptr \in Enqueued /\ WordOK'
         /\ LocalOK(t)' /\ SnapshotOK(t)'
         /\ \A u \in Threads \ {t} : LocalOK(u)' /\ SnapshotOK(u)'
         /\ Enqueued' = Enqueued \ {head[t].ptr} => Ordered(depth)'
<1>1. /\ mWaiters \in Word /\ cached[t] \in Pointers /\ l \in SemaphoreLabels
      /\ ~mWaiters.lock /\ mWaiters.ptr # Null /\ cached[t] = next[head[t].ptr]
  BY Facts DEF StateOK, LocalOK, SnapshotOK, SnapshotLabels
<1>2. /\ mWaiters' \in Word /\ mWaiters'.ptr = next[mWaiters.ptr]
      /\ mWaiters'.lock = mWaiters.lock /\ mWaiters'.aba = mWaiters.aba + 1
  BY <1>1, NewHead
<1>3. /\ pc' \in [Threads -> SemaphoreLabels] /\ pc'[t] = l
      /\ \A u \in Threads \ {t} : pc'[u] = pc[u]
      /\ t \notin Scanners'
  BY <1>1, Gone
<1>4. Types' /\ Own(t)
  BY <1>2, <1>3 DEF Types, Own
<1>6. \A u \in Threads \ {t} : LocalOK(u)' /\ SnapshotOK(u)'
  BY <1>2, <1>4, OthersKeep
<1>7. LocalOK(t)' /\ SnapshotOK(t)'
  BY <1>3 DEF LocalOK, SnapshotOK, SnapshotLabels
<1>8. WordOK'
  <2>1. t \notin Scanners
    BY DEF Scanners
  <2> QED
    BY <1>1, <1>2, <1>3, <1>4, <2>1, WordKeeps DEF StateOK
<1>9. InOrder(depth, Enqueued, mWaiters.ptr, next) /\ head[t].ptr \in Enqueued
  BY <1>1 DEF Ordered, InOrder
<1>10. InOrder(depth, Enqueued \ {mWaiters.ptr}, next[mWaiters.ptr], next)
  <2>1. Enqueued \in SUBSET Threads /\ mWaiters.ptr \in Pointers /\ next \in [Threads -> Pointers]
    BY Facts DEF Types, Enqueued
  <2> QED
    BY <1>1, <1>9, <2>1, PopOrder
<1>11. ASSUME Enqueued' = Enqueued \ {head[t].ptr}
       PROVE  Ordered(depth)'
  <2>1. \A u \in Threads : pc'[u] # "removeScan"
    BY <1>1, <1>3 DEF StateOK, WordOK, Scanners
  <2>2. InOrder(depth, Enqueued', mWaiters'.ptr, next')
    BY <1>2, <1>10, <1>11
  <2> QED
    BY <2>1, <2>2 DEF Ordered
<1> QED
  BY <1>3, <1>4, <1>6, <1>7, <1>8, <1>9, <1>11

\* Post takes the first waiter off the list, and that waiter has a permit coming.
LEMMA PostPopKeeps ==
  ASSUME Types, StateOK, NEW depth \in [Threads -> Int], Ordered(depth), NoWrap,
         NEW t \in Threads, pc[t] = "postPop", mWaiters = head[t],
         mWaiters' = WithHead(head[t], cached[t]), Goto(t, "postNotify"),
         UNCHANGED <<next, posted, head, cached, current>>
  PROVE  ListInv'
<1>1. /\ Types' /\ Own(t) /\ pc'[t] = "postNotify" /\ (\A u \in Threads \ {t} : pc'[u] = pc[u])
      /\ head[t].ptr \in Enqueued /\ WordOK'
      /\ LocalOK(t)' /\ SnapshotOK(t)'
      /\ \A u \in Threads \ {t} : LocalOK(u)' /\ SnapshotOK(u)'
      /\ Enqueued' = Enqueued \ {head[t].ptr} => Ordered(depth)'
  BY FirstLeaves
<1>2. PICK h \in Threads : h = head[t].ptr /\ Awaits(h) /\ ~Granted(h)
  BY <1>1 DEF Enqueued
<1>3. \A u \in Threads : Awaits(u)' <=> Awaits(u)
  BY <1>1 DEF Awaits, RemoveLabels
<1>4. \A u \in Threads : Granted(u)' <=> Granted(u) \/ u = h
  BY <1>1, <1>2 DEF Granted
<1>5. Enqueued' = Enqueued \ {head[t].ptr}
  BY <1>2, <1>3, <1>4 DEF Enqueued
<1>6. posted[h] = 0 /\ \A u \in Threads : pc[u] = "postNotify" => head[u].ptr # h
  BY <1>2 DEF Granted, Types
<1>7. GrantOK'
  <2>0. GrantOK
    BY DEF StateOK
  <2>1. \A u \in Threads : posted'[u] > 0 => posted'[u] = 1 /\ Awaits(u)'
    BY <1>3, <2>0 DEF GrantOK
  <2>2. ASSUME NEW u \in Threads, pc'[u] = "postNotify"
        PROVE  (head[u].ptr \in Threads /\ Awaits(head[u].ptr) /\ posted[head[u].ptr] = 0)'
    <3>1. PICK w \in Threads : w = head[u].ptr /\ Awaits(w) /\ posted[w] = 0
      BY <1>1, <1>2, <1>6, <2>0, <2>2 DEF GrantOK
    <3>2. Awaits(w)'
      BY <1>3, <3>1
    <3>3. pc'[w] \in (RemoveLabels \ {"unlockFound"}) \cup {"waiting", "inFlight"}
      BY <3>2 DEF Awaits
    <3> QED
      BY <3>1, <3>3 DEF Awaits
  <2>3. \A u, v \in Threads :
          pc'[u] = "postNotify" /\ pc'[v] = "postNotify" /\ head[u].ptr = head[v].ptr => u = v
    BY <1>1, <1>2, <1>6, <2>0 DEF GrantOK
  <2>4. \A u \in Threads : pc'[u] \in {"inFlight", "unlockNotFound"} => Granted(u)'
    BY <1>1, <1>4, <2>0 DEF GrantOK
  <2> QED
    BY <2>1, <2>2, <2>3, <2>4 DEF GrantOK
<1> QED
  BY <1>1, <1>5, <1>7, Kept

\* The first waiter removes itself.
LEMMA RemovePopKeeps ==
  ASSUME Types, StateOK, NEW depth \in [Threads -> Int], Ordered(depth), NoWrap,
         NEW t \in Threads, pc[t] = "removePop", mWaiters = head[t],
         mWaiters' = WithHead(head[t], cached[t]), Goto(t, "idle"),
         UNCHANGED <<next, posted, head, cached, current>>
  PROVE  ListInv'
<1>1. /\ Types' /\ Own(t) /\ pc'[t] = "idle" /\ (\A u \in Threads \ {t} : pc'[u] = pc[u])
      /\ head[t].ptr \in Enqueued /\ WordOK'
      /\ LocalOK(t)' /\ SnapshotOK(t)'
      /\ \A u \in Threads \ {t} : LocalOK(u)' /\ SnapshotOK(u)'
      /\ Enqueued' = Enqueued \ {head[t].ptr} => Ordered(depth)'
  BY FirstLeaves
<1>2. head[t].ptr = t /\ ~Granted(t)
  BY <1>1 DEF StateOK, LocalOK, Enqueued
<1>3. GrantOK'
  BY <1>1, <1>2, GrantOKKeeps DEF StateOK
<1>4. Enqueued' = Enqueued \ {t}
  <2>1. \A u \in Threads : Granted(u)' <=> Granted(u)
    BY <1>1, GrantKeeps
  <2>2. \A u \in Threads \ {t} : Awaits(u)' <=> Awaits(u)
    BY <1>1 DEF Awaits
  <2>3. ~Awaits(t)'
    BY <1>1 DEF Awaits, RemoveLabels
  <2> QED
    BY <2>1, <2>2, <2>3 DEF Enqueued
<1> QED
  BY <1>1, <1>2, <1>3, <1>4, Kept

\* A Post notifies the waiter that it has taken off the list.
LEMMA NotifyKeeps ==
  ASSUME Types, StateOK, NEW depth \in [Threads -> Int], Ordered(depth),
         NEW t \in Threads, PostNotify(t)
  PROVE  ListInv'
<1>1. /\ pc[t] = "postNotify" /\ Goto(t, "idle") /\ "idle" \in SemaphoreLabels
      /\ posted' = [posted EXCEPT ![head[t].ptr] = @ + 1]
      /\ UNCHANGED <<mWaiters, next, head, cached, current>> /\ GrantOK
  BY Facts DEF PostNotify, Notify, StateOK
<1>2. PICK h \in Threads : h = head[t].ptr /\ Awaits(h) /\ posted[h] = 0
  BY <1>1 DEF GrantOK
<1>3. /\ pc' \in [Threads -> SemaphoreLabels] /\ pc'[t] = "idle"
      /\ \A u \in Threads \ {t} : pc'[u] = pc[u]
      /\ ~Awaits(t)' /\ t \notin Scanners'
  BY <1>1, Gone DEF RemoveLabels
<1>4. /\ posted' \in [Threads -> Nat] /\ posted'[h] = 1
      /\ \A u \in Threads \ {h} : posted'[u] = posted[u]
  BY <1>1, <1>2 DEF Types
<1>5. Types' /\ Own(t)
  BY <1>1, <1>3, <1>4 DEF Types, Own
<1>6. ~Awaits(t) /\ t \notin Scanners
  BY <1>1 DEF Awaits, Scanners, RemoveLabels
<1>7. \A u \in Threads \ {t} : LocalOK(u)' /\ SnapshotOK(u)'
  BY <1>1, <1>5, Facts, OthersKeep
<1>8. LocalOK(t)' /\ SnapshotOK(t)'
  BY <1>3 DEF LocalOK, SnapshotOK, SnapshotLabels
<1>9. WordOK'
  BY <1>1, <1>3, <1>5, <1>6, WordKeeps DEF StateOK, WordOK
<1>10. \A u \in Threads : Awaits(u)' <=> Awaits(u)
  BY <1>3, <1>6 DEF Awaits
<1>11. \A u \in Threads : Granted(u)' <=> Granted(u)
  BY <1>1, <1>2, <1>3, <1>4 DEF Granted
<1>12. Enqueued' = Enqueued
  BY <1>10, <1>11 DEF Enqueued
<1>13. GrantOK'
  <2>1. ASSUME NEW u \in Threads, posted'[u] > 0
        PROVE  posted'[u] = 1 /\ Awaits(u)'
    BY <1>1, <1>2, <1>4, <1>10, <2>1 DEF GrantOK
  <2>2. ASSUME NEW u \in Threads, pc'[u] = "postNotify"
        PROVE  (head[u].ptr \in Threads /\ Awaits(head[u].ptr) /\ posted[head[u].ptr] = 0)'
    <3>1. u # t /\ pc[u] = "postNotify"
      BY <1>3, <2>2
    <3>2. PICK w \in Threads : w = head[u].ptr /\ Awaits(w) /\ posted[w] = 0
      BY <1>1, <3>1 DEF GrantOK
    <3>3. w # h
      BY <1>1, <1>2, <3>1, <3>2 DEF GrantOK
    <3>4. Awaits(w)'
      BY <1>10, <3>2
    <3>5. pc'[w] \in (RemoveLabels \ {"unlockFound"}) \cup {"waiting", "inFlight"}
      BY <3>4 DEF Awaits
    <3> QED
      BY <1>1, <1>4, <3>2, <3>3, <3>5 DEF Awaits
  <2>3. \A u, v \in Threads :
          pc'[u] = "postNotify" /\ pc'[v] = "postNotify" /\ head'[u].ptr = head'[v].ptr => u = v
    BY <1>1, <1>3 DEF GrantOK
  <2>4. \A u \in Threads : pc'[u] \in {"inFlight", "unlockNotFound"} => Granted(u)'
    BY <1>1, <1>3, <1>11 DEF GrantOK
  <2> QED
    BY <2>1, <2>2, <2>3, <2>4 DEF GrantOK
<1>14. Ordered(depth)'
  BY <1>1, <1>3, <1>12 DEF Ordered
<1> QED
  BY <1>5, <1>7, <1>8, <1>9, <1>13, <1>14, Kept

\* A wait takes the post of its own semaphore.
LEMMA AwaitKeeps ==
  ASSUME Types, StateOK, NEW depth \in [Threads -> Int], Ordered(depth),
         NEW t \in Threads, AwaitNotify(t)
  PROVE  ListInv'
<1>1. /\ pc[t] \in {"waiting", "inFlight"} /\ posted[t] > 0
      /\ Goto(t, "signaled") /\ "signaled" \in SemaphoreLabels
      /\ posted' = [posted EXCEPT ![t] = @ - 1]
      /\ UNCHANGED <<mWaiters, next, head, cached, current>> /\ GrantOK
  BY Facts DEF AwaitNotify, StateOK
<1>3. /\ pc' \in [Threads -> SemaphoreLabels] /\ pc'[t] = "signaled"
      /\ \A u \in Threads \ {t} : pc'[u] = pc[u]
      /\ ~Awaits(t)' /\ t \notin Scanners'
  BY <1>1, Gone DEF RemoveLabels
<1>4. /\ posted[t] = 1 /\ posted' \in [Threads -> Nat] /\ posted'[t] = 0
      /\ \A u \in Threads \ {t} : posted'[u] = posted[u]
  BY <1>1 DEF Types, GrantOK
<1>5. Types' /\ Own(t)
  BY <1>1, <1>3, <1>4 DEF Types, Own
<1>6. Awaits(t) /\ t \notin Scanners
  BY <1>1 DEF Awaits, Scanners
<1>7. \A u \in Threads \ {t} : LocalOK(u)' /\ SnapshotOK(u)'
  BY <1>1, <1>5, Facts, OthersKeep
<1>8. LocalOK(t)' /\ SnapshotOK(t)'
  BY <1>3 DEF LocalOK, SnapshotOK, SnapshotLabels
<1>9. WordOK'
  BY <1>1, <1>3, <1>5, <1>6, WordKeeps DEF StateOK, WordOK
<1>10. \A u \in Threads \ {t} : Awaits(u)' <=> Awaits(u)
  BY <1>3 DEF Awaits
<1>11. \A u \in Threads : pc[u] = "postNotify" => head[u].ptr \in Threads \ {t}
  BY <1>1, <1>4 DEF GrantOK
<1>12. \A u \in Threads : Granted(u)' <=> Granted(u) /\ u # t
  BY <1>1, <1>3, <1>4, <1>11 DEF Granted
<1>13. Granted(t)
  BY <1>1 DEF Granted
<1>14. Enqueued' = Enqueued
  BY <1>3, <1>10, <1>12, <1>13 DEF Enqueued
<1>15. GrantOK'
  <2>1. ASSUME NEW u \in Threads, posted'[u] > 0
        PROVE  posted'[u] = 1 /\ Awaits(u)'
    BY <1>1, <1>4, <1>10, <2>1 DEF GrantOK
  <2>2. ASSUME NEW u \in Threads, pc'[u] = "postNotify"
        PROVE  (head[u].ptr \in Threads /\ Awaits(head[u].ptr) /\ posted[head[u].ptr] = 0)'
    <3>1. u # t /\ pc[u] = "postNotify"
      BY <1>3, <2>2
    <3>2. PICK w \in Threads : w = head[u].ptr /\ Awaits(w) /\ posted[w] = 0 /\ w # t
      BY <1>1, <1>11, <3>1 DEF GrantOK
    <3>4. Awaits(w)'
      BY <1>10, <3>2
    <3>5. pc'[w] \in (RemoveLabels \ {"unlockFound"}) \cup {"waiting", "inFlight"}
      BY <3>4 DEF Awaits
    <3> QED
      BY <1>1, <1>4, <3>2, <3>5 DEF Awaits
  <2>3. \A u, v \in Threads :
          pc'[u] = "postNotify" /\ pc'[v] = "postNotify" /\ head'[u].ptr = head'[v].ptr => u = v
    BY <1>1, <1>3 DEF GrantOK
  <2>4. \A u \in Threads : pc'[u] \in {"inFlight", "unlockNotFound"} => Granted(u)'
    BY <1>1, <1>3, <1>12 DEF GrantOK
  <2> QED
    BY <2>1, <2>2, <2>3, <2>4 DEF GrantOK
<1>16. Ordered(depth)'
  BY <1>1, <1>3, <1>14 DEF Ordered
<1> QED
  BY <1>5, <1>7, <1>8, <1>9, <1>15, <1>16, Kept

\* A waiter that is not the first one locks the list and begins its scan.
LEMMA LockKeeps ==
  ASSUME Types, StateOK, NEW depth \in [Threads -> Int], Ordered(depth), NoWrap,
         NEW t \in Threads, pc[t] = "removeLock", mWaiters = head[t],
         mWaiters' = AddAba(Locked(head[t])), Goto(t, "removeScan"),
         current' = [current EXCEPT ![t] = head[t].ptr],
         UNCHANGED <<next, posted, head, cached>>
  PROVE  ListInv'
<1>1. /\ mWaiters \in Word /\ "removeScan" \in SemaphoreLabels
      /\ ~mWaiters.lock /\ mWaiters.ptr # Null /\ mWaiters.ptr # t /\ mWaiters.ptr \in Pointers
  BY Facts DEF StateOK, LocalOK
<1>2. /\ mWaiters' \in Word /\ mWaiters'.ptr = mWaiters.ptr /\ mWaiters'.lock = TRUE
      /\ mWaiters'.aba = mWaiters.aba + 1
  <2>1. PICK w \in Word : w = mWaiters /\ mWaiters' = AddAba(Locked(w)) /\ w.aba + 1 # AbaRange
    BY <1>1 DEF NoWrap
  <2>2. /\ AddAba(Locked(w)).ptr = w.ptr /\ AddAba(Locked(w)).lock = TRUE
        /\ AddAba(Locked(w)).aba = w.aba + 1
    BY <2>1, ListWordFields
  <2>3. AddAba(Locked(w)) \in Word
    BY ListWordTypes
  <2> QED
    BY <2>1, <2>2, <2>3
<1>3. /\ pc' \in [Threads -> SemaphoreLabels] /\ pc'[t] = "removeScan"
      /\ \A u \in Threads \ {t} : pc'[u] = pc[u]
      /\ Awaits(t)' /\ t \in Scanners'
  BY <1>1, Gone DEF RemoveLabels
<1>4. /\ current' \in [Threads -> Pointers] /\ current'[t] = mWaiters.ptr
      /\ \A u \in Threads \ {t} : current'[u] = current[u]
  BY <1>1 DEF Types
<1>5. Types' /\ Own(t)
  BY <1>2, <1>3, <1>4 DEF Types, Own
<1>6. \A u \in Threads \ {t} : LocalOK(u)' /\ SnapshotOK(u)'
  BY <1>2, <1>5, OthersKeep
<1>7. LocalOK(t)' /\ SnapshotOK(t)'
  BY <1>3 DEF LocalOK, SnapshotOK, SnapshotLabels
<1>8. GrantOK'
  BY <1>3, <1>5, GrantOKKeeps DEF StateOK
<1>9. \A u \in Threads : u \notin Scanners
  BY <1>1 DEF StateOK, WordOK
<1>10. WordOK'
  BY <1>1, <1>2, <1>3, <1>9 DEF WordOK, Scanners
<1>11. Enqueued' = Enqueued
  <2>1. \A u \in Threads : Granted(u)' <=> Granted(u)
    BY <1>3, <1>5, GrantKeeps
  <2>2. \A u \in Threads : Awaits(u)' <=> Awaits(u)
    BY <1>3 DEF Awaits, RemoveLabels
  <2> QED
    BY <2>1, <2>2 DEF Enqueued
<1>12. Ordered(depth)'
  <2>1. InOrder(depth, Enqueued, mWaiters.ptr, next)
    BY DEF Ordered
  <2>2. \A u \in Threads \ {t} : pc'[u] # "removeScan"
    BY <1>3, <1>9 DEF Scanners
  <2>3. mWaiters.ptr \in Enqueued
    BY <1>1, <2>1 DEF InOrder
  <2>4. mWaiters.ptr \in Threads
    BY <2>3 DEF Enqueued
  <2>5. t \in Enqueued => depth[mWaiters.ptr] < depth[t]
    BY <1>1, <2>1, <2>3, <2>4 DEF InOrder
  <2> QED
    BY <1>2, <1>4, <1>11, <2>1, <2>2, <2>3, <2>5 DEF Ordered
<1> QED
  BY <1>5, <1>6, <1>7, <1>8, <1>10, <1>12, Kept

\* A scan that does not unlink: it goes on, or it ends with a waiter that is off the list.
LEMMA ScanKeeps ==
  ASSUME Types, StateOK, NEW depth \in [Threads -> Int], Ordered(depth),
         NEW t \in Threads, RemoveScan(t), next[current[t]] # t
  PROVE  ListInv'
<1>1. /\ pc[t] = "removeScan" /\ UNCHANGED <<mWaiters, posted, head, cached, next>>
      /\ \/ next[current[t]] = Null /\ Goto(t, "unlockNotFound") /\ UNCHANGED current
         \/ /\ next[current[t]] \notin {Null, t} /\ UNCHANGED pc
            /\ current' = [current EXCEPT ![t] = next[current[t]]]
  BY WaiterListAssumption DEF RemoveScan
<1>2. PICK c \in Threads : c = current[t] /\ c \in Enqueued
  BY <1>1 DEF Ordered, Enqueued
<1>3. InOrder(depth, Enqueued, mWaiters.ptr, next) /\ (t \in Enqueued => depth[c] < depth[t])
  BY <1>1, <1>2 DEF Ordered
<1>4. CASE next[c] = Null
  <2>1. Goto(t, "unlockNotFound") /\ "unlockNotFound" \in SemaphoreLabels /\ UNCHANGED current
    BY <1>1, <1>2, <1>4, Facts
  <2>2. /\ pc' \in [Threads -> SemaphoreLabels] /\ pc'[t] = "unlockNotFound"
        /\ \A u \in Threads \ {t} : pc'[u] = pc[u]
        /\ Awaits(t)' /\ t \in Scanners'
    BY <2>1, Gone DEF RemoveLabels
  <2>3. Types' /\ Own(t)
    BY <1>1, <2>1, <2>2 DEF Types, Own
  <2>4. Awaits(t) /\ t \in Scanners
    BY <1>1 DEF Awaits, Scanners, RemoveLabels
  <2>5. t \notin Enqueued
    BY <1>2, <1>3, <1>4 DEF InOrder
  <2>6. Granted(t)
    BY <2>4, <2>5 DEF Enqueued
  <2>7. LocalOK(t)' /\ SnapshotOK(t)'
    BY <2>2 DEF LocalOK, SnapshotOK, SnapshotLabels
  <2>8. /\ pc[t] # "postNotify" /\ pc'[t] # "postNotify" /\ pc'[t] # "removeScan"
        /\ \A w \in Threads : next'[w] = next[w]
    BY <1>1, <2>2
  <2> QED
    BY <1>1, <2>2, <2>3, <2>4, <2>6, <2>7, <2>8, QuietStep
<1>5. CASE next[c] # Null
  <2>1. PICK d \in Threads : d = next[c] /\ d \in Enqueued /\ d # t
    BY <1>1, <1>2, <1>3, <1>5 DEF InOrder, Enqueued
  <2>2. t \in Enqueued => depth[d] < depth[t]
    <3>1. t \in Enqueued => depth[d] <= depth[t]
      BY <1>2, <1>3, <2>1 DEF InOrder
    <3>2. t \in Enqueued => depth[d] # depth[t]
      BY <1>3, <2>1 DEF InOrder
    <3> QED
      BY <3>1, <3>2
  <2>3. UNCHANGED pc /\ current' = [current EXCEPT ![t] = d]
    BY <1>1, <1>2, <1>5, <2>1
  <2>4. /\ current' \in [Threads -> Pointers] /\ current'[t] = d
        /\ \A u \in Threads \ {t} : current'[u] = current[u]
    BY <2>1, <2>3 DEF Types, Pointers
  <2>5. Types' /\ Own(t)
    BY <1>1, <2>3, <2>4 DEF Types, Own
  <2>6. (Awaits(t)' <=> Awaits(t)) /\ (t \in Scanners' <=> t \in Scanners)
    BY <2>3 DEF Awaits, Scanners
  <2>7. LocalOK(t)' /\ SnapshotOK(t)'
    BY <1>1, <2>3 DEF LocalOK, SnapshotOK, SnapshotLabels
  <2>8. /\ pc[t] # "postNotify" /\ pc'[t] \notin {"postNotify", "inFlight", "unlockNotFound"}
        /\ \A w \in Threads : next'[w] = next[w]
    BY <1>1, <2>3
  <2> QED
    BY <1>1, <2>1, <2>2, <2>4, <2>5, <2>6, <2>7, <2>8, QuietStep
<1> QED
  BY <1>4, <1>5

\* The list without a waiter further down is in order.
LEMMA Unlinked ==
  ASSUME Types, NEW depth \in [Threads -> Int], Ordered(depth),
         NEW c \in Enqueued, NEW t \in Threads, next[c] = t
  PROVE  InOrder(depth, Enqueued \ {t}, mWaiters.ptr, [next EXCEPT ![c] = next[t]])
<1>1. Enqueued \in SUBSET Threads /\ next \in [Threads -> Pointers] /\ mWaiters.ptr \in Pointers
  BY Facts DEF Types, Enqueued
<1>2. InOrder(depth, Enqueued, mWaiters.ptr, next)
  BY DEF Ordered
<1> QED
  BY <1>1, <1>2, UnlinkOrder

\* A waiter unlinks itself.
LEMMA UnlinkKeeps ==
  ASSUME Types, StateOK, NEW depth \in [Threads -> Int], Ordered(depth),
         NEW t \in Threads, RemoveScan(t), next[current[t]] = t
  PROVE  ListInv'
<1>1. /\ pc[t] = "removeScan" /\ Goto(t, "unlockFound") /\ "unlockFound" \in SemaphoreLabels
      /\ UNCHANGED <<mWaiters, posted, head, cached, current>>
      /\ next' = [next EXCEPT ![current[t]] = next[t]]
  BY WaiterListAssumption, Facts DEF RemoveScan
<1>2. PICK c \in Threads : c = current[t] /\ c \in Enqueued
  BY <1>1 DEF Ordered, Enqueued
<1>3. InOrder(depth, Enqueued, mWaiters.ptr, next) /\ next[c] = t
  BY <1>2 DEF Ordered
<1>4. t \in Enqueued
  BY <1>2, <1>3, WaiterListAssumption DEF InOrder
<1>5. Awaits(t) /\ ~Granted(t) /\ t \in Scanners
  BY <1>1, <1>4 DEF Enqueued, Scanners
<1>6. /\ pc' \in [Threads -> SemaphoreLabels] /\ pc'[t] = "unlockFound"
      /\ \A u \in Threads \ {t} : pc'[u] = pc[u]
      /\ ~Awaits(t)' /\ t \in Scanners'
  BY <1>1, Gone DEF RemoveLabels
<1>7. /\ next' \in [Threads -> Pointers] /\ next' = [next EXCEPT ![c] = next[t]]
      /\ \A w \in Threads : w # c => next'[w] = next[w]
  BY <1>1, <1>2 DEF Types
<1>8. Types' /\ Own(t)
  BY <1>1, <1>6, <1>7 DEF Types, Own
<1>9. mWaiters.lock /\ mWaiters \in Word
  BY <1>5, Facts DEF StateOK, WordOK
<1>10. \A u \in Threads \ {t} : LocalOK(u)' /\ SnapshotOK(u)'
  <2>1. \A w \in Threads \ {t} : w \notin Enqueued => next'[w] = next[w]
    BY <1>2, <1>7
  <2> QED
    BY <1>1, <1>8, <1>9, <2>1, OthersKeep
<1>11. LocalOK(t)' /\ SnapshotOK(t)'
  BY <1>6 DEF LocalOK, SnapshotOK, SnapshotLabels
<1>12. GrantOK'
  BY <1>1, <1>5, <1>6, <1>8, GrantOKKeeps DEF StateOK
<1>13. WordOK'
  BY <1>1, <1>5, <1>6, <1>8, WordKeeps DEF StateOK, WordOK
<1>14. Enqueued' = Enqueued \ {t}
  <2>1. \A u \in Threads : Granted(u)' <=> Granted(u)
    BY <1>1, <1>6, <1>8, GrantKeeps
  <2>2. \A u \in Threads \ {t} : Awaits(u)' <=> Awaits(u)
    BY <1>6 DEF Awaits
  <2> QED
    BY <1>6, <2>1, <2>2 DEF Enqueued
<1>15. InOrder(depth, Enqueued \ {t}, mWaiters.ptr, next')
  BY <1>2, <1>3, <1>7, Unlinked
<1>16. Ordered(depth)'
  <2>1. \A u \in Threads \ {t} : pc'[u] # "removeScan"
    BY <1>5, <1>6 DEF StateOK, WordOK, Scanners
  <2> QED
    BY <1>1, <1>6, <1>14, <1>15, <2>1 DEF Ordered
<1> QED
  BY <1>8, <1>10, <1>11, <1>12, <1>13, <1>16, Kept

\* The thread that has scanned the list unlocks it.
LEMMA UnlockKeeps ==
  ASSUME Types, StateOK, NEW depth \in [Threads -> Int], Ordered(depth),
         NEW t \in Threads, RemoveUnlock(t)
  PROVE  ListInv'
<1> DEFINE l == IF pc[t] = "unlockFound" THEN "idle" ELSE "inFlight"
<1>1. /\ pc[t] \in {"unlockFound", "unlockNotFound"} /\ Goto(t, l) /\ l \in SemaphoreLabels
      /\ l \in {"idle", "inFlight"} /\ (l = "inFlight" <=> pc[t] = "unlockNotFound")
      /\ mWaiters' = Unlocked(mWaiters) /\ UNCHANGED <<next, posted, head, cached, current>>
  BY Facts DEF RemoveUnlock, ClearLock
<1> HIDE DEF l
<1>2. /\ mWaiters' \in Word /\ mWaiters'.ptr = mWaiters.ptr /\ mWaiters'.lock = FALSE
      /\ mWaiters'.aba = mWaiters.aba
  BY <1>1, Facts, ListWordTypes, ListWordFields
<1>3. /\ pc' \in [Threads -> SemaphoreLabels] /\ pc'[t] = l
      /\ \A u \in Threads \ {t} : pc'[u] = pc[u]
      /\ Awaits(t)' <=> l \in (RemoveLabels \ {"unlockFound"}) \cup {"waiting", "inFlight"}
      /\ t \in Scanners' <=> l \in {"removeScan", "unlockFound", "unlockNotFound"}
  BY <1>1, Gone
<1>4. Types' /\ Own(t)
  BY <1>1, <1>2, <1>3 DEF Types, Own
<1>5. t \in Scanners /\ mWaiters.lock /\ \A u \in Scanners : u = t
  BY <1>1 DEF StateOK, WordOK, Scanners
<1>6. \A u \in Threads \ {t} : LocalOK(u)' /\ SnapshotOK(u)'
  BY <1>1, <1>2, <1>4, <1>5, OthersKeep
<1>7. LocalOK(t)' /\ SnapshotOK(t)'
  BY <1>1, <1>3 DEF LocalOK, SnapshotOK, SnapshotLabels
<1>8. Awaits(t)' <=> Awaits(t)
  BY <1>1, <1>3 DEF Awaits, RemoveLabels
<1>9. pc[t] = "unlockNotFound" => Granted(t)
  BY DEF StateOK, GrantOK
<1>10. GrantOK'
  <2>1. Granted(t) => Awaits(t)'
    BY <1>8, GrantedAwaits DEF StateOK
  <2>2. /\ pc[t] # "postNotify" /\ pc'[t] # "postNotify"
        /\ pc'[t] \in {"inFlight", "unlockNotFound"} => Granted(t)
    BY <1>1, <1>3, <1>9
  <2> QED
    BY <1>1, <1>4, <2>1, <2>2, GrantOKKeeps DEF StateOK
<1>11. \A u \in Threads : u \notin Scanners'
  <2>1. t \notin Scanners'
    BY <1>1, <1>3
  <2>2. ASSUME NEW u \in Threads, u # t
        PROVE  u \notin Scanners'
    <3>1. u \notin Scanners
      BY <1>5, <2>2
    <3> QED
      BY <1>3, <2>2, <3>1 DEF Scanners
  <2> QED
    BY <2>1, <2>2
<1>12. WordOK'
  <2>1. Scanners' = {}
    BY <1>11 DEF Scanners
  <2> QED
    BY <1>2, <2>1 DEF WordOK
<1>13. Enqueued' = Enqueued
  <2>1. \A u \in Threads : Granted(u)' <=> Granted(u)
    BY <1>1, <1>3, <1>4, GrantKeeps
  <2>2. \A u \in Threads : Awaits(u)' <=> Awaits(u)
    BY <1>3, <1>8 DEF Awaits
  <2> QED
    BY <2>1, <2>2 DEF Enqueued
<1>14. Ordered(depth)'
  <2>1. \A u \in Threads : pc'[u] # "removeScan"
    BY <1>11 DEF Scanners
  <2> QED
    BY <1>1, <1>2, <1>13, <2>1 DEF Ordered
<1> QED
  BY <1>4, <1>6, <1>7, <1>10, <1>12, <1>14, Kept

\* At the beginning the list is empty.
LEMMA ListBegins == Init => ListInv
<1> SUFFICES ASSUME Init
             PROVE  ListInv
  OBVIOUS
<1>1. /\ mWaiters = ZeroWord /\ \A t \in Threads : pc[t] = "idle" /\ posted[t] = 0
      /\ ZeroWord.ptr = Null /\ ZeroWord.lock = FALSE
  BY ListWordFields DEF Init, ListInit
<1>2. Types
  BY ListWordTypes
  DEF Init, ListInit, Types, Pointers, SemaphoreLabels, ClientLabels
<1>3. GrantOK /\ WordOK
  BY <1>1 DEF GrantOK, WordOK, Scanners
<1>4. \A t \in Threads : LocalOK(t) /\ SnapshotOK(t)
  BY <1>1 DEF LocalOK, SnapshotOK, SnapshotLabels
<1>5. Enqueued = {}
  BY <1>1 DEF Enqueued, Awaits, RemoveLabels
<1>6. PICK depth : depth \in [Threads -> Int]
  <2>1. [t \in Threads |-> 0] \in [Threads -> Int]
    OBVIOUS
  <2> QED
    BY <2>1
<1>7. Ordered(depth)
  BY <1>1, <1>5 DEF Ordered, InOrder
<1> QED
  BY <1>2, <1>3, <1>4, <1>6, <1>7 DEF ListInv, StateOK

\* A step of AddWaiter.
LEMMA AddListKeeps ==
  ASSUME Types, StateOK, NEW depth \in [Threads -> Int], Ordered(depth), NoWrap,
         NEW t \in Threads, AddWaiter(t)
  PROVE  ListInv'
<1>1. CASE AddDecrement(t)
  BY <1>1, PlainMove DEF AddDecrement, StartRound
<1>2. CASE AddLoad(t)
  BY <1>2, ReadsWord DEF AddLoad, Types
<1>3. CASE AddLink(t)
  BY <1>3, LinkKeeps
<1>4. CASE AddPush(t) /\ mWaiters = head[t]
  BY <1>4, PushKeeps DEF AddPush, CompareAndSwap
<1>5. CASE AddPush(t) /\ mWaiters # head[t]
  BY <1>5, ReadsWord DEF AddPush, CompareAndSwap, Types
<1> QED
  BY <1>1, <1>2, <1>3, <1>4, <1>5 DEF AddWaiter

\* A step of Post.
LEMMA PostListKeeps ==
  ASSUME Types, StateOK, NEW depth \in [Threads -> Int], Ordered(depth), NoWrap,
         NEW t \in Threads, Post(t)
  PROVE  ListInv'
<1>1. CASE PostIncrement(t)
  BY <1>1, PlainMove DEF PostIncrement, StartRound
<1>2. CASE PostLoad(t)
  BY <1>2, ReadsWord DEF PostLoad, Types
<1>3. CASE PostSpin(t)
  BY <1>3, PlainMove DEF PostSpin
<1>4. CASE PostReadNext(t)
  BY <1>4, ReadsNext DEF PostReadNext
<1>5. CASE PostPop(t) /\ mWaiters = head[t]
  BY <1>5, PostPopKeeps DEF PostPop, CompareAndSwap
<1>6. CASE PostPop(t) /\ mWaiters # head[t]
  BY <1>6, ReadsWord DEF PostPop, CompareAndSwap, Types
<1>7. CASE PostNotify(t)
  BY <1>7, NotifyKeeps
<1> QED
  BY <1>1, <1>2, <1>3, <1>4, <1>5, <1>6, <1>7 DEF Post

\* A step of RemoveWaiter.
LEMMA RemoveListKeeps ==
  ASSUME Types, StateOK, NEW depth \in [Threads -> Int], Ordered(depth), NoWrap,
         NEW t \in Threads, RemoveWaiter(t)
  PROVE  ListInv'
<1>1. CASE RemoveLoad(t)
  BY <1>1, ReadsWord DEF RemoveLoad, Types
<1>2. CASE RemoveReadNext(t)
  BY <1>2, ReadsNext DEF RemoveReadNext
<1>3. CASE RemovePop(t) /\ mWaiters = head[t]
  BY <1>3, RemovePopKeeps DEF RemovePop, CompareAndSwap
<1>4. CASE RemovePop(t) /\ mWaiters # head[t]
  BY <1>4, ReadsWord DEF RemovePop, CompareAndSwap, Types
<1>5. CASE RemoveLock(t) /\ mWaiters = head[t]
  BY <1>5, LockKeeps DEF RemoveLock, CompareAndSwap
<1>6. CASE RemoveLock(t) /\ mWaiters # head[t]
  <2>1. /\ current' \in [Threads -> Pointers]
        /\ \A u \in Threads \ {t} : current'[u] = current[u]
    BY <1>6, Facts DEF RemoveLock, Types
  <2> QED
    BY <1>6, <2>1, ReadsWord DEF RemoveLock, CompareAndSwap
<1>7. CASE RemoveScan(t)
  BY <1>7, ScanKeeps, UnlinkKeeps
<1>8. CASE RemoveUnlock(t)
  BY <1>8, UnlockKeeps
<1> QED
  BY <1>1, <1>2, <1>3, <1>4, <1>5, <1>6, <1>7, <1>8 DEF RemoveWaiter

\* Every step keeps the list right as long as the tag does not wrap around.
LEMMA ListNext == ListInv /\ NoWrap /\ [Next]_semaphoreVars => ListInv'
<1> SUFFICES ASSUME ListInv, NoWrap, [Next]_semaphoreVars
             PROVE  ListInv'
  OBVIOUS
<1>1. PICK depth \in [Threads -> Int] : Types /\ StateOK /\ Ordered(depth)
  BY DEF ListInv
<1>2. ASSUME NEW t \in Threads, Step(t)
      PROVE  ListInv'
  <2>1. CASE AddWaiter(t)
    BY <1>1, <2>1, AddListKeeps
  <2>2. CASE Post(t)
    BY <1>1, <2>2, PostListKeeps
  <2>3. CASE WaitReturns(t)
    BY <1>1, <2>3, PlainMove DEF WaitReturns
  <2>4. CASE ListStep(t)
    <3>1. CASE AwaitNotify(t)
      BY <1>1, <3>1, AwaitKeeps
    <3>2. CASE StartRemove(t)
      BY <1>1, <3>2, PlainMove DEF StartRemove
    <3>3. CASE RemoveWaiter(t)
      BY <1>1, <3>3, RemoveListKeeps
    <3> QED
      BY <2>4, <3>1, <3>2, <3>3 DEF ListStep
  <2> QED
    BY <1>2, <2>1, <2>2, <2>3, <2>4 DEF Step
<1>3. CASE UNCHANGED semaphoreVars
  <2>1. UNCHANGED <<mWaiters, next, posted, pc, head, cached, current>>
    BY <1>3 DEF semaphoreVars, listVars
  <2>2. Types' /\ GrantOK' /\ WordOK'
    BY <1>1, <2>1 DEF Types, StateOK, GrantOK, WordOK, Granted, Awaits, Scanners
  <2>3. \A t \in Threads : LocalOK(t)' /\ SnapshotOK(t)'
    BY <1>1, <2>1 DEF StateOK, LocalOK, SnapshotOK
  <2>4. Enqueued' = Enqueued
    BY <2>1 DEF Enqueued, Granted, Awaits
  <2>5. Ordered(depth)'
    BY <1>1, <2>1, <2>4 DEF Ordered
  <2> QED
    BY <2>2, <2>3, <2>5 DEF ListInv, StateOK
<1> QED
  BY <1>2, <1>3 DEF Next

-----------------------------------------------------------------------------
(* The theorems. *)

(* What the theorem about the permits rests on: where they are.             *)
THEOREM PermitsInvariance == Spec => []CountInv
  BY CountInit, CountNext, PTL DEF Spec

(* No permit is given twice, for any number of threads that post, wait and  *)
(* change their mind: the waits that have succeeded, or are going to, never *)
(* outnumber the initial permits and the posts.                             *)
THEOREM PermitsAreEnough == Spec => []NoOverGrant
<1>1. CountInv => NoOverGrant
  <2> SUFFICES ASSUME CountInv
               PROVE  NoOverGrant
    OBVIOUS
  <2> DEFINE G == {t \in Threads : pc[t] = "signaled" \/ Granted(t)}
  <2>1. Cardinality(G) <= Cardinality(Signaled) + Sum(posted) + Cardinality(Serving)
    BY GrantsBound
  <2>2. IsFiniteSet(G) /\ IsFiniteSet(Signaled) /\ IsFiniteSet(Serving)
    BY WaiterListAssumption, FS_Subset DEF At, Serving, Signaled
  <2> HIDE DEF G
  <2>3. /\ Cardinality(G) \in Nat /\ Cardinality(Signaled) \in Nat
        /\ Cardinality(Serving) \in Nat
    BY <2>2, FS_CardinalityType
  <2>4. Sum(acquired) + Cardinality(G) <= Permits
    BY <2>1, <2>3, CountsAreNaturals DEF CountInv, PermitsAccounted, Permits
  <2> QED
    BY <2>4 DEF NoOverGrant, G
<1> QED
  BY <1>1, PermitsInvariance, PTL

(* What the theorems about the list rest on: however posts, waits and       *)
(* removals interleave, the list is in order, and a copy of the word that   *)
(* is still there is true, for a tag that does not wrap around.             *)
THEOREM ListInvariance == Spec /\ []NoWrap => []ListInv
  BY ListBegins, ListNext, PTL DEF Spec

(* The list holds each waiting thread that has no permit coming, once, and  *)
(* nothing else, while it is locked and scanned as well as in between.      *)
THEOREM WaitersAreListed == Spec /\ []NoWrap => []ListIntegrity
<1>1. ListInv => ListIntegrity
  <2> SUFFICES ASSUME ListInv
               PROVE  ListIntegrity
    OBVIOUS
  <2>1. PICK depth \in [Threads -> Int] : Ordered(depth)
    BY DEF ListInv
  <2>2. InOrder(depth, Enqueued, mWaiters.ptr, next)
    BY <2>1 DEF Ordered
  <2>3. Enqueued \subseteq Threads /\ IsFiniteSet(Enqueued)
    BY WaiterListAssumption, FS_Subset DEF Enqueued
  <2>4. ListIs(Enqueued)
    BY <2>2, <2>3, OrderedList
  <2> QED
    BY <2>4 DEF ListIntegrity, Enqueued
<1> QED
  BY <1>1, ListInvariance, PTL

(* RemoveWaiter tells the truth: it answers that it has not found the       *)
(* waiter only if a permit is coming, and a waiter that it has removed gets *)
(* no permit.                                                               *)
THEOREM RemovalsAreTrue == Spec /\ []NoWrap => []RemovalMatchesGrant
<1>1. ListInv => RemovalMatchesGrant
  BY GrantedAwaits DEF ListInv, StateOK, GrantOK, RemovalMatchesGrant
<1> QED
  BY <1>1, ListInvariance, PTL

=============================================================================
