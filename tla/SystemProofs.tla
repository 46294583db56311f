---------------------------- MODULE SystemProofs ----------------------------
(***************************************************************************)
(* Proofs about the parts that stand on the operating system and the       *)
(* processor alone: ThreadPool, for any finite set of workers, any set of  *)
(* tasks and any maximum of threads, and Atomics, which implements         *)
(* AtomicWord for every width, number of threads and set of calls.         *)
(***************************************************************************)
EXTENDS ThreadPool, Atomics, FiniteSetTheorems, SequenceTheorems, TLAPS

-----------------------------------------------------------------------------
(* The inductive invariant of ThreadPool. *)

Waiting == {w \in Workers : pc[w] = "wait"}

Created == {w \in Workers : pc[w] # "none"}

\* mIdleThreadCount counts the workers between their ++ and their --.
CountOK ==
  /\ mIdleThreadCount = Cardinality(Waiting)
  /\ Len(mThreads) = Cardinality(Created)

\* mThreads holds the workers that have been created.
ThreadsOK ==
  /\ \A i \in DOMAIN mThreads : pc[mThreads[i]] # "none"
  /\ \A w \in Created : \E i \in DOMAIN mThreads : mThreads[i] = w

WorkersOK == \A w \in Workers :
  /\ w \in sleeping => pc[w] = "wait"
  /\ pc[w] = "exited" => mStop
  /\ task[w] # NoTask <=> pc[w] = "run"

DestructorOK ==
  /\ destructor # "none" => mStop /\ unposted = {}
  /\ destructor \in {"drain", "done", "terminated"} =>
       \A w \in Workers : pc[w] \in {"none", "exited"}
  /\ destructor = "done" => mWork = <<>>

Queued(t) == \E i \in DOMAIN mWork : mWork[i] = t

Held(t) == \E w \in Workers : task[w] = t

\* RunOnce without its cardinalities.
OnePlace(t) ==
  /\ \A i, j \in DOMAIN mWork : mWork[i] = t /\ mWork[j] = t => i = j
  /\ \A v, w \in Workers : task[v] = t /\ task[w] = t => v = w
  /\ runs[t] \in {0, 1} /\ (runs[t] = 0 <=> outcome[t] = "none")
  /\ ~(Queued(t) /\ Held(t))
  /\ Queued(t) \/ Held(t) => runs[t] = 0
  /\ t \in unposted <=> ~Queued(t) /\ ~Held(t) /\ runs[t] = 0

PoolInv ==
  /\ TypeOK
  /\ CountOK
  /\ ThreadsOK
  /\ WorkersOK
  /\ DestructorOK
  /\ \A t \in Tasks : OnePlace(t)
  /\ WorkIsAttended

-----------------------------------------------------------------------------
(* Counting the workers. *)

\* The sets that are counted are finite.
LEMMA CountTypes ==
  /\ IsFiniteSet(Waiting) /\ Cardinality(Waiting) \in Nat
  /\ IsFiniteSet(Created) /\ Cardinality(Created) \in Nat
  /\ Cardinality(Waiting) <= Cardinality(Created)
<1>1. Waiting \subseteq Created /\ Created \subseteq Workers
  BY DEF Waiting, Created
<1>2. IsFiniteSet(Created)
  BY <1>1, FS_Subset, ThreadPoolAssumption
<1>3. IsFiniteSet(Waiting) /\ Cardinality(Waiting) <= Cardinality(Created)
  BY <1>1, <1>2, FS_Subset
<1> QED BY <1>2, <1>3, FS_CardinalityType

\* What a step of one worker does to the number of workers that wait.
LEMMA WaitingStep ==
  ASSUME TypeOK, NEW w \in Workers, NEW l, Goto(w, l)
  PROVE  Cardinality(Waiting') =
           Cardinality(Waiting) + (IF l = "wait" THEN 1 ELSE 0)
                                - (IF pc[w] = "wait" THEN 1 ELSE 0)
<1>1. Waiting' = IF l = "wait" THEN Waiting \cup {w} ELSE Waiting \ {w}
  BY DEF TypeOK, Goto, Waiting
<1>2. w \in Waiting <=> pc[w] = "wait"
  BY DEF Waiting
<1>3. Cardinality(Waiting \cup {w}) = IF w \in Waiting THEN Cardinality(Waiting)
                                                       ELSE Cardinality(Waiting) + 1
  BY CountTypes, FS_AddElement
<1>4. Cardinality(Waiting \ {w}) = IF w \in Waiting THEN Cardinality(Waiting) - 1
                                                    ELSE Cardinality(Waiting)
  BY CountTypes, FS_RemoveElement
<1> QED BY <1>1, <1>2, <1>3, <1>4, CountTypes

\* What it does to the number of workers that have been created.
LEMMA CreatedStep ==
  ASSUME TypeOK, NEW w \in Workers, NEW l, l # "none", Goto(w, l)
  PROVE  /\ Created' = Created \cup {w}
         /\ Cardinality(Created') =
              Cardinality(Created) + (IF pc[w] = "none" THEN 1 ELSE 0)
<1>1. Created' = Created \cup {w}
  BY DEF TypeOK, Goto, Created
<1>2. w \in Created <=> pc[w] # "none"
  BY DEF Created
<1>3. Cardinality(Created \cup {w}) = IF w \in Created THEN Cardinality(Created)
                                                       ELSE Cardinality(Created) + 1
  BY CountTypes, FS_AddElement
<1> QED BY <1>1, <1>2, <1>3, CountTypes

\* The counter keeps its type as long as it counts.
LEMMA CountBound ==
  ASSUME CountOK', Len(mThreads') <= mMaxThreadCount, Len(mThreads') \in Nat
  PROVE  mIdleThreadCount' \in 0 .. mMaxThreadCount
<1>1. /\ Cardinality(Waiting') \in Nat
      /\ Cardinality(Waiting') <= Cardinality(Created')
  <2>1. Waiting' \subseteq Created' /\ Created' \subseteq Workers
    BY DEF Waiting, Created
  <2>2. IsFiniteSet(Created')
    BY <2>1, FS_Subset, ThreadPoolAssumption
  <2>3. IsFiniteSet(Waiting') /\ Cardinality(Waiting') <= Cardinality(Created')
    BY <2>1, <2>2, FS_Subset
  <2> QED BY <2>3, FS_CardinalityType
<1>2. mMaxThreadCount \in Int
  BY ThreadPoolAssumption, FS_CardinalityType
<1> QED BY <1>1, <1>2 DEF CountOK

-----------------------------------------------------------------------------
(* The constructor. *)

\* The constructor establishes the invariant.
LEMMA PoolInit == Init => PoolInv
<1> SUFFICES ASSUME Init PROVE PoolInv
  OBVIOUS
<1> USE DEF Init
<1>1. mMaxThreadCount \in Nat
  BY ThreadPoolAssumption, FS_CardinalityType
<1>2. TypeOK
  <2>1. mWork \in Seq(Tasks) /\ mThreads \in Seq(Workers) /\ Len(mThreads) = 0
    OBVIOUS
  <2>2. mIdleThreadCount \in 0 .. mMaxThreadCount /\ Len(mThreads) <= mMaxThreadCount
    BY <1>1, <2>1
  <2>3. /\ pc \in [Workers -> {"none", "checkStop", "enter", "wait", "run", "exited"}]
        /\ task \in [Workers -> Tasks \cup {NoTask}]
        /\ outcome \in [Tasks -> {"none", "value", "exception"}]
        /\ runs \in [Tasks -> Nat]
    OBVIOUS
  <2> QED BY <2>1, <2>2, <2>3 DEF TypeOK
<1>3. Waiting = {} /\ Created = {}
  BY DEF Waiting, Created
<1>4. CountOK
  BY <1>3, FS_EmptySet DEF CountOK
<1>5. ThreadsOK
  BY <1>3 DEF ThreadsOK
<1>6. WorkersOK /\ DestructorOK /\ WorkIsAttended
  BY DEF WorkersOK, DestructorOK, WorkIsAttended
<1>7. ASSUME NEW t \in Tasks PROVE OnePlace(t)
  BY ThreadPoolAssumption DEF OnePlace, Queued, Held
<1> QED BY <1>2, <1>4, <1>5, <1>6, <1>7 DEF PoolInv

-----------------------------------------------------------------------------
(* What taking from the queue and putting into it do to the places.        *)

\* Head and Tail: everything moves one place forward.
LEMMA TailFacts ==
  ASSUME NEW S, NEW s \in Seq(S), s # <<>>, NEW r, r = Tail(s)
  PROVE  /\ Head(s) \in S /\ Head(s) = s[1] /\ 1 \in DOMAIN s
         /\ r \in Seq(S) /\ DOMAIN s \subseteq Int /\ DOMAIN r \subseteq Int
         /\ \A i \in DOMAIN r : i + 1 \in DOMAIN s /\ r[i] = s[i + 1]
         /\ \A i \in DOMAIN s : i # 1 => i - 1 \in DOMAIN r /\ r[i - 1] = s[i]
<1>1. Head(s) \in S /\ r \in Seq(S) /\ Len(r) = Len(s) - 1
  BY HeadTailProperties
<1>2. \A i \in 1 .. Len(r) : r[i] = s[i + 1]
  BY HeadTailProperties
<1>3. /\ Len(s) \in Nat /\ Len(r) \in Nat
      /\ DOMAIN s = 1 .. Len(s) /\ DOMAIN r = 1 .. Len(r)
  BY <1>1, LenProperties
<1>4. 1 \in DOMAIN s
  <2>1. Len(s) # 0
    BY EmptySeq
  <2> QED BY <1>3, <2>1
<1>5. Head(s) = s[1]
  OBVIOUS
<1>6. ASSUME NEW n \in Nat, NEW m \in Nat, m = n - 1
      PROVE  /\ \A i \in 1 .. m : i + 1 \in 1 .. n
             /\ \A i \in 1 .. n : i # 1 => i - 1 \in 1 .. m /\ (i - 1) + 1 = i
  BY <1>6
<1>7. /\ \A i \in 1 .. Len(r) : i + 1 \in 1 .. Len(s)
      /\ \A i \in 1 .. Len(s) : i # 1 => i - 1 \in 1 .. Len(r) /\ (i - 1) + 1 = i
  BY <1>1, <1>3, <1>6, Zenon
<1>8. DOMAIN s \subseteq Int /\ DOMAIN r \subseteq Int
  BY <1>3
<1>9. \A i \in DOMAIN s : i # 1 => i - 1 \in DOMAIN r /\ r[i - 1] = s[i]
  <2> TAKE i \in DOMAIN s
  <2> HAVE i # 1
  <2>1. i - 1 \in 1 .. Len(r) /\ (i - 1) + 1 = i
    BY <1>3, <1>7, Zenon
  <2>2. r[i - 1] = s[(i - 1) + 1]
    BY <1>2, <2>1, Zenon
  <2> QED BY <1>3, <2>1, <2>2, Zenon
<1> QED BY <1>1, <1>2, <1>3, <1>4, <1>5, <1>7, <1>8, <1>9, Zenon

\* Append: everything stays and the new element is the last one.
LEMMA AppendFacts ==
  ASSUME NEW S, NEW s \in Seq(S), NEW e \in S
  PROVE  /\ Append(s, e) \in Seq(S) /\ Len(s) \in Nat
         /\ Len(Append(s, e)) = Len(s) + 1
         /\ DOMAIN s \subseteq Int
         /\ Len(s) + 1 \notin DOMAIN s
         /\ DOMAIN Append(s, e) = DOMAIN s \cup {Len(s) + 1}
         /\ \A i \in DOMAIN s : Append(s, e)[i] = s[i] /\ s[i] \in S
         /\ Append(s, e)[Len(s) + 1] = e
<1>1. /\ Append(s, e) \in Seq(S) /\ Len(Append(s, e)) = Len(s) + 1
      /\ \A i \in 1 .. Len(s) : Append(s, e)[i] = s[i]
      /\ Append(s, e)[Len(s) + 1] = e
  BY AppendProperties
<1>2. Len(s) \in Nat /\ DOMAIN s = 1 .. Len(s)
      /\ DOMAIN Append(s, e) = 1 .. Len(Append(s, e))
  BY <1>1, LenProperties
<1>3. \A i \in 1 .. Len(s) : s[i] \in S
  BY ElementOfSeq
<1>4. 1 .. (Len(s) + 1) = (1 .. Len(s)) \cup {Len(s) + 1} /\ Len(s) + 1 \notin 1 .. Len(s)
      /\ 1 .. Len(s) \subseteq Int
  BY <1>2
<1> QED BY <1>1, <1>2, <1>3, <1>4

-----------------------------------------------------------------------------
(* The steps of the workers. *)

\* No worker takes a step once they have been joined.
LEMMA NotJoined ==
  ASSUME PoolInv, NEW w \in Workers, pc[w] \notin {"none", "exited"}
  PROVE  destructor \in {"none", "join"}
BY DEF PoolInv, TypeOK, DestructorOK

\* A step of a worker that exists leaves the list of the workers right.
LEMMA SameThreads ==
  ASSUME PoolInv, NEW w \in Workers, pc[w] # "none", NEW l, l # "none", Goto(w, l),
         UNCHANGED mThreads
  PROVE  ThreadsOK' /\ Len(mThreads') = Cardinality(Created')
<1> USE DEF PoolInv
<1>1. Created' = Created /\ Cardinality(Created') = Cardinality(Created)
  <2>1. Created' = Created \cup {w} /\ w \in Created
    BY CreatedStep DEF Created
  <2> QED BY <2>1
<1>2. \A i \in DOMAIN mThreads : mThreads[i] \in Workers
  BY DEF TypeOK
<1>3. \A u \in Workers : pc[u] # "none" => pc'[u] # "none"
  BY DEF TypeOK, Goto
<1>4. Len(mThreads') = Cardinality(Created')
  BY <1>1 DEF CountOK
<1> QED BY <1>1, <1>2, <1>3, <1>4 DEF ThreadsOK

\* The test of mStop keeps it, although it is made without the lock.
LEMMA CheckStopStep ==
  ASSUME PoolInv, NEW w \in Workers, CheckStop(w)
  PROVE  PoolInv'
<1> USE DEF PoolInv
<1> DEFINE l == IF mStop THEN "exited" ELSE "enter"
<1>1. /\ pc[w] = "checkStop" /\ Goto(w, l)
      /\ UNCHANGED <<mWork, mStop, mIdleThreadCount, mThreads, sleeping, task, unposted,
                     refused, outcome, runs, destructor>>
  BY DEF CheckStop
<1>2. ThreadsOK' /\ CountOK'
  <2>1. Cardinality(Waiting') = Cardinality(Waiting)
    BY <1>1, WaitingStep, CountTypes
  <2> QED BY <1>1, <2>1, SameThreads DEF CountOK
<1>3. TypeOK'
  BY <1>1 DEF TypeOK, Goto
<1>4. WorkersOK'
  BY <1>1 DEF WorkersOK, TypeOK, Goto
<1>5. DestructorOK'
  BY <1>1, NotJoined DEF DestructorOK
<1>6. \A t \in Tasks : OnePlace(t)'
  BY <1>1 DEF OnePlace, Queued, Held
<1>7. WorkIsAttended'
  <2>1. CASE mStop
    BY <1>1, <2>1 DEF WorkIsAttended
  <2>2. CASE ~mStop
    BY <1>1, <2>2 DEF WorkIsAttended, Awake, Goto, TypeOK
  <2> QED BY <2>1, <2>2
<1> QED BY <1>2, <1>3, <1>4, <1>5, <1>6, <1>7

\* A worker that has come from Enter or from Resume takes the first task.
LEMMA TakeStep ==
  ASSUME PoolInv, NEW w \in Workers, NEW idle,
         pc[w] \in {"enter", "wait"}, w \notin sleeping,
         idle = Cardinality(Waiting) + (IF pc[w] = "wait" THEN 0 ELSE 1),
         mWork # <<>>, TakeTask(w, idle),
         UNCHANGED <<mStop, mThreads, unposted, refused, outcome, runs, destructor>>
  PROVE  PoolInv'
<1> USE DEF PoolInv
<1>1. /\ task' = [task EXCEPT ![w] = Head(mWork)] /\ mWork' = Tail(mWork)
      /\ mIdleThreadCount' = idle - 1 /\ Goto(w, "run") /\ UNCHANGED sleeping
  BY DEF TakeTask
<1>2. ThreadsOK' /\ CountOK'
  <2>1. Cardinality(Waiting') = Cardinality(Waiting) - (IF pc[w] = "wait" THEN 1 ELSE 0)
    BY <1>1, WaitingStep, CountTypes
  <2>2. mThreads' = mThreads /\ mIdleThreadCount' = idle - 1 /\ Goto(w, "run")
    BY <1>1
  <2>3. ThreadsOK' /\ Len(mThreads') = Cardinality(Created')
    BY <2>2, SameThreads
  <2>4. mIdleThreadCount' = Cardinality(Waiting')
    BY <2>1, <2>2, CountTypes
  <2> QED BY <2>3, <2>4 DEF CountOK
<1>3. /\ Head(mWork) \in Tasks /\ Head(mWork) = mWork[1] /\ 1 \in DOMAIN mWork
      /\ mWork' \in Seq(Tasks)
      /\ \A i \in DOMAIN mWork' : i + 1 \in DOMAIN mWork /\ mWork'[i] = mWork[i + 1]
      /\ \A i \in DOMAIN mWork : i # 1 => i - 1 \in DOMAIN mWork' /\ mWork'[i - 1] = mWork[i]
      /\ DOMAIN mWork \subseteq Int /\ DOMAIN mWork' \subseteq Int
  <2>1. mWork \in Seq(Tasks)
    BY DEF TypeOK
  <2> HIDE DEF PoolInv
  <2> QED BY <1>1, <2>1, TailFacts
<1>4. TypeOK'
  <2>1. mIdleThreadCount' \in 0 .. mMaxThreadCount
    BY <1>2, CountBound DEF TypeOK
  <2> QED BY <1>1, <1>3, <2>1 DEF TypeOK, Goto
<1>5. WorkersOK'
  BY <1>1, <1>3, ThreadPoolAssumption DEF WorkersOK, TypeOK, Goto
<1>6. DestructorOK'
  BY <1>1, NotJoined DEF DestructorOK
<1>7. ASSUME NEW t \in Tasks PROVE OnePlace(t)'
  <2>1. task[w] = NoTask /\ task'[w] = mWork[1] /\ \A u \in Workers : u # w => task'[u] = task[u]
    BY <1>1, <1>3 DEF WorkersOK, TypeOK
  <2>2. OnePlace(t) /\ t # NoTask
    BY ThreadPoolAssumption
  <2>3. DOMAIN mWork \subseteq Int /\ DOMAIN mWork' \subseteq Int
    BY <1>3
  <2>4. CASE mWork[1] = t
    <3>1. ~Queued(t)'
      BY <1>3, <2>2, <2>3, <2>4 DEF OnePlace, Queued
    <3>2. Held(t)' /\ \A v, u \in Workers : task'[v] = t /\ task'[u] = t => v = u
      BY <1>3, <2>1, <2>2, <2>4 DEF OnePlace, Queued, Held
    <3> QED BY <1>3, <2>2, <2>4, <3>1, <3>2 DEF OnePlace, Queued
  <2>5. CASE mWork[1] # t
    <3>1. Queued(t)' <=> Queued(t)
      BY <1>3, <2>3, <2>5 DEF Queued
    <3>2. Held(t)' <=> Held(t)
      BY <2>1, <2>2, <2>5 DEF Held
    <3>3. \A i, j \in DOMAIN mWork' : mWork'[i] = t /\ mWork'[j] = t => i = j
      BY <1>3, <2>2, <2>3 DEF OnePlace
    <3>4. \A v, u \in Workers : task'[v] = t /\ task'[u] = t => v = u
      BY <2>1, <2>2, <2>5 DEF OnePlace
    <3> QED BY <2>2, <3>1, <3>2, <3>3, <3>4 DEF OnePlace
  <2> QED BY <2>4, <2>5
<1>8. WorkIsAttended'
  BY <1>1 DEF WorkIsAttended, Awake, Goto, TypeOK
<1> QED BY <1>2, <1>4, <1>5, <1>6, <1>7, <1>8

\* ... or finds no task and waits.
LEMMA SleepStep ==
  ASSUME PoolInv, NEW w \in Workers, NEW idle,
         pc[w] \in {"enter", "wait"}, w \notin sleeping,
         idle = Cardinality(Waiting) + (IF pc[w] = "wait" THEN 0 ELSE 1),
         mWork = <<>>, Sleep(w, idle),
         UNCHANGED <<mStop, mThreads, unposted, refused, outcome, runs, destructor>>
  PROVE  PoolInv'
<1> USE DEF PoolInv
<1>1. /\ sleeping' = sleeping \cup {w} /\ mIdleThreadCount' = idle /\ Goto(w, "wait")
      /\ UNCHANGED <<task, mWork>>
  BY DEF Sleep
<1>2. ThreadsOK' /\ CountOK'
  <2>1. Cardinality(Waiting') = Cardinality(Waiting) + 1 - (IF pc[w] = "wait" THEN 1 ELSE 0)
    BY <1>1, WaitingStep, CountTypes
  <2> QED BY <1>1, <2>1, SameThreads, CountTypes DEF CountOK
<1>3. TypeOK'
  <2>1. mIdleThreadCount' \in 0 .. mMaxThreadCount
    BY <1>2, CountBound DEF TypeOK
  <2> QED BY <1>1, <2>1 DEF TypeOK, Goto
<1>4. WorkersOK'
  BY <1>1 DEF WorkersOK, TypeOK, Goto
<1>5. DestructorOK'
  BY <1>1, NotJoined DEF DestructorOK
<1>6. \A t \in Tasks : OnePlace(t)'
  BY <1>1 DEF OnePlace, Queued, Held
<1>7. WorkIsAttended'
  BY <1>1 DEF WorkIsAttended
<1> QED BY <1>2, <1>3, <1>4, <1>5, <1>6, <1>7

\* Both outcomes of a new round keep it.
LEMMA EnterStep ==
  ASSUME PoolInv, NEW w \in Workers, Enter(w)
  PROVE  PoolInv'
<1>1. pc[w] = "enter" /\ w \notin sleeping
  BY DEF Enter, PoolInv, WorkersOK
<1>2. mIdleThreadCount + 1 = Cardinality(Waiting) + (IF pc[w] = "wait" THEN 0 ELSE 1)
  BY <1>1 DEF PoolInv, CountOK
<1>3. CASE mWork = <<>>
  BY <1>1, <1>2, <1>3, SleepStep DEF Enter, TakeOrSleep
<1>4. CASE mWork # <<>>
  BY <1>1, <1>2, <1>4, TakeStep DEF Enter, TakeOrSleep
<1> QED BY <1>3, <1>4

\* So do those of a wakeup, and a worker that finds mStop and leaves.
LEMMA ResumeStep ==
  ASSUME PoolInv, NEW w \in Workers, Resume(w)
  PROVE  PoolInv'
<1>1. /\ pc[w] = "wait" /\ w \notin sleeping
      /\ UNCHANGED <<mStop, mThreads, unposted, refused, outcome, runs, destructor>>
  BY DEF Resume
<1>2. mIdleThreadCount = Cardinality(Waiting) + (IF pc[w] = "wait" THEN 0 ELSE 1)
  BY <1>1, CountTypes DEF PoolInv, CountOK
<1>3. CASE ~mStop
  <2>1. TakeOrSleep(w, mIdleThreadCount)
    BY <1>3 DEF Resume
  <2>2. CASE mWork = <<>>
    BY <1>1, <1>2, <2>1, <2>2, SleepStep DEF TakeOrSleep
  <2>3. CASE mWork # <<>>
    BY <1>1, <1>2, <2>1, <2>3, TakeStep DEF TakeOrSleep
  <2> QED BY <2>2, <2>3
<1>4. CASE mStop
  <2> USE DEF PoolInv
  <2>1. /\ mIdleThreadCount' = mIdleThreadCount - 1 /\ Goto(w, "exited")
        /\ UNCHANGED <<mWork, task, sleeping>>
    BY <1>4 DEF Resume
  <2>2. ThreadsOK' /\ CountOK'
    <3>1. Cardinality(Waiting') = Cardinality(Waiting) - 1
      BY <1>1, <2>1, WaitingStep, CountTypes
    <3> QED BY <1>1, <2>1, <3>1, SameThreads, CountTypes DEF CountOK
  <2>3. TypeOK'
    <3>1. mIdleThreadCount' \in 0 .. mMaxThreadCount
      BY <1>1, <2>2, CountBound DEF TypeOK
    <3> QED BY <1>1, <2>1, <3>1 DEF TypeOK, Goto
  <2>4. WorkersOK'
    BY <1>1, <1>4, <2>1 DEF WorkersOK, TypeOK, Goto
  <2>5. DestructorOK'
    BY <1>1, <2>1, NotJoined DEF DestructorOK
  <2>6. \A t \in Tasks : OnePlace(t)'
    BY <1>1, <2>1 DEF OnePlace, Queued, Held
  <2>7. WorkIsAttended'
    BY <1>1, <1>4 DEF WorkIsAttended
  <2> QED BY <2>2, <2>3, <2>4, <2>5, <2>6, <2>7
<1> QED BY <1>3, <1>4

\* A spurious wakeup keeps it.
LEMMA SpuriousStep ==
  ASSUME PoolInv, NEW w \in Workers, SpuriousWakeup(w)
  PROVE  PoolInv'
<1> USE DEF PoolInv
<1>1. /\ sleeping' = sleeping \ {w}
      /\ UNCHANGED <<mWork, mStop, mIdleThreadCount, mThreads, pc, task, unposted,
                     refused, outcome, runs, destructor>>
  BY DEF SpuriousWakeup
<1>2. TypeOK'
  BY <1>1 DEF TypeOK
<1>3. CountOK' /\ ThreadsOK' /\ WorkersOK' /\ DestructorOK'
  BY <1>1 DEF CountOK, ThreadsOK, WorkersOK, DestructorOK, Waiting, Created
<1>4. \A t \in Tasks : OnePlace(t)'
  BY <1>1 DEF OnePlace, Queued, Held
<1>5. WorkIsAttended'
  BY <1>1 DEF WorkIsAttended, Awake, WorkersOK
<1> QED BY <1>2, <1>3, <1>4, <1>5

\* A task that is run, by whom it may be, leaves its place.
LEMMA InvokeFacts ==
  ASSUME TypeOK, NEW t \in Tasks, Invoke(t)
  PROVE  /\ runs' \in [Tasks -> Nat] /\ runs'[t] = runs[t] + 1
         /\ outcome' \in [Tasks -> {"none", "value", "exception"}] /\ outcome'[t] # "none"
         /\ \A u \in Tasks : u # t => runs'[u] = runs[u] /\ outcome'[u] = outcome[u]
BY DEF TypeOK, Invoke

\* A worker that has run its task keeps it.
LEMMA RunStep ==
  ASSUME PoolInv, NEW w \in Workers, Run(w)
  PROVE  PoolInv'
<1> USE DEF PoolInv
<1>1. /\ pc[w] = "run" /\ Invoke(task[w]) /\ task' = [task EXCEPT ![w] = NoTask]
      /\ Goto(w, "checkStop")
      /\ UNCHANGED <<mWork, mStop, mIdleThreadCount, mThreads, sleeping, unposted,
                     refused, destructor>>
  BY DEF Run
<1>2. task[w] \in Tasks
  BY <1>1 DEF TypeOK, WorkersOK
<1>3. ThreadsOK' /\ CountOK'
  <2>1. Cardinality(Waiting') = Cardinality(Waiting)
    BY <1>1, WaitingStep, CountTypes
  <2> QED BY <1>1, <2>1, SameThreads DEF CountOK
<1>4. TypeOK'
  BY <1>1, <1>2, InvokeFacts DEF TypeOK, Goto
<1>5. WorkersOK'
  BY <1>1 DEF WorkersOK, TypeOK, Goto
<1>6. DestructorOK'
  BY <1>1, NotJoined DEF DestructorOK
<1>7. ASSUME NEW t \in Tasks PROVE OnePlace(t)'
  <2>1. task'[w] = NoTask /\ \A u \in Workers : u # w => task'[u] = task[u]
    BY <1>1 DEF TypeOK
  <2>2. OnePlace(t) /\ t # NoTask
    BY ThreadPoolAssumption
  <2>3. (Queued(t)' <=> Queued(t)) /\ mWork' = mWork /\ unposted' = unposted
    BY <1>1 DEF Queued
  <2>4. CASE task[w] = t
    <3>1. ~Held(t)'
      BY <2>1, <2>2, <2>4 DEF OnePlace, Held
    <3>2. runs[t] = 0 /\ ~Queued(t) /\ t \notin unposted
      BY <2>2, <2>4 DEF OnePlace, Held
    <3>3. runs'[t] = 1 /\ outcome'[t] # "none"
      BY <1>1, <1>2, <2>4, <3>2, InvokeFacts
    <3> QED BY <2>2, <2>3, <3>1, <3>2, <3>3 DEF OnePlace, Held
  <2>5. CASE task[w] # t
    <3>1. runs'[t] = runs[t] /\ outcome'[t] = outcome[t]
      BY <1>1, <1>2, <2>5, InvokeFacts
    <3>2. Held(t)' <=> Held(t)
      BY <2>1, <2>2, <2>5 DEF Held
    <3>3. \A v, u \in Workers : task'[v] = t /\ task'[u] = t => v = u
      BY <2>1, <2>2, <2>5 DEF OnePlace
    <3> QED BY <2>2, <2>3, <3>1, <3>2, <3>3 DEF OnePlace
  <2> QED BY <2>4, <2>5
<1>8. WorkIsAttended'
  BY <1>1 DEF WorkIsAttended, Awake, Goto, TypeOK
<1> QED BY <1>3, <1>4, <1>5, <1>6, <1>7, <1>8

-----------------------------------------------------------------------------
(* Post. *)

\* The task that is posted is in the queue, and nowhere else.
LEMMA PostPlaces ==
  ASSUME PoolInv, NEW t \in Tasks, Post(t), NEW u \in Tasks
  PROVE  OnePlace(u)'
<1> USE DEF PoolInv
<1>1. /\ t \in unposted /\ unposted' = unposted \ {t} /\ mWork' = Append(mWork, t)
      /\ UNCHANGED <<task, outcome, runs>>
  BY DEF Post, AddWorkItem
<1>2. /\ Len(mWork) + 1 \notin DOMAIN mWork
      /\ DOMAIN mWork' = DOMAIN mWork \cup {Len(mWork) + 1}
      /\ \A i \in DOMAIN mWork : mWork'[i] = mWork[i]
      /\ mWork'[Len(mWork) + 1] = t
  <2>1. mWork \in Seq(Tasks)
    BY DEF TypeOK
  <2> HIDE DEF PoolInv
  <2> QED BY <1>1, <2>1, AppendFacts
<1>3. (Held(u)' <=> Held(u)) /\ OnePlace(u) /\ OnePlace(t)
  BY <1>1 DEF Held
<1>4. CASE u = t
  <2>1. ~Queued(t)
    BY <1>1, <1>3 DEF OnePlace
  <2>2. Queued(t)' /\ \A i \in DOMAIN mWork' : mWork'[i] = t => i = Len(mWork) + 1
    BY <1>2, <2>1 DEF Queued
  <2> QED BY <1>1, <1>3, <1>4, <2>2 DEF OnePlace
<1>5. CASE u # t
  <2>1. \A i \in DOMAIN mWork' : mWork'[i] = u => i \in DOMAIN mWork /\ mWork[i] = u
    BY <1>2, <1>5
  <2>2. Queued(u)' <=> Queued(u)
    BY <1>2, <2>1 DEF Queued
  <2> QED BY <1>1, <1>3, <1>5, <2>1, <2>2 DEF OnePlace
<1> QED BY <1>4, <1>5

\* Post creates a worker ...
LEMMA PostCreates ==
  ASSUME PoolInv, NEW t \in Tasks, Post(t), NEW w \in Workers, pc[w] = "none",
         Len(mThreads) < mMaxThreadCount, mThreads' = Append(mThreads, w),
         Goto(w, "checkStop"), UNCHANGED <<sleeping, refused>>
  PROVE  PoolInv'
<1> USE DEF PoolInv
<1>1. /\ t \in unposted /\ unposted' = unposted \ {t} /\ mWork' = Append(mWork, t)
      /\ UNCHANGED <<mStop, mIdleThreadCount, task, outcome, runs, destructor>>
      /\ destructor = "none"
  BY DEF Post, AddWorkItem
<1>2. /\ mThreads' \in Seq(Workers) /\ Len(mThreads') = Len(mThreads) + 1
      /\ DOMAIN mThreads' = DOMAIN mThreads \cup {Len(mThreads) + 1}
      /\ \A i \in DOMAIN mThreads : mThreads'[i] = mThreads[i] /\ mThreads[i] \in Workers
      /\ mThreads'[Len(mThreads) + 1] = w
      /\ Len(mThreads) \in Nat
  <2>1. mThreads \in Seq(Workers)
    BY DEF TypeOK
  <2> HIDE DEF PoolInv
  <2> QED BY <2>1, AppendFacts
<1>3. CountOK'
  <2>1. Cardinality(Waiting') = Cardinality(Waiting)
    BY WaitingStep, CountTypes
  <2>2. Cardinality(Created') = Cardinality(Created) + 1
    BY CreatedStep
  <2> QED BY <1>1, <1>2, <2>1, <2>2 DEF CountOK
<1>4. ThreadsOK'
  <2>1. Created' = Created \cup {w}
    BY CreatedStep
  <2>2. /\ pc'[w] # "none"
        /\ \A u \in Workers : pc[u] # "none" => pc'[u] # "none"
    BY DEF TypeOK, Goto
  <2>3. \A i \in DOMAIN mThreads' : pc'[mThreads'[i]] # "none"
    BY <1>2, <2>2 DEF ThreadsOK
  <2>4. \A u \in Created' : \E i \in DOMAIN mThreads' : mThreads'[i] = u
    BY <1>2, <2>1 DEF ThreadsOK
  <2> QED BY <2>3, <2>4 DEF ThreadsOK
<1>5. TypeOK'
  <2>1. mMaxThreadCount \in Int
    BY ThreadPoolAssumption, FS_CardinalityType
  <2>2. Len(mThreads') <= mMaxThreadCount
    BY <1>2, <2>1
  <2>3. mWork' \in Seq(Tasks)
    BY <1>1, AppendProperties DEF TypeOK
  <2> QED BY <1>1, <1>2, <2>2, <2>3 DEF TypeOK, Goto
<1>6. WorkersOK'
  BY <1>1 DEF WorkersOK, TypeOK, Goto
<1>7. DestructorOK'
  BY <1>1 DEF DestructorOK
<1>8. \A u \in Tasks : OnePlace(u)'
  BY PostPlaces
<1>9. WorkIsAttended'
  BY DEF WorkIsAttended, Awake, Goto, TypeOK
<1> QED BY <1>3, <1>4, <1>5, <1>6, <1>7, <1>8, <1>9

(* ... or cannot, and throws.  As no worker waits, each one that the pool   *)
(* has is awake; if it has none, every Post has thrown that has left a task *)
(* in the queue.                                                            *)
LEMMA PostThrows ==
  ASSUME PoolInv, NEW t \in Tasks, Post(t), NeedsWorker, CreationFails(t)
  PROVE  PoolInv'
<1> USE DEF PoolInv
<1>1. /\ t \in unposted /\ unposted' = unposted \ {t} /\ mWork' = Append(mWork, t)
      /\ UNCHANGED <<mStop, mIdleThreadCount, task, outcome, runs, destructor>>
      /\ destructor = "none"
  BY DEF Post, AddWorkItem
<1>2. refused' = refused \cup {t} /\ UNCHANGED <<mThreads, pc, sleeping>>
  BY DEF CreationFails
<1>3. TypeOK'
  <2>1. mWork' \in Seq(Tasks)
    BY <1>1, AppendProperties DEF TypeOK
  <2> QED BY <1>1, <1>2, <2>1 DEF TypeOK
<1>4. CountOK' /\ ThreadsOK' /\ WorkersOK' /\ DestructorOK'
  BY <1>1, <1>2 DEF CountOK, ThreadsOK, WorkersOK, DestructorOK, Waiting, Created
<1>5. \A u \in Tasks : OnePlace(u)'
  BY PostPlaces
<1>6. WorkIsAttended'
  <2> SUFFICES ASSUME ~mStop, mMaxThreadCount > 0
               PROVE  \/ \E w \in Workers : Awake(w)'
                      \/ mThreads = <<>> /\ \A i \in DOMAIN mWork' : mWork'[i] \in refused'
    BY <1>1, <1>2 DEF WorkIsAttended
  <2>1. \A w \in Workers : Awake(w)' <=> Awake(w)
    BY <1>2 DEF Awake
  <2>2. CASE mThreads # <<>>
    <3>1. Waiting = {}
      BY CountTypes, FS_EmptySet DEF CountOK, NeedsWorker
    <3>2. PICK w \in Workers : pc[w] # "none"
      <4>1. mThreads \in Seq(Workers)
        BY DEF TypeOK
      <4>2. 1 \in DOMAIN mThreads /\ mThreads[1] \in Workers
        BY <2>2, <4>1
      <4> QED BY <4>2 DEF ThreadsOK
    <3>3. pc[w] \in {"checkStop", "enter", "run"}
      BY <3>1, <3>2 DEF TypeOK, WorkersOK, Waiting
    <3> QED BY <2>1, <3>3 DEF Awake
  <2>3. CASE mThreads = <<>>
    <3>1. \/ \E w \in Workers : Awake(w)
          \/ \A i \in DOMAIN mWork : mWork[i] \in refused
      <4>1. CASE mWork = <<>>
        BY <4>1
      <4>2. CASE mWork # <<>>
        BY <4>2 DEF WorkIsAttended
      <4> QED BY <4>1, <4>2
    <3>2. /\ DOMAIN mWork' = DOMAIN mWork \cup {Len(mWork) + 1}
          /\ \A i \in DOMAIN mWork : mWork'[i] = mWork[i]
          /\ mWork'[Len(mWork) + 1] = t
      <4>1. mWork \in Seq(Tasks)
        BY DEF TypeOK
      <4> HIDE DEF PoolInv
      <4> QED BY <1>1, <4>1, AppendFacts
    <3> QED BY <1>2, <2>1, <2>3, <3>1, <3>2
  <2> QED BY <2>2, <2>3
<1> QED BY <1>3, <1>4, <1>5, <1>6

(* ... or wakes one.  If none sleeps, a worker that is counted as idle has  *)
(* been woken before, or there are as many workers as there may be and they *)
(* are all awake.                                                           *)
LEMMA PostWakes ==
  ASSUME PoolInv, NEW t \in Tasks, Post(t), ~NeedsWorker, WakeOne,
         UNCHANGED <<mThreads, pc, refused>>
  PROVE  PoolInv'
<1> USE DEF PoolInv
<1>1. /\ t \in unposted /\ unposted' = unposted \ {t} /\ mWork' = Append(mWork, t)
      /\ UNCHANGED <<mStop, mIdleThreadCount, task, outcome, runs, destructor>>
      /\ destructor = "none"
  BY DEF Post, AddWorkItem
<1>2. sleeping' \subseteq sleeping
  BY DEF WakeOne
<1>3. TypeOK'
  <2>1. mWork' \in Seq(Tasks)
    BY <1>1, AppendProperties DEF TypeOK
  <2> QED BY <1>1, <1>2, <2>1 DEF TypeOK
<1>4. CountOK' /\ ThreadsOK' /\ WorkersOK' /\ DestructorOK'
  BY <1>1, <1>2 DEF CountOK, ThreadsOK, WorkersOK, DestructorOK, Waiting, Created
<1>5. \A u \in Tasks : OnePlace(u)'
  BY PostPlaces
<1>6. WorkIsAttended'
  <2> SUFFICES ASSUME ~mStop, mMaxThreadCount > 0
               PROVE  \E w \in Workers : pc[w] \in {"checkStop", "enter", "run"}
                                         \/ (pc[w] = "wait" /\ w \notin sleeping')
    BY <1>1 DEF WorkIsAttended, Awake
  <2>1. CASE \E w \in sleeping : sleeping' = sleeping \ {w}
    BY <2>1 DEF WorkersOK, TypeOK
  <2>2. CASE sleeping = {} /\ mIdleThreadCount # 0
    <3>1. Waiting # {}
      BY <2>2, FS_EmptySet DEF CountOK
    <3> QED BY <1>2, <2>2, <3>1 DEF Waiting
  <2>3. CASE sleeping = {} /\ mIdleThreadCount = 0
    <3>1. Len(mThreads) >= mMaxThreadCount /\ mMaxThreadCount \in Int /\ Len(mThreads) \in Nat
      BY <2>3, ThreadPoolAssumption, FS_CardinalityType DEF TypeOK, NeedsWorker
    <3>2. 1 \in DOMAIN mThreads /\ mThreads[1] \in Workers
      BY <3>1 DEF TypeOK
    <3>3. pc[mThreads[1]] \in {"checkStop", "enter", "run", "wait"}
      BY <3>2 DEF TypeOK, ThreadsOK, WorkersOK
    <3> QED BY <1>2, <2>3, <3>2, <3>3
  <2> QED BY <2>1, <2>2, <2>3 DEF WakeOne
<1> QED BY <1>3, <1>4, <1>5, <1>6

\* Post keeps it.
LEMMA PostStep ==
  ASSUME PoolInv, NEW t \in Tasks, Post(t)
  PROVE  PoolInv'
<1>1. CASE CreateWorker
  BY <1>1, PostCreates DEF CreateWorker, NeedsWorker
<1>2. CASE CreationFails(t)
  BY <1>2, PostThrows DEF CreationFails
<1>3. CASE ~NeedsWorker /\ WakeOne /\ UNCHANGED <<mThreads, pc, refused>>
  BY <1>3, PostWakes
<1> QED BY <1>1, <1>2, <1>3 DEF Post, AddWorkItem

-----------------------------------------------------------------------------
(* The destructor. *)

\* The destructor keeps it when it sets mStop and wakes up everybody,
LEMMA StopStep ==
  ASSUME PoolInv, Stop
  PROVE  PoolInv'
<1> USE DEF PoolInv
<1>1. /\ destructor = "none" /\ unposted = {} /\ mStop' = TRUE /\ sleeping' = {}
      /\ destructor' = "join"
      /\ UNCHANGED <<mWork, mIdleThreadCount, mThreads, pc, task, unposted, refused,
                     outcome, runs>>
  BY DEF Stop
<1>2. TypeOK'
  BY <1>1 DEF TypeOK
<1>3. CountOK' /\ ThreadsOK' /\ WorkersOK' /\ DestructorOK'
  BY <1>1 DEF CountOK, ThreadsOK, WorkersOK, DestructorOK, Waiting, Created
<1>4. \A t \in Tasks : OnePlace(t)'
  BY <1>1 DEF OnePlace, Queued, Held
<1>5. WorkIsAttended'
  BY <1>1 DEF WorkIsAttended
<1> QED BY <1>2, <1>3, <1>4, <1>5

\* when it has joined the workers,
LEMMA JoinStep ==
  ASSUME PoolInv, Join
  PROVE  PoolInv'
<1> USE DEF PoolInv
<1>1. /\ destructor = "join" /\ destructor' = "drain"
      /\ \A i \in DOMAIN mThreads : pc[mThreads[i]] = "exited"
      /\ UNCHANGED <<mWork, mStop, mIdleThreadCount, mThreads, sleeping, pc, task,
                     unposted, refused, outcome, runs>>
  BY DEF Join
<1>2. \A w \in Workers : pc[w] \in {"none", "exited"}
  BY <1>1 DEF ThreadsOK, Created
<1>3. TypeOK'
  BY <1>1 DEF TypeOK
<1>4. CountOK' /\ ThreadsOK' /\ WorkersOK'
  BY <1>1 DEF CountOK, ThreadsOK, WorkersOK, Waiting, Created
<1>5. DestructorOK'
  BY <1>1, <1>2 DEF DestructorOK
<1>6. \A t \in Tasks : OnePlace(t)'
  BY <1>1 DEF OnePlace, Queued, Held
<1>7. WorkIsAttended'
  BY <1>1 DEF WorkIsAttended, Awake
<1> QED BY <1>3, <1>4, <1>5, <1>6, <1>7

\* and when it runs what is left in the queue.
LEMMA DrainStep ==
  ASSUME PoolInv, Drain
  PROVE  PoolInv'
<1> USE DEF PoolInv
<1>1. /\ destructor = "drain"
      /\ UNCHANGED <<mStop, mIdleThreadCount, mThreads, sleeping, pc, task, unposted,
                     refused>>
  BY DEF Drain
<1>2. mStop /\ destructor' \in {"drain", "terminated", "done"}
  BY <1>1 DEF Drain, DestructorOK
<1>3. CountOK' /\ ThreadsOK' /\ WorkersOK' /\ WorkIsAttended'
  BY <1>1, <1>2 DEF CountOK, ThreadsOK, WorkersOK, WorkIsAttended, Waiting, Created
<1>4. CASE mWork = <<>> /\ destructor' = "done" /\ UNCHANGED <<mWork, outcome, runs>>
  <2>1. TypeOK'
    BY <1>1, <1>4 DEF TypeOK
  <2>2. DestructorOK'
    BY <1>1, <1>4 DEF DestructorOK
  <2>3. \A t \in Tasks : OnePlace(t)'
    BY <1>1, <1>4 DEF OnePlace, Queued, Held
  <2> QED BY <1>3, <2>1, <2>2, <2>3
<1>5. CASE /\ mWork # <<>> /\ Invoke(Head(mWork)) /\ mWork' = Tail(mWork)
           /\ destructor' \in {"drain", "terminated"}
  <2>1. /\ Head(mWork) \in Tasks /\ Head(mWork) = mWork[1] /\ 1 \in DOMAIN mWork
        /\ mWork' \in Seq(Tasks) /\ DOMAIN mWork \subseteq Int /\ DOMAIN mWork' \subseteq Int
        /\ \A i \in DOMAIN mWork' : i + 1 \in DOMAIN mWork /\ mWork'[i] = mWork[i + 1]
        /\ \A i \in DOMAIN mWork : i # 1 => i - 1 \in DOMAIN mWork' /\ mWork'[i - 1] = mWork[i]
    <3>1. mWork \in Seq(Tasks)
      BY DEF TypeOK
    <3> HIDE DEF PoolInv
    <3> QED BY <1>5, <3>1, TailFacts
  <2>2. TypeOK'
    BY <1>1, <1>5, <2>1, InvokeFacts DEF TypeOK
  <2>3. DestructorOK'
    BY <1>1, <1>5 DEF DestructorOK
  <2>4. ASSUME NEW t \in Tasks PROVE OnePlace(t)'
    <3>1. OnePlace(t) /\ (Held(t)' <=> Held(t)) /\ task' = task /\ unposted' = unposted
      BY <1>1 DEF Held
    <3>2. CASE mWork[1] = t
      <4>1. ~Queued(t)'
        BY <2>1, <3>1, <3>2 DEF OnePlace, Queued
      <4>2. runs[t] = 0 /\ ~Held(t) /\ t \notin unposted
        BY <2>1, <3>1, <3>2 DEF OnePlace, Queued
      <4>3. runs'[t] = 1 /\ outcome'[t] # "none"
        BY <1>5, <2>1, <3>2, <4>2, InvokeFacts
      <4> QED BY <3>1, <4>1, <4>2, <4>3 DEF OnePlace, Queued
    <3>3. CASE mWork[1] # t
      <4>1. Queued(t)' <=> Queued(t)
        BY <2>1, <3>3 DEF Queued
      <4>2. \A i, j \in DOMAIN mWork' : mWork'[i] = t /\ mWork'[j] = t => i = j
        BY <2>1, <3>1 DEF OnePlace
      <4>3. runs'[t] = runs[t] /\ outcome'[t] = outcome[t]
        BY <1>5, <2>1, <3>3, InvokeFacts
      <4> QED BY <3>1, <4>1, <4>2, <4>3 DEF OnePlace
    <3> QED BY <3>2, <3>3
  <2> QED BY <1>3, <2>2, <2>3, <2>4
<1> QED BY <1>4, <1>5 DEF Drain

-----------------------------------------------------------------------------
(* The theorems. *)

\* Every step keeps the invariant.
LEMMA PoolStep == PoolInv /\ [Next]_poolVars => PoolInv'
<1> SUFFICES ASSUME PoolInv, [Next]_poolVars PROVE PoolInv'
  OBVIOUS
<1>1. ASSUME NEW t \in Tasks, Post(t) PROVE PoolInv'
  BY <1>1, PostStep
<1>2. ASSUME NEW w \in Workers, Worker(w) PROVE PoolInv'
  BY <1>2, CheckStopStep, EnterStep, ResumeStep, RunStep DEF Worker
<1>3. ASSUME NEW w \in Workers, SpuriousWakeup(w) PROVE PoolInv'
  BY <1>3, SpuriousStep
<1>4. ASSUME Destructor PROVE PoolInv'
  BY <1>4, StopStep, JoinStep, DrainStep DEF Destructor
<1>5. ASSUME UNCHANGED poolVars PROVE PoolInv'
  <2> USE <1>5 DEF PoolInv, poolVars
  <2>1. TypeOK'
    BY DEF TypeOK
  <2>2. CountOK' /\ ThreadsOK' /\ WorkersOK' /\ DestructorOK'
    BY DEF CountOK, ThreadsOK, WorkersOK, DestructorOK, Waiting, Created
  <2>3. \A t \in Tasks : OnePlace(t)'
    BY DEF OnePlace, Queued, Held
  <2>4. WorkIsAttended'
    BY DEF WorkIsAttended, Awake
  <2> QED BY <2>1, <2>2, <2>3, <2>4
<1> QED BY <1>1, <1>2, <1>3, <1>4, <1>5 DEF Next

\* PoolInv is an invariant of every behaviour of the pool.
THEOREM PoolInvariance == Spec => []PoolInv
<1> QED BY PoolInit, PoolStep, PTL DEF Spec

\* The types, and with them: no more threads than mMaxThreadCount, and a count of idle
\* threads that never goes below zero.
THEOREM PoolTypeCorrect == Spec => []TypeOK
<1>1. PoolInv => TypeOK
  BY DEF PoolInv
<1> QED BY <1>1, PoolInvariance, PTL

(* No order of Post, of threads that cannot be created, of the workers and  *)
(* of spurious wakeups loses a wakeup: while the pool runs, work in the     *)
(* queue has a worker that is awake, unless the pool has not got its first  *)
(* worker yet, and then the Post of each task in the queue has thrown.      *)
THEOREM WorkIsAlwaysAttended == Spec => []WorkIsAttended
<1>1. PoolInv => WorkIsAttended
  BY DEF PoolInv
<1> QED BY <1>1, PoolInvariance, PTL

(* Each task that has been posted is in the queue, with one worker, or has  *)
(* been run, and only once: by a worker or by the destructor.               *)
THEOREM TasksRunOnce == Spec => []RunOnce
<1>1. PoolInv => RunOnce
  <2> SUFFICES ASSUME PoolInv, NEW t \in Tasks
               PROVE  Cardinality({i \in DOMAIN mWork : mWork[i] = t})
                      + Cardinality({w \in Workers : task[w] = t}) + runs[t]
                        = IF t \in unposted THEN 0 ELSE 1
    BY DEF RunOnce
  <2> DEFINE Q == {i \in DOMAIN mWork : mWork[i] = t}
             H == {w \in Workers : task[w] = t}
  <2>1. OnePlace(t)
    BY DEF PoolInv
  <2>2. ASSUME NEW S, NEW x \in S, \A y \in S : y = x PROVE Cardinality(S) = 1
    <3>1. S = {} \cup {x}
      BY <2>2
    <3> QED BY <3>1, FS_EmptySet, FS_AddElement
  <2>3. Cardinality(Q) = IF Queued(t) THEN 1 ELSE 0
    <3>1. CASE Queued(t)
      <4>1. PICK i \in DOMAIN mWork : mWork[i] = t
        BY <3>1 DEF Queued
      <4>2. i \in Q /\ \A j \in Q : j = i
        BY <2>1, <4>1 DEF OnePlace
      <4> HIDE DEF Q
      <4> QED BY <2>2, <3>1, <4>2
    <3>2. CASE ~Queued(t)
      <4>1. Q = {}
        BY <3>2 DEF Queued
      <4> QED BY <3>2, <4>1, FS_EmptySet
    <3> QED BY <3>1, <3>2
  <2>4. Cardinality(H) = IF Held(t) THEN 1 ELSE 0
    <3>1. CASE Held(t)
      <4>1. PICK w \in Workers : task[w] = t
        BY <3>1 DEF Held
      <4>2. w \in H /\ \A v \in H : v = w
        BY <2>1, <4>1 DEF OnePlace
      <4> HIDE DEF H
      <4> QED BY <2>2, <3>1, <4>2
    <3>2. CASE ~Held(t)
      <4>1. H = {}
        BY <3>2 DEF Held
      <4> QED BY <3>2, <4>1, FS_EmptySet
    <3> QED BY <3>1, <3>2
  <2> HIDE DEF Q, H
  <2>5. Cardinality(Q) + Cardinality(H) + runs[t] = IF t \in unposted THEN 0 ELSE 1
    BY <2>1, <2>3, <2>4 DEF OnePlace
  <2> QED BY <2>5 DEF Q, H
<1> QED BY <1>1, PoolInvariance, PTL

(* When the destructor has joined the workers none of them is left, and     *)
(* when it returns every task has been run.                                 *)
THEOREM DestructionIsQuiet == Spec => []QuietWhenDestroyed
<1>1. PoolInv => QuietWhenDestroyed
  <2> SUFFICES ASSUME PoolInv PROVE QuietWhenDestroyed
    OBVIOUS
  <2>1. DestructorOK /\ WorkersOK
    BY DEF PoolInv
  <2>2. ASSUME destructor = "done", NEW t \in Tasks PROVE outcome[t] # "none"
    <3>1. ~Queued(t) /\ t \notin unposted
      BY <2>1, <2>2 DEF DestructorOK, Queued
    <3>2. ~Held(t)
      BY <2>1, <2>2, ThreadPoolAssumption DEF DestructorOK, WorkersOK, Held
    <3> QED BY <3>1, <3>2 DEF PoolInv, OnePlace
  <2> QED BY <2>1, <2>2 DEF QuietWhenDestroyed, DestructorOK
<1> QED BY <1>1, PoolInvariance, PTL

-----------------------------------------------------------------------------
(* Atomics *)

Call == [op : Operations, value : Words, cmp : Words]

(* Arithmetic that wraps around stays in the word, and one more and one     *)
(* less cancel out: InterlockedIncrement and InterlockedDecrement are made  *)
(* to return the old value this way.                                        *)
LEMMA WrapFacts ==
  ASSUME NEW w \in Words
  PROVE  /\ Wrap(w + 1) \in Words /\ Wrap(w - 1) \in Words
         /\ Wrap(Wrap(w + 1) - 1) = w /\ Wrap(Wrap(w - 1) + 1) = w
         /\ \A v \in Words : Wrap(w + v) \in Words /\ Wrap(w - v) \in Words
  BY AtomicWordAssumption DEF Words, Wrap

(* A call leaves a word. *)
LEMMA AfterIsWord ==
  ASSUME NEW w \in Words, NEW c \in Call
  PROVE  After(c, w) \in Words
<1>1. c.op \in Operations /\ c.value \in Words
  BY DEF Call
<1> QED
  BY <1>1, WrapFacts, AtomicWordAssumption DEF After, Operations

(* The builtins, the intrinsics and the operation of the loop all do what   *)
(* the call says, and those that take effect at once find the old value.    *)
LEMMA EffectsAgree ==
  ASSUME NEW w \in Words, NEW c \in Call
  PROVE  /\ c.op \in Moves => Move(c, w) = [word |-> After(c, w), found |-> w]
         /\ c.op \in Swaps => /\ SyncSwap(c, w) = [word |-> After(c, w), found |-> w]
                              /\ InterlockedSwap(c, w) = [word |-> After(c, w), found |-> w]
         /\ c.op \in Arithmetic =>
              /\ SyncArithmetic(c, w) = [word |-> After(c, w), found |-> w]
              /\ InterlockedArithmetic(c, w) = [word |-> After(c, w), found |-> w]
         /\ c.op \in Bits => /\ SyncBits(c, w) = [word |-> After(c, w), found |-> w]
                             /\ InterlockedBits(c, w) = [word |-> After(c, w), found |-> w]
         /\ c.op \notin Moves \cup {"CompareAndSwap"} => Op(c, w) = After(c, w)
<1>1. c.op \in Operations /\ c.value \in Words
  BY DEF Call
<1>2. c.op \in Moves => Move(c, w) = [word |-> After(c, w), found |-> w]
  BY DEF Moves, Move, After
<1>3. c.op \in Swaps => /\ SyncSwap(c, w) = [word |-> After(c, w), found |-> w]
                        /\ InterlockedSwap(c, w) = [word |-> After(c, w), found |-> w]
  BY DEF Swaps, SyncSwap, InterlockedSwap, After
<1>4. ASSUME c.op \in Arithmetic
      PROVE  /\ SyncArithmetic(c, w) = [word |-> After(c, w), found |-> w]
             /\ InterlockedArithmetic(c, w) = [word |-> After(c, w), found |-> w]
  <2>1. SyncArithmetic(c, w) = [word |-> After(c, w), found |-> w]
    BY <1>4 DEF Arithmetic, SyncArithmetic, After
  <2>2. w + (-c.value) = w - c.value
    BY <1>1, AtomicWordAssumption DEF Words
  <2>3. CASE c.op = "Increment"
    BY <2>1, <2>3, WrapFacts DEF InterlockedArithmetic, After
  <2>4. CASE c.op = "Decrement"
    BY <2>1, <2>4, WrapFacts DEF InterlockedArithmetic, After
  <2>5. CASE c.op \in {"Add", "Sub"}
    BY <2>1, <2>2, <2>5 DEF InterlockedArithmetic, After
  <2> QED
    BY <1>4, <2>3, <2>4, <2>5 DEF Arithmetic
<1>5. c.op \in Bits => /\ SyncBits(c, w) = [word |-> After(c, w), found |-> w]
                       /\ InterlockedBits(c, w) = [word |-> After(c, w), found |-> w]
  BY DEF Bits, SyncBits, InterlockedBits, After
<1>6. c.op \notin Moves \cup {"CompareAndSwap"} => Op(c, w) = After(c, w)
  BY <1>1 DEF Moves, Op, After, Operations
<1> QED
  BY <1>2, <1>3, <1>4, <1>5, <1>6

-----------------------------------------------------------------------------

(* A call that takes effect at once is a step of AtomicWord. *)
LEMMA AtOncePerforms ==
  ASSUME NEW t, NEW c, NEW effect,
         AtOnce(t, c, effect), effect = [word |-> After(c, word), found |-> word]
  PROVE  Perform(t, c)
  BY DEF AtOnce, Perform

(* Every step of Atomics is one of AtomicWord, or leaves it alone. *)
LEMMA StepRefines ==
  ASSUME AtomicsTypeOK, [AtomicsNext]_atomicVars
  PROVE  [WordNext]_wordVars
<1> SUFFICES ASSUME NEW t \in Threads,
                    \/ \E c \in Calls : \/ MoveCall(t, c) \/ SyncCall(t, c)
                                        \/ InterlockedCall(t, c) \/ FallbackRead(t, c)
                    \/ FallbackSwap(t)
             PROVE  [WordNext]_wordVars
  BY DEF AtomicsNext, atomicVars, wordVars
<1>w. word \in Words
  BY DEF AtomicsTypeOK
<1>c. Calls \subseteq Call
  BY AtomicWordAssumption DEF Call
<1>1. CASE \E c \in Calls : MoveCall(t, c) \/ SyncCall(t, c) \/ InterlockedCall(t, c)
  <2> PICK c \in Calls : MoveCall(t, c) \/ SyncCall(t, c) \/ InterlockedCall(t, c)
    BY <1>1
  <2>1. PICK effect : AtOnce(t, c, effect) /\ effect = [word |-> After(c, word), found |-> word]
    BY <1>w, <1>c, EffectsAgree DEF MoveCall, SyncCall, InterlockedCall
  <2> QED
    BY <2>1, AtOncePerforms DEF WordNext
<1>2. CASE \E c \in Calls : FallbackRead(t, c)
  BY <1>2 DEF FallbackRead, wordVars
<1>3. CASE FallbackSwap(t)
  <2>1. call[t] \in Calls /\ call[t].op \notin Moves \cup {"CompareAndSwap"}
    BY <1>3 DEF FallbackSwap, AtomicsTypeOK
  <2>2. CASE word = oldValue[t]
    <3>1. word' = Op(call[t], word) /\ Return(t, call[t], word)
      BY <1>3, <2>2 DEF FallbackSwap
    <3>2. Op(call[t], word) = After(call[t], word)
      BY <1>w, <1>c, <2>1, EffectsAgree
    <3> QED
      BY <2>1, <3>1, <3>2 DEF WordNext, Perform
  <2>3. CASE word # oldValue[t]
    BY <1>3, <2>3 DEF FallbackSwap, wordVars
  <2> QED
    BY <2>2, <2>3
<1> QED
  BY <1>1, <1>2, <1>3

-----------------------------------------------------------------------------

(* A step of AtomicWord keeps the types of its variables. *)
LEMMA PerformType ==
  ASSUME AtomicsTypeOK, NEW t \in Threads, NEW c \in Calls, Perform(t, c)
  PROVE  /\ word' \in Words
         /\ last' \in [Threads -> [call : Call, found : Words]]
         /\ made' \in [Threads -> Nat]
<1>1. c \in Call /\ word \in Words
  BY AtomicWordAssumption DEF Call, AtomicsTypeOK
<1>2. word' \in Words
  BY <1>1, AfterIsWord DEF Perform
<1>3. [call |-> c, found |-> word] \in [call : Call, found : Words]
  BY <1>1
<1> QED
  BY <1>2, <1>3 DEF Perform, Return, AtomicsTypeOK, Call

(* The types hold, and a thread in the loop is in a call that needs it. *)
LEMMA TypeInvariant == AtomicsSpec => []AtomicsTypeOK
<1>1. AtomicsInit => AtomicsTypeOK
  BY AtomicWordAssumption DEF AtomicsInit, WordInit, AtomicsTypeOK, NoCall, Words, Operations
<1>2. AtomicsTypeOK /\ [AtomicsNext]_atomicVars => AtomicsTypeOK'
  <2> SUFFICES ASSUME AtomicsTypeOK, [AtomicsNext]_atomicVars
               PROVE  AtomicsTypeOK'
    OBVIOUS
  <2>1. [WordNext]_wordVars
    BY StepRefines
  <2>2. /\ word' \in Words
        /\ last' \in [Threads -> [call : Call, found : Words]]
        /\ made' \in [Threads -> Nat]
    BY <2>1, PerformType DEF WordNext, wordVars, AtomicsTypeOK, Call
  <2>3. CASE UNCHANGED atomicVars
    BY <2>3 DEF atomicVars, AtomicsTypeOK
  <2>4. ASSUME NEW t \in Threads, NEW c \in Calls,
               MoveCall(t, c) \/ SyncCall(t, c) \/ InterlockedCall(t, c)
        PROVE  AtomicsTypeOK'
    <3>1. UNCHANGED <<build, phase, call, oldValue>>
      BY <2>4 DEF MoveCall, SyncCall, InterlockedCall, AtOnce
    <3> QED
      BY <2>2, <3>1 DEF AtomicsTypeOK, Call
  <2>5. ASSUME NEW t \in Threads, NEW c \in Calls, FallbackRead(t, c)
        PROVE  AtomicsTypeOK'
    <3>1. c \in Call
      BY AtomicWordAssumption DEF Call
    <3>2. /\ call' = [call EXCEPT ![t] = c] /\ phase' = [phase EXCEPT ![t] = "swap"]
          /\ oldValue' = [oldValue EXCEPT ![t] = word]
          /\ c.op \notin Moves \cup {"CompareAndSwap"} /\ UNCHANGED build
      BY <2>5 DEF FallbackRead
    <3> QED
      BY <2>2, <3>1, <3>2 DEF AtomicsTypeOK, Call
  <2>6. ASSUME NEW t \in Threads, FallbackSwap(t)
        PROVE  AtomicsTypeOK'
    <3>1. UNCHANGED <<build, call>>
      BY <2>6 DEF FallbackSwap
    <3>2. \/ UNCHANGED oldValue /\ phase' = [phase EXCEPT ![t] = "idle"]
          \/ oldValue' = [oldValue EXCEPT ![t] = word] /\ UNCHANGED phase
      BY <2>6 DEF FallbackSwap
    <3> QED
      BY <2>2, <3>1, <3>2 DEF AtomicsTypeOK, Call
  <2> QED
    BY <2>3, <2>4, <2>5, <2>6 DEF AtomicsNext
<1> QED
  BY <1>1, <1>2, PTL DEF AtomicsSpec

(* On every build a call of Atomic<T> takes effect at once and returns the  *)
(* old value.                                                               *)
THEOREM AtomicsImplementAtomicWord == AtomicsSpec => IsAtomicWord
<1>1. AtomicsInit => WordInit
  BY DEF AtomicsInit
<1>2. AtomicsTypeOK /\ [AtomicsNext]_atomicVars => [WordNext]_wordVars
  BY StepRefines
<1> QED
  BY <1>1, <1>2, TypeInvariant, PTL DEF AtomicsSpec, IsAtomicWord, WordSpec

=============================================================================
