---------------------------- MODULE MutexProofs -----------------------------
(***************************************************************************)
(* Proofs about Mutex for any set of threads, any number of rounds and     *)
(* spins, and any width of the tag.                                        *)
(***************************************************************************)
EXTENDS MutexInvariant, WaiterListProofs

-----------------------------------------------------------------------------
(* Types *)

\* The new words that the operations build are words.
LEMMA WordTypes ==
  /\ ZeroWord \in Word
  /\ FreeWord \in Word
  /\ \A w \in Word : AddAba(w) \in Word
  /\ \A w \in Word, p \in Pointers : WithHead(w, p) \in Word
  /\ \A w \in Word : Locked(w) \in Word /\ Unlocked(w) \in Word
<1>1. FreeWord \in Word
  BY WaiterListAssumption DEF Word, FreeWord, Pointers
<1> QED BY <1>1, ListWordTypes

\* The places a loop continues at are labels.
LEMMA BranchTypes ==
  \A w \in Word, t \in Threads :
    /\ RemoveBranch(t, w) \in {"inFlight", "removeLoad", "removeReadNext", "removeLock"}
    /\ AddBranch(w) \in {"addTake", "addLink"}
    /\ UnlockBranch(w) \in {"unlockFree", "unlockLoad", "unlockReadNext"}
BY DEF RemoveBranch, AddBranch, UnlockBranch, Word

\* The branches look at the pointer before they go where it is followed.
LEMMA BranchFollows ==
  \A w \in Word, t \in Threads :
    /\ RemoveBranch(t, w) \in {"removeReadNext", "removeLock"} => w.ptr # Null
    /\ UnlockBranch(w) = "unlockReadNext" => w.ptr # Null
BY DEF RemoveBranch, UnlockBranch, Word

\* The constructor establishes the types.
LEMMA InitType == Init => TypeInv
BY WordTypes, MutexAssumption
   DEF Init, ListInit, TypeInv, TypeOK, NoNullDereference, FollowsOK, Labels, ClientLabels,
       Pointers

\* A compare-and-swap keeps the types of what it writes.
LEMMA SwapTypes ==
  ASSUME TypeOK, NEW t \in Threads, NEW new \in Word, NEW success \in Labels,
         NEW retry \in Labels, CompareAndSwap(t, new, success, retry)
  PROVE  mWaiters' \in Word /\ head' \in [Threads -> Word] /\ pc' \in [Threads -> Labels]
<1> USE DEF TypeOK, Goto
<1>1. CASE mWaiters' = new /\ Goto(t, success) /\ UNCHANGED head
  BY <1>1
<1>2. CASE head' = [head EXCEPT ![t] = mWaiters] /\ Goto(t, retry) /\ UNCHANGED mWaiters
  BY <1>2
<1> QED BY <1>1, <1>2 DEF CompareAndSwap

\* Every step keeps the types.
LEMMA StepType ==
  ASSUME TypeInv, NEW t \in Threads, Step(t) PROVE TypeOK'
<1> USE DEF TypeOK, Goto
<1> TypeOK /\ FollowsOK(t)
  BY DEF TypeInv, NoNullDereference
<1>a. /\ mWaiters \in Word /\ head[t] \in Word /\ t \in Pointers
      /\ head[t].ptr \in Pointers /\ mWaiters.ptr \in Pointers
  BY DEF Pointers, Word
<1>b. /\ RemoveBranch(t, mWaiters) \in Labels
      /\ AddBranch(mWaiters) \in Labels
      /\ UnlockBranch(mWaiters) \in Labels
  BY <1>a, BranchTypes DEF Labels, ClientLabels, RemoveLabels
<1>c. {"idle", "signaled", "spin", "spinTake", "add", "addPush", "waiting", "unlockPop",
       "unlockNotify", "removeLoad", "removePop", "removeScan", "unlockFound",
       "unlockNotFound", "inFlight"} \subseteq Labels
  BY DEF Labels, ClientLabels, RemoveLabels
<1>d. StartRound(t) => rounds' \in [Threads -> Nat]
  BY DEF StartRound
<1>1. CASE LockFast(t)
  <2>1. rounds' \in [Threads -> Nat]
    BY <1>1, <1>d DEF LockFast
  <2>2. spinLeft' \in [Threads -> 0 .. SpinCount]
    BY <1>1, MutexAssumption DEF LockFast
  <2>3. mWaiters' \in Word /\ pc' \in [Threads -> Labels] /\ head' \in [Threads -> Word]
    BY <1>1, <1>a, <1>c, WordTypes DEF LockFast, TakeFree
  <2>4. UNCHANGED <<next, posted, cached, current>>
    BY <1>1 DEF LockFast
  <2> QED BY <2>1, <2>2, <2>3, <2>4
<1>2. CASE LockSpin(t)
  BY <1>2, <1>a, <1>b, <1>c, MutexAssumption DEF LockSpin
<1>3. CASE LockSpinTake(t)
  BY <1>3, <1>a, <1>b, <1>c, WordTypes DEF LockSpinTake, TakeFree
<1>4. CASE AddFast(t)
  BY <1>4, <1>a, <1>b, <1>c, <1>d, WordTypes DEF AddFast, TakeFree
<1>5. CASE AddTake(t)
  BY <1>5, <1>a, <1>b, <1>c, WordTypes DEF AddTake, CompareAndSwap
<1>6. CASE AddLink(t)
  BY <1>6, <1>a, <1>b, <1>c DEF AddLink
<1>7. CASE AddPush(t)
  BY <1>7, <1>a, <1>b, <1>c, WordTypes DEF AddPush, CompareAndSwap
<1>8. CASE UnlockFast(t)
  BY <1>8, <1>a, <1>b, <1>c, WordTypes DEF UnlockFast
<1>9. CASE UnlockFree(t)
  BY <1>9, <1>a, <1>b, <1>c, WordTypes DEF UnlockFree, CompareAndSwap
<1>10. CASE UnlockLoad(t)
  BY <1>10, <1>a, <1>b, <1>c DEF UnlockLoad
<1>11. CASE UnlockReadNext(t)
  BY <1>11, <1>a, <1>b, <1>c DEF UnlockReadNext, FollowsOK, Pointers
<1>12. CASE UnlockPop(t)
  <2>1. WithHead(head[t], cached[t]) \in Word
    BY <1>a, WordTypes
  <2>2. CompareAndSwap(t, WithHead(head[t], cached[t]), "unlockNotify", UnlockBranch(mWaiters))
    BY <1>12 DEF UnlockPop
  <2>3. mWaiters' \in Word /\ head' \in [Threads -> Word] /\ pc' \in [Threads -> Labels]
    <3>1. "unlockNotify" \in Labels
      BY <1>c
    <3> QED BY <1>b, <2>1, <2>2, <3>1, SwapTypes
  <2>4. UNCHANGED <<next, posted, cached, current, spinLeft, rounds>>
    BY <1>12 DEF UnlockPop
  <2> QED BY <2>3, <2>4
<1>13. CASE UnlockNotify(t)
  BY <1>13, <1>a, <1>b, <1>c DEF UnlockNotify, Notify, FollowsOK, Pointers
<1>14. CASE ListStep(t)
  <2>1. CASE AwaitNotify(t)
    BY <1>14, <2>1, <1>a, <1>b, <1>c DEF ListStep, AwaitNotify
  <2>2. CASE StartRemove(t)
    BY <1>14, <2>2, <1>a, <1>b, <1>c DEF ListStep, StartRemove
  <2>3. CASE RemoveLoad(t)
    BY <1>14, <2>3, <1>a, <1>b, <1>c DEF ListStep, RemoveLoad
  <2>4. CASE RemoveReadNext(t)
    BY <1>14, <2>4, <1>a, <1>b, <1>c DEF ListStep, RemoveReadNext, FollowsOK, Pointers
  <2>5. CASE RemovePop(t)
    <3>1. WithHead(head[t], cached[t]) \in Word
      BY <1>a, WordTypes
    <3>2. CompareAndSwap(t, WithHead(head[t], cached[t]), "idle", RemoveBranch(t, mWaiters))
      BY <2>5 DEF RemovePop
    <3>3. mWaiters' \in Word /\ head' \in [Threads -> Word] /\ pc' \in [Threads -> Labels]
      <4>1. "idle" \in Labels
        BY <1>c
      <4> QED BY <1>b, <3>1, <3>2, <4>1, SwapTypes
    <3>4. UNCHANGED <<next, posted, cached, current, spinLeft, rounds>>
      BY <1>14, <2>5 DEF ListStep, RemovePop
    <3> QED BY <3>3, <3>4
  <2>6. CASE RemoveLock(t)
    BY <1>14, <2>6, <1>a, <1>b, <1>c, WordTypes DEF ListStep, RemoveLock, CompareAndSwap
  <2>7. CASE RemoveScan(t)
    BY <1>14, <2>7, <1>a, <1>b, <1>c DEF ListStep, RemoveScan, FollowsOK, Pointers
  <2>8. CASE RemoveUnlock(t)
    BY <1>14, <2>8, <1>a, <1>b, <1>c, WordTypes DEF ListStep, RemoveUnlock, ClearLock
  <2> QED BY <1>14, <2>1, <2>2, <2>3, <2>4, <2>5, <2>6, <2>7, <2>8
          DEF ListStep, RemoveWaiter
<1> QED BY <1>1, <1>2, <1>3, <1>4, <1>5, <1>6, <1>7, <1>8, <1>9, <1>10, <1>11, <1>12,
           <1>13, <1>14 DEF Step, Lock, AddWaiter, Unlock

\* A step of t leaves the place and the locals of the other threads alone.
LEMMA StepOwn ==
  ASSUME TypeOK, NEW t \in Threads, Step(t), NEW u \in Threads, u # t
  PROVE  pc'[u] = pc[u] /\ head'[u] = head[u] /\ cached'[u] = cached[u] /\ current'[u] = current[u]
<1> USE DEF TypeOK, Goto
<1>1. CASE LockFast(t)
  BY <1>1 DEF LockFast, StartRound, TakeFree
<1>2. CASE LockSpin(t)
  BY <1>2 DEF LockSpin
<1>3. CASE LockSpinTake(t)
  BY <1>3 DEF LockSpinTake, TakeFree
<1>4. CASE AddFast(t)
  BY <1>4 DEF AddFast, StartRound, TakeFree
<1>5. CASE AddTake(t)
  BY <1>5 DEF AddTake, CompareAndSwap
<1>6. CASE AddLink(t)
  BY <1>6 DEF AddLink
<1>7. CASE AddPush(t)
  BY <1>7 DEF AddPush, CompareAndSwap
<1>8. CASE UnlockFast(t)
  BY <1>8 DEF UnlockFast
<1>9. CASE UnlockFree(t)
  BY <1>9 DEF UnlockFree, CompareAndSwap
<1>10. CASE UnlockLoad(t)
  BY <1>10 DEF UnlockLoad
<1>11. CASE UnlockReadNext(t)
  BY <1>11 DEF UnlockReadNext
<1>12. CASE UnlockPop(t)
  BY <1>12 DEF UnlockPop, CompareAndSwap
<1>13. CASE UnlockNotify(t)
  BY <1>13 DEF UnlockNotify, Notify
<1>14. CASE ListStep(t)
  <2>1. CASE AwaitNotify(t)
    BY <1>14, <2>1 DEF ListStep, AwaitNotify
  <2>2. CASE StartRemove(t)
    BY <1>14, <2>2 DEF ListStep, StartRemove
  <2>3. CASE RemoveLoad(t)
    BY <1>14, <2>3 DEF ListStep, RemoveLoad
  <2>4. CASE RemoveReadNext(t)
    BY <1>14, <2>4 DEF ListStep, RemoveReadNext
  <2>5. CASE RemovePop(t)
    BY <1>14, <2>5 DEF ListStep, RemovePop, CompareAndSwap
  <2>6. CASE RemoveLock(t)
    BY <1>14, <2>6 DEF ListStep, RemoveLock, CompareAndSwap
  <2>7. CASE RemoveScan(t)
    BY <1>14, <2>7 DEF ListStep, RemoveScan
  <2>8. CASE RemoveUnlock(t)
    BY <1>14, <2>8 DEF ListStep, RemoveUnlock, ClearLock
  <2> QED BY <1>14, <2>1, <2>2, <2>3, <2>4, <2>5, <2>6, <2>7, <2>8
          DEF ListStep, RemoveWaiter
<1> QED BY <1>1, <1>2, <1>3, <1>4, <1>5, <1>6, <1>7, <1>8, <1>9, <1>10, <1>11, <1>12,
           <1>13, <1>14 DEF Step, Lock, AddWaiter, Unlock

\* Every step keeps a non-null pointer wherever one is followed.
LEMMA StepFollows ==
  ASSUME TypeInv, NEW t \in Threads, Step(t) PROVE NoNullDereference'
<1>a. TypeOK /\ FollowsOK(t) /\ \A u \in Threads : FollowsOK(u)
  BY DEF TypeInv, NoNullDereference
<1>b. SUFFICES FollowsOK(t)'
  BY <1>a, StepOwn DEF NoNullDereference, FollowsOK
<1>c. mWaiters \in Word
  BY <1>a DEF TypeOK
<1> USE <1>a, <1>c DEF TypeOK, Goto, FollowsOK
<1>1. CASE LockFast(t)
  BY <1>1, BranchTypes, BranchFollows DEF LockFast, StartRound, TakeFree
<1>2. CASE LockSpin(t)
  BY <1>2, BranchTypes, BranchFollows DEF LockSpin
<1>3. CASE LockSpinTake(t)
  BY <1>3, BranchTypes, BranchFollows DEF LockSpinTake, TakeFree
<1>4. CASE AddFast(t)
  BY <1>4, BranchTypes, BranchFollows DEF AddFast, StartRound, TakeFree
<1>5. CASE AddTake(t)
  BY <1>5, BranchTypes, BranchFollows DEF AddTake, CompareAndSwap
<1>6. CASE AddLink(t)
  BY <1>6, BranchTypes, BranchFollows DEF AddLink
<1>7. CASE AddPush(t)
  BY <1>7, BranchTypes, BranchFollows DEF AddPush, CompareAndSwap
<1>8. CASE UnlockFast(t)
  BY <1>8, BranchTypes, BranchFollows DEF UnlockFast
<1>9. CASE UnlockFree(t)
  BY <1>9, BranchTypes, BranchFollows DEF UnlockFree, CompareAndSwap
<1>10. CASE UnlockLoad(t)
  BY <1>10, BranchTypes, BranchFollows DEF UnlockLoad
<1>11. CASE UnlockReadNext(t)
  BY <1>11, BranchTypes, BranchFollows DEF UnlockReadNext
<1>12. CASE UnlockPop(t)
  BY <1>12, BranchTypes, BranchFollows DEF UnlockPop, CompareAndSwap
<1>13. CASE UnlockNotify(t)
  BY <1>13, BranchTypes, BranchFollows DEF UnlockNotify, Notify
<1>14. CASE ListStep(t)
  <2>1. CASE AwaitNotify(t)
    BY <1>14, <2>1, BranchTypes, BranchFollows DEF ListStep, AwaitNotify
  <2>2. CASE StartRemove(t)
    BY <1>14, <2>2, BranchTypes, BranchFollows DEF ListStep, StartRemove
  <2>3. CASE RemoveLoad(t)
    BY <1>14, <2>3, BranchTypes, BranchFollows DEF ListStep, RemoveLoad
  <2>4. CASE RemoveReadNext(t)
    BY <1>14, <2>4, BranchTypes, BranchFollows DEF ListStep, RemoveReadNext
  <2>5. CASE RemovePop(t)
    BY <1>14, <2>5, BranchTypes, BranchFollows DEF ListStep, RemovePop, CompareAndSwap
  <2>6. CASE RemoveLock(t)
    BY <1>14, <2>6, BranchTypes, BranchFollows DEF ListStep, RemoveLock, CompareAndSwap
  <2>7. CASE RemoveScan(t)
    BY <1>14, <2>7, BranchTypes, BranchFollows DEF ListStep, RemoveScan
  <2>8. CASE RemoveUnlock(t)
    BY <1>14, <2>8, BranchTypes, BranchFollows DEF ListStep, RemoveUnlock, ClearLock
  <2> QED BY <1>14, <2>1, <2>2, <2>3, <2>4, <2>5, <2>6, <2>7, <2>8
          DEF ListStep, RemoveWaiter
<1> QED BY <1>1, <1>2, <1>3, <1>4, <1>5, <1>6, <1>7, <1>8, <1>9, <1>10, <1>11, <1>12,
           <1>13, <1>14 DEF Step, Lock, AddWaiter, Unlock

\* A step that changes nothing keeps the types.
LEMMA StutterType == TypeInv /\ UNCHANGED mutexVars => TypeInv'
BY DEF TypeInv, TypeOK, NoNullDereference, FollowsOK, mutexVars, listVars

\* The types, and the pointers that are followed, are right in every state.
LEMMA TypeInvariant == Spec => []TypeInv
<1>1. Init => TypeInv
  BY InitType
<1>2. TypeInv /\ [Next]_mutexVars => TypeInv'
  BY StepType, StepFollows, StutterType DEF Next, TypeInv
<1> QED BY <1>1, <1>2, PTL DEF Spec

\* Every variable has its type in every state: the locals of the threads hold words and
\* pointers, and no thread leaves the program text.
THEOREM TypeCorrect == Spec => []TypeOK
BY TypeInvariant, PTL DEF TypeInv

\* Neither Unlock nor RemoveWaiter ever follows a null pointer.
THEOREM NeverFollowsNull == Spec => []NoNullDereference
BY TypeInvariant, PTL DEF TypeInv

-----------------------------------------------------------------------------
(* Words *)

\* The fields of the words the operations write, when the tag does not wrap.
LEMMA WordFields ==
  /\ ZeroWord.ptr = Null /\ ZeroWord.flag = FALSE /\ ZeroWord.lock = FALSE /\ ZeroWord.aba = 0
  /\ FreeWord.ptr = Null /\ FreeWord.flag = TRUE /\ FreeWord.lock = FALSE /\ FreeWord.aba = 0
  /\ \A w \in Word : /\ Unlocked(w).ptr = w.ptr /\ Unlocked(w).flag = w.flag
                     /\ Unlocked(w).lock = FALSE /\ Unlocked(w).aba = w.aba
  /\ \A w \in Word, p \in Pointers : w.aba + 1 # AbaRange =>
       /\ WithHead(w, p).ptr = p /\ WithHead(w, p).flag = w.flag
       /\ WithHead(w, p).lock = w.lock /\ WithHead(w, p).aba = w.aba + 1
  /\ \A w \in Word : w.aba + 1 # AbaRange =>
       /\ AddAba(Locked(w)).ptr = w.ptr /\ AddAba(Locked(w)).flag = w.flag
       /\ AddAba(Locked(w)).lock = TRUE /\ AddAba(Locked(w)).aba = w.aba + 1
<1>1. FreeWord.ptr = Null /\ FreeWord.flag = TRUE /\ FreeWord.lock = FALSE /\ FreeWord.aba = 0
  BY DEF FreeWord
<1> QED BY <1>1, ListWordFields

\* What a branch says of the word that has been loaded.
LEMMA Branches ==
  ASSUME NEW w \in Word, NEW t \in Threads
  PROVE  /\ RemoveBranch(t, w) = "inFlight" => w.ptr = Null
         /\ RemoveBranch(t, w) = "removeReadNext" => w.ptr = t /\ ~w.lock
         /\ RemoveBranch(t, w) = "removeLock" => w.ptr # t /\ ~w.lock
         /\ AddBranch(w) = "addTake" => w.flag
         /\ AddBranch(w) = "addLink" => ~w.flag
         /\ UnlockBranch(w) = "unlockFree" => w.ptr = Null
         /\ UnlockBranch(w) = "unlockReadNext" => ~w.lock
BY DEF RemoveBranch, AddBranch, UnlockBranch, Word

-----------------------------------------------------------------------------
(* The local copies of the word *)

\* Who changes the links.
LEMMA StepNext ==
  ASSUME NEW t \in Threads, Step(t)
  PROVE  next' = next \/ AddLink(t) \/ RemoveScan(t)
BY DEF Step, Lock, LockFast, LockSpin, LockSpinTake, AddWaiter, AddFast, AddTake, AddPush,
       Unlock, UnlockFast, UnlockFree, UnlockLoad, UnlockReadNext, UnlockPop, UnlockNotify,
       ListStep, AwaitNotify, StartRemove, RemoveWaiter, RemoveLoad, RemoveReadNext,
       RemovePop, RemoveLock, RemoveUnlock

\* What a step of t leaves alone, by the place t is at.
LEMMA StepLocal ==
  ASSUME TypeInv, StateOK, NEW depth \in [Threads -> Int], Ordered(depth),
         NEW t \in Threads, Step(t)
  PROVE  \A u \in Threads : LocalOK(u)'
<1>a. TypeOK /\ mWaiters \in Word /\ LocalOK(t)
  BY DEF TypeInv, TypeOK, StateOK
<1>b. SUFFICES LocalOK(t)'
  <2> SUFFICES ASSUME NEW u \in Threads, u # t PROVE LocalOK(u)'
    OBVIOUS
  <2>1. pc'[u] = pc[u] /\ head'[u] = head[u]
    BY <1>a, StepOwn
  <2>2. pc[u] = "addPush" => next'[u] = next[u]
    <3>1. CASE next' = next
      BY <3>1
    <3>2. CASE AddLink(t)
      BY <1>a, <3>2 DEF AddLink, TypeOK
    <3>3. CASE RemoveScan(t)
      <4>1. current[t] \in Enqueued
        BY <3>3 DEF RemoveScan, Ordered, InOrder
      <4>2. pc[u] = "addPush" => u # current[t]
        BY <4>1 DEF Enqueued, Awaits, RemoveLabels
      <4> QED BY <1>a, <3>3, <4>2 DEF RemoveScan, TypeOK
    <3> QED BY <3>1, <3>2, <3>3, StepNext
  <2> QED BY <2>1, <2>2 DEF LocalOK, StateOK
<1>c. /\ mWaiters.flag => mWaiters = FreeWord
      /\ mWaiters.ptr = Null => ~mWaiters.lock
      /\ Owns(t) => ~mWaiters.flag
  BY DEF StateOK, WordOK, TokenOK, HasToken
<1> USE <1>a DEF LocalOK, TypeOK, Goto
<1>1. CASE LockFast(t)
  BY <1>1, BranchTypes, Branches DEF LockFast, StartRound, TakeFree
<1>2. CASE LockSpin(t)
  BY <1>2, BranchTypes, Branches DEF LockSpin
<1>3. CASE LockSpinTake(t)
  BY <1>3, BranchTypes, Branches DEF LockSpinTake, TakeFree
<1>4. CASE AddFast(t)
  BY <1>4, <1>c, BranchTypes, Branches DEF AddFast, StartRound, TakeFree
<1>5. CASE AddTake(t)
  BY <1>5, <1>c, BranchTypes, Branches DEF AddTake, CompareAndSwap
<1>6. CASE AddLink(t)
  BY <1>6, BranchTypes, Branches DEF AddLink
<1>7. CASE AddPush(t)
  BY <1>7, <1>c, BranchTypes, Branches DEF AddPush, CompareAndSwap
<1>8. CASE UnlockFast(t)
  BY <1>8, <1>c, BranchTypes, Branches DEF Owns, UnlockFast
<1>9. CASE UnlockFree(t)
  BY <1>9, <1>c, BranchTypes, Branches DEF Owns, UnlockFree, CompareAndSwap
<1>10. CASE UnlockLoad(t)
  BY <1>10, <1>c, BranchTypes, Branches DEF Owns, UnlockLoad
<1>11. CASE UnlockReadNext(t)
  BY <1>11, BranchTypes, Branches DEF UnlockReadNext
<1>12. CASE UnlockPop(t)
  BY <1>12, <1>c, BranchTypes, Branches DEF Owns, UnlockPop, CompareAndSwap
<1>13. CASE UnlockNotify(t)
  BY <1>13, BranchTypes, Branches DEF UnlockNotify, Notify
<1>14. CASE ListStep(t)
  <2>1. CASE AwaitNotify(t)
    BY <1>14, <2>1, BranchTypes, Branches DEF ListStep, AwaitNotify
  <2>2. CASE StartRemove(t)
    BY <1>14, <2>2, BranchTypes, Branches DEF ListStep, StartRemove
  <2>3. CASE RemoveLoad(t)
    BY <1>14, <2>3, BranchTypes, Branches DEF ListStep, RemoveLoad
  <2>4. CASE RemoveReadNext(t)
    BY <1>14, <2>4, BranchTypes, Branches DEF ListStep, RemoveReadNext
  <2>5. CASE RemovePop(t)
    BY <1>14, <2>5, BranchTypes, Branches DEF ListStep, RemovePop, CompareAndSwap
  <2>6. CASE RemoveLock(t)
    BY <1>14, <2>6, BranchTypes, Branches DEF ListStep, RemoveLock, CompareAndSwap
  <2>7. CASE RemoveScan(t)
    BY <1>14, <2>7, BranchTypes, Branches DEF ListStep, RemoveScan
  <2>8. CASE RemoveUnlock(t)
    BY <1>14, <2>8, BranchTypes, Branches DEF ListStep, RemoveUnlock, ClearLock
  <2> QED BY <1>14, <2>1, <2>2, <2>3, <2>4, <2>5, <2>6, <2>7, <2>8
          DEF ListStep, RemoveWaiter
<1> QED BY <1>1, <1>2, <1>3, <1>4, <1>5, <1>6, <1>7, <1>8, <1>9, <1>10, <1>11, <1>12,
           <1>13, <1>14 DEF Step, Lock, AddWaiter, Unlock

-----------------------------------------------------------------------------
(* The word *)

\* A step that starts and ends no scan, and keeps flag and lock, keeps the word sound.
LEMMA SameScanners ==
  ASSUME WordOK,
         \A u \in Threads : u \in Scanners' <=> u \in Scanners,
         mWaiters'.lock = mWaiters.lock,
         mWaiters'.flag => mWaiters' = FreeWord,
         mWaiters'.lock => mWaiters'.ptr # Null
  PROVE  WordOK'
<1>1. Scanners' \subseteq Threads /\ Scanners \subseteq Threads
  BY DEF Scanners
<1> QED BY <1>1 DEF WordOK

\* Every step keeps flag, lock bit and scanning thread in agreement.
LEMMA StepWord ==
  ASSUME TypeInv, StateOK, NEW depth \in [Threads -> Int], Ordered(depth), NoWrap,
         NEW t \in Threads, Step(t)
  PROVE  WordOK'
<1>a. /\ TypeOK /\ mWaiters \in Word /\ head[t] \in Word /\ cached[t] \in Pointers
      /\ t \in Pointers /\ t # Null
  BY WaiterListAssumption DEF TypeInv, TypeOK, Pointers
<1>b. LocalOK(t) /\ FollowsOK(t) /\ WordOK
  BY DEF TypeInv, NoNullDereference, StateOK
<1>c. \A u \in Threads : u # t => (u \in Scanners' <=> u \in Scanners)
  BY <1>a, StepOwn DEF Scanners
<1>d. mWaiters.flag => mWaiters.ptr = Null /\ ~mWaiters.lock
  BY <1>b, WordFields DEF WordOK
<1>e. /\ ZeroWord.ptr = Null /\ ZeroWord.flag = FALSE /\ ZeroWord.lock = FALSE
      /\ FreeWord.ptr = Null /\ FreeWord.flag = TRUE /\ FreeWord.lock = FALSE
      /\ Unlocked(mWaiters).ptr = mWaiters.ptr
      /\ Unlocked(mWaiters).flag = mWaiters.flag /\ ~Unlocked(mWaiters).lock
      /\ mWaiters.lock = TRUE \/ mWaiters.lock = FALSE
  BY <1>a, WordFields DEF Word
<1>f. mWaiters = head[t] =>
        /\ \A p \in Pointers : /\ WithHead(head[t], p).ptr = p
                               /\ WithHead(head[t], p).flag = mWaiters.flag
                               /\ WithHead(head[t], p).lock = mWaiters.lock
        /\ AddAba(Locked(head[t])).ptr = mWaiters.ptr
        /\ AddAba(Locked(head[t])).flag = mWaiters.flag
        /\ AddAba(Locked(head[t])).lock
  BY <1>a, WordFields DEF NoWrap
<1>g. /\ \A u \in Threads : u \in Scanners' <=> u \in Scanners
      /\ mWaiters'.lock = mWaiters.lock
      /\ mWaiters'.flag => mWaiters' = FreeWord
      /\ mWaiters'.lock => mWaiters'.ptr # Null
      => WordOK'
  BY <1>b, SameScanners
<1> USE DEF LocalOK, FollowsOK, TypeOK, Goto
<1>1. CASE LockFast(t)
  <2>1. \A u \in Threads : u \in Scanners' <=> u \in Scanners
    BY <1>1, <1>a, <1>b, <1>c, BranchTypes DEF Scanners, LockFast, StartRound, TakeFree
  <2>2. /\ mWaiters'.lock = mWaiters.lock
        /\ mWaiters'.flag => mWaiters' = FreeWord
        /\ mWaiters'.lock => mWaiters'.ptr # Null
    BY <1>1, <1>a, <1>b, <1>d, <1>e, <1>f DEF WordOK, LockFast, StartRound, TakeFree
  <2> QED BY <1>g, <2>1, <2>2
<1>2. CASE LockSpin(t)
  BY <1>2, <1>a, <1>b, <1>c, <1>d, <1>e, BranchTypes DEF LockSpin, WordOK, Scanners
<1>3. CASE LockSpinTake(t)
  <2>1. \A u \in Threads : u \in Scanners' <=> u \in Scanners
    BY <1>3, <1>a, <1>b, <1>c, BranchTypes DEF Scanners, LockSpinTake, TakeFree
  <2>2. /\ mWaiters'.lock = mWaiters.lock
        /\ mWaiters'.flag => mWaiters' = FreeWord
        /\ mWaiters'.lock => mWaiters'.ptr # Null
    BY <1>3, <1>a, <1>b, <1>d, <1>e, <1>f DEF WordOK, LockSpinTake, TakeFree
  <2> QED BY <1>g, <2>1, <2>2
<1>4. CASE AddFast(t)
  <2>1. \A u \in Threads : u \in Scanners' <=> u \in Scanners
    BY <1>4, <1>a, <1>b, <1>c, BranchTypes DEF Scanners, AddFast, StartRound, TakeFree
  <2>2. /\ mWaiters'.lock = mWaiters.lock
        /\ mWaiters'.flag => mWaiters' = FreeWord
        /\ mWaiters'.lock => mWaiters'.ptr # Null
    BY <1>4, <1>a, <1>b, <1>d, <1>e, <1>f DEF WordOK, AddFast, StartRound, TakeFree
  <2> QED BY <1>g, <2>1, <2>2
<1>5. CASE AddTake(t)
  <2>1. \A u \in Threads : u \in Scanners' <=> u \in Scanners
    BY <1>5, <1>a, <1>b, <1>c, BranchTypes DEF Scanners, AddTake, CompareAndSwap
  <2>2. /\ mWaiters'.lock = mWaiters.lock
        /\ mWaiters'.flag => mWaiters' = FreeWord
        /\ mWaiters'.lock => mWaiters'.ptr # Null
    BY <1>5, <1>a, <1>b, <1>d, <1>e, <1>f DEF WordOK, AddTake, CompareAndSwap
  <2> QED BY <1>g, <2>1, <2>2
<1>6. CASE AddLink(t)
  BY <1>6, <1>a, <1>b, <1>c, <1>d, <1>e, BranchTypes DEF AddLink, WordOK, Scanners
<1>7. CASE AddPush(t)
  <2>1. \A u \in Threads : u \in Scanners' <=> u \in Scanners
    BY <1>7, <1>a, <1>b, <1>c, BranchTypes DEF Scanners, AddPush, CompareAndSwap
  <2>2. /\ mWaiters'.lock = mWaiters.lock
        /\ mWaiters'.flag => mWaiters' = FreeWord
        /\ mWaiters'.lock => mWaiters'.ptr # Null
    BY <1>7, <1>a, <1>b, <1>d, <1>e, <1>f DEF WordOK, AddPush, CompareAndSwap
  <2> QED BY <1>g, <2>1, <2>2
<1>8. CASE UnlockFast(t)
  <2>1. \A u \in Threads : u \in Scanners' <=> u \in Scanners
    BY <1>8, <1>a, <1>b, <1>c, BranchTypes DEF Scanners, UnlockFast
  <2>2. /\ mWaiters'.lock = mWaiters.lock
        /\ mWaiters'.flag => mWaiters' = FreeWord
        /\ mWaiters'.lock => mWaiters'.ptr # Null
    BY <1>8, <1>a, <1>b, <1>d, <1>e, <1>f DEF WordOK, UnlockFast
  <2> QED BY <1>g, <2>1, <2>2
<1>9. CASE UnlockFree(t)
  <2>1. \A u \in Threads : u \in Scanners' <=> u \in Scanners
    BY <1>9, <1>a, <1>b, <1>c, BranchTypes DEF Scanners, UnlockFree, CompareAndSwap
  <2>2. /\ mWaiters'.lock = mWaiters.lock
        /\ mWaiters'.flag => mWaiters' = FreeWord
        /\ mWaiters'.lock => mWaiters'.ptr # Null
    BY <1>9, <1>a, <1>b, <1>d, <1>e, <1>f DEF WordOK, UnlockFree, CompareAndSwap
  <2> QED BY <1>g, <2>1, <2>2
<1>10. CASE UnlockLoad(t)
  BY <1>10, <1>a, <1>b, <1>c, <1>d, <1>e, BranchTypes DEF UnlockLoad, WordOK, Scanners
<1>11. CASE UnlockReadNext(t)
  BY <1>11, <1>a, <1>b, <1>c, <1>d, <1>e, BranchTypes DEF UnlockReadNext, WordOK, Scanners
<1>12. CASE UnlockPop(t)
  <2>1. \A u \in Threads : u \in Scanners' <=> u \in Scanners
    BY <1>12, <1>a, <1>b, <1>c, BranchTypes DEF Scanners, UnlockPop, CompareAndSwap
  <2>2. /\ mWaiters'.lock = mWaiters.lock
        /\ mWaiters'.flag => mWaiters' = FreeWord
        /\ mWaiters'.lock => mWaiters'.ptr # Null
    BY <1>12, <1>a, <1>b, <1>d, <1>e, <1>f DEF WordOK, UnlockPop, CompareAndSwap
  <2> QED BY <1>g, <2>1, <2>2
<1>13. CASE UnlockNotify(t)
  BY <1>13, <1>a, <1>b, <1>c, <1>d, <1>e, BranchTypes DEF UnlockNotify, Notify, WordOK, Scanners
<1>14. CASE ListStep(t)
  <2>1. CASE AwaitNotify(t)
    BY <1>14, <2>1, <1>a, <1>b, <1>c, <1>d, <1>e, BranchTypes DEF ListStep, AwaitNotify, WordOK, Scanners
  <2>2. CASE StartRemove(t)
    BY <1>14, <2>2, <1>a, <1>b, <1>c, <1>d, <1>e, BranchTypes DEF ListStep, StartRemove, WordOK, Scanners
  <2>3. CASE RemoveLoad(t)
    BY <1>14, <2>3, <1>a, <1>b, <1>c, <1>d, <1>e, BranchTypes DEF ListStep, RemoveLoad, WordOK, Scanners
  <2>4. CASE RemoveReadNext(t)
    BY <1>14, <2>4, <1>a, <1>b, <1>c, <1>d, <1>e, BranchTypes DEF ListStep, RemoveReadNext, WordOK, Scanners
  <2>5. CASE RemovePop(t)
    <3>1. \A u \in Threads : u \in Scanners' <=> u \in Scanners
      BY <1>14, <2>5, <1>a, <1>b, <1>c, BranchTypes DEF Scanners, ListStep, RemovePop, CompareAndSwap
    <3>2. /\ mWaiters'.lock = mWaiters.lock
          /\ mWaiters'.flag => mWaiters' = FreeWord
          /\ mWaiters'.lock => mWaiters'.ptr # Null
      BY <1>14, <2>5, <1>a, <1>b, <1>d, <1>e, <1>f DEF WordOK, ListStep, RemovePop, CompareAndSwap
    <3> QED BY <1>g, <3>1, <3>2
  <2>6. CASE RemoveLock(t)
    <3>1. CASE mWaiters # head[t]
      <4>1. \A u \in Threads : u \in Scanners' <=> u \in Scanners
        BY <1>14, <2>6, <1>a, <1>b, <3>1, <1>c, BranchTypes DEF Scanners, ListStep, RemoveLock, CompareAndSwap
      <4>2. mWaiters' = mWaiters
        BY <1>14, <2>6, <1>a, <1>b, <3>1 DEF ListStep, RemoveLock, CompareAndSwap
      <4> QED BY <1>b, <1>g, <4>1, <4>2 DEF WordOK
    <3>2. CASE mWaiters = head[t]
      <4>1. pc'[t] = "removeScan" /\ mWaiters' = AddAba(Locked(head[t]))
        BY <1>14, <2>6, <1>a, <1>b, <3>2 DEF ListStep, RemoveLock, CompareAndSwap
      <4>2. ~mWaiters.lock /\ mWaiters'.lock /\ ~mWaiters'.flag /\ mWaiters'.ptr # Null
        BY <1>14, <2>6, <1>a, <1>b, <3>2, <4>1, <1>d, <1>f DEF ListStep, RemoveLock
      <4>3. \A u \in Threads : u \in Scanners' <=> u = t
        BY <1>b, <4>1, <4>2, <1>c DEF WordOK, Scanners
      <4> QED BY <4>2, <4>3 DEF WordOK, Scanners
    <3> QED BY <3>1, <3>2
  <2>7. CASE RemoveScan(t)
    BY <1>14, <2>7, <1>a, <1>b, <1>c, <1>d, <1>e, BranchTypes DEF ListStep, RemoveScan, WordOK, Scanners
  <2>8. CASE RemoveUnlock(t)
    BY <1>14, <2>8, <1>a, <1>b, <1>c, <1>d, <1>e, BranchTypes DEF ListStep, RemoveUnlock, ClearLock, WordOK, Scanners
  <2> QED BY <1>14, <2>1, <2>2, <2>3, <2>4, <2>5, <2>6, <2>7, <2>8
          DEF ListStep, RemoveWaiter
<1> QED BY <1>1, <1>2, <1>3, <1>4, <1>5, <1>6, <1>7, <1>8, <1>9, <1>10, <1>11, <1>12,
           <1>13, <1>14 DEF Step, Lock, AddWaiter, Unlock

-----------------------------------------------------------------------------
(* What a step does to the list and to the grants *)

\* The steps that put a waiter on the list and take one off.
Pushes(t) == AddPush(t) /\ mWaiters = head[t]

Pops(t) == UnlockPop(t) /\ mWaiters = head[t]

Leaves(t) ==
  \/ RemovePop(t) /\ mWaiters = head[t]
  \/ RemoveScan(t) /\ next[current[t]] = t

\* Who changes the posts of the waiters' semaphores, and who is about to.
LEMMA StepPosted ==
  ASSUME NEW t \in Threads, Step(t)
  PROVE  posted' = posted \/ AwaitNotify(t) \/ UnlockNotify(t)
BY DEF Step, Lock, LockFast, LockSpin, LockSpinTake, AddWaiter, AddFast, AddTake, AddLink,
       AddPush, Unlock, UnlockFast, UnlockFree, UnlockLoad, UnlockReadNext, UnlockPop,
       ListStep, StartRemove, RemoveWaiter, RemoveLoad, RemoveReadNext,
       RemovePop, RemoveLock, RemoveScan, RemoveUnlock

\* Which places a step of t can leave and enter.
LEMMA StepLabels ==
  ASSUME TypeInv, NEW t \in Threads, Step(t)
  PROVE  /\ pc'[t] = "unlockNotify" <=> Pops(t)
         /\ pc[t] = "unlockNotify" <=> UnlockNotify(t)
         /\ Awaits(t)' <=> (Pushes(t) \/ Awaits(t)) /\ ~Leaves(t) /\ ~AwaitNotify(t)
         /\ Pushes(t) => ~Awaits(t)
         /\ Leaves(t) \/ AwaitNotify(t) => Awaits(t)
<1>a. TypeOK /\ mWaiters \in Word /\ t # Null
  BY WaiterListAssumption DEF TypeInv, TypeOK
<1> USE DEF Awaits, RemoveLabels, Goto, TypeOK, Pushes, Pops, Leaves, AddPush, UnlockPop,
            RemovePop, RemoveScan, AwaitNotify, UnlockNotify
<1>1. CASE LockFast(t)
  BY <1>1, <1>a, BranchTypes DEF LockFast, StartRound, TakeFree
<1>2. CASE LockSpin(t)
  BY <1>2, <1>a, BranchTypes DEF LockSpin
<1>3. CASE LockSpinTake(t)
  BY <1>3, <1>a, BranchTypes DEF LockSpinTake, TakeFree
<1>4. CASE AddFast(t)
  BY <1>4, <1>a, BranchTypes DEF AddFast, StartRound, TakeFree
<1>5. CASE AddTake(t)
  BY <1>5, <1>a, BranchTypes DEF AddTake, CompareAndSwap
<1>6. CASE AddLink(t)
  BY <1>6, <1>a, BranchTypes DEF AddLink
<1>7. CASE AddPush(t)
  BY <1>7, <1>a, BranchTypes DEF AddPush, CompareAndSwap
<1>8. CASE UnlockFast(t)
  BY <1>8, <1>a, BranchTypes DEF UnlockFast
<1>9. CASE UnlockFree(t)
  BY <1>9, <1>a, BranchTypes DEF UnlockFree, CompareAndSwap
<1>10. CASE UnlockLoad(t)
  BY <1>10, <1>a, BranchTypes DEF UnlockLoad
<1>11. CASE UnlockReadNext(t)
  BY <1>11, <1>a, BranchTypes DEF UnlockReadNext
<1>12. CASE UnlockPop(t)
  BY <1>12, <1>a, BranchTypes DEF UnlockPop, CompareAndSwap
<1>13. CASE UnlockNotify(t)
  BY <1>13, <1>a, BranchTypes DEF UnlockNotify, Notify
<1>14. CASE ListStep(t)
  <2>1. CASE AwaitNotify(t)
    BY <1>14, <2>1, <1>a, BranchTypes DEF ListStep, AwaitNotify
  <2>2. CASE StartRemove(t)
    BY <1>14, <2>2, <1>a, BranchTypes DEF ListStep, StartRemove
  <2>3. CASE RemoveLoad(t)
    BY <1>14, <2>3, <1>a, BranchTypes DEF ListStep, RemoveLoad
  <2>4. CASE RemoveReadNext(t)
    BY <1>14, <2>4, <1>a, BranchTypes DEF ListStep, RemoveReadNext
  <2>5. CASE RemovePop(t)
    BY <1>14, <2>5, <1>a, BranchTypes DEF ListStep, RemovePop, CompareAndSwap
  <2>6. CASE RemoveLock(t)
    BY <1>14, <2>6, <1>a, BranchTypes DEF ListStep, RemoveLock, CompareAndSwap
  <2>7. CASE RemoveScan(t)
    BY <1>14, <2>7, <1>a, BranchTypes DEF ListStep, RemoveScan
  <2>8. CASE RemoveUnlock(t)
    BY <1>14, <2>8, <1>a, BranchTypes DEF ListStep, RemoveUnlock, ClearLock
  <2> QED BY <1>14, <2>1, <2>2, <2>3, <2>4, <2>5, <2>6, <2>7, <2>8
          DEF ListStep, RemoveWaiter
<1> QED BY <1>1, <1>2, <1>3, <1>4, <1>5, <1>6, <1>7, <1>8, <1>9, <1>10, <1>11, <1>12,
           <1>13, <1>14 DEF Step, Lock, AddWaiter, Unlock

\* A waiter with a grant waits.
LEMMA GrantedAwaits ==
  ASSUME TypeOK, TokenOK, NEW u \in Threads, Granted(u)
  PROVE  Awaits(u)
BY DEF TokenOK, Granted, TypeOK

\* How a step of t changes who has been granted the mutex.
LEMMA StepGranted ==
  ASSUME TypeInv, StateOK, NEW t \in Threads, Step(t), NEW u \in Threads
  PROVE  Granted(u)' <=> \/ Granted(u) /\ ~(u = t /\ AwaitNotify(t))
                         \/ Pops(t) /\ u = head[t].ptr
<1>a. TypeOK /\ TokenOK /\ FollowsOK(t)
  BY DEF TypeInv, NoNullDereference, StateOK
<1>b. \A v \in Threads : v # t => pc'[v] = pc[v] /\ head'[v] = head[v]
  BY <1>a, StepOwn
<1>1. CASE AwaitNotify(t)
  <2>1. posted[t] = 1 /\ \A v \in Threads : pc[v] # "unlockNotify"
    <3>1. posted[t] > 0 /\ pc[t] # "unlockNotify"
      BY <1>1 DEF AwaitNotify
    <3> QED BY <1>a, <3>1 DEF TokenOK, HasToken
  <2>2. ~Pops(t) /\ \A v \in Threads : pc'[v] # "unlockNotify"
    BY <1>1, <1>a, <2>1 DEF AwaitNotify, Pops, UnlockPop, Goto, TypeOK
  <2> QED BY <1>1, <1>a, <2>1, <2>2 DEF AwaitNotify, Granted, TypeOK
<1>2. CASE UnlockNotify(t)
  <2>1. head[t].ptr \in Threads /\ posted[head[t].ptr] \in Nat
    BY <1>2, <1>a DEF UnlockNotify, FollowsOK, TypeOK, Word, Pointers
  <2>2. ~AwaitNotify(t) /\ ~Pops(t) /\ pc'[t] = "idle" /\ head' = head
    BY <1>2, <1>a DEF UnlockNotify, AwaitNotify, Pops, UnlockPop, Goto, TypeOK
  <2>3. posted'[u] = IF u = head[t].ptr THEN posted[u] + 1 ELSE posted[u]
    BY <1>2, <1>a DEF UnlockNotify, Notify, TypeOK
  <2>4. u = head[t].ptr => Granted(u) /\ Granted(u)'
    BY <1>2, <2>1, <2>3 DEF UnlockNotify, Granted
  <2>5. u # head[t].ptr => (Granted(u)' <=> Granted(u))
    BY <1>b, <2>2, <2>3 DEF Granted
  <2> QED BY <2>2, <2>4, <2>5
<1>3. CASE posted' = posted /\ ~AwaitNotify(t) /\ ~UnlockNotify(t)
  <2>1. pc[t] # "unlockNotify" /\ (pc'[t] = "unlockNotify" <=> Pops(t))
    BY <1>3, StepLabels
  <2>2. Pops(t) => head' = head
    BY DEF Pops, UnlockPop, CompareAndSwap
  <2> QED BY <1>3, <1>b, <2>1, <2>2 DEF Granted
<1> QED BY <1>1, <1>2, <1>3, StepPosted

\* How a step of t changes the set of waiters on the list.
LEMMA StepEnqueued ==
  ASSUME TypeInv, StateOK, NEW t \in Threads, Step(t), NEW u \in Threads
  PROVE  u \in Enqueued' <=> \/ u \in Enqueued /\ ~(Pops(t) /\ u = head[t].ptr)
                                               /\ ~(Leaves(t) /\ u = t)
                             \/ Pushes(t) /\ u = t
<1>a. TypeOK /\ TokenOK
  BY DEF TypeInv, StateOK
<1>1. u # t => (Awaits(u)' <=> Awaits(u))
  BY <1>a, StepOwn DEF Awaits
<1>2. Pushes(t) => ~Pops(t) /\ ~Leaves(t) /\ ~AwaitNotify(t)
  BY DEF Pushes, Pops, Leaves, AddPush, UnlockPop, RemovePop, RemoveScan, AwaitNotify
<1>3. AwaitNotify(t) => Granted(t)
  BY DEF AwaitNotify, Granted
<1>4. Granted(u) => Awaits(u)
  BY <1>a, GrantedAwaits
<1>5. u \in Enqueued <=> Awaits(u) /\ ~Granted(u)
  BY DEF Enqueued
<1>6. u \in Enqueued' <=> Awaits(u)' /\ ~Granted(u)'
  BY DEF Enqueued
<1> QED BY <1>1, <1>2, <1>3, <1>4, <1>5, <1>6, StepGranted, StepLabels

-----------------------------------------------------------------------------
(* The token *)

\* A step of t that notifies nobody takes the token, returns it or leaves it alone.
LEMMA StepHolder ==
  ASSUME TypeInv, StateOK, NoWrap, NEW t \in Threads, Step(t)
  PROVE  \/ UnlockNotify(t)
         \/ (HasToken(t)' <=> HasToken(t)) /\ mWaiters'.flag = mWaiters.flag
         \/ mWaiters.flag = TRUE /\ mWaiters'.flag = FALSE /\ HasToken(t)'
         \/ HasToken(t) /\ mWaiters'.flag = TRUE /\ ~HasToken(t)'
<1>a. /\ TypeOK /\ mWaiters \in Word /\ head[t] \in Word /\ cached[t] \in Pointers
      /\ t \in Pointers
  BY DEF TypeInv, TypeOK, Pointers
<1>b. posted[t] \in Nat /\ (posted[t] > 0 => posted[t] = 1 /\ Awaits(t))
  BY <1>a DEF TypeOK, StateOK, TokenOK
<1>c. mWaiters.flag = TRUE => mWaiters = FreeWord
  BY DEF StateOK, WordOK
<1>d. LocalOK(t)
  BY DEF StateOK
<1>e. /\ ZeroWord.flag = FALSE /\ FreeWord.flag = TRUE
      /\ Unlocked(mWaiters).flag = mWaiters.flag
      /\ mWaiters = head[t] =>
           /\ AddAba(Locked(head[t])).flag = mWaiters.flag
           /\ \A p \in Pointers : WithHead(head[t], p).flag = mWaiters.flag
  BY <1>a, WordFields DEF NoWrap
<1> USE DEF HasToken, Owns, Awaits, RemoveLabels, Goto, TypeOK, LocalOK
<1>1. CASE LockFast(t)
  BY <1>1, <1>a, <1>b, <1>c, <1>d, <1>e, BranchTypes DEF LockFast, StartRound, TakeFree
<1>2. CASE LockSpin(t)
  BY <1>2, <1>a, <1>b, <1>c, <1>d, <1>e, BranchTypes DEF LockSpin
<1>3. CASE LockSpinTake(t)
  BY <1>3, <1>a, <1>b, <1>c, <1>d, <1>e, BranchTypes DEF LockSpinTake, TakeFree
<1>4. CASE AddFast(t)
  BY <1>4, <1>a, <1>b, <1>c, <1>d, <1>e, BranchTypes DEF AddFast, StartRound, TakeFree
<1>5. CASE AddTake(t)
  BY <1>5, <1>a, <1>b, <1>c, <1>d, <1>e, BranchTypes DEF AddTake, CompareAndSwap
<1>6. CASE AddLink(t)
  BY <1>6, <1>a, <1>b, <1>c, <1>d, <1>e, BranchTypes DEF AddLink
<1>7. CASE AddPush(t)
  BY <1>7, <1>a, <1>b, <1>c, <1>d, <1>e, BranchTypes DEF AddPush, CompareAndSwap
<1>8. CASE UnlockFast(t)
  BY <1>8, <1>a, <1>b, <1>c, <1>d, <1>e, BranchTypes DEF UnlockFast
<1>9. CASE UnlockFree(t)
  BY <1>9, <1>a, <1>b, <1>c, <1>d, <1>e, BranchTypes DEF UnlockFree, CompareAndSwap
<1>10. CASE UnlockLoad(t)
  BY <1>10, <1>a, <1>b, <1>c, <1>d, <1>e, BranchTypes DEF UnlockLoad
<1>11. CASE UnlockReadNext(t)
  BY <1>11, <1>a, <1>b, <1>c, <1>d, <1>e, BranchTypes DEF UnlockReadNext
<1>12. CASE UnlockPop(t)
  BY <1>12, <1>a, <1>b, <1>c, <1>d, <1>e, BranchTypes DEF UnlockPop, CompareAndSwap
<1>13. CASE UnlockNotify(t)
  BY <1>13, <1>a, <1>b, <1>c, <1>d, <1>e, BranchTypes DEF UnlockNotify, Notify
<1>14. CASE ListStep(t)
  <2>1. CASE AwaitNotify(t)
    BY <1>14, <2>1, <1>a, <1>b, <1>c, <1>d, <1>e, BranchTypes DEF ListStep, AwaitNotify
  <2>2. CASE StartRemove(t)
    BY <1>14, <2>2, <1>a, <1>b, <1>c, <1>d, <1>e, BranchTypes DEF ListStep, StartRemove
  <2>3. CASE RemoveLoad(t)
    BY <1>14, <2>3, <1>a, <1>b, <1>c, <1>d, <1>e, BranchTypes DEF ListStep, RemoveLoad
  <2>4. CASE RemoveReadNext(t)
    BY <1>14, <2>4, <1>a, <1>b, <1>c, <1>d, <1>e, BranchTypes DEF ListStep, RemoveReadNext
  <2>5. CASE RemovePop(t)
    BY <1>14, <2>5, <1>a, <1>b, <1>c, <1>d, <1>e, BranchTypes DEF ListStep, RemovePop, CompareAndSwap
  <2>6. CASE RemoveLock(t)
    BY <1>14, <2>6, <1>a, <1>b, <1>c, <1>d, <1>e, BranchTypes DEF ListStep, RemoveLock, CompareAndSwap
  <2>7. CASE RemoveScan(t)
    BY <1>14, <2>7, <1>a, <1>b, <1>c, <1>d, <1>e, BranchTypes DEF ListStep, RemoveScan
  <2>8. CASE RemoveUnlock(t)
    BY <1>14, <2>8, <1>a, <1>b, <1>c, <1>d, <1>e, BranchTypes DEF ListStep, RemoveUnlock, ClearLock
  <2> QED BY <1>14, <2>1, <2>2, <2>3, <2>4, <2>5, <2>6, <2>7, <2>8
          DEF ListStep, RemoveWaiter
<1> QED BY <1>1, <1>2, <1>3, <1>4, <1>5, <1>6, <1>7, <1>8, <1>9, <1>10, <1>11, <1>12,
           <1>13, <1>14 DEF Step, Lock, AddWaiter, Unlock

\* A waiter that has been granted the ownership waits until its thread has taken it.
LEMMA StepAwaits ==
  ASSUME TypeInv, StateOK, NEW depth \in [Threads -> Int], Ordered(depth),
         NEW t \in Threads, Step(t), NEW u \in Threads, Granted(u), Awaits(u)
  PROVE  Awaits(u)' \/ (u = t /\ AwaitNotify(t))
<1>a. TypeOK /\ TokenOK
  BY DEF TypeInv, StateOK
<1>1. CASE u # t
  BY <1>1, <1>a, StepOwn DEF Awaits
<1>2. CASE u = t
  <2>1. Leaves(t) => t \in Enqueued
    <3>1. CASE RemovePop(t) /\ mWaiters = head[t]
      BY <3>1, WaiterListAssumption DEF RemovePop, StateOK, LocalOK, Ordered, InOrder
    <3>2. CASE RemoveScan(t) /\ next[current[t]] = t
      <4>1. current[t] \in Enqueued
        BY <3>2 DEF RemoveScan, Ordered, InOrder
      <4> QED BY <3>2, <4>1, WaiterListAssumption DEF Ordered, InOrder
    <3> QED BY <3>1, <3>2 DEF Leaves
  <2>2. ~Leaves(t)
    BY <1>2, <2>1 DEF Enqueued
  <2> QED BY <1>2, <2>2, StepLabels
<1> QED BY <1>1, <1>2

\* How RemoveWaiter comes to the conclusion that the waiter is not on the list.
LEMMA StepInFlight ==
  ASSUME TypeInv, NEW t \in Threads, Step(t),
         pc'[t] \in {"inFlight", "unlockNotFound"}
  PROVE  /\ ~AwaitNotify(t)
         /\ \/ pc[t] = "unlockNotFound"
            \/ Awaits(t) /\ mWaiters.ptr = Null
            \/ RemoveScan(t) /\ Awaits(t) /\ next[current[t]] = Null
<1>a. TypeOK /\ mWaiters \in Word /\ t # Null
  BY WaiterListAssumption DEF TypeInv, TypeOK
<1>b. RemoveBranch(t, mWaiters) = "inFlight" => mWaiters.ptr = Null
  BY DEF RemoveBranch
<1> USE DEF Awaits, RemoveLabels, Goto, TypeOK, AwaitNotify
<1>1. CASE LockFast(t)
  BY <1>1, <1>a, <1>b, BranchTypes DEF LockFast, StartRound, TakeFree
<1>2. CASE LockSpin(t)
  BY <1>2, <1>a, <1>b, BranchTypes DEF LockSpin
<1>3. CASE LockSpinTake(t)
  BY <1>3, <1>a, <1>b, BranchTypes DEF LockSpinTake, TakeFree
<1>4. CASE AddFast(t)
  BY <1>4, <1>a, <1>b, BranchTypes DEF AddFast, StartRound, TakeFree
<1>5. CASE AddTake(t)
  BY <1>5, <1>a, <1>b, BranchTypes DEF AddTake, CompareAndSwap
<1>6. CASE AddLink(t)
  BY <1>6, <1>a, <1>b, BranchTypes DEF AddLink
<1>7. CASE AddPush(t)
  BY <1>7, <1>a, <1>b, BranchTypes DEF AddPush, CompareAndSwap
<1>8. CASE UnlockFast(t)
  BY <1>8, <1>a, <1>b, BranchTypes DEF UnlockFast
<1>9. CASE UnlockFree(t)
  BY <1>9, <1>a, <1>b, BranchTypes DEF UnlockFree, CompareAndSwap
<1>10. CASE UnlockLoad(t)
  BY <1>10, <1>a, <1>b, BranchTypes DEF UnlockLoad
<1>11. CASE UnlockReadNext(t)
  BY <1>11, <1>a, <1>b, BranchTypes DEF UnlockReadNext
<1>12. CASE UnlockPop(t)
  BY <1>12, <1>a, <1>b, BranchTypes DEF UnlockPop, CompareAndSwap
<1>13. CASE UnlockNotify(t)
  BY <1>13, <1>a, <1>b, BranchTypes DEF UnlockNotify, Notify
<1>14. CASE ListStep(t)
  <2>1. CASE AwaitNotify(t)
    BY <1>14, <2>1, <1>a, <1>b, BranchTypes DEF ListStep, AwaitNotify
  <2>2. CASE StartRemove(t)
    BY <1>14, <2>2, <1>a, <1>b, BranchTypes DEF ListStep, StartRemove
  <2>3. CASE RemoveLoad(t)
    BY <1>14, <2>3, <1>a, <1>b, BranchTypes DEF ListStep, RemoveLoad
  <2>4. CASE RemoveReadNext(t)
    BY <1>14, <2>4, <1>a, <1>b, BranchTypes DEF ListStep, RemoveReadNext
  <2>5. CASE RemovePop(t)
    BY <1>14, <2>5, <1>a, <1>b, BranchTypes DEF ListStep, RemovePop, CompareAndSwap
  <2>6. CASE RemoveLock(t)
    BY <1>14, <2>6, <1>a, <1>b, BranchTypes DEF ListStep, RemoveLock, CompareAndSwap
  <2>7. CASE RemoveScan(t)
    BY <1>14, <2>7, <1>a, <1>b, BranchTypes DEF ListStep, RemoveScan
  <2>8. CASE RemoveUnlock(t)
    BY <1>14, <2>8, <1>a, <1>b, BranchTypes DEF ListStep, RemoveUnlock, ClearLock
  <2> QED BY <1>14, <2>1, <2>2, <2>3, <2>4, <2>5, <2>6, <2>7, <2>8
          DEF ListStep, RemoveWaiter
<1> QED BY <1>1, <1>2, <1>3, <1>4, <1>5, <1>6, <1>7, <1>8, <1>9, <1>10, <1>11, <1>12,
           <1>13, <1>14 DEF Step, Lock, AddWaiter, Unlock

\* Every step keeps the ownership with exactly one thread, or with the word.
LEMMA StepToken ==
  ASSUME TypeInv, StateOK, NEW depth \in [Threads -> Int], Ordered(depth), NoWrap,
         NEW t \in Threads, Step(t)
  PROVE  TokenOK'
<1>a. TypeOK /\ TokenOK /\ WordOK /\ FollowsOK(t) /\ LocalOK(t) /\ TypeOK'
  BY StepType DEF TypeInv, NoNullDereference, StateOK
<1>b. \A u \in Threads : u # t => pc'[u] = pc[u] /\ head'[u] = head[u]
  BY <1>a, StepOwn
<1>c. \A u \in Threads : Granted(u) => Awaits(u)
  BY <1>a, GrantedAwaits
<1>1. /\ \A u, v \in Threads : HasToken(u)' /\ HasToken(v)' => u = v
      /\ mWaiters'.flag => \A u \in Threads : ~HasToken(u)'
      /\ ~mWaiters'.flag => \E u \in Threads : HasToken(u)'
  <2>1. CASE UnlockNotify(t)
    <3>1. HasToken(t) /\ \A u \in Threads : HasToken(u) => u = t
      BY <2>1, <1>a DEF UnlockNotify, TokenOK, HasToken
    <3>2. head[t].ptr \in Threads /\ mWaiters'.flag = mWaiters.flag /\ ~mWaiters.flag
      BY <2>1, <1>a, <3>1 DEF UnlockNotify, FollowsOK, TypeOK, Word, Pointers, TokenOK
    <3>3. \A u \in Threads : posted'[u] > 0 <=> u = head[t].ptr
      <4>1. \A u \in Threads : posted[u] = 0
        BY <2>1, <1>a, <3>1 DEF UnlockNotify, HasToken, TypeOK, TokenOK, Awaits, RemoveLabels
      <4> QED BY <2>1, <1>a, <4>1 DEF UnlockNotify, Notify, TypeOK
    <3>4. \A u \in Threads : HasToken(u)' <=> u = head[t].ptr
      <4>1. \A u \in Threads : pc'[u] # "unlockNotify" /\ ~Owns(u)'
        BY <2>1, <1>a, <1>b, <3>1 DEF UnlockNotify, HasToken, TypeOK, Owns, Goto
      <4> QED BY <3>3, <4>1 DEF HasToken
    <3> QED BY <3>2, <3>4
  <2>2. CASE ~UnlockNotify(t)
    <3>1. \A u \in Threads : u # t => posted'[u] = posted[u]
      BY <2>2, <1>a, StepPosted DEF AwaitNotify, TypeOK
    <3>2. \A u \in Threads : u # t => (HasToken(u)' <=> HasToken(u))
      BY <1>b, <3>1 DEF HasToken, Owns
    <3>3. CASE (HasToken(t)' <=> HasToken(t)) /\ mWaiters'.flag = mWaiters.flag
      BY <1>a, <3>2, <3>3 DEF TokenOK
    <3>4. CASE mWaiters.flag = TRUE /\ mWaiters'.flag = FALSE /\ HasToken(t)'
      BY <1>a, <3>2, <3>4 DEF TokenOK
    <3>5. CASE HasToken(t) /\ mWaiters'.flag = TRUE /\ ~HasToken(t)'
      BY <1>a, <3>2, <3>5 DEF TokenOK
    <3> QED BY <2>2, <3>3, <3>4, <3>5, StepHolder
  <2> QED BY <2>1, <2>2
<1>2. ASSUME NEW u \in Threads, posted'[u] > 0 PROVE posted'[u] = 1 /\ Awaits(u)'
  <2>1. CASE posted[u] > 0
    <3>1. posted[u] = 1 /\ Granted(u) /\ Awaits(u) /\ HasToken(u)
      BY <2>1, <1>a DEF TokenOK, Granted, HasToken
    <3>2. ~UnlockNotify(t)
      <4>1. UnlockNotify(t) => HasToken(t) /\ ~Awaits(t)
        BY DEF UnlockNotify, HasToken, Awaits, RemoveLabels
      <4> QED BY <3>1, <4>1, <1>a DEF TokenOK
    <3>3. ~(u = t /\ AwaitNotify(t)) /\ posted'[u] = posted[u]
      BY <3>1, <3>2, <1>a, <1>2, StepPosted DEF AwaitNotify, TypeOK
    <3> QED BY <3>1, <3>3, StepAwaits
  <2>2. CASE ~(posted[u] > 0)
    <3>1. posted[u] = 0
      BY <2>2, <1>a DEF TypeOK
    <3>2. UnlockNotify(t) /\ u = head[t].ptr
      BY <3>1, <1>2, <1>a, StepPosted DEF AwaitNotify, UnlockNotify, Notify, TypeOK
    <3>3. posted'[u] = 1
      BY <3>1, <3>2, <1>a DEF UnlockNotify, Notify, TypeOK
    <3>4. Granted(u) /\ ~AwaitNotify(t)
      BY <3>2 DEF Granted, UnlockNotify, AwaitNotify
    <3> QED BY <3>3, <3>4, <1>c, StepAwaits
  <2> QED BY <2>1, <2>2
<1>3. ASSUME NEW u \in Threads, pc'[u] = "unlockNotify" PROVE Awaits(head[u].ptr)'
  <2>1. CASE u = t
    <3>1. Pops(t)
      BY <1>3, <2>1, StepLabels
    <3>2. head' = head /\ mWaiters = head[t] /\ head[t].ptr # Null /\ ~Awaits(t)
      BY <3>1, <1>a DEF Pops, UnlockPop, CompareAndSwap, FollowsOK, Awaits, RemoveLabels
    <3>3. head[t].ptr \in Enqueued
      BY <3>2 DEF Ordered, InOrder
    <3> QED BY <2>1, <1>b, <3>2, <3>3 DEF Enqueued, Awaits
  <2>2. CASE u # t
    <3>1. pc[u] = "unlockNotify" /\ head'[u] = head[u] /\ head[u].ptr \in Threads
      BY <1>3, <1>b, <2>2 DEF TypeInv, NoNullDereference, FollowsOK, TypeOK, Word, Pointers
    <3>2. Granted(head[u].ptr) /\ Awaits(head[u].ptr)
      BY <3>1, <1>c DEF Granted
    <3>3. ~AwaitNotify(t)
      BY <3>1, <1>a, <2>2 DEF AwaitNotify, TokenOK, HasToken
    <3>4. Awaits(head[u].ptr)' <=> pc'[head[u].ptr] \in (RemoveLabels \ {"unlockFound"}) \cup {"waiting", "inFlight"}
      BY <3>1 DEF Awaits
    <3>5. \A x \in Threads : Granted(x) /\ Awaits(x) => Awaits(x)'
      BY <3>3, StepAwaits
    <3> QED BY <3>1, <3>2, <3>4, <3>5 DEF Awaits
  <2> QED BY <2>1, <2>2
<1>4. ASSUME NEW u \in Threads, pc'[u] \in {"inFlight", "unlockNotFound"} PROVE Granted(u)'
  <2>1. CASE u # t
    <3>1. Granted(u)
      BY <1>4, <1>a, <1>b, <2>1 DEF TokenOK
    <3> QED BY <2>1, <3>1, StepGranted
  <2>2. CASE u = t
    <3>1. ~AwaitNotify(t)
      BY <1>4, <2>2, StepInFlight
    <3>2. Awaits(t) /\ mWaiters.ptr = Null => Granted(t)
      BY DEF Ordered, InOrder, Enqueued
    <3>3. RemoveScan(t) /\ Awaits(t) /\ next[current[t]] = Null => Granted(t)
      <4>1. RemoveScan(t) => pc[t] = "removeScan"
        BY DEF RemoveScan
      <4> QED BY <4>1 DEF Ordered, InOrder, Enqueued
    <3>4. pc[t] = "unlockNotFound" => Granted(t)
      BY <1>a DEF TokenOK
    <3> QED BY <1>4, <2>2, <3>1, <3>2, <3>3, <3>4, StepInFlight, StepGranted
  <2> QED BY <2>1, <2>2
<1> QED BY <1>1, <1>2, <1>3, <1>4 DEF TokenOK

-----------------------------------------------------------------------------
(* The snapshots *)

\* How a step changes the word: with a new tag, or when nobody can have an old copy.
LEMMA StepTag ==
  ASSUME TypeInv, StateOK, NoWrap, NEW t \in Threads, Step(t)
  PROVE  \/ mWaiters' = mWaiters
         \/ mWaiters'.aba = mWaiters.aba + 1
         \/ mWaiters'.aba = mWaiters.aba /\ mWaiters.lock /\ ~mWaiters'.lock
         \/ mWaiters.flag
         \/ Owns(t) /\ mWaiters.ptr = Null
<1>a. /\ mWaiters \in Word /\ head[t] \in Word /\ cached[t] \in Pointers
      /\ t \in Pointers
  BY DEF TypeInv, TypeOK, Pointers
<1>b. LocalOK(t)
  BY DEF StateOK
<1>c. t \in Scanners => mWaiters.lock
  BY DEF StateOK, WordOK
<1>d. /\ ZeroWord.ptr = Null /\ FreeWord.flag = TRUE
      /\ Unlocked(mWaiters).aba = mWaiters.aba
      /\ Unlocked(mWaiters).lock = FALSE
      /\ mWaiters = head[t] =>
           /\ AddAba(Locked(head[t])).aba = mWaiters.aba + 1
           /\ \A p \in Pointers : WithHead(head[t], p).aba = mWaiters.aba + 1
  BY <1>a, WordFields DEF NoWrap
<1> USE DEF LocalOK, Owns, Scanners
<1>1. CASE LockFast(t)
  BY <1>1, <1>a, <1>b, <1>c, <1>d DEF LockFast, StartRound, TakeFree
<1>2. CASE LockSpin(t)
  BY <1>2, <1>a, <1>b, <1>c, <1>d DEF LockSpin
<1>3. CASE LockSpinTake(t)
  BY <1>3, <1>a, <1>b, <1>c, <1>d DEF LockSpinTake, TakeFree
<1>4. CASE AddFast(t)
  BY <1>4, <1>a, <1>b, <1>c, <1>d DEF AddFast, StartRound, TakeFree
<1>5. CASE AddTake(t)
  BY <1>5, <1>a, <1>b, <1>c, <1>d DEF AddTake, CompareAndSwap
<1>6. CASE AddLink(t)
  BY <1>6, <1>a, <1>b, <1>c, <1>d DEF AddLink
<1>7. CASE AddPush(t)
  BY <1>7, <1>a, <1>b, <1>c, <1>d DEF AddPush, CompareAndSwap
<1>8. CASE UnlockFast(t)
  BY <1>8, <1>a, <1>b, <1>c, <1>d DEF UnlockFast
<1>9. CASE UnlockFree(t)
  BY <1>9, <1>a, <1>b, <1>c, <1>d DEF UnlockFree, CompareAndSwap
<1>10. CASE UnlockLoad(t)
  BY <1>10, <1>a, <1>b, <1>c, <1>d DEF UnlockLoad
<1>11. CASE UnlockReadNext(t)
  BY <1>11, <1>a, <1>b, <1>c, <1>d DEF UnlockReadNext
<1>12. CASE UnlockPop(t)
  BY <1>12, <1>a, <1>b, <1>c, <1>d DEF UnlockPop, CompareAndSwap
<1>13. CASE UnlockNotify(t)
  BY <1>13, <1>a, <1>b, <1>c, <1>d DEF UnlockNotify, Notify
<1>14. CASE ListStep(t)
  <2>1. CASE AwaitNotify(t)
    BY <1>14, <2>1, <1>a, <1>b, <1>c, <1>d DEF ListStep, AwaitNotify
  <2>2. CASE StartRemove(t)
    BY <1>14, <2>2, <1>a, <1>b, <1>c, <1>d DEF ListStep, StartRemove
  <2>3. CASE RemoveLoad(t)
    BY <1>14, <2>3, <1>a, <1>b, <1>c, <1>d DEF ListStep, RemoveLoad
  <2>4. CASE RemoveReadNext(t)
    BY <1>14, <2>4, <1>a, <1>b, <1>c, <1>d DEF ListStep, RemoveReadNext
  <2>5. CASE RemovePop(t)
    BY <1>14, <2>5, <1>a, <1>b, <1>c, <1>d DEF ListStep, RemovePop, CompareAndSwap
  <2>6. CASE RemoveLock(t)
    BY <1>14, <2>6, <1>a, <1>b, <1>c, <1>d DEF ListStep, RemoveLock, CompareAndSwap
  <2>7. CASE RemoveScan(t)
    BY <1>14, <2>7, <1>a, <1>b, <1>c, <1>d DEF ListStep, RemoveScan
  <2>8. CASE RemoveUnlock(t)
    BY <1>14, <2>8, <1>a, <1>b, <1>c, <1>d DEF ListStep, RemoveUnlock, ClearLock
  <2> QED BY <1>14, <2>1, <2>2, <2>3, <2>4, <2>5, <2>6, <2>7, <2>8
          DEF ListStep, RemoveWaiter
<1> QED BY <1>1, <1>2, <1>3, <1>4, <1>5, <1>6, <1>7, <1>8, <1>9, <1>10, <1>11, <1>12,
           <1>13, <1>14 DEF Step, Lock, AddWaiter, Unlock

\* The word a thread has just loaded is no older than the shared one.
LEMMA StepOwnSnapshot ==
  ASSUME TypeInv, NEW t \in Threads, SnapshotOK(t), Step(t)
  PROVE  SnapshotOK(t)'
<1>a. TypeOK /\ mWaiters \in Word /\ mWaiters.aba \in Int
  BY DEF TypeInv, TypeOK, Word
<1> USE DEF SnapshotOK, Goto, TypeOK
<1>1. CASE LockFast(t)
  BY <1>1, <1>a, BranchTypes, Branches DEF LockFast, StartRound, TakeFree
<1>2. CASE LockSpin(t)
  BY <1>2, <1>a, BranchTypes, Branches DEF LockSpin
<1>3. CASE LockSpinTake(t)
  BY <1>3, <1>a, BranchTypes, Branches DEF LockSpinTake, TakeFree
<1>4. CASE AddFast(t)
  BY <1>4, <1>a, BranchTypes, Branches DEF AddFast, StartRound, TakeFree
<1>5. CASE AddTake(t)
  BY <1>5, <1>a, BranchTypes, Branches DEF AddTake, CompareAndSwap
<1>6. CASE AddLink(t)
  BY <1>6, <1>a, BranchTypes, Branches DEF AddLink
<1>7. CASE AddPush(t)
  BY <1>7, <1>a, BranchTypes, Branches DEF AddPush, CompareAndSwap
<1>8. CASE UnlockFast(t)
  BY <1>8, <1>a, BranchTypes, Branches DEF UnlockFast
<1>9. CASE UnlockFree(t)
  BY <1>9, <1>a, BranchTypes, Branches DEF UnlockFree, CompareAndSwap
<1>10. CASE UnlockLoad(t)
  BY <1>10, <1>a, BranchTypes, Branches DEF UnlockLoad
<1>11. CASE UnlockReadNext(t)
  BY <1>11, <1>a, BranchTypes, Branches DEF UnlockReadNext
<1>12. CASE UnlockPop(t)
  BY <1>12, <1>a, BranchTypes, Branches DEF UnlockPop, CompareAndSwap
<1>13. CASE UnlockNotify(t)
  BY <1>13, <1>a, BranchTypes, Branches DEF UnlockNotify, Notify
<1>14. CASE ListStep(t)
  <2>1. CASE AwaitNotify(t)
    BY <1>14, <2>1, <1>a, BranchTypes, Branches DEF ListStep, AwaitNotify
  <2>2. CASE StartRemove(t)
    BY <1>14, <2>2, <1>a, BranchTypes, Branches DEF ListStep, StartRemove
  <2>3. CASE RemoveLoad(t)
    BY <1>14, <2>3, <1>a, BranchTypes, Branches DEF ListStep, RemoveLoad
  <2>4. CASE RemoveReadNext(t)
    BY <1>14, <2>4, <1>a, BranchTypes, Branches DEF ListStep, RemoveReadNext
  <2>5. CASE RemovePop(t)
    BY <1>14, <2>5, <1>a, BranchTypes, Branches DEF ListStep, RemovePop, CompareAndSwap
  <2>6. CASE RemoveLock(t)
    BY <1>14, <2>6, <1>a, BranchTypes, Branches DEF ListStep, RemoveLock, CompareAndSwap
  <2>7. CASE RemoveScan(t)
    BY <1>14, <2>7, <1>a, BranchTypes, Branches DEF ListStep, RemoveScan
  <2>8. CASE RemoveUnlock(t)
    BY <1>14, <2>8, <1>a, BranchTypes, Branches DEF ListStep, RemoveUnlock, ClearLock
  <2> QED BY <1>14, <2>1, <2>2, <2>3, <2>4, <2>5, <2>6, <2>7, <2>8
          DEF ListStep, RemoveWaiter
<1> QED BY <1>1, <1>2, <1>3, <1>4, <1>5, <1>6, <1>7, <1>8, <1>9, <1>10, <1>11, <1>12,
           <1>13, <1>14 DEF Step, Lock, AddWaiter, Unlock

\* Every step keeps the local copies truthful: same tag, same word.
LEMMA StepSnapshot ==
  ASSUME TypeInv, StateOK, NEW depth \in [Threads -> Int], Ordered(depth), NoWrap,
         NEW t \in Threads, Step(t), NEW u \in Threads
  PROVE  SnapshotOK(u)'
<1>a. /\ TypeOK /\ TokenOK /\ WordOK /\ LocalOK(u) /\ SnapshotOK(u) /\ FollowsOK(u)
      /\ mWaiters \in Word /\ mWaiters' \in Word /\ head[u] \in Word
  BY StepType DEF TypeInv, TypeOK, NoNullDereference, StateOK
<1>1. CASE u # t
  <2>1. /\ pc'[u] = pc[u] /\ head'[u] = head[u] /\ cached'[u] = cached[u]
    BY <1>1, <1>a, StepOwn
  <2>2. SUFFICES ASSUME pc[u] \in {"unlockReadNext", "unlockPop", "removeReadNext", "removePop"}
                 PROVE  SnapshotOK(u)'
    BY <2>1 DEF SnapshotOK
  <2>3. ~mWaiters.flag /\ ~(Owns(t) /\ mWaiters.ptr = Null)
    <3>1. Owns(u) => HasToken(u)
      BY DEF HasToken
    <3>2. ~Owns(u) => Awaits(u)
      BY <2>2 DEF Owns, Awaits, RemoveLabels
    <3>3. ~Owns(u) /\ mWaiters.ptr = Null => Granted(u)
      BY <3>2 DEF Ordered, InOrder, Enqueued
    <3>4. Granted(u) => \E v \in Threads : HasToken(v) /\ ~Owns(v)
      BY <2>2, <1>a DEF Granted, HasToken, Owns, TokenOK, Awaits, RemoveLabels
    <3>5. mWaiters.flag => mWaiters.ptr = Null
      BY <1>a, WordFields DEF WordOK
    <3>6. Owns(t) => HasToken(t)
      BY DEF HasToken
    <3> QED BY <1>1, <1>a, <3>1, <3>3, <3>4, <3>5, <3>6 DEF TokenOK
  <2>4. CASE mWaiters' = mWaiters
    <3>1. mWaiters = head[u] => next'[head[u].ptr] = next[head[u].ptr]
      <4> SUFFICES ASSUME mWaiters = head[u] PROVE next'[head[u].ptr] = next[head[u].ptr]
        OBVIOUS
      <4>1. head[u].ptr \in Enqueued /\ ~mWaiters.lock
        BY <1>a, <2>2 DEF FollowsOK, LocalOK, Ordered, InOrder
      <4>2. CASE AddLink(t)
        <5>1. head[u].ptr # t
          BY <4>1, <4>2 DEF AddLink, Enqueued, Awaits, RemoveLabels
        <5> QED BY <4>2, <5>1, <1>a DEF AddLink, TypeOK
      <4>3. ~RemoveScan(t)
        BY <4>1, <1>a DEF RemoveScan, WordOK, Scanners
      <4> QED BY <4>2, <4>3, StepNext
    <3> QED BY <1>a, <2>1, <2>4, <3>1 DEF SnapshotOK
  <2>5. CASE mWaiters'.aba = mWaiters.aba + 1
    BY <1>a, <2>1, <2>2, <2>5 DEF SnapshotOK, Word
  <2>6. CASE mWaiters'.aba = mWaiters.aba /\ mWaiters.lock /\ ~mWaiters'.lock
    BY <1>a, <2>1, <2>2, <2>6 DEF SnapshotOK, Word
  <2> QED BY <2>3, <2>4, <2>5, <2>6, StepTag
<1>2. CASE u = t
  BY <1>2, <1>a, StepOwnSnapshot
<1> QED BY <1>1, <1>2

-----------------------------------------------------------------------------
(* The order of the list *)

\* Which steps move the pointer to the first waiter.
LEMMA StepPointer ==
  ASSUME TypeInv, StateOK, NoWrap, NEW t \in Threads, Step(t)
  PROVE  \/ mWaiters'.ptr = mWaiters.ptr
         \/ Pushes(t) \/ Pops(t) \/ (RemovePop(t) /\ mWaiters = head[t])
<1>a. /\ mWaiters \in Word /\ head[t] \in Word /\ LocalOK(t)
  BY DEF TypeInv, TypeOK, StateOK
<1>b. /\ mWaiters.flag => mWaiters = FreeWord
      /\ Unlocked(mWaiters).ptr = mWaiters.ptr
      /\ ZeroWord.ptr = Null /\ FreeWord.ptr = Null /\ FreeWord.flag = TRUE
      /\ mWaiters = head[t] => AddAba(Locked(head[t])).ptr = mWaiters.ptr
  BY <1>a, WordFields DEF NoWrap, StateOK, WordOK
<1> USE DEF LocalOK, Pushes, Pops
<1>1. CASE LockFast(t)
  BY <1>1, <1>a, <1>b DEF LockFast, StartRound, TakeFree
<1>2. CASE LockSpin(t)
  BY <1>2, <1>a, <1>b DEF LockSpin
<1>3. CASE LockSpinTake(t)
  BY <1>3, <1>a, <1>b DEF LockSpinTake, TakeFree
<1>4. CASE AddFast(t)
  BY <1>4, <1>a, <1>b DEF AddFast, StartRound, TakeFree
<1>5. CASE AddTake(t)
  BY <1>5, <1>a, <1>b DEF AddTake, CompareAndSwap
<1>6. CASE AddLink(t)
  BY <1>6, <1>a, <1>b DEF AddLink
<1>7. CASE AddPush(t)
  BY <1>7, <1>a, <1>b DEF AddPush, CompareAndSwap
<1>8. CASE UnlockFast(t)
  BY <1>8, <1>a, <1>b DEF UnlockFast
<1>9. CASE UnlockFree(t)
  BY <1>9, <1>a, <1>b DEF UnlockFree, CompareAndSwap
<1>10. CASE UnlockLoad(t)
  BY <1>10, <1>a, <1>b DEF UnlockLoad
<1>11. CASE UnlockReadNext(t)
  BY <1>11, <1>a, <1>b DEF UnlockReadNext
<1>12. CASE UnlockPop(t)
  BY <1>12, <1>a, <1>b DEF UnlockPop, CompareAndSwap
<1>13. CASE UnlockNotify(t)
  BY <1>13, <1>a, <1>b DEF UnlockNotify, Notify
<1>14. CASE ListStep(t)
  <2>1. CASE AwaitNotify(t)
    BY <1>14, <2>1, <1>a, <1>b DEF ListStep, AwaitNotify
  <2>2. CASE StartRemove(t)
    BY <1>14, <2>2, <1>a, <1>b DEF ListStep, StartRemove
  <2>3. CASE RemoveLoad(t)
    BY <1>14, <2>3, <1>a, <1>b DEF ListStep, RemoveLoad
  <2>4. CASE RemoveReadNext(t)
    BY <1>14, <2>4, <1>a, <1>b DEF ListStep, RemoveReadNext
  <2>5. CASE RemovePop(t)
    BY <1>14, <2>5, <1>a, <1>b DEF ListStep, RemovePop, CompareAndSwap
  <2>6. CASE RemoveLock(t)
    BY <1>14, <2>6, <1>a, <1>b DEF ListStep, RemoveLock, CompareAndSwap
  <2>7. CASE RemoveScan(t)
    BY <1>14, <2>7, <1>a, <1>b DEF ListStep, RemoveScan
  <2>8. CASE RemoveUnlock(t)
    BY <1>14, <2>8, <1>a, <1>b DEF ListStep, RemoveUnlock, ClearLock
  <2> QED BY <1>14, <2>1, <2>2, <2>3, <2>4, <2>5, <2>6, <2>7, <2>8
          DEF ListStep, RemoveWaiter
<1> QED BY <1>1, <1>2, <1>3, <1>4, <1>5, <1>6, <1>7, <1>8, <1>9, <1>10, <1>11, <1>12,
           <1>13, <1>14 DEF Step, Lock, AddWaiter, Unlock

\* Where a scan of the list is after a step.
LEMMA StepScan ==
  ASSUME TypeInv, NEW t \in Threads, Step(t), pc'[t] = "removeScan"
  PROVE  \/ pc[t] = "removeLock" /\ mWaiters = head[t] /\ current'[t] = head[t].ptr
         \/ RemoveScan(t) /\ next[current[t]] \notin {Null, t}
                          /\ current'[t] = next[current[t]]
<1>a. TypeOK /\ mWaiters \in Word
  BY DEF TypeInv, TypeOK
<1> USE DEF Goto, TypeOK
<1>1. CASE LockFast(t)
  BY <1>1, <1>a, BranchTypes DEF LockFast, StartRound, TakeFree
<1>2. CASE LockSpin(t)
  BY <1>2, <1>a, BranchTypes DEF LockSpin
<1>3. CASE LockSpinTake(t)
  BY <1>3, <1>a, BranchTypes DEF LockSpinTake, TakeFree
<1>4. CASE AddFast(t)
  BY <1>4, <1>a, BranchTypes DEF AddFast, StartRound, TakeFree
<1>5. CASE AddTake(t)
  BY <1>5, <1>a, BranchTypes DEF AddTake, CompareAndSwap
<1>6. CASE AddLink(t)
  BY <1>6, <1>a, BranchTypes DEF AddLink
<1>7. CASE AddPush(t)
  BY <1>7, <1>a, BranchTypes DEF AddPush, CompareAndSwap
<1>8. CASE UnlockFast(t)
  BY <1>8, <1>a, BranchTypes DEF UnlockFast
<1>9. CASE UnlockFree(t)
  BY <1>9, <1>a, BranchTypes DEF UnlockFree, CompareAndSwap
<1>10. CASE UnlockLoad(t)
  BY <1>10, <1>a, BranchTypes DEF UnlockLoad
<1>11. CASE UnlockReadNext(t)
  BY <1>11, <1>a, BranchTypes DEF UnlockReadNext
<1>12. CASE UnlockPop(t)
  BY <1>12, <1>a, BranchTypes DEF UnlockPop, CompareAndSwap
<1>13. CASE UnlockNotify(t)
  BY <1>13, <1>a, BranchTypes DEF UnlockNotify, Notify
<1>14. CASE ListStep(t)
  <2>1. CASE AwaitNotify(t)
    BY <1>14, <2>1, <1>a, BranchTypes DEF ListStep, AwaitNotify
  <2>2. CASE StartRemove(t)
    BY <1>14, <2>2, <1>a, BranchTypes DEF ListStep, StartRemove
  <2>3. CASE RemoveLoad(t)
    BY <1>14, <2>3, <1>a, BranchTypes DEF ListStep, RemoveLoad
  <2>4. CASE RemoveReadNext(t)
    BY <1>14, <2>4, <1>a, BranchTypes DEF ListStep, RemoveReadNext
  <2>5. CASE RemovePop(t)
    BY <1>14, <2>5, <1>a, BranchTypes DEF ListStep, RemovePop, CompareAndSwap
  <2>6. CASE RemoveLock(t)
    BY <1>14, <2>6, <1>a, BranchTypes DEF ListStep, RemoveLock, CompareAndSwap
  <2>7. CASE RemoveScan(t)
    BY <1>14, <2>7, <1>a, BranchTypes DEF ListStep, RemoveScan
  <2>8. CASE RemoveUnlock(t)
    BY <1>14, <2>8, <1>a, BranchTypes DEF ListStep, RemoveUnlock, ClearLock
  <2> QED BY <1>14, <2>1, <2>2, <2>3, <2>4, <2>5, <2>6, <2>7, <2>8
          DEF ListStep, RemoveWaiter
<1> QED BY <1>1, <1>2, <1>3, <1>4, <1>5, <1>6, <1>7, <1>8, <1>9, <1>10, <1>11, <1>12,
           <1>13, <1>14 DEF Step, Lock, AddWaiter, Unlock

\* A step that puts no waiter on the list and takes none off leaves the list alone.
LEMMA StepKeepsList ==
  ASSUME TypeInv, StateOK, NoWrap, NEW t \in Threads, Step(t),
         ~Pushes(t), ~Pops(t), ~Leaves(t)
  PROVE  /\ Enqueued' = Enqueued /\ mWaiters'.ptr = mWaiters.ptr
         /\ \A w \in Enqueued : next'[w] = next[w]
<1>1. Enqueued \in SUBSET Threads /\ Enqueued' \in SUBSET Threads
  BY DEF Enqueued
<1>2. Enqueued' = Enqueued
  BY <1>1, StepEnqueued
<1>3. mWaiters'.ptr = mWaiters.ptr
  BY StepPointer DEF Leaves
<1>4. \A w \in Enqueued : next'[w] = next[w]
  <2>1. AddLink(t) => t \notin Enqueued /\ next' = [next EXCEPT ![t] = head[t].ptr]
    BY DEF AddLink, Enqueued, Awaits, RemoveLabels
  <2>2. RemoveScan(t) => next' = next
    BY DEF RemoveScan, Leaves
  <2> QED BY <1>1, <2>1, <2>2, StepNext DEF TypeInv, TypeOK
<1> QED BY <1>2, <1>3, <1>4

\* Every step keeps the links ordered, from some depths to others.
LEMMA StepOrdered ==
  ASSUME TypeInv, StateOK, NEW depth \in [Threads -> Int], Ordered(depth), NoWrap,
         NEW t \in Threads, Step(t)
  PROVE  \E d \in [Threads -> Int] : Ordered(d)'
<1>a. /\ TypeOK /\ WordOK /\ LocalOK(t) /\ FollowsOK(t) /\ SnapshotOK(t) /\ t # Null
      /\ mWaiters \in Word /\ mWaiters.ptr \in Pointers
      /\ \A u \in Threads : u # t => pc'[u] = pc[u] /\ current'[u] = current[u]
  BY StepOwn, WaiterListAssumption DEF TypeInv, TypeOK, NoNullDereference, StateOK, Word
<1>b. Enqueued \in SUBSET Threads /\ Enqueued' \in SUBSET Threads
  BY DEF Enqueued
<1>c. InOrder(depth, Enqueued, mWaiters.ptr, next)
  BY DEF Ordered
<1>1. CASE Pushes(t)
  <2>1. mWaiters = head[t] /\ next' = next /\ pc[t] = "addPush" /\ t \notin Enqueued
        /\ pc'[t] # "removeScan"
    BY <1>1, <1>a DEF Pushes, AddPush, CompareAndSwap, Goto, TypeOK, Enqueued, Awaits, RemoveLabels
  <2>2. mWaiters'.ptr = t /\ next[t] = mWaiters.ptr
    BY <1>1, <1>a, <2>1, WordFields DEF Pushes, AddPush, CompareAndSwap, NoWrap, LocalOK, Pointers
  <2>3. Enqueued' = Enqueued \cup {t}
    <3>1. ~Pops(t) /\ ~Leaves(t)
      BY <2>1 DEF Pops, Leaves, UnlockPop, RemovePop, RemoveScan
    <3> QED BY <1>1, <1>b, <3>1, StepEnqueued
  <2>4. PICK d \in [Threads -> Int] : /\ InOrder(d, Enqueued \cup {t}, t, next)
                                      /\ \A w \in Enqueued : d[w] = depth[w]
    <3>1. /\ Enqueued \in SUBSET Threads /\ next \in [Threads -> Pointers]
          /\ mWaiters.ptr \in Pointers /\ t \notin Enqueued /\ next[t] = mWaiters.ptr
      BY <1>a, <1>b, <2>1, <2>2 DEF TypeOK
    <3> QED BY <1>c, <3>1, PushOrder
  <2>5. Ordered(d)'
    <3>1. ASSUME NEW u \in Threads, pc'[u] = "removeScan"
          PROVE  current'[u] \in Enqueued' /\ (u \in Enqueued' => d[current'[u]] < d[u])
      <4>1. u # t /\ pc[u] = "removeScan" /\ current'[u] = current[u]
        BY <1>a, <2>1, <3>1
      <4> QED BY <4>1, <2>3, <2>4 DEF Ordered
    <3> QED BY <2>1, <2>2, <2>3, <2>4, <3>1 DEF Ordered
  <2> QED BY <2>5
<1>2. CASE Pops(t) \/ (RemovePop(t) /\ mWaiters = head[t])
  <2>1. /\ mWaiters = head[t] /\ next' = next /\ pc[t] \in {"unlockPop", "removePop"}
        /\ pc'[t] # "removeScan" /\ mWaiters' = WithHead(head[t], cached[t])
    BY <1>2, <1>a DEF Pops, UnlockPop, RemovePop, CompareAndSwap, Goto, TypeOK
  <2>2. mWaiters.ptr # Null /\ ~mWaiters.lock
    BY <1>a, <2>1 DEF FollowsOK, LocalOK
  <2>3. mWaiters'.ptr = next[mWaiters.ptr]
    BY <1>a, <2>1, WordFields DEF NoWrap, SnapshotOK, TypeOK
  <2>4. Enqueued' = Enqueued \ {mWaiters.ptr}
    <3>1. ~Pushes(t) /\ ~RemoveScan(t)
      BY <2>1 DEF Pushes, AddPush, RemoveScan
    <3>2. RemovePop(t) => head[t].ptr = t /\ ~Pops(t)
      BY <1>a DEF RemovePop, Pops, UnlockPop, LocalOK
    <3>3. Leaves(t) <=> RemovePop(t) /\ mWaiters = head[t]
      BY <3>1 DEF Leaves
    <3> QED BY <1>2, <1>b, <2>1, <3>1, <3>2, <3>3, StepEnqueued
  <2>5. InOrder(depth, Enqueued \ {mWaiters.ptr}, next[mWaiters.ptr], next)
    BY <1>a, <1>b, <1>c, <2>2, PopOrder DEF TypeOK
  <2>6. \A u \in Threads : pc'[u] # "removeScan"
    BY <1>a, <2>1, <2>2 DEF WordOK, Scanners
  <2>7. Ordered(depth)'
    BY <2>1, <2>3, <2>4, <2>5, <2>6 DEF Ordered
  <2> QED BY <2>7
<1>3. CASE RemoveScan(t) /\ next[current[t]] = t
  <2>1. /\ current[t] \in Enqueued /\ pc[t] = "removeScan" /\ pc'[t] = "unlockFound"
        /\ next' = [next EXCEPT ![current[t]] = next[t]] /\ mWaiters' = mWaiters
    BY <1>3, <1>a DEF RemoveScan, Ordered, Goto, TypeOK
  <2>2. Enqueued' = Enqueued \ {t}
    <3>1. ~Pushes(t) /\ ~Pops(t) /\ Leaves(t)
      BY <1>3, <2>1 DEF Pushes, Pops, Leaves, AddPush, UnlockPop
    <3> QED BY <1>b, <3>1, StepEnqueued
  <2>3. InOrder(depth, Enqueued \ {t}, mWaiters.ptr, next')
    BY <1>3, <1>a, <1>b, <1>c, <2>1, UnlinkOrder DEF TypeOK
  <2>4. \A u \in Threads : pc'[u] # "removeScan"
    BY <1>a, <2>1 DEF WordOK, Scanners
  <2>5. Ordered(depth)'
    BY <2>1, <2>2, <2>3, <2>4 DEF Ordered
  <2> QED BY <2>5
<1>4. CASE ~Pushes(t) /\ ~Pops(t) /\ ~Leaves(t)
  <2>1. Enqueued' = Enqueued
    BY <1>4, StepKeepsList
  <2>2. mWaiters'.ptr = mWaiters.ptr
    BY <1>4, StepKeepsList
  <2>3. \A w \in Enqueued : next'[w] = next[w]
    BY <1>4, StepKeepsList
  <2>4. InOrder(depth, Enqueued, mWaiters'.ptr, next')
    BY <1>c, <2>2, <2>3 DEF InOrder
  <2>5. ASSUME NEW u \in Threads, pc'[u] = "removeScan"
        PROVE  current'[u] \in Enqueued /\ (u \in Enqueued => depth[current'[u]] < depth[u])
    <3>1. CASE u # t
      BY <1>a, <2>5, <3>1 DEF Ordered
    <3>2. CASE u = t /\ pc[t] = "removeLock" /\ mWaiters = head[t] /\ current'[t] = head[t].ptr
      <4>1. mWaiters.ptr # Null /\ mWaiters.ptr # t
        BY <1>a, <3>2 DEF FollowsOK, LocalOK
      <4> QED BY <1>c, <1>b, <3>2, <4>1 DEF InOrder
    <3>3. CASE u = t /\ RemoveScan(t) /\ next[current[t]] \notin {Null, t}
               /\ current'[t] = next[current[t]]
      <4>1. current[t] \in Enqueued /\ (t \in Enqueued => depth[current[t]] < depth[t])
        BY <3>3 DEF RemoveScan, Ordered
      <4> QED BY <1>c, <1>b, <3>3, <4>1 DEF InOrder
    <3> QED BY <2>5, <3>1, <3>2, <3>3, StepScan
  <2>6. Ordered(depth)'
    BY <2>1, <2>4, <2>5 DEF Ordered
  <2> QED BY <2>6
<1> QED BY <1>1, <1>2, <1>3, <1>4 DEF Leaves

-----------------------------------------------------------------------------
(* The invariant and the theorems *)

\* The constructor establishes the invariant.
LEMMA InitInv == Init => IInv
<1> SUFFICES ASSUME Init PROVE IInv
  OBVIOUS
<1>1. TypeInv /\ mWaiters = FreeWord /\ \A t \in Threads : pc[t] = "idle" /\ posted[t] = 0
  BY InitType DEF Init, ListInit
<1>2. FreeWord.flag = TRUE /\ FreeWord.lock = FALSE /\ FreeWord.ptr = Null
  BY WordFields
<1>3. /\ \A t \in Threads : ~HasToken(t) /\ ~Awaits(t)
      /\ \A t \in Threads : t \notin Scanners
  BY <1>1 DEF HasToken, Owns, Awaits, RemoveLabels, Scanners
<1>4. StateOK
  <2>1. TokenOK
    BY <1>1, <1>2, <1>3 DEF TokenOK
  <2>2. WordOK
    BY <1>1, <1>2, <1>3 DEF WordOK, Scanners
  <2>3. \A t \in Threads : LocalOK(t) /\ SnapshotOK(t)
    BY <1>1 DEF LocalOK, SnapshotOK
  <2> QED BY <2>1, <2>2, <2>3 DEF StateOK
<1> DEFINE d == [t \in Threads |-> 0]
<1>5. Enqueued = {}
  BY <1>3 DEF Enqueued
<1>6. Ordered(d)
  BY <1>1, <1>2, <1>5 DEF Ordered, InOrder
<1> QED BY <1>1, <1>4, <1>6 DEF IInv

\* Every step keeps the invariant as long as the tag has not wrapped.
LEMMA StepInv == IInv /\ NoWrap /\ [Next]_mutexVars => IInv'
<1> SUFFICES ASSUME IInv, NoWrap, [Next]_mutexVars PROVE IInv'
  OBVIOUS
<1>1. PICK depth \in [Threads -> Int] : Ordered(depth)
  BY DEF IInv
<1>2. TypeInv /\ StateOK
  BY DEF IInv
<1>3. ASSUME NEW t \in Threads, Step(t) PROVE IInv'
  <2>1. TypeInv'
    BY <1>2, <1>3, StepType, StepFollows DEF TypeInv
  <2>2. StateOK'
    BY <1>1, <1>2, <1>3, StepToken, StepWord, StepLocal, StepSnapshot DEF StateOK
  <2>3. \E d \in [Threads -> Int] : Ordered(d)'
    BY <1>1, <1>2, <1>3, StepOrdered
  <2> QED BY <2>1, <2>2, <2>3 DEF IInv
<1>4. CASE UNCHANGED mutexVars
  <2>1. TypeInv'
    BY <1>2, <1>4, StutterType
  <2>2. /\ mWaiters' = mWaiters /\ next' = next /\ posted' = posted /\ pc' = pc
        /\ head' = head /\ cached' = cached /\ current' = current
    BY <1>4 DEF mutexVars, listVars
  <2>3. TokenOK' /\ WordOK'
    BY <1>2, <2>2 DEF StateOK, TokenOK, HasToken, Owns, Granted, Awaits, WordOK, Scanners
  <2>4. \A t \in Threads : LocalOK(t)' /\ SnapshotOK(t)'
    BY <1>2, <2>2 DEF StateOK, LocalOK, SnapshotOK
  <2>5. Enqueued' = Enqueued
    BY <2>2 DEF Enqueued, Awaits, Granted
  <2>6. Ordered(depth)'
    BY <1>1, <2>2, <2>5 DEF Ordered
  <2> QED BY <2>1, <2>3, <2>4, <2>6 DEF IInv, StateOK
<1> QED BY <1>3, <1>4 DEF Next

\* IInv is an invariant of every behaviour in which the tag does not wrap around.
THEOREM Invariance == Spec /\ []NoWrap => []IInv
<1> QED BY InitInv, StepInv, PTL DEF Spec

\* What the invariant says of the holders.
LEMMA ExclusiveInv == IInv => MutualExclusion
<1> SUFFICES ASSUME IInv PROVE MutualExclusion
  OBVIOUS
<1>1. TypeOK /\ TokenOK /\ WordOK /\ \A t \in Threads : FollowsOK(t)
  BY DEF IInv, TypeInv, NoNullDereference, StateOK
<1>2. ASSUME NEW t \in Threads
      PROVE  Holds(t) <=> \/ HasToken(t) /\ pc[t] # "unlockNotify"
                          \/ \E u \in Threads : pc[u] = "unlockNotify" /\ head[u].ptr = t
  BY <1>1 DEF Holds, Granted, HasToken, Owns, TokenOK, Awaits, RemoveLabels
<1>3. \A u \in Threads : pc[u] = "unlockNotify" => HasToken(u)
  BY DEF HasToken
<1>4. ASSUME NEW t \in Threads, NEW u \in Threads, Holds(t), Holds(u) PROVE t = u
  BY <1>1, <1>2, <1>3, <1>4 DEF TokenOK
<1>5. mWaiters = FreeWord <=> \A t \in Threads : ~HasToken(t)
  BY <1>1, WordFields DEF TokenOK, WordOK
<1>6. (\A t \in Threads : ~HasToken(t)) <=> (\A t \in Threads : ~Holds(t))
  <2>1. \A u \in Threads : pc[u] = "unlockNotify" => head[u].ptr \in Threads
    BY <1>1 DEF FollowsOK, TypeOK, Word, Pointers
  <2> QED BY <1>2, <1>3, <2>1
<1> QED BY <1>4, <1>5, <1>6 DEF MutualExclusion

(* The mutex has exactly one holder unless it is free: no interleaving of   *)
(* Lock, Unlock, AddWaiter and RemoveWaiter of any number of threads gives  *)
(* it to two of them or loses it (mutex.cpp, waiter_list.cpp).              *)
THEOREM MutexIsExclusive == Spec /\ []NoWrap => []MutualExclusion
<1> QED BY ExclusiveInv, Invariance, PTL

(* RemoveWaiter returns false only if the callback is in flight or has run, *)
(* and a waiter that does not wait any more is not notified.                *)
THEOREM RemovalIsTrue == Spec /\ []NoWrap => []RemovalMatchesGrant
<1>1. IInv => RemovalMatchesGrant
  BY GrantedAwaits DEF IInv, TypeInv, StateOK, TokenOK, RemovalMatchesGrant
<1> QED BY <1>1, Invariance, PTL

\* The assertions of mutex.cpp hold.
THEOREM AssertionsAreTrue == Spec /\ []NoWrap => []AssertionsHold
<1>1. IInv => AssertionsHold
  BY DEF IInv, StateOK, LocalOK, AssertionsHold, Owns
<1> QED BY <1>1, Invariance, PTL

(* The list that a thread finds by following the links from the word holds  *)
(* the waiting threads, each of them once: nothing that is pushed, popped,  *)
(* or removed from the middle is lost, repeated or invented.                *)
THEOREM ListIsIntact == Spec /\ []NoWrap => []ListIntegrity
<1>1. IInv => ListIntegrity
  <2> SUFFICES ASSUME IInv
               PROVE  ListIntegrity
    OBVIOUS
  <2>1. PICK depth \in [Threads -> Int] : InOrder(depth, Enqueued, mWaiters.ptr, next)
    BY DEF IInv, Ordered
  <2>2. Enqueued \subseteq Threads
    BY DEF Enqueued
  <2>3. IsFiniteSet(Enqueued)
    BY <2>2, WaiterListAssumption, FS_Subset
  <2> QED
    BY <2>1, <2>2, <2>3, OrderedList DEF ListIntegrity
<1> QED
  BY <1>1, Invariance, PTL

(* Few depths are enough: the rank of a waiter on the list is as good as     *)
(* its depth.                                                                *)
THEOREM FewDepthsAreEnough == Spec /\ []NoWrap => []InductiveInvariant
<1>1. IInv => InductiveInvariant
  <2> SUFFICES ASSUME IInv
               PROVE  \E d \in [Threads -> 1 .. Cardinality(Threads)] : Ordered(d)
    BY DEF IInv, InductiveInvariant
  <2>1. PICK depth \in [Threads -> Int] : Ordered(depth)
    BY DEF IInv
  <2> DEFINE S == Enqueued
             n == Cardinality(Threads)
             r(w) == Rank(depth, S, w)
             d == [w \in Threads |-> IF w \in S THEN r(w) + 1 ELSE 1]
  <2>2. S \subseteq Threads /\ IsFiniteSet(S) /\ Cardinality(S) <= n
    <3>1. S \subseteq Threads
      BY DEF Enqueued
    <3> QED
      BY <3>1, WaiterListAssumption, FS_Subset
  <2>3. n \in Nat /\ \A w \in Threads : n >= 1
    <3>1. n \in Nat
      BY WaiterListAssumption, FS_CardinalityType
    <3>2. Threads # {} => n # 0
      BY WaiterListAssumption, FS_EmptySet
    <3> QED
      BY <3>1, <3>2
  <2>4. InOrder(depth, S, mWaiters.ptr, next)
    BY <2>1 DEF Ordered
  <2>5. /\ Cardinality(S) \in Nat
        /\ \A w \in S : r(w) \in 0 .. Cardinality(S) - 1
        /\ \A v, w \in S : r(v) < r(w) <=> depth[v] < depth[w]
        /\ \A v, w \in S : r(v) = r(w) => v = w
    <3>1. \A v, w \in S : depth[v] = depth[w] => v = w
      BY <2>4 DEF InOrder
    <3> QED
      BY <2>2, <3>1, Ranks
  <2> HIDE DEF S, n, r
  <2>6. d \in [Threads -> 1 .. n]
    BY <2>2, <2>3, <2>5
  <2>7. \A w \in S : d[w] = r(w) + 1 /\ d[w] \in Int /\ depth[w] \in Int
    BY <2>2, <2>5
  <2> HIDE DEF d
  <2>8. \A v, w \in S : (d[v] < d[w] <=> depth[v] < depth[w]) /\ (d[v] <= d[w] <=> depth[v] <= depth[w])
    <3> SUFFICES ASSUME NEW v \in S, NEW w \in S
                 PROVE  /\ d[v] < d[w] <=> depth[v] < depth[w]
                        /\ d[v] <= d[w] <=> depth[v] <= depth[w]
      OBVIOUS
    <3>1. /\ r(v) < r(w) <=> depth[v] < depth[w]
          /\ r(w) < r(v) <=> depth[w] < depth[v]
          /\ r(v) \in Int /\ r(w) \in Int
      BY <2>5
    <3> QED
      BY <2>7, <3>1
  <2>9. InOrder(d, S, mWaiters.ptr, next)
    <3>1. \A v, w \in S : d[v] = d[w] => v = w
      BY <2>5, <2>7
    <3> QED
      BY <2>4, <2>8, <3>1 DEF InOrder
  <2>10. Ordered(d)
    BY <2>1, <2>8, <2>9 DEF Ordered, S
  <2> QED
    BY <2>6, <2>10 DEF n
<1> QED
  BY <1>1, Invariance, PTL

-----------------------------------------------------------------------------
(* The refinement of LifoLock *)

\* A sequence that follows the links is the list.
LEMMA SequenceIs ==
  \A q \in Seq(Threads) :
    Follows(q, mWaiters.ptr, next) /\ Len(q) <= Cardinality(Threads) => AsSequence = q
<1> SUFFICES ASSUME NEW q \in Seq(Threads), Follows(q, mWaiters.ptr, next),
                    Len(q) <= Cardinality(Threads)
             PROVE  AsSequence = q
  OBVIOUS
<1> DEFINE N == Cardinality(Threads)
           P(k) == Chain[k] = Null /\ \A j \in 0 .. k - 1 : Chain[j] # Null
           n == CHOOSE k \in 0 .. N : P(k)
<1>1. N \in Nat /\ Len(q) \in Nat /\ Len(q) \in 0 .. N
  <2>1. N \in Nat
    BY WaiterListAssumption, FS_CardinalityType
  <2> QED
    BY <2>1
<1>2. \A k \in Nat : Chain[k] = IF k < Len(q) THEN q[k + 1] ELSE Null
  BY ChainOf
<1>3. \A k \in Nat : k < Len(q) => Chain[k] # Null
  BY <1>1, <1>2, WaiterListAssumption
<1>4. P(Len(q))
  BY <1>1, <1>2, <1>3
<1>5. \A k \in 0 .. N : P(k) => k = Len(q)
  <2> SUFFICES ASSUME NEW k \in 0 .. N, P(k)
               PROVE  k = Len(q)
    OBVIOUS
  <2>1. k \in Nat /\ ~(k < Len(q))
    BY <1>1, <1>3
  <2>2. ~(Len(q) < k)
    <3>1. Len(q) < k => Len(q) \in 0 .. k - 1 /\ Chain[Len(q)] # Null
      BY <1>1, <2>1
    <3> QED
      BY <1>1, <1>2, <3>1
  <2> QED
    BY <1>1, <2>1, <2>2
<1> HIDE DEF P
<1>6. n = Len(q)
  BY <1>1, <1>4, <1>5
<1>7. AsSequence = [i \in 1 .. n |-> Chain[i - 1]]
  BY DEF AsSequence, P
<1> HIDE DEF n
<1>8. AsSequence = [i \in 1 .. Len(q) |-> q[i]]
  <2>1. \A i \in 1 .. Len(q) : Chain[i - 1] = q[i]
    <3> SUFFICES ASSUME NEW i \in 1 .. Len(q)
                 PROVE  Chain[i - 1] = q[i]
      OBVIOUS
    <3>1. i - 1 \in Nat /\ i - 1 < Len(q) /\ (i - 1) + 1 = i
      BY <1>1
    <3> QED
      BY <1>2, <3>1
  <2> QED
    BY <1>6, <1>7, <2>1
<1> QED
  BY <1>8

\* The same after a step.
LEMMA SequenceIsThen ==
  \A q \in Seq(Threads) :
    Follows(q, mWaiters'.ptr, next') /\ Len(q) <= Cardinality(Threads) => AsSequence' = q
<1>1. (\A q \in Seq(Threads) :
         Follows(q, mWaiters.ptr, next) /\ Len(q) <= Cardinality(Threads) => AsSequence = q)'
  BY SequenceIs, PTL
<1> QED
  BY <1>1 DEF Follows

\* The list as a sequence, under the invariant.
LEMMA TheSequence ==
  ASSUME IInv
  PROVE  /\ AsSequence \in Seq(Threads) /\ Follows(AsSequence, mWaiters.ptr, next)
         /\ Len(AsSequence) = Cardinality(Enqueued)
         /\ \A w : w \in Enqueued <=> \E i \in 1 .. Len(AsSequence) : AsSequence[i] = w
         /\ \A i, j \in 1 .. Len(AsSequence) : AsSequence[i] = AsSequence[j] => i = j
<1>1. PICK depth \in [Threads -> Int] : InOrder(depth, Enqueued, mWaiters.ptr, next)
  BY DEF IInv, Ordered
<1>2. /\ Enqueued \subseteq Threads /\ IsFiniteSet(Enqueued)
      /\ Cardinality(Enqueued) <= Cardinality(Threads)
  <2>1. Enqueued \subseteq Threads
    BY DEF Enqueued
  <2> QED
    BY <2>1, WaiterListAssumption, FS_Subset
<1>3. PICK q \in Seq(Enqueued) :
        /\ Len(q) = Cardinality(Enqueued) /\ Follows(q, mWaiters.ptr, next)
        /\ \A w \in Enqueued : \E i \in 1 .. Len(q) : q[i] = w
        /\ \A i, j \in 1 .. Len(q) : q[i] = q[j] => i = j
  BY <1>1, <1>2, SequenceOf
<1>4. q \in Seq(Threads) /\ \A i \in 1 .. Len(q) : q[i] \in Enqueued
  BY <1>2
<1>5. AsSequence = q
  BY <1>2, <1>3, <1>4, SequenceIs
<1> QED
  BY <1>3, <1>4, <1>5

\* AddPush: the new waiter is in front.
LEMMA SequencePush ==
  ASSUME IInv, NEW t \in Threads, t \notin Enqueued, next' = next, mWaiters'.ptr = t,
         next[t] = mWaiters.ptr
  PROVE  AsSequence' = <<t>> \o AsSequence
<1> DEFINE q == AsSequence
           s == <<t>> \o q
<1>1. /\ q \in Seq(Threads) /\ Follows(q, mWaiters.ptr, next)
      /\ Len(q) = Cardinality(Enqueued)
  BY TheSequence
<1>2. Len(q) + 1 <= Cardinality(Threads)
  <2>1. Enqueued \cup {t} \subseteq Threads /\ Enqueued \subseteq Threads
    BY DEF Enqueued
  <2>2. IsFiniteSet(Enqueued)
    BY <2>1, WaiterListAssumption, FS_Subset
  <2>3. Cardinality(Enqueued \cup {t}) = Cardinality(Enqueued) + 1
    BY <2>2, FS_AddElement
  <2>4. Cardinality(Enqueued \cup {t}) <= Cardinality(Threads)
    BY <2>1, WaiterListAssumption, FS_Subset
  <2> QED
    BY <1>1, <2>3, <2>4
<1> HIDE DEF q
<1>3. /\ s \in Seq(Threads) /\ Len(s) = Len(q) + 1 /\ s # <<>> /\ s[1] = t
      /\ Len(q) \in Nat /\ (q = <<>> <=> Len(q) = 0)
      /\ \A i \in 1 .. Len(q) : s[i + 1] = q[i]
  BY <1>1
<1> HIDE DEF s
<1>4. ASSUME NEW i \in 1 .. Len(s)
      PROVE  next[s[i]] = IF i = Len(s) THEN Null ELSE s[i + 1]
  <2>1. CASE i = 1
    <3>1. CASE Len(q) = 0
      BY <1>1, <1>3, <2>1, <3>1 DEF Follows
    <3>2. CASE Len(q) # 0
      <4>1. 1 \in 1 .. Len(q)
        BY <1>3, <3>2
      <4>2. s[1 + 1] = q[1]
        BY <1>3, <4>1
      <4> QED
        BY <1>1, <1>3, <2>1, <3>2, <4>2 DEF Follows
    <3> QED
      BY <3>1, <3>2
  <2>2. CASE i # 1
    <3>1. i - 1 \in 1 .. Len(q) /\ (i - 1) + 1 = i
      BY <1>3, <2>2
    <3>2. s[i] = q[i - 1]
      <4>1. s[(i - 1) + 1] = q[i - 1]
        BY <1>3, <3>1
      <4> QED
        BY <3>1, <4>1
    <3>3. i # Len(s) => s[i + 1] = q[i]
      <4>1. i # Len(s) => i \in 1 .. Len(q)
        BY <1>3
      <4> QED
        BY <1>3, <4>1
    <3>4. next[q[i - 1]] = IF i - 1 = Len(q) THEN Null ELSE q[(i - 1) + 1]
      BY <1>1, <3>1 DEF Follows
    <3> QED
      BY <1>3, <3>1, <3>2, <3>3, <3>4
  <2> QED
    BY <2>1, <2>2
<1>5. Follows(s, mWaiters'.ptr, next')
  BY <1>3, <1>4 DEF Follows
<1>6. AsSequence' = s
  BY <1>2, <1>3, <1>5, SequenceIsThen
<1> QED
  BY <1>6 DEF s, q

\* A pop: the first waiter is gone.
LEMMA SequencePop ==
  ASSUME IInv, next' = next, mWaiters.ptr # Null, mWaiters'.ptr = next[mWaiters.ptr]
  PROVE  /\ AsSequence # <<>> /\ Head(AsSequence) = mWaiters.ptr
         /\ AsSequence' = Tail(AsSequence)
<1> DEFINE q == AsSequence
           s == Tail(q)
<1>1. /\ q \in Seq(Threads) /\ Follows(q, mWaiters.ptr, next)
      /\ Len(q) = Cardinality(Enqueued)
  BY TheSequence
<1>2. Len(q) <= Cardinality(Threads) /\ Cardinality(Threads) \in Nat
  <2>1. Enqueued \subseteq Threads
    BY DEF Enqueued
  <2> QED
    BY <1>1, <2>1, WaiterListAssumption, FS_Subset, FS_CardinalityType
<1> HIDE DEF q
<1>3. q # <<>> /\ q[1] = mWaiters.ptr
  BY <1>1 DEF Follows
<1>4. /\ s \in Seq(Threads) /\ Len(s) = Len(q) - 1 /\ Head(q) = q[1] /\ Len(q) \in Nat
      /\ Len(q) >= 1 /\ (s = <<>> <=> Len(q) = 1)
      /\ \A i \in 1 .. Len(q) - 1 : s[i] = q[i + 1]
  BY <1>1, <1>3
<1> HIDE DEF s
<1>5. mWaiters'.ptr = IF s = <<>> THEN Null ELSE s[1]
  <2>1. 1 \in 1 .. Len(q) /\ (Len(q) # 1 => 1 \in 1 .. Len(q) - 1)
    BY <1>4
  <2>2. next[q[1]] = IF 1 = Len(q) THEN Null ELSE q[1 + 1]
    BY <1>1, <2>1 DEF Follows
  <2> QED
    BY <1>3, <1>4, <2>1, <2>2
<1>6. ASSUME NEW i \in 1 .. Len(s)
      PROVE  next[s[i]] = IF i = Len(s) THEN Null ELSE s[i + 1]
  <2>1. i + 1 \in 1 .. Len(q) /\ s[i] = q[i + 1] /\ (i # Len(s) => s[i + 1] = q[(i + 1) + 1])
    BY <1>4
  <2>2. next[q[i + 1]] = IF i + 1 = Len(q) THEN Null ELSE q[(i + 1) + 1]
    BY <1>1, <2>1 DEF Follows
  <2> QED
    BY <1>4, <2>1, <2>2
<1>7. Follows(s, mWaiters'.ptr, next')
  BY <1>5, <1>6 DEF Follows
<1>8. AsSequence' = s
  BY <1>2, <1>4, <1>7, SequenceIsThen
<1> QED
  BY <1>3, <1>4, <1>8 DEF s, q

\* A sequence without its element i.
LEMMA Without ==
  ASSUME NEW S, NEW q \in Seq(S), NEW i \in 1 .. Len(q)
  PROVE  LET s == SubSeq(q, 1, i - 1) \o SubSeq(q, i + 1, Len(q))
         IN  /\ s \in Seq(S) /\ Len(s) = Len(q) - 1
             /\ \A k \in 1 .. i - 1 : s[k] = q[k]
             /\ \A k \in i .. Len(q) - 1 : s[k] = q[k + 1]
<1> DEFINE a == SubSeq(q, 1, i - 1)
           b == SubSeq(q, i + 1, Len(q))
<1>1. Len(q) \in Nat
  OBVIOUS
<1>2. /\ a \in Seq(S) /\ Len(a) = i - 1
      /\ \A k \in 1 .. i - 1 : a[k] = q[k]
  OBVIOUS
<1>3. /\ b \in Seq(S) /\ Len(b) = Len(q) - i
      /\ \A k \in 1 .. Len(q) - i : b[k] = q[i + k]
  OBVIOUS
<1> HIDE DEF a, b
<1>4. /\ a \o b \in Seq(S) /\ Len(a \o b) = Len(q) - 1
      /\ \A k \in 1 .. i - 1 : (a \o b)[k] = a[k]
      /\ \A k \in i .. Len(q) - 1 : (a \o b)[k] = b[k - (i - 1)]
  <2>1. a \o b \in Seq(S) /\ Len(a \o b) = Len(a) + Len(b)
    <3>1. a \in Seq(S) /\ b \in Seq(S)
      BY <1>2, <1>3
    <3> QED
      BY <3>1
  <2>2. \A k \in 1 .. Len(a) + Len(b) :
          (a \o b)[k] = IF k <= Len(a) THEN a[k] ELSE b[k - Len(a)]
    BY <1>2, <1>3
  <2>3. Len(a) + Len(b) = Len(q) - 1 /\ i \in Nat
    BY <1>1, <1>2, <1>3
  <2>4. \A k \in 1 .. i - 1 : k \in 1 .. Len(a) + Len(b) /\ k <= Len(a)
    BY <1>1, <1>2, <1>3
  <2>5. \A k \in i .. Len(q) - 1 :
          k \in 1 .. Len(a) + Len(b) /\ ~(k <= Len(a)) /\ k - Len(a) = k - (i - 1)
    BY <1>1, <1>2, <1>3
  <2>6. \A k \in 1 .. i - 1 : (a \o b)[k] = a[k]
    BY <2>2, <2>4
  <2>7. \A k \in i .. Len(q) - 1 : (a \o b)[k] = b[k - (i - 1)]
    BY <2>2, <2>5
  <2> QED
    BY <2>1, <2>3, <2>6, <2>7
<1>5. \A k \in i .. Len(q) - 1 : k - (i - 1) \in 1 .. Len(q) - i /\ i + (k - (i - 1)) = k + 1
  BY <1>1
<1>6. \A k \in i .. Len(q) - 1 : (a \o b)[k] = q[k + 1]
  BY <1>3, <1>4, <1>5
<1>7. \A k \in 1 .. i - 1 : (a \o b)[k] = q[k]
  BY <1>2, <1>4
<1> QED
  BY <1>4, <1>6, <1>7 DEF a, b

\* A removal from the middle.
LEMMA SequenceUnlink ==
  ASSUME IInv, NEW t \in Threads, NEW c \in Enqueued, next[c] = t,
         next' = [next EXCEPT ![c] = next[t]], mWaiters' = mWaiters
  PROVE  \E i \in DOMAIN AsSequence :
           /\ AsSequence[i] = t
           /\ AsSequence' = SubSeq(AsSequence, 1, i - 1)
                            \o SubSeq(AsSequence, i + 1, Len(AsSequence))
<1> DEFINE q == AsSequence
<1>1. /\ q \in Seq(Threads) /\ Follows(q, mWaiters.ptr, next)
      /\ Len(q) = Cardinality(Enqueued)
      /\ \E j \in 1 .. Len(q) : q[j] = c
      /\ \A i, j \in 1 .. Len(q) : q[i] = q[j] => i = j
  BY TheSequence
<1>2. Len(q) <= Cardinality(Threads) /\ Cardinality(Threads) \in Nat
  <2>1. Enqueued \subseteq Threads
    BY DEF Enqueued
  <2> QED
    BY <1>1, <2>1, WaiterListAssumption, FS_Subset, FS_CardinalityType
<1> HIDE DEF q
<1>3. Len(q) \in Nat /\ DOMAIN q = 1 .. Len(q)
  BY <1>1
<1>4. PICK j \in 1 .. Len(q) : q[j] = c
  BY <1>1
<1>5. j + 1 \in 1 .. Len(q) /\ q[j + 1] = t
  <2>1. t # Null /\ next[q[j]] = t
    BY <1>4, WaiterListAssumption
  <2>2. next[q[j]] = IF j = Len(q) THEN Null ELSE q[j + 1]
    BY <1>1 DEF Follows
  <2> QED
    BY <1>3, <2>1, <2>2
<1>6. /\ next'[c] = next[t]
      /\ \A k \in 1 .. Len(q) : k # j => next'[q[k]] = next[q[k]]
  <2>1. next \in [Threads -> Pointers] /\ c \in Threads
    BY DEF IInv, TypeInv, TypeOK, Enqueued
  <2>2. \A k \in 1 .. Len(q) : q[k] \in Threads /\ (k # j => q[k] # c)
    BY <1>1, <1>4
  <2> QED
    BY <2>1, <2>2
<1> DEFINE i == j + 1
           s == SubSeq(q, 1, i - 1) \o SubSeq(q, i + 1, Len(q))
<1>7. /\ s \in Seq(Threads) /\ Len(s) = Len(q) - 1
      /\ \A k \in 1 .. j : s[k] = q[k]
      /\ \A k \in j + 1 .. Len(q) - 1 : s[k] = q[k + 1]
  <2>1. i \in 1 .. Len(q) /\ i - 1 = j
    BY <1>5
  <2> HIDE DEF i
  <2>2. /\ s \in Seq(Threads) /\ Len(s) = Len(q) - 1
        /\ \A k \in 1 .. i - 1 : s[k] = q[k]
        /\ \A k \in i .. Len(q) - 1 : s[k] = q[k + 1]
    BY <1>1, <2>1, Without
  <2> QED
    BY <2>1, <2>2 DEF i
<1> HIDE DEF s
<1>8. ASSUME NEW k \in 1 .. Len(s)
      PROVE  next'[s[k]] = IF k = Len(s) THEN Null ELSE s[k + 1]
  <2>1. CASE k < j
    <3>1. k \in 1 .. j /\ k + 1 \in 1 .. j /\ k \in 1 .. Len(q) /\ k # Len(q) /\ k # Len(s)
      BY <1>3, <1>5, <1>7, <2>1
    <3>2. s[k] = q[k] /\ s[k + 1] = q[k + 1]
      BY <1>7, <3>1
    <3>3. next[q[k]] = IF k = Len(q) THEN Null ELSE q[k + 1]
      BY <1>1, <3>1 DEF Follows
    <3> QED
      BY <1>6, <2>1, <3>1, <3>2, <3>3
  <2>2. CASE k = j
    <3>1. j \in 1 .. j /\ s[k] = c
      BY <1>4, <1>7, <2>2
    <3>2. next[q[j + 1]] = IF j + 1 = Len(q) THEN Null ELSE q[(j + 1) + 1]
      BY <1>1, <1>5 DEF Follows
    <3>3. k # Len(s) => s[k + 1] = q[(j + 1) + 1]
      <4>1. k # Len(s) => j + 1 \in j + 1 .. Len(q) - 1
        BY <1>3, <1>7, <2>2
      <4> QED
        BY <1>7, <2>2, <4>1
    <3>4. k = Len(s) <=> j + 1 = Len(q)
      BY <1>3, <1>7, <2>2
    <3> QED
      BY <1>5, <1>6, <3>1, <3>2, <3>3, <3>4
  <2>3. CASE j < k
    <3>1. k \in j + 1 .. Len(q) - 1 /\ k + 1 \in 1 .. Len(q) /\ k + 1 # j
      BY <1>3, <1>7, <2>3
    <3>2. s[k] = q[k + 1]
      BY <1>7, <3>1
    <3>3. next[q[k + 1]] = IF k + 1 = Len(q) THEN Null ELSE q[(k + 1) + 1]
      BY <1>1, <3>1 DEF Follows
    <3>4. k # Len(s) => s[k + 1] = q[(k + 1) + 1]
      <4>1. k # Len(s) => k + 1 \in j + 1 .. Len(q) - 1
        BY <1>3, <1>7, <2>3
      <4> QED
        BY <1>7, <4>1
    <3>5. k = Len(s) <=> k + 1 = Len(q)
      BY <1>3, <1>7
    <3> QED
      BY <1>6, <3>1, <3>2, <3>3, <3>4, <3>5
  <2> QED
    BY <1>3, <1>7, <2>1, <2>2, <2>3
<1>9. mWaiters.ptr = IF s = <<>> THEN Null ELSE s[1]
  <2>1. q # <<>> /\ s # <<>> /\ 1 \in 1 .. j
    BY <1>3, <1>5, <1>7
  <2> QED
    BY <1>1, <1>7, <2>1 DEF Follows
<1>10. Follows(s, mWaiters'.ptr, next')
  BY <1>8, <1>9 DEF Follows
<1>11. AsSequence' = s
  <2>1. s \in Seq(Threads) /\ Len(s) <= Cardinality(Threads)
    BY <1>2, <1>3, <1>7
  <2> QED
    BY <1>10, <2>1, SequenceIsThen
<1> QED
  BY <1>3, <1>5, <1>11 DEF s, q

\* A step that leaves the list alone.
LEMMA SequenceSame ==
  ASSUME IInv, mWaiters'.ptr = mWaiters.ptr, \A w \in Enqueued : next'[w] = next[w]
  PROVE  AsSequence' = AsSequence
<1> DEFINE q == AsSequence
<1>1. /\ q \in Seq(Threads) /\ Follows(q, mWaiters.ptr, next)
      /\ Len(q) = Cardinality(Enqueued) /\ \A i \in 1 .. Len(q) : q[i] \in Enqueued
  BY TheSequence
<1>2. Len(q) <= Cardinality(Threads)
  <2>1. Enqueued \subseteq Threads
    BY DEF Enqueued
  <2> QED
    BY <1>1, <2>1, WaiterListAssumption, FS_Subset
<1> HIDE DEF q
<1>3. Follows(q, mWaiters'.ptr, next')
  BY <1>1 DEF Follows
<1>4. AsSequence' = q
  BY <1>1, <1>2, <1>3, SequenceIsThen
<1> QED
  BY <1>4 DEF q

\* Taking the first element out of a sequence leaves its tail.
LEMMA FirstRemoved ==
  ASSUME NEW S, NEW q \in Seq(S), q # <<>>
  PROVE  /\ 1 \in DOMAIN q /\ q[1] = Head(q)
         /\ Tail(q) = SubSeq(q, 1, 1 - 1) \o SubSeq(q, 1 + 1, Len(q))
<1>1. Len(q) \in Nat /\ 1 \in 1 .. Len(q) /\ DOMAIN q = 1 .. Len(q)
  OBVIOUS
<1>2. SubSeq(q, 1, 0) = <<>> /\ SubSeq(q, 2, Len(q)) = Tail(q)
  OBVIOUS
<1>3. Tail(q) \in Seq(S)
  OBVIOUS
<1>4. <<>> \o Tail(q) = Tail(q)
  BY <1>3
<1> QED
  BY <1>1, <1>2, <1>4

\* The steps that take the free mutex, and those that make it free.
Takes(t) ==
  \/ (LockFast(t) \/ LockSpinTake(t) \/ AddFast(t)) /\ mWaiters = FreeWord
  \/ AddTake(t) /\ mWaiters = head[t]

Frees(t) ==
  \/ UnlockFast(t) /\ mWaiters = ZeroWord
  \/ UnlockFree(t) /\ mWaiters = head[t]

\* How a step of t makes t an owner, and how t stops to be one.
LEMMA StepOwns ==
  ASSUME TypeInv, NEW t \in Threads, Step(t)
  PROVE  Owns(t)' <=> \/ Takes(t) \/ AwaitNotify(t)
                      \/ Owns(t) /\ ~Frees(t) /\ ~Pops(t)
<1>a. TypeOK /\ mWaiters \in Word /\ t # Null
  BY WaiterListAssumption DEF TypeInv, TypeOK
<1>b. /\ LockFast(t) => pc[t] = "idle"
      /\ LockSpinTake(t) => pc[t] = "spinTake"
      /\ AddFast(t) => pc[t] \in {"idle", "add"}
      /\ AddTake(t) => pc[t] = "addTake"
      /\ UnlockFast(t) => pc[t] = "signaled"
      /\ UnlockFree(t) => pc[t] = "unlockFree"
      /\ UnlockPop(t) => pc[t] = "unlockPop"
      /\ AwaitNotify(t) => pc[t] = "inFlight" \/ (pc[t] = "waiting" /\ t \notin Cancellers)
  BY DEF LockFast, LockSpinTake, AddFast, AddTake, UnlockFast, UnlockFree, UnlockPop,
         AwaitNotify, StartRound
<1> USE DEF Owns, Goto, TypeOK, Pops, Takes, Frees
<1>1. CASE LockFast(t)
  BY <1>1, <1>a, <1>b, BranchTypes DEF LockFast, StartRound, TakeFree
<1>2. CASE LockSpin(t)
  BY <1>2, <1>a, <1>b, BranchTypes DEF LockSpin
<1>3. CASE LockSpinTake(t)
  BY <1>3, <1>a, <1>b, BranchTypes DEF LockSpinTake, TakeFree
<1>4. CASE AddFast(t)
  BY <1>4, <1>a, <1>b, BranchTypes DEF AddFast, StartRound, TakeFree
<1>5. CASE AddTake(t)
  BY <1>5, <1>a, <1>b, BranchTypes DEF AddTake, CompareAndSwap
<1>6. CASE AddLink(t)
  BY <1>6, <1>a, <1>b, BranchTypes DEF AddLink
<1>7. CASE AddPush(t)
  BY <1>7, <1>a, <1>b, BranchTypes DEF AddPush, CompareAndSwap
<1>8. CASE UnlockFast(t)
  BY <1>8, <1>a, <1>b, BranchTypes DEF UnlockFast
<1>9. CASE UnlockFree(t)
  BY <1>9, <1>a, <1>b, BranchTypes DEF UnlockFree, CompareAndSwap
<1>10. CASE UnlockLoad(t)
  BY <1>10, <1>a, <1>b, BranchTypes DEF UnlockLoad
<1>11. CASE UnlockReadNext(t)
  BY <1>11, <1>a, <1>b, BranchTypes DEF UnlockReadNext
<1>12. CASE UnlockPop(t)
  BY <1>12, <1>a, <1>b, BranchTypes DEF UnlockPop, CompareAndSwap
<1>13. CASE UnlockNotify(t)
  BY <1>13, <1>a, <1>b, BranchTypes DEF UnlockNotify, Notify
<1>14. CASE ListStep(t)
  <2>1. CASE AwaitNotify(t)
    <3>1. pc'[t] = "signaled"
      BY <2>1, <1>a DEF AwaitNotify
    <3> QED
      BY <2>1, <3>1
  <2>2. CASE StartRemove(t)
    BY <1>14, <2>2, <1>a, <1>b, BranchTypes DEF ListStep, StartRemove
  <2>3. CASE RemoveLoad(t)
    BY <1>14, <2>3, <1>a, <1>b, BranchTypes DEF ListStep, RemoveLoad
  <2>4. CASE RemoveReadNext(t)
    BY <1>14, <2>4, <1>a, <1>b, BranchTypes DEF ListStep, RemoveReadNext
  <2>5. CASE RemovePop(t)
    BY <1>14, <2>5, <1>a, <1>b, BranchTypes DEF ListStep, RemovePop, CompareAndSwap
  <2>6. CASE RemoveLock(t)
    BY <1>14, <2>6, <1>a, <1>b, BranchTypes DEF ListStep, RemoveLock, CompareAndSwap
  <2>7. CASE RemoveScan(t)
    BY <1>14, <2>7, <1>a, <1>b, BranchTypes DEF ListStep, RemoveScan
  <2>8. CASE RemoveUnlock(t)
    BY <1>14, <2>8, <1>a, <1>b, BranchTypes DEF ListStep, RemoveUnlock, ClearLock
  <2> QED BY <1>14, <2>1, <2>2, <2>3, <2>4, <2>5, <2>6, <2>7, <2>8
          DEF ListStep, RemoveWaiter
<1> QED BY <1>1, <1>2, <1>3, <1>4, <1>5, <1>6, <1>7, <1>8, <1>9, <1>10, <1>11, <1>12,
           <1>13, <1>14 DEF Step, Lock, AddWaiter, Unlock


\* Taking the mutex.
LEMMA TakesFree ==
  ASSUME TypeInv, StateOK, NEW t \in Threads, Takes(t)
  PROVE  /\ mWaiters = FreeWord /\ mWaiters' = ZeroWord
         /\ ~Pushes(t) /\ ~Pops(t) /\ ~Leaves(t) /\ ~Frees(t)
<1>1. LocalOK(t) /\ FreeWord # ZeroWord
  BY DEF StateOK, FreeWord, ZeroWord
<1>2. mWaiters = FreeWord /\ mWaiters' = ZeroWord
  BY <1>1 DEF Takes, LockFast, LockSpinTake, AddFast, AddTake, TakeFree, CompareAndSwap, LocalOK
<1>3. pc[t] \in {"idle", "spinTake", "add", "addTake"}
  BY DEF Takes, LockFast, LockSpinTake, AddFast, AddTake, StartRound
<1> QED
  BY <1>2, <1>3 DEF Pushes, Pops, Leaves, Frees, AddPush, UnlockPop, RemovePop, RemoveScan,
                    UnlockFast, UnlockFree

\* Making the mutex free.
LEMMA FreesEmpty ==
  ASSUME TypeInv, StateOK, NEW t \in Threads, Frees(t)
  PROVE  /\ Owns(t) /\ mWaiters.ptr = Null /\ mWaiters' = FreeWord
         /\ ~Pushes(t) /\ ~Pops(t) /\ ~Leaves(t)
<1>1. LocalOK(t) /\ FreeWord # ZeroWord /\ ZeroWord.ptr = Null
  BY DEF StateOK, FreeWord, ZeroWord
<1>2. mWaiters.ptr = Null /\ mWaiters' = FreeWord
  BY <1>1 DEF Frees, UnlockFast, UnlockFree, CompareAndSwap, LocalOK
<1>3. pc[t] \in {"signaled", "unlockFree"}
  BY DEF Frees, UnlockFast, UnlockFree
<1> QED
  BY <1>2, <1>3 DEF Owns, Pushes, Pops, Leaves, AddPush, UnlockPop, RemovePop, RemoveScan

\* How a step of t changes who holds the mutex.
LEMMA StepHolds ==
  ASSUME TypeInv, StateOK, NEW t \in Threads, Step(t), NEW u \in Threads
  PROVE  /\ u # t => (Holds(u)' <=> Holds(u) \/ (Pops(t) /\ u = head[t].ptr))
         /\ ~Takes(t) /\ ~Frees(t) /\ ~Pops(t) => (Holds(t)' <=> Holds(t))
         /\ Takes(t) => Holds(t)'
         /\ Pops(t) => Owns(t) /\ (Holds(head[t].ptr))'
<1>1. u # t => (Owns(u)' <=> Owns(u))
  BY StepOwn DEF Owns, TypeInv
<1>2. AwaitNotify(t) => Granted(t)
  BY DEF AwaitNotify, Granted
<1>3. Pops(t) => Owns(t) /\ pc'[t] = "unlockNotify" /\ head' = head
  BY StepLabels DEF Pops, UnlockPop, CompareAndSwap, Owns
<1>4. Pops(t) => (Granted(head[t].ptr))'
  BY <1>3 DEF Granted
<1>5. Pops(t) => head[t].ptr \in Threads
  BY DEF Pops, UnlockPop, TypeInv, NoNullDereference, FollowsOK, TypeOK, Word, Pointers
<1> QED
  BY <1>1, <1>2, <1>3, <1>4, <1>5, StepGranted, StepOwns DEF Holds

\* The one holder is the owner.
LEMMA OwnerIs ==
  MutualExclusion =>
    /\ \A u \in Threads : Holds(u) => Owner = u
    /\ (\A u \in Threads : ~Holds(u)) => Owner = Null
BY DEF MutualExclusion, Owner

\* Whoever holds the mutex is its owner, also after a step.
LEMMA OwnerOf == IInv => \A u \in Threads : Holds(u) => Owner = u
BY ExclusiveInv, OwnerIs

LEMMA OwnerOfThen == IInv' => \A u \in Threads : Holds(u)' => Owner' = u
<1>1. (IInv => \A u \in Threads : Holds(u) => Owner = u)'
  BY OwnerOf, PTL
<1> QED
  BY <1>1

\* The owner changes only with the holders.
LEMMA OwnerSame ==
  ASSUME MutualExclusion, MutualExclusion', \A u \in Threads : Holds(u)' <=> Holds(u)
  PROVE  Owner' = Owner
<1>1. (/\ \A u \in Threads : Holds(u) => Owner = u
       /\ (\A u \in Threads : ~Holds(u)) => Owner = Null)'
  <2>1. (MutualExclusion =>
           /\ \A u \in Threads : Holds(u) => Owner = u
           /\ (\A u \in Threads : ~Holds(u)) => Owner = Null)'
    BY OwnerIs, PTL
  <2> QED
    BY <2>1
<1> QED
  BY <1>1, OwnerIs

\* A step that leaves the holders alone leaves the owner and a free mutex alone.
LEMMA HoldersSame ==
  ASSUME IInv, IInv', NoWrap, NEW t \in Threads, Step(t), ~Takes(t), ~Frees(t), ~Pops(t)
  PROVE  Owner' = Owner
<1>1. TypeInv /\ StateOK
  BY DEF IInv
<1>2. \A u \in Threads : Holds(u)' <=> Holds(u)
  BY <1>1, StepHolds
<1>3. MutualExclusion /\ MutualExclusion'
  <2>1. (IInv => MutualExclusion)'
    BY ExclusiveInv, PTL
  <2> QED
    BY <2>1, ExclusiveInv
<1> QED
  BY <1>2, <1>3, OwnerSame

\* Taking the free mutex is acquiring the lock.
LEMMA TakesIsAcquire ==
  ASSUME IInv, IInv', NoWrap, NEW t \in Threads, Step(t), Takes(t)
  PROVE  Lifo!Acquire(t)
<1>1. TypeInv /\ StateOK
  BY DEF IInv
<1>2. /\ mWaiters = FreeWord /\ mWaiters' = ZeroWord
      /\ ~Pushes(t) /\ ~Pops(t) /\ ~Leaves(t)
  BY <1>1, TakesFree
<1>3. AsSequence' = AsSequence
  BY <1>1, <1>2, StepKeepsList, SequenceSame
<1>4. Owner' = t
  BY <1>1, OwnerOfThen, StepHolds
<1>5. Owner = Null
  BY <1>2 DEF Owner
<1> QED
  BY <1>3, <1>4, <1>5 DEF Lifo!Acquire

\* Making the mutex free is releasing a lock that nobody waits for.
LEMMA FreesIsRelease ==
  ASSUME IInv, IInv', NoWrap, NEW t \in Threads, Step(t), Frees(t)
  PROVE  Lifo!Release(t)
<1>1. TypeInv /\ StateOK
  BY DEF IInv
<1>2. /\ Owns(t) /\ mWaiters.ptr = Null /\ mWaiters' = FreeWord
      /\ ~Pushes(t) /\ ~Pops(t) /\ ~Leaves(t)
  BY <1>1, FreesEmpty
<1>3. AsSequence' = AsSequence
  BY <1>1, <1>2, StepKeepsList, SequenceSame
<1>4. AsSequence = <<>>
  <2>1. /\ AsSequence \in Seq(Threads)
        /\ Null = IF AsSequence = <<>> THEN Null ELSE AsSequence[1]
    BY <1>2, TheSequence DEF Follows
  <2>2. AsSequence # <<>> => AsSequence[1] \in Threads
    BY <2>1
  <2> QED
    BY <2>1, <2>2, WaiterListAssumption
<1>5. Owner = t
  BY <1>2, OwnerOf DEF Holds
<1>6. Owner' = Null
  BY <1>2 DEF Owner
<1> QED
  BY <1>3, <1>4, <1>5, <1>6 DEF Lifo!Release

\* A pop is releasing the lock to the first waiter.
LEMMA PopsIsRelease ==
  ASSUME IInv, IInv', NoWrap, NEW t \in Threads, Step(t), Pops(t)
  PROVE  Lifo!Release(t)
<1>1. TypeInv /\ StateOK
  BY DEF IInv
<1>2. /\ mWaiters = head[t] /\ next' = next
      /\ mWaiters' = WithHead(head[t], cached[t])
  BY DEF Pops, UnlockPop, CompareAndSwap
<1>3. /\ mWaiters.ptr \in Threads /\ mWaiters.ptr # Null
      /\ mWaiters'.ptr = next[mWaiters.ptr]
  <2>1. /\ mWaiters \in Word /\ head[t] \in Word /\ cached[t] \in Pointers
        /\ pc[t] = "unlockPop"
    BY <1>1 DEF TypeInv, TypeOK, Pops, UnlockPop
  <2>2. head[t].ptr # Null /\ cached[t] = next[head[t].ptr]
    BY <1>1, <1>2, <2>1 DEF TypeInv, NoNullDereference, FollowsOK, StateOK, SnapshotOK
  <2>3. WithHead(head[t], cached[t]).ptr = cached[t]
    BY <1>2, <2>1, WordFields DEF NoWrap
  <2> QED
    BY <1>2, <2>1, <2>2, <2>3 DEF Word, Pointers
<1>4. /\ AsSequence # <<>> /\ Head(AsSequence) = mWaiters.ptr
      /\ AsSequence' = Tail(AsSequence)
  BY <1>2, <1>3, SequencePop
<1>5. Owns(t) /\ (Holds(head[t].ptr))'
  BY <1>1, StepHolds
<1>6. Owner = t
  BY <1>5, OwnerOf DEF Holds
<1>7. Owner' = mWaiters.ptr
  <2>1. head' = head
    BY DEF Pops, UnlockPop, CompareAndSwap
  <2> QED
    BY <1>2, <1>3, <1>5, <2>1, OwnerOfThen DEF Holds, Owns, Granted
<1> QED
  BY <1>4, <1>6, <1>7 DEF Lifo!Release

\* A push is waiting for the lock.
LEMMA PushesIsWait ==
  ASSUME IInv, IInv', NoWrap, NEW t \in Threads, Step(t), Pushes(t)
  PROVE  Lifo!Wait(t)
<1>1. TypeInv /\ StateOK
  BY DEF IInv
<1>2. /\ mWaiters = head[t] /\ next' = next /\ pc[t] = "addPush"
      /\ mWaiters' = WithHead(head[t], t)
  BY DEF Pushes, AddPush, CompareAndSwap
<1>3. mWaiters'.ptr = t /\ next[t] = mWaiters.ptr /\ mWaiters # FreeWord
  <2>1. head[t] \in Word /\ t \in Pointers /\ FreeWord.flag = TRUE
    BY <1>1 DEF TypeInv, TypeOK, Pointers, FreeWord
  <2>2. WithHead(head[t], t).ptr = t
    BY <1>2, <2>1, WordFields DEF NoWrap
  <2>3. next[t] = head[t].ptr /\ ~head[t].flag
    BY <1>1, <1>2 DEF StateOK, LocalOK
  <2> QED
    BY <1>2, <2>1, <2>2, <2>3
<1>4. ~Holds(t) /\ t \notin Enqueued
  <2>1. ~Owns(t) /\ ~Awaits(t)
    BY <1>2 DEF Owns, Awaits, RemoveLabels
  <2> QED
    BY <1>1, <2>1, GrantedAwaits DEF Holds, Enqueued, TypeInv, StateOK
<1>5. AsSequence' = <<t>> \o AsSequence
  BY <1>2, <1>3, <1>4, SequencePush
<1>6. ~Takes(t) /\ ~Frees(t) /\ ~Pops(t)
  BY <1>2 DEF Takes, Frees, Pops, LockFast, LockSpinTake, AddFast, AddTake, UnlockFast,
              UnlockFree, UnlockPop, StartRound
<1>7. Owner' = Owner
  BY <1>6, HoldersSame
<1>8. Owner \notin {Null, t}
  <2>1. PICK u \in Threads : Holds(u)
    BY <1>3, ExclusiveInv DEF MutualExclusion
  <2>2. Owner = u
    BY <2>1, OwnerOf
  <2> QED
    BY <1>4, <2>1, <2>2, WaiterListAssumption
<1>9. ~\E i \in DOMAIN AsSequence : AsSequence[i] = t
  <2>1. /\ AsSequence \in Seq(Threads)
        /\ \A i \in 1 .. Len(AsSequence) : AsSequence[i] # t
    BY <1>4, TheSequence
  <2>2. DOMAIN AsSequence = 1 .. Len(AsSequence)
    BY <2>1
  <2> QED
    BY <2>1, <2>2
<1> QED
  BY <1>5, <1>7, <1>8, <1>9 DEF Lifo!Wait, Lifo!Waits

\* A removal is giving up.
LEMMA LeavesIsGiveUp ==
  ASSUME IInv, IInv', NoWrap, NEW t \in Threads, Step(t), Leaves(t)
  PROVE  Lifo!GiveUp(t)
<1>1. TypeInv /\ StateOK
  BY DEF IInv
<1>2. pc[t] \in {"removePop", "removeScan"}
  BY DEF Leaves, RemovePop, RemoveScan
<1>3. ~Takes(t) /\ ~Frees(t) /\ ~Pops(t)
  BY <1>2 DEF Takes, Frees, Pops, LockFast, LockSpinTake, AddFast, AddTake, UnlockFast,
              UnlockFree, UnlockPop, StartRound
<1>4. Owner' = Owner
  BY <1>3, HoldersSame
<1>5. CASE RemovePop(t) /\ mWaiters = head[t]
  <2>1. /\ next' = next /\ pc[t] = "removePop"
        /\ mWaiters' = WithHead(head[t], cached[t])
    BY <1>5 DEF RemovePop, CompareAndSwap
  <2>2. mWaiters.ptr = t /\ mWaiters'.ptr = next[t]
    <3>1. head[t] \in Word /\ cached[t] \in Pointers
      BY <1>1 DEF TypeInv, TypeOK
    <3>2. head[t].ptr = t /\ cached[t] = next[head[t].ptr]
      BY <1>1, <1>5, <2>1 DEF StateOK, SnapshotOK, LocalOK
    <3>3. WithHead(head[t], cached[t]).ptr = cached[t]
      BY <1>5, <3>1, WordFields DEF NoWrap
    <3> QED
      BY <1>5, <2>1, <3>2, <3>3
  <2>3. /\ AsSequence # <<>> /\ Head(AsSequence) = t
        /\ AsSequence' = Tail(AsSequence)
    BY <2>1, <2>2, WaiterListAssumption, SequencePop
  <2>4. AsSequence \in Seq(Threads)
    BY TheSequence
  <2> DEFINE q == AsSequence
  <2>5. /\ 1 \in DOMAIN q /\ q[1] = t
        /\ Tail(q) = SubSeq(q, 1, 1 - 1) \o SubSeq(q, 1 + 1, Len(q))
    <3> HIDE DEF q
    <3>1. q \in Seq(Threads) /\ q # <<>> /\ Head(q) = t
      BY <2>3, <2>4 DEF q
    <3> QED
      BY <3>1, FirstRemoved
  <2> QED
    BY <1>4, <2>3, <2>5 DEF Lifo!GiveUp
<1>6. CASE RemoveScan(t) /\ next[current[t]] = t
  <2>1. /\ next' = [next EXCEPT ![current[t]] = next[t]] /\ mWaiters' = mWaiters
        /\ pc[t] = "removeScan"
    BY <1>6, WaiterListAssumption DEF RemoveScan
  <2>2. current[t] \in Enqueued
    BY <2>1 DEF IInv, Ordered
  <2> QED
    BY <1>4, <1>6, <2>1, <2>2, SequenceUnlink DEF Lifo!GiveUp
<1> QED
  BY <1>5, <1>6 DEF Leaves

\* Every step of the mutex is a step of the lock, or none.
LEMMA StepIsLifo ==
  IInv /\ IInv' /\ NoWrap /\ [Next]_mutexVars => [Lifo!Next]_<<Owner, AsSequence>>
<1> SUFFICES ASSUME IInv, IInv', NoWrap, [Next]_mutexVars
             PROVE  [Lifo!Next]_<<Owner, AsSequence>>
  OBVIOUS
<1>1. TypeInv /\ StateOK
  BY DEF IInv
<1>2. ASSUME NEW t \in Threads, Step(t)
      PROVE  [Lifo!Next]_<<Owner, AsSequence>>
  <2>1. CASE Takes(t)
    BY <1>2, <2>1, TakesIsAcquire DEF Lifo!Next
  <2>2. CASE Frees(t)
    BY <1>2, <2>2, FreesIsRelease DEF Lifo!Next
  <2>3. CASE Pops(t)
    BY <1>2, <2>3, PopsIsRelease DEF Lifo!Next
  <2>4. CASE Pushes(t)
    BY <1>2, <2>4, PushesIsWait DEF Lifo!Next
  <2>5. CASE Leaves(t)
    BY <1>2, <2>5, LeavesIsGiveUp DEF Lifo!Next
  <2>6. CASE ~Takes(t) /\ ~Frees(t) /\ ~Pops(t) /\ ~Pushes(t) /\ ~Leaves(t)
    <3>1. Owner' = Owner
      BY <1>2, <2>6, HoldersSame
    <3>2. AsSequence' = AsSequence
      BY <1>1, <1>2, <2>6, StepKeepsList, SequenceSame
    <3> QED
      BY <3>1, <3>2
  <2> QED
    BY <2>1, <2>2, <2>3, <2>4, <2>5, <2>6
<1>3. CASE UNCHANGED mutexVars
  <2>1. /\ mWaiters' = mWaiters /\ next' = next /\ posted' = posted /\ pc' = pc
        /\ head' = head
    BY <1>3 DEF mutexVars, listVars
  <2>2. Owner' = Owner
    BY <2>1 DEF Owner, Holds, Owns, Granted
  <2>3. AsSequence' = AsSequence
    BY <2>1, SequenceSame
  <2> QED
    BY <2>2, <2>3
<1> QED
  BY <1>2, <1>3 DEF Next

(* Mutex implements the lock that passes from its owner to the thread that  *)
(* began to wait last (mutex.hpp): every compare-and-swap of mutex.cpp and  *)
(* waiter_list.cpp is a step of that lock or none, whatever the other       *)
(* threads did between the load of the word and the swap.                   *)
THEOREM MutexImplementsLifoLock == Spec /\ []NoWrap => IsLifoLock
<1>1. Init => Lifo!Init
  <2> SUFFICES ASSUME Init
               PROVE  Owner = Null /\ AsSequence = <<>>
    BY DEF Lifo!Init
  <2>1. mWaiters = FreeWord /\ IInv
    BY InitInv DEF Init, ListInit
  <2>2. mWaiters.ptr = Null
    BY <2>1 DEF FreeWord
  <2>3. AsSequence = <<>>
    <3>1. /\ <<>> \in Seq(Threads) /\ Len(<<>>) = 0
          /\ Follows(<<>>, mWaiters.ptr, next)
      BY <2>2 DEF Follows
    <3>2. Len(<<>>) <= Cardinality(Threads)
      BY <3>1, WaiterListAssumption, FS_CardinalityType
    <3> QED
      BY <3>1, <3>2, SequenceIs
  <2> QED
    BY <2>1, <2>3 DEF Owner
<1> QED
  BY <1>1, Invariance, StepIsLifo, PTL DEF Spec, IsLifoLock, Lifo!Spec

=============================================================================
