---------------------------- MODULE EventProofs -----------------------------
(***************************************************************************)
(* Proofs about Event for any set of threads and any number of calls.  For *)
(* the word and the owner of its lock bit, what a thread knows of its copy *)
(* of the word is enough, and the tag may wrap around; the proofs about    *)
(* the lists need a tag that does not.                                     *)
(***************************************************************************)
EXTENDS EventInvariant, WaiterListProofs

-----------------------------------------------------------------------------
(* Words *)

\* The word with a new first waiter.
LEMMA HeadWords ==
  \A w \in Word, p \in Pointers :
    /\ WithHead(w, p) \in Word /\ WithHead(w, p).ptr = p
    /\ WithHead(w, p).flag = w.flag /\ WithHead(w, p).lock = w.lock
<1> SUFFICES ASSUME NEW w \in Word, NEW p \in Pointers
             PROVE  /\ WithHead(w, p) \in Word /\ WithHead(w, p).ptr = p
                    /\ WithHead(w, p).flag = w.flag /\ WithHead(w, p).lock = w.lock
  OBVIOUS
<1> DEFINE v == SetPointer(w, p)
<1>1. v \in Word /\ v.ptr = p /\ v.flag = w.flag /\ v.lock = w.lock
  BY DEF Word, SetPointer
<1> HIDE DEF v
<1>2. /\ AddAba(v) \in Word /\ AddAba(v).ptr = v.ptr
      /\ AddAba(v).flag = v.flag /\ AddAba(v).lock = v.lock
  BY <1>1, WaiterListAssumption DEF Word, AddAba
<1> QED
  BY <1>1, <1>2 DEF WithHead, v

\* The other words that the operations write.
LEMMA Words ==
  ASSUME NEW w \in Word
  PROVE  /\ AddAba(Locked(w)) \in Word
         /\ AddAba(Locked(w)).ptr = w.ptr /\ AddAba(Locked(w)).flag = w.flag
         /\ AddAba(Locked(w)).lock = TRUE
         /\ Unlocked(w) \in Word /\ Unlocked(w).ptr = w.ptr /\ Unlocked(w).flag = w.flag
         /\ Unlocked(w).lock = FALSE
         /\ DetachedWord(w) \in Word
         /\ DetachedWord(w).ptr = Null /\ DetachedWord(w).lock = TRUE
         /\ AddAba([w EXCEPT !.flag = TRUE]) \in Word
         /\ AddAba([w EXCEPT !.flag = TRUE]).ptr = w.ptr
         /\ AddAba([w EXCEPT !.flag = TRUE]).lock = w.lock
<1>1. ASSUME NEW v \in Word
      PROVE  /\ AddAba(v) \in Word /\ AddAba(v).ptr = v.ptr /\ AddAba(v).flag = v.flag
             /\ AddAba(v).lock = v.lock
  BY WaiterListAssumption DEF Word, AddAba
<1>3. /\ Locked(w) \in Word /\ Locked(w).ptr = w.ptr /\ Locked(w).flag = w.flag
      /\ Locked(w).lock = TRUE
      /\ Unlocked(w) \in Word /\ Unlocked(w).ptr = w.ptr /\ Unlocked(w).flag = w.flag
      /\ Unlocked(w).lock = FALSE
  BY DEF Word, Locked, Unlocked
<1>4. LET d == [w EXCEPT !.ptr = Null, !.lock = TRUE, !.flag = TRUE]
      IN  d \in Word /\ d.ptr = Null /\ d.lock = TRUE
  BY DEF Word, Pointers
<1>5. LET f == [w EXCEPT !.flag = TRUE]
      IN  f \in Word /\ f.ptr = w.ptr /\ f.lock = w.lock
  BY DEF Word
<1>7. /\ AddAba(Locked(w)) \in Word
      /\ AddAba(Locked(w)).ptr = w.ptr /\ AddAba(Locked(w)).flag = w.flag
      /\ AddAba(Locked(w)).lock = TRUE
  BY <1>1, <1>3
<1>8. /\ DetachedWord(w) \in Word
      /\ DetachedWord(w).ptr = Null /\ DetachedWord(w).lock = TRUE
  BY <1>1, <1>4 DEF DetachedWord
<1> QED
  BY <1>1, <1>3, <1>5, <1>7, <1>8

\* Where a loop continues, and what it has seen when it does.
LEMMA Branches ==
  ASSUME NEW w \in Word, NEW t \in Threads
  PROVE  /\ RemoveBranch(t, w) \in {"inFlight", "removeLoad", "removeReadNext", "removeLock"}
         /\ RemoveBranch(t, w) = "removeReadNext" => w.ptr = t
         /\ RemoveBranch(t, w) = "removeLock" => w.ptr # Null /\ ~w.lock
         /\ AddBranch(w) \in {"signaled", "addLink"}
         /\ AddBranch(w) = "addLink" => ~w.flag
         /\ SetBranch(w) \in {"idle", "setSpin", "setFlag", "setLock"}
         /\ SetBranch(w) \in {"setFlag", "setLock"} => ~w.flag /\ ~w.lock
         /\ SetBranch(w) = "setFlag" => w.ptr = Null
         /\ SetBranch(w) = "setLock" => w.ptr # Null
  BY DEF RemoveBranch, AddBranch, SetBranch, Word

-----------------------------------------------------------------------------
(* Steps *)

\* A step of t leaves the variables of the other threads alone.
Own(t) ==
  \A u \in Threads \ {t} : pc'[u] = pc[u] /\ head'[u] = head[u] /\ current'[u] = current[u]

\* A step that leaves the owner of the lock bit alone.
LEMMA SameLock ==
  ASSUME EventInv, NEW t \in Threads, Types', Own(t), LocalOK(t)',
         HasLock(t)' <=> HasLock(t), mWaiters'.lock = mWaiters.lock, SetLeavesNobody'
  PROVE  EventInv'
<1>1. \A u \in Threads : HasLock(u)' <=> HasLock(u)
  BY DEF Own, HasLock
<1>2. LockOK'
  BY <1>1 DEF EventInv, LockOK
<1>3. \A u \in Threads : LocalOK(u)'
  BY DEF Own, EventInv, LocalOK
<1> QED
  BY <1>2, <1>3 DEF EventInv

\* A step by which t comes to own the lock bit.
LEMMA TakeLock ==
  ASSUME EventInv, NEW t \in Threads, Types', Own(t), LocalOK(t)',
         ~mWaiters.lock, HasLock(t)', mWaiters'.lock, SetLeavesNobody'
  PROVE  EventInv'
<1>1. \A u \in Threads : HasLock(u)' <=> u = t
  BY DEF Own, HasLock, EventInv, LockOK
<1>2. LockOK'
  BY <1>1 DEF LockOK
<1>3. \A u \in Threads : LocalOK(u)'
  BY DEF Own, EventInv, LocalOK
<1> QED
  BY <1>2, <1>3 DEF EventInv

\* A step by which t gives it up.
LEMMA GiveLock ==
  ASSUME EventInv, NEW t \in Threads, Types', Own(t), LocalOK(t)',
         HasLock(t), ~HasLock(t)', mWaiters'.lock = FALSE, SetLeavesNobody'
  PROVE  EventInv'
<1>1. \A u \in Threads : ~HasLock(u)'
  BY DEF Own, HasLock, EventInv, LockOK
<1>2. LockOK'
  BY <1>1 DEF LockOK
<1>3. \A u \in Threads : LocalOK(u)'
  BY DEF Own, EventInv, LocalOK
<1> QED
  BY <1>2, <1>3 DEF EventInv

\* A compare-and-swap that fails only loads the word.
LEMMA LoadStep ==
  ASSUME EventInv, NEW t \in Threads,
         NEW l \in {RemoveBranch(t, mWaiters), AddBranch(mWaiters), SetBranch(mWaiters)},
         ~HasLock(t), head' = [head EXCEPT ![t] = mWaiters], Goto(t, l),
         UNCHANGED <<mWaiters, next, posted, cached>>, current' \in [Threads -> Pointers],
         \A u \in Threads \ {t} : current'[u] = current[u]
  PROVE  EventInv'
<1>1. Types /\ mWaiters \in Word
  BY DEF EventInv, Types
<1>2. pc'[t] = l /\ head'[t] = mWaiters /\ Own(t)
  BY <1>1 DEF Types, Goto, Own
<1>3. l \in EventLabels /\ ~HasLock(t)' /\ LocalOK(t)'
  BY <1>1, <1>2, Branches
  DEF HasLock, LocalOK, EventLabels, ClientLabels, RemoveLabels
<1>4. Types' /\ SetLeavesNobody'
  BY <1>1, <1>3 DEF Types, Goto, EventInv, SetLeavesNobody
<1> QED
  BY <1>2, <1>3, <1>4, SameLock

\* A step that does not touch the word, nor the copy of it.
LEMMA LocalStep ==
  ASSUME EventInv, NEW t \in Threads, NEW l \in EventLabels, Goto(t, l),
         UNCHANGED <<mWaiters, head>>, HasLock(t)' <=> HasLock(t), LocalOK(t)',
         next' \in [Threads -> Pointers], posted' \in [Threads -> Nat],
         cached' \in [Threads -> Pointers], current' \in [Threads -> Pointers],
         \A u \in Threads \ {t} : current'[u] = current[u]
  PROVE  EventInv'
<1>1. Types' /\ Own(t) /\ SetLeavesNobody'
  BY DEF EventInv, Types, Goto, Own, SetLeavesNobody
<1> QED
  BY <1>1, SameLock

\* What follows for every step: the types, and where the threads are.
LEMMA Facts ==
  ASSUME EventInv, NEW t \in Threads
  PROVE  /\ Types /\ LocalOK(t) /\ mWaiters \in Word /\ head[t] \in Word
         /\ cached[t] \in Pointers /\ current[t] \in Pointers
         /\ head[t].ptr \in Pointers /\ t \in Pointers /\ t # Null
         /\ {"idle", "waiting", "inFlight", "signaled", "addLink", "addPush", "setSpin",
             "notifyNext", "notify", "setUnlock", "removeLoad", "removePop", "removeScan",
             "unlockFound", "unlockNotFound"} \subseteq EventLabels
  BY WaiterListAssumption
  DEF EventInv, Types, Word, Pointers, EventLabels, ClientLabels, RemoveLabels

(* AddWaiter *)

\* A waiter is put on the list only if the word is not set.
LEMMA AddInv ==
  ASSUME EventInv, NEW t \in Threads, AddWaiter(t)
  PROVE  EventInv'
<1>f. Types /\ LocalOK(t) /\ mWaiters \in Word /\ t \in Pointers /\ "addPush" \in EventLabels
  BY Facts
<1>1. CASE AddLoad(t)
  BY <1>1, <1>f, LoadStep DEF AddLoad, StartRound, HasLock, Types
<1>2. CASE AddLink(t)
  <2>1. HasLock(t)' <=> HasLock(t)
    BY <1>2, <1>f DEF AddLink, Goto, HasLock, Types
  <2>2. LocalOK(t)'
    BY <1>2, <1>f DEF AddLink, Goto, LocalOK, Types
  <2>3. next' \in [Threads -> Pointers]
    BY <1>2, Facts DEF AddLink, Types
  <2> QED
    BY <1>2, <1>f, <2>1, <2>2, <2>3, LocalStep DEF AddLink, Types
<1>3. CASE AddPush(t)
  <2>1. CASE mWaiters # head[t]
    BY <1>3, <2>1, <1>f, LoadStep DEF AddPush, CompareAndSwap, HasLock, Types
  <2>2. CASE mWaiters = head[t]
    <3>1. mWaiters' = WithHead(mWaiters, t) /\ Goto(t, "waiting") /\ UNCHANGED <<next, posted, head, cached, current>>
      BY <1>3, <2>2 DEF AddPush, CompareAndSwap
    <3>2. ~mWaiters.flag
      BY <1>3, <1>f, <2>2 DEF AddPush, LocalOK
    <3>3. /\ mWaiters' \in Word /\ mWaiters'.lock = mWaiters.lock
          /\ mWaiters'.flag = mWaiters.flag
      BY <1>f, <3>1, HeadWords
    <3>4. Types' /\ Own(t) /\ SetLeavesNobody'
      BY <3>1, <3>2, <3>3, Facts DEF Types, Goto, Own, SetLeavesNobody
    <3>5. LocalOK(t)' /\ (HasLock(t)' <=> HasLock(t))
      BY <1>3, <1>f, <3>1 DEF AddPush, LocalOK, HasLock, Goto, Types
    <3> QED
      BY <3>3, <3>4, <3>5, SameLock
  <2> QED
    BY <2>1, <2>2
<1> QED
  BY <1>1, <1>2, <1>3 DEF AddWaiter

(* Set *)

\* Set sets the flag of an empty list, and takes the waiters off another one.
LEMMA SetWordInv ==
  ASSUME EventInv, NEW t \in Threads, SetLoad(t) \/ SetSpin(t) \/ SetFlag(t) \/ SetLock(t)
  PROVE  EventInv'
<1>f. Types /\ LocalOK(t) /\ mWaiters \in Word /\ head[t] \in Word
  BY Facts
<1>1. CASE SetLoad(t)
  BY <1>1, <1>f, LoadStep DEF SetLoad, StartRound, HasLock, Types
<1>2. CASE SetSpin(t)
  <2>1. Goto(t, SetBranch(head[t])) /\ UNCHANGED <<mWaiters, next, posted, head, cached, current>>
    BY <1>2 DEF SetSpin
  <2>2. SetBranch(head[t]) \in EventLabels
    BY <1>f, Branches DEF EventLabels, ClientLabels
  <2>3. (HasLock(t)' <=> HasLock(t)) /\ LocalOK(t)'
    BY <1>2, <1>f, <2>1, Branches DEF SetSpin, Goto, HasLock, LocalOK, Types
  <2> QED
    BY <1>f, <2>1, <2>2, <2>3, LocalStep DEF Types
<1>3. CASE SetFlag(t)
  <2>1. CASE mWaiters # head[t]
    BY <1>3, <2>1, <1>f, LoadStep DEF SetFlag, CompareAndSwap, HasLock, Types
  <2>2. CASE mWaiters = head[t]
    <3>1. /\ mWaiters' = AddAba([mWaiters EXCEPT !.flag = TRUE]) /\ Goto(t, "idle")
          /\ UNCHANGED <<next, posted, head, cached, current>>
      BY <1>3, <2>2 DEF SetFlag, CompareAndSwap
    <3>2. mWaiters.ptr = Null
      BY <1>3, <1>f, <2>2 DEF SetFlag, LocalOK
    <3>3. mWaiters' \in Word /\ mWaiters'.lock = mWaiters.lock /\ SetLeavesNobody'
      BY <1>f, <3>1, <3>2, Words DEF SetLeavesNobody
    <3>4. Types' /\ Own(t)
      BY <3>1, <3>3, Facts DEF Types, Goto, Own
    <3>5. LocalOK(t)' /\ (HasLock(t)' <=> HasLock(t))
      BY <1>3, <1>f, <3>1 DEF SetFlag, LocalOK, HasLock, Goto, Types
    <3> QED
      BY <3>3, <3>4, <3>5, SameLock
  <2> QED
    BY <2>1, <2>2
<1>4. CASE SetLock(t)
  <2>0. /\ current' \in [Threads -> Pointers]
        /\ \A u \in Threads \ {t} : current'[u] = current[u]
        /\ current'[t] = head[t].ptr
    BY <1>4, Facts DEF SetLock, Types
  <2>1. CASE mWaiters # head[t]
    BY <1>4, <2>0, <2>1, <1>f, LoadStep DEF SetLock, CompareAndSwap, HasLock, Types
  <2>2. CASE mWaiters = head[t]
    <3>1. /\ mWaiters' = DetachedWord(mWaiters) /\ Goto(t, "notifyNext")
          /\ UNCHANGED <<next, posted, head, cached>>
      BY <1>4, <2>2 DEF SetLock, CompareAndSwap
    <3>2. ~mWaiters.lock /\ head[t].ptr # Null
      BY <1>4, <1>f, <2>2 DEF SetLock, LocalOK
    <3>3. mWaiters' \in Word /\ mWaiters'.lock /\ SetLeavesNobody'
      BY <1>f, <3>1, Words DEF SetLeavesNobody
    <3>4. Types' /\ Own(t)
      BY <2>0, <3>1, <3>3, Facts DEF Types, Goto, Own
    <3>5. LocalOK(t)' /\ HasLock(t)'
      BY <1>f, <2>0, <3>1, <3>2 DEF LocalOK, HasLock, Goto, Types
    <3> QED
      BY <3>2, <3>3, <3>4, <3>5, TakeLock
  <2> QED
    BY <2>1, <2>2
<1> QED
  BY <1>1, <1>2, <1>3, <1>4

\* The thread that clears the lock bit is the one that has set it.
LEMMA UnlockInv ==
  ASSUME EventInv, NEW t \in Threads, SetUnlock(t) \/ (RemoveUnlock(t) /\ UNCHANGED rounds)
  PROVE  EventInv'
<1>1. /\ mWaiters' = Unlocked(mWaiters) /\ HasLock(t)
      /\ \E l \in {"idle", "inFlight"} : Goto(t, l)
      /\ UNCHANGED <<next, posted, head, cached, current>>
  BY DEF SetUnlock, RemoveUnlock, ClearLock, HasLock
<1>2. mWaiters' \in Word /\ mWaiters'.lock = FALSE /\ SetLeavesNobody'
  BY <1>1, Facts, Words DEF EventInv, SetLeavesNobody
<1>3. Types' /\ Own(t)
  BY <1>1, <1>2, Facts DEF Types, Goto, Own
<1>4. LocalOK(t)' /\ ~HasLock(t)'
  BY <1>1, Facts DEF LocalOK, HasLock, Goto, Types
<1> QED
  BY <1>1, <1>2, <1>3, <1>4, GiveLock

\* Notifying the waiters that Set has taken off the word leaves the word alone.
LEMMA NotifyInv ==
  ASSUME EventInv, NEW t \in Threads, NotifyReadNext(t) \/ NotifyCurrent(t)
  PROVE  EventInv'
<1>f. Types /\ LocalOK(t) /\ cached[t] \in Pointers /\ current[t] \in Pointers
      /\ {"notifyNext", "notify", "setUnlock"} \subseteq EventLabels
  BY Facts
<1>1. current[t] \in Threads
  BY <1>f DEF NotifyReadNext, NotifyCurrent, LocalOK, Pointers
<1>2. CASE NotifyReadNext(t)
  <2>1. cached' \in [Threads -> Pointers]
    BY <1>2, <1>1, <1>f DEF NotifyReadNext, Types
  <2>2. (HasLock(t)' <=> HasLock(t)) /\ LocalOK(t)'
    BY <1>2, <1>f DEF NotifyReadNext, Goto, HasLock, LocalOK, Types
  <2> QED
    BY <1>2, <1>f, <2>1, <2>2, LocalStep DEF NotifyReadNext, Types
<1>3. CASE NotifyCurrent(t)
  <2>1. /\ posted' \in [Threads -> Nat] /\ current' \in [Threads -> Pointers]
        /\ current'[t] = cached[t] /\ \A u \in Threads \ {t} : current'[u] = current[u]
    BY <1>3, <1>1, <1>f DEF NotifyCurrent, Notify, Types
  <2>2. (HasLock(t)' <=> HasLock(t)) /\ LocalOK(t)'
    BY <1>3, <1>f, <2>1 DEF NotifyCurrent, Goto, HasLock, LocalOK, Types
  <2> QED
    BY <1>3, <1>f, <2>1, <2>2, LocalStep DEF NotifyCurrent, Types
<1> QED
  BY <1>2, <1>3

\* Reset leaves the lock bit alone.
LEMMA ResetInv ==
  ASSUME EventInv, NEW t \in Threads, Reset(t)
  PROVE  EventInv'
<1>f. Types /\ LocalOK(t) /\ mWaiters \in Word
  BY Facts
<1>1. mWaiters' \in Word /\ mWaiters'.lock = mWaiters.lock /\ mWaiters'.flag = FALSE
  BY <1>f DEF Reset, Word
<1>2. UNCHANGED <<next, posted, pc, head, cached, current>>
  BY DEF Reset
<1>3. Types' /\ Own(t) /\ LocalOK(t)' /\ (HasLock(t)' <=> HasLock(t)) /\ SetLeavesNobody'
  BY <1>f, <1>1, <1>2 DEF Types, Own, LocalOK, HasLock, SetLeavesNobody
<1> QED
  BY <1>1, <1>3, SameLock

(* RemoveWaiter, and the waits. *)

\* A removal changes the list of an event that is not set, or cannot change it.
LEMMA RemoveInv ==
  ASSUME EventInv, NEW t \in Threads, RemoveWaiter(t), UNCHANGED rounds
  PROVE  EventInv'
<1>f. /\ Types /\ LocalOK(t) /\ mWaiters \in Word /\ head[t] \in Word
      /\ t \in Pointers /\ t # Null /\ cached[t] \in Pointers /\ current[t] \in Pointers
      /\ {"removePop", "removeScan", "unlockFound", "unlockNotFound"} \subseteq EventLabels
  BY Facts
<1>w. \A p \in Pointers : /\ WithHead(mWaiters, p) \in Word
                           /\ WithHead(mWaiters, p).flag = mWaiters.flag
                           /\ WithHead(mWaiters, p).lock = mWaiters.lock
  BY <1>f, HeadWords
<1>1. CASE RemoveLoad(t)
  BY <1>1, <1>f, LoadStep DEF RemoveLoad, HasLock, Types
<1>2. CASE RemoveReadNext(t)
  <2>1. head[t].ptr = t /\ cached' \in [Threads -> Pointers]
    BY <1>2, <1>f DEF RemoveReadNext, LocalOK, Types
  <2>2. (HasLock(t)' <=> HasLock(t)) /\ LocalOK(t)'
    BY <1>2, <1>f DEF RemoveReadNext, Goto, HasLock, LocalOK, Types
  <2> QED
    BY <1>2, <1>f, <2>1, <2>2, LocalStep DEF RemoveReadNext, Types
<1>3. CASE RemovePop(t)
  <2>1. CASE mWaiters # head[t]
    BY <1>3, <2>1, <1>f, LoadStep DEF RemovePop, CompareAndSwap, HasLock, Types
  <2>2. CASE mWaiters = head[t]
    <3>1. /\ mWaiters' = WithHead(mWaiters, cached[t]) /\ Goto(t, "idle")
          /\ UNCHANGED <<next, posted, head, cached, current>>
      BY <1>3, <2>2 DEF RemovePop, CompareAndSwap
    <3>2. ~mWaiters.flag
      BY <1>3, <1>f, <2>2 DEF RemovePop, LocalOK, EventInv, SetLeavesNobody
    <3>3. /\ mWaiters' \in Word /\ mWaiters'.lock = mWaiters.lock
          /\ mWaiters'.flag = mWaiters.flag
      BY <1>f, <1>w, <3>1
    <3>4. Types' /\ Own(t) /\ SetLeavesNobody'
      BY <3>1, <3>2, <3>3, Facts DEF Types, Goto, Own, SetLeavesNobody
    <3>5. LocalOK(t)' /\ (HasLock(t)' <=> HasLock(t))
      BY <1>3, <1>f, <3>1 DEF RemovePop, LocalOK, HasLock, Goto, Types
    <3> QED
      BY <3>3, <3>4, <3>5, SameLock
  <2> QED
    BY <2>1, <2>2
<1>4. CASE RemoveLock(t)
  <2>0. /\ current' \in [Threads -> Pointers]
        /\ \A u \in Threads \ {t} : current'[u] = current[u]
        /\ current'[t] = head[t].ptr
    BY <1>4, Facts DEF RemoveLock, Types
  <2>1. CASE mWaiters # head[t]
    BY <1>4, <2>0, <2>1, <1>f, LoadStep DEF RemoveLock, CompareAndSwap, HasLock, Types
  <2>2. CASE mWaiters = head[t]
    <3>1. /\ mWaiters' = AddAba(Locked(mWaiters)) /\ Goto(t, "removeScan")
          /\ UNCHANGED <<next, posted, head, cached>>
      BY <1>4, <2>2 DEF RemoveLock, CompareAndSwap
    <3>2. ~mWaiters.lock /\ head[t].ptr # Null
      BY <1>4, <1>f, <2>2 DEF RemoveLock, LocalOK
    <3>3. mWaiters' \in Word /\ mWaiters'.lock /\ SetLeavesNobody'
      BY <1>f, <3>1, Words DEF EventInv, SetLeavesNobody
    <3>4. Types' /\ Own(t)
      BY <2>0, <3>1, <3>3, Facts DEF Types, Goto, Own
    <3>5. LocalOK(t)' /\ HasLock(t)'
      BY <1>f, <2>0, <3>1, <3>2 DEF LocalOK, HasLock, Goto, Types
    <3> QED
      BY <3>2, <3>3, <3>4, <3>5, TakeLock
  <2> QED
    BY <2>1, <2>2
<1>5. CASE RemoveScan(t)
  <2>1. pc[t] = "removeScan" /\ current[t] \in Threads
    BY <1>5, <1>f DEF RemoveScan, LocalOK, Pointers
  <2>2. /\ next' \in [Threads -> Pointers] /\ current' \in [Threads -> Pointers]
        /\ \A u \in Threads \ {t} : current'[u] = current[u]
        /\ current'[t] # Null
    BY <1>5, <1>f, <2>1 DEF RemoveScan, LocalOK, Types
  <2>3. PICK l \in {"removeScan", "unlockFound", "unlockNotFound"} : Goto(t, l)
    BY <1>5, <1>f, <2>1 DEF RemoveScan, Goto, Types
  <2>4. (HasLock(t)' <=> HasLock(t)) /\ LocalOK(t)'
    BY <1>f, <2>1, <2>2, <2>3 DEF Goto, HasLock, LocalOK, Types
  <2> QED
    BY <1>5, <1>f, <2>2, <2>3, <2>4, LocalStep DEF RemoveScan, Types
<1>6. CASE RemoveUnlock(t)
  BY <1>6, UnlockInv
<1> QED
  BY <1>1, <1>2, <1>3, <1>4, <1>5, <1>6 DEF RemoveWaiter

\* The steps of a wait do not touch the word.
LEMMA WaitInv ==
  ASSUME EventInv, NEW t \in Threads,
         WaitReturns(t) \/ AwaitNotify(t) \/ StartRemove(t)
  PROVE  EventInv'
<1>f. Types /\ {"idle", "signaled", "removeLoad"} \subseteq EventLabels
  BY Facts
<1>1. PICK l \in {"idle", "signaled", "removeLoad"} : Goto(t, l)
  BY DEF WaitReturns, AwaitNotify, StartRemove
<1>2. posted' \in [Threads -> Nat]
  BY <1>f DEF WaitReturns, AwaitNotify, StartRemove, Types
<1>3. (HasLock(t)' <=> HasLock(t)) /\ LocalOK(t)'
  BY <1>f, <1>1 DEF WaitReturns, AwaitNotify, StartRemove, Goto, HasLock, LocalOK, Types
<1> QED
  BY <1>f, <1>1, <1>2, <1>3, LocalStep DEF WaitReturns, AwaitNotify, StartRemove, Types

-----------------------------------------------------------------------------
(* The theorems. *)

\* The constructor leaves an unlocked word without waiters.
LEMMA EventInit == Init => EventInv
<1> SUFFICES ASSUME Init
             PROVE  EventInv
  OBVIOUS
<1>1. Types
  <2>1. ZeroWord \in Word /\ [ZeroWord EXCEPT !.flag = InitialState] \in Word
    <3>1. 0 \in 0 .. AbaRange - 1 /\ Null \in Pointers
      BY WaiterListAssumption DEF Pointers
    <3>2. ZeroWord \in Word
      BY <3>1 DEF ZeroWord, Word
    <3>3. \A w \in Word : [w EXCEPT !.flag = InitialState] \in Word
      BY EventAssumption DEF Word
    <3> QED
      BY <3>2, <3>3
  <2>2. Null \in Pointers /\ "idle" \in EventLabels
    BY DEF Pointers, EventLabels, ClientLabels
  <2> QED
    BY <2>1, <2>2 DEF Init, ListInit, Types
<1>2. mWaiters.ptr = Null /\ ~mWaiters.lock /\ \A t \in Threads : pc[t] = "idle"
  BY DEF Init, ListInit, ZeroWord
<1> QED
  BY <1>1, <1>2 DEF EventInv, LockOK, HasLock, LocalOK, SetLeavesNobody

\* Every step preserves the invariant.
LEMMA EventNext == EventInv /\ [Next]_eventVars => EventInv'
<1> SUFFICES ASSUME EventInv, [Next]_eventVars
             PROVE  EventInv'
  OBVIOUS
<1>1. CASE UNCHANGED eventVars
  BY <1>1 DEF eventVars, listVars, EventInv, Types, LockOK, HasLock, LocalOK, SetLeavesNobody
<1>2. ASSUME NEW t \in Threads, Step(t)
      PROVE  EventInv'
  BY <1>2, AddInv, SetWordInv, UnlockInv, NotifyInv, ResetInv, RemoveInv, WaitInv
  DEF Step, Set, ListStep
<1> QED
  BY <1>1, <1>2 DEF Next

(* What the theorems about Event rest on: the types, the owner of the lock  *)
(* bit, and what each thread knows of its copy of the word.                 *)
THEOREM EventInvariance == Spec => []EventInv
<1> QED
  BY EventInit, EventNext, PTL DEF Spec

(* No waiter is left on the list of a set event: AddWaiter and RemoveWaiter *)
(* never put one there after Set has looked.                                *)
THEOREM NobodyIsLeft == Spec => []SetLeavesNobody
<1>1. EventInv => SetLeavesNobody
  BY DEF EventInv
<1> QED
  BY <1>1, EventInvariance, PTL

(* The lock bit is set exactly as long as one thread owns it, a removal or  *)
(* a Set: ClearLock, which stores without a comparison, never clears the    *)
(* bit of another thread.                                                   *)
THEOREM OneOwner == Spec => []LockHasOneOwner
<1>1. EventInv => LockHasOneOwner
  <2> SUFFICES ASSUME EventInv
               PROVE  LockHasOneOwner
    OBVIOUS
  <2> DEFINE L == Scanners \cup {t \in Threads : pc[t] \in {"notifyNext", "notify", "setUnlock"}}
  <2>1. \A t : t \in L <=> t \in Threads /\ HasLock(t)
    BY DEF Scanners, HasLock
  <2>2. CASE mWaiters.lock
    <3>1. PICK t \in Threads : HasLock(t)
      BY <2>2 DEF EventInv, LockOK
    <3>2. L = {t}
      BY <2>1, <3>1 DEF EventInv, LockOK
    <3>3. Cardinality({t}) = 1
      BY FS_Singleton
    <3> QED
      BY <2>2, <3>2, <3>3 DEF LockHasOneOwner
  <2>3. CASE ~mWaiters.lock
    <3>1. L = {}
      BY <2>1, <2>3 DEF EventInv, LockOK
    <3>2. Cardinality({}) = 0
      BY FS_EmptySet
    <3> QED
      BY <2>3, <3>1, <3>2 DEF LockHasOneOwner
  <2> QED
    BY <2>2, <2>3
<1> QED
  BY <1>1, EventInvariance, PTL

-----------------------------------------------------------------------------
(* The lists *)

\* A step of t leaves all locals of the other threads alone.
OwnLocals(t) == Own(t) /\ \A u \in Threads \ {t} : cached'[u] = cached[u]

\* Where a thread goes, and what that says of it.
LEMMA Gone ==
  ASSUME Types, NEW t \in Threads, NEW l \in EventLabels, Goto(t, l)
  PROVE  /\ pc' \in [Threads -> EventLabels] /\ pc'[t] = l
         /\ \A u \in Threads \ {t} : pc'[u] = pc[u]
         /\ Awaits(t)' <=> l \in (RemoveLabels \ {"unlockFound"}) \cup {"waiting", "inFlight"}
<1>1. pc \in [Threads -> EventLabels] /\ pc' = [pc EXCEPT ![t] = l]
  BY DEF Types, Goto
<1>2. /\ pc' \in [Threads -> EventLabels] /\ pc'[t] = l
      /\ \A u \in Threads \ {t} : pc'[u] = pc[u]
  BY <1>1
<1> QED
  BY <1>2 DEF Awaits

\* The new words and their tags.
LEMMA Tags ==
  ASSUME NEW w \in Word, w.aba + 1 # AbaRange
  PROVE  /\ \A p \in Pointers : WithHead(w, p).aba = w.aba + 1
         /\ AddAba(Locked(w)).aba = w.aba + 1
         /\ DetachedWord(w).aba = w.aba + 1
         /\ AddAba([w EXCEPT !.flag = TRUE]).aba = w.aba + 1
         /\ Unlocked(w).aba = w.aba
<1>1. \A v \in Word : v.aba = w.aba => AddAba(v).aba = w.aba + 1
  BY DEF AddAba, Word
<1>2. [w EXCEPT !.ptr = Null, !.lock = TRUE, !.flag = TRUE] \in Word
  BY DEF Word, Pointers
<1>3. [w EXCEPT !.flag = TRUE] \in Word
  BY DEF Word
<1>4. [w EXCEPT !.ptr = Null, !.lock = TRUE, !.flag = TRUE].aba = w.aba
  BY DEF Word
<1>5. [w EXCEPT !.flag = TRUE].aba = w.aba
  BY DEF Word
<1>6. DetachedWord(w).aba = w.aba + 1
  <2>1. PICK v \in Word : v = [w EXCEPT !.ptr = Null, !.lock = TRUE, !.flag = TRUE]
    BY <1>2
  <2>2. AddAba(v).aba = w.aba + 1
    BY <1>1, <1>4, <2>1
  <2> QED
    BY <2>1, <2>2 DEF DetachedWord
<1>7. AddAba([w EXCEPT !.flag = TRUE]).aba = w.aba + 1
  <2>1. PICK v \in Word : v = [w EXCEPT !.flag = TRUE]
    BY <1>3
  <2>2. AddAba(v).aba = w.aba + 1
    BY <1>1, <1>5, <2>1
  <2> QED
    BY <2>1, <2>2
<1>8. /\ \A p \in Pointers : WithHead(w, p).aba = w.aba + 1
      /\ AddAba(Locked(w)).aba = w.aba + 1 /\ Unlocked(w).aba = w.aba
  BY ListWordFields
<1> QED
  BY <1>6, <1>7, <1>8

(* The copies of the other threads stay true if the word stays, and with it *)
(* the links of an unlocked list; if the word has a new tag; if a locked    *)
(* word is unlocked; or if a word without a list gets another flag.         *)
LEMMA CopiesKeep ==
  ASSUME EventInv, mWaiters' \in Word, \A u \in Threads : CopyOK(u),
         NEW listed \in SUBSET Threads, NEW rest, TwoLists(listed, rest),
         NEW depth, Attached(listed, depth), NEW t \in Threads, OwnLocals(t),
         \A w \in Threads \ {t} : w \notin listed => next'[w] = next[w],
         \/ mWaiters' = mWaiters /\ (~mWaiters.lock => \A w \in listed : next'[w] = next[w])
         \/ mWaiters'.aba = mWaiters.aba + 1
         \/ mWaiters'.aba = mWaiters.aba /\ mWaiters.lock /\ ~mWaiters'.lock
         \/ /\ mWaiters'.aba = mWaiters.aba /\ mWaiters'.lock = mWaiters.lock
            /\ mWaiters'.ptr = Null
  PROVE  \A u \in Threads \ {t} : CopyOK(u)'
<1> SUFFICES ASSUME NEW u \in Threads, u # t
             PROVE  CopyOK(u)'
  OBVIOUS
<1>1. /\ pc'[u] = pc[u] /\ head'[u] = head[u] /\ cached'[u] = cached[u]
      /\ CopyOK(u) /\ LocalOK(u)
  BY DEF OwnLocals, Own, EventInv
<1>2. pc[u] = "addPush" => next'[u] = next[u]
  <2>1. pc[u] = "addPush" => u \notin listed
    BY DEF TwoLists, Owed, Awaits, RemoveLabels
  <2> QED
    BY <2>1
<1>3. /\ mWaiters.aba \in Int /\ head[u].aba \in Int /\ mWaiters'.aba \in Int
      /\ mWaiters'.lock \in BOOLEAN /\ u # Null
  BY WaiterListAssumption DEF EventInv, Types, Word
<1>4. CASE mWaiters' = mWaiters /\ (~mWaiters.lock => \A w \in listed : next'[w] = next[w])
  <2>1. ASSUME pc[u] = "removePop", mWaiters = head[u]
        PROVE  next'[head[u].ptr] = next[head[u].ptr]
    <3>1. ~mWaiters.lock /\ head[u].ptr # Null
      BY <1>1, <1>3, <2>1 DEF CopyOK, LocalOK
    <3>2. head[u].ptr \in listed
      BY <2>1, <3>1 DEF Attached, InOrder
    <3> QED
      BY <1>4, <3>1, <3>2
  <2> QED
    BY <1>1, <1>2, <1>4, <2>1 DEF CopyOK
<1>5. CASE mWaiters'.aba = mWaiters.aba + 1
  <2>1. pc[u] \in {"removeReadNext", "removePop"} => head[u].aba < mWaiters'.aba
    BY <1>1, <1>3, <1>5 DEF CopyOK
  <2> QED
    BY <1>1, <1>2, <1>3, <2>1 DEF CopyOK
<1>6. CASE mWaiters'.aba = mWaiters.aba /\ mWaiters.lock /\ ~mWaiters'.lock
  <2>1. pc[u] \in {"removeReadNext", "removePop"} => head[u].aba < mWaiters'.aba
    BY <1>1, <1>3, <1>6 DEF CopyOK
  <2> QED
    BY <1>1, <1>2, <1>3, <2>1 DEF CopyOK
<1>7. CASE /\ mWaiters'.aba = mWaiters.aba /\ mWaiters'.lock = mWaiters.lock
           /\ mWaiters'.ptr = Null
  <2>1. pc[u] = "removePop" => mWaiters' # head[u]
    BY <1>1, <1>3, <1>7 DEF LocalOK
  <2> QED
    BY <1>1, <1>2, <1>3, <1>7, <2>1 DEF CopyOK
<1> QED
  BY <1>4, <1>5, <1>6, <1>7

\* The invariant after a step, part by part.
LEMMA Kept ==
  ASSUME EventInv', PostedOK', NEW t \in Threads, CopyOK(t)',
         \A u \in Threads \ {t} : CopyOK(u)',
         NEW listed \in SUBSET Threads, NEW rest \in SUBSET Threads,
         NEW depth \in [Threads -> Int], NEW deep \in [Threads -> Int],
         TwoLists(listed, rest)', Attached(listed, depth)', Detached(rest, deep)'
  PROVE  ListInv'
<1>1. \A u \in Threads : CopyOK(u)'
  OBVIOUS
<1> QED
  BY <1>1 DEF ListInv

\* A step that notifies nobody, and by which nobody begins or ends a wait.
LEMMA OwedKeeps ==
  ASSUME PostedOK, NEW t \in Threads, Own(t), posted' = posted, Awaits(t)' <=> Awaits(t)
  PROVE  PostedOK' /\ Owed' = Owed
<1>1. \A u \in Threads : Awaits(u)' <=> Awaits(u)
  BY DEF Own, Awaits
<1> QED
  BY <1>1 DEF PostedOK, Owed

\* A step of another thread keeps the list that a Set has taken off the word.
LEMMA DetachedKeeps ==
  ASSUME NEW rest \in SUBSET Threads, NEW deep, Detached(rest, deep),
         NEW t \in Threads, OwnLocals(t), \A w \in rest : next'[w] = next[w],
         pc[t] \notin {"notifyNext", "notify"}, pc'[t] \notin {"notifyNext", "notify"}
  PROVE  Detached(rest, deep)'
<1>1. Notifiers' = Notifiers
  BY DEF OwnLocals, Own, Notifiers
<1>2. ASSUME NEW u \in Threads, pc'[u] = "notifyNext"
      PROVE  InOrder(deep, rest, current'[u], next')
  BY <1>2 DEF OwnLocals, Own, Detached, InOrder
<1>3. ASSUME NEW u \in Threads, pc'[u] = "notify"
      PROVE  current'[u] \in rest /\ InOrder(deep, rest \ {current'[u]}, cached'[u], next')
  BY <1>3 DEF OwnLocals, Own, Detached, InOrder
<1> QED
  BY <1>1, <1>2, <1>3 DEF Detached

\* A step that leaves both lists alone, and of which only t has to be looked at.
LEMMA ListsKeep ==
  ASSUME EventInv', PostedOK, NEW listed \in SUBSET Threads, NEW rest \in SUBSET Threads,
         NEW depth \in [Threads -> Int], NEW deep \in [Threads -> Int],
         TwoLists(listed, rest), Attached(listed, depth), Detached(rest, deep),
         NEW t \in Threads, OwnLocals(t), CopyOK(t)', \A u \in Threads \ {t} : CopyOK(u)',
         posted' = posted, mWaiters'.ptr = mWaiters.ptr,
         \A w \in Threads \ {t} : next'[w] = next[w], Awaits(t) => next'[t] = next[t],
         Awaits(t)' <=> Awaits(t),
         pc[t] \notin {"notifyNext", "notify"}, pc'[t] \notin {"notifyNext", "notify"},
         pc'[t] \in {"inFlight", "unlockNotFound"} => t \notin listed,
         pc'[t] = "removeScan" =>
           current'[t] \in listed /\ (t \in listed => depth[current'[t]] < depth[t])
  PROVE  ListInv'
<1>1. PostedOK' /\ Owed' = Owed
  BY OwedKeeps DEF OwnLocals
<1>2. TwoLists(listed, rest)'
  BY <1>1 DEF TwoLists
<1>3. \A w \in listed \cup rest : next'[w] = next[w]
  BY DEF TwoLists, Owed
<1>4. Detached(rest, deep)'
  BY <1>3, DetachedKeeps
<1>5. InOrder(depth, listed, mWaiters'.ptr, next')
  BY <1>3 DEF Attached, InOrder
<1>6. Attached(listed, depth)'
  BY <1>5 DEF Attached, OwnLocals, Own
<1> QED
  BY <1>1, <1>2, <1>4, <1>6, Kept

\* The two lists, their orders, and the rest of the invariant.
Lists(listed, rest, depth, deep) ==
  /\ EventInv /\ PostedOK /\ \A u \in Threads : CopyOK(u)
  /\ listed \in SUBSET Threads /\ rest \in SUBSET Threads
  /\ depth \in [Threads -> Int] /\ deep \in [Threads -> Int]
  /\ TwoLists(listed, rest) /\ Attached(listed, depth) /\ Detached(rest, deep)

\* How the word may change while its list stays the same.
WordMoves ==
  \/ mWaiters' = mWaiters
  \/ mWaiters'.aba = mWaiters.aba + 1
  \/ mWaiters'.aba = mWaiters.aba /\ mWaiters.lock /\ ~mWaiters'.lock
  \/ /\ mWaiters'.aba = mWaiters.aba /\ mWaiters'.lock = mWaiters.lock
     /\ mWaiters'.ptr = Null

\* A step that leaves both lists alone keeps the invariant.
LEMMA Moves ==
  ASSUME NEW listed, NEW rest, NEW depth, NEW deep, Lists(listed, rest, depth, deep),
         EventInv', NEW t \in Threads, OwnLocals(t), CopyOK(t)', WordMoves,
         posted' = posted, mWaiters'.ptr = mWaiters.ptr,
         \A w \in Threads \ {t} : next'[w] = next[w], Awaits(t) => next'[t] = next[t],
         Awaits(t)' <=> Awaits(t),
         pc[t] \notin {"notifyNext", "notify"}, pc'[t] \notin {"notifyNext", "notify"},
         pc'[t] \in {"inFlight", "unlockNotFound"} => t \notin listed,
         pc'[t] = "removeScan" =>
           current'[t] \in listed /\ (t \in listed => depth[current'[t]] < depth[t])
  PROVE  ListInv'
<1>1. /\ EventInv /\ PostedOK /\ \A u \in Threads : CopyOK(u)
      /\ listed \in SUBSET Threads /\ rest \in SUBSET Threads
      /\ depth \in [Threads -> Int] /\ deep \in [Threads -> Int]
      /\ TwoLists(listed, rest) /\ Attached(listed, depth) /\ Detached(rest, deep)
  BY DEF Lists
<1>2. mWaiters' \in Word
  BY DEF EventInv, Types
<1>3. \A w \in listed : next'[w] = next[w]
  BY <1>1 DEF TwoLists, Owed
<1>4. \A u \in Threads \ {t} : CopyOK(u)'
  <2>1. \/ mWaiters' = mWaiters /\ (~mWaiters.lock => \A w \in listed : next'[w] = next[w])
        \/ mWaiters'.aba = mWaiters.aba + 1
        \/ mWaiters'.aba = mWaiters.aba /\ mWaiters.lock /\ ~mWaiters'.lock
        \/ /\ mWaiters'.aba = mWaiters.aba /\ mWaiters'.lock = mWaiters.lock
           /\ mWaiters'.ptr = Null
    BY <1>3 DEF WordMoves
  <2> QED
    BY <1>1, <1>2, <2>1, CopiesKeep
<1> QED
  BY <1>1, <1>4, ListsKeep

\* A thread that reads the word, and goes where the word says.
LEMMA ReadsWord ==
  ASSUME NEW listed, NEW rest, NEW depth, NEW deep, Lists(listed, rest, depth, deep),
         EventInv', NEW t \in Threads, NEW l, Goto(t, l),
         head' = [head EXCEPT ![t] = mWaiters], UNCHANGED <<mWaiters, next, posted, cached>>,
         \A u \in Threads \ {t} : current'[u] = current[u],
         \/ pc[t] \in {"idle", "addPush"} /\ l = AddBranch(mWaiters)
         \/ pc[t] \in {"idle", "setFlag", "setLock"} /\ l = SetBranch(mWaiters)
         \/ pc[t] \in {"removeLoad", "removePop", "removeLock"} /\ l = RemoveBranch(t, mWaiters)
  PROVE  ListInv'
<1>1. /\ l \in {"signaled", "addLink", "idle", "setSpin", "setFlag", "setLock", "inFlight",
                "removeLoad", "removeReadNext", "removeLock"}
      /\ l \in {"inFlight", "removeLoad", "removeReadNext", "removeLock"} <=>
           pc[t] \in {"removeLoad", "removePop", "removeLock"}
      /\ l = "removeReadNext" => ~mWaiters.lock
      /\ l = "removeLock" => mWaiters.ptr # t
      /\ l = "inFlight" => mWaiters.ptr = Null
      /\ pc[t] \in {"idle", "addPush", "setFlag", "setLock", "removeLoad", "removePop",
                    "removeLock"}
  BY DEF AddBranch, SetBranch, RemoveBranch
<1>2. EventInv /\ Types /\ Attached(listed, depth)
  BY DEF Lists, EventInv
<1>3. l \in EventLabels /\ mWaiters.aba \in Int
  BY <1>1, <1>2 DEF EventLabels, ClientLabels, RemoveLabels, Types, Word
<1>4. /\ pc'[t] = l /\ \A u \in Threads \ {t} : pc'[u] = pc[u]
      /\ Awaits(t)' <=> l \in (RemoveLabels \ {"unlockFound"}) \cup {"waiting", "inFlight"}
  BY <1>2, <1>3, Gone
<1>5. head'[t] = mWaiters /\ \A u \in Threads \ {t} : head'[u] = head[u]
  BY <1>2 DEF Types
<1>6. OwnLocals(t)
  BY <1>4, <1>5 DEF OwnLocals, Own
<1>7. Awaits(t)' <=> Awaits(t)
  BY <1>1, <1>4 DEF Awaits, RemoveLabels
<1>8. CopyOK(t)'
  BY <1>1, <1>3, <1>4, <1>5 DEF CopyOK
<1>9. pc'[t] = "inFlight" => t \notin listed
  BY <1>1, <1>2, <1>4 DEF Attached, InOrder
<1>10. /\ pc[t] \notin {"notifyNext", "notify"}
       /\ pc'[t] \notin {"notifyNext", "notify", "unlockNotFound", "removeScan"}
  BY <1>1, <1>4
<1> QED
  BY <1>6, <1>7, <1>8, <1>9, <1>10, Moves DEF WordMoves

\* A thread that neither reads nor writes shared memory.
LEMMA PlainMove ==
  ASSUME NEW listed, NEW rest, NEW depth, NEW deep, Lists(listed, rest, depth, deep),
         EventInv', NEW t \in Threads, NEW l, Goto(t, l),
         UNCHANGED <<mWaiters, next, posted, head, cached, current>>,
         \/ pc[t] = "setSpin" /\ l = SetBranch(head[t])
         \/ pc[t] = "signaled" /\ l = "idle"
         \/ pc[t] = "waiting" /\ l = "removeLoad"
  PROVE  ListInv'
<1>1. /\ l \in {"idle", "setSpin", "setFlag", "setLock", "removeLoad"}
      /\ l = "removeLoad" <=> pc[t] = "waiting"
      /\ pc[t] \in {"setSpin", "signaled", "waiting"}
  BY DEF SetBranch
<1>2. Types
  BY DEF Lists, EventInv
<1>3. l \in EventLabels
  BY <1>1 DEF EventLabels, ClientLabels, RemoveLabels
<1>4. /\ pc'[t] = l /\ \A u \in Threads \ {t} : pc'[u] = pc[u]
      /\ Awaits(t)' <=> l \in (RemoveLabels \ {"unlockFound"}) \cup {"waiting", "inFlight"}
  BY <1>2, <1>3, Gone
<1>5. OwnLocals(t)
  BY <1>4 DEF OwnLocals, Own
<1>6. Awaits(t)' <=> Awaits(t)
  BY <1>1, <1>4 DEF Awaits, RemoveLabels
<1>7. CopyOK(t)'
  BY <1>1, <1>4 DEF CopyOK
<1>8. /\ pc[t] \notin {"notifyNext", "notify"}
      /\ pc'[t] \notin {"notifyNext", "notify", "inFlight", "unlockNotFound", "removeScan"}
  BY <1>1, <1>4
<1> QED
  BY <1>5, <1>6, <1>7, <1>8, Moves DEF WordMoves

\* A wait links its waiter to the waiter that was first.
LEMMA LinkKeeps ==
  ASSUME NEW listed, NEW rest, NEW depth, NEW deep, Lists(listed, rest, depth, deep),
         EventInv', NEW t \in Threads, AddLink(t)
  PROVE  ListInv'
<1>1. /\ pc[t] = "addLink" /\ Goto(t, "addPush") /\ "addPush" \in EventLabels /\ Types
      /\ next' = [next EXCEPT ![t] = head[t].ptr]
      /\ UNCHANGED <<mWaiters, posted, head, cached, current>>
  BY DEF AddLink, EventLabels, Lists, EventInv
<1>2. pc'[t] = "addPush" /\ (\A u \in Threads \ {t} : pc'[u] = pc[u]) /\ ~Awaits(t)'
  BY <1>1, Gone DEF RemoveLabels
<1>3. next'[t] = head[t].ptr /\ \A w \in Threads \ {t} : next'[w] = next[w]
  BY <1>1 DEF Types
<1>4. OwnLocals(t)
  BY <1>1, <1>2 DEF OwnLocals, Own
<1>5. ~Awaits(t)
  BY <1>1 DEF Awaits, RemoveLabels
<1>6. CopyOK(t)'
  BY <1>1, <1>2, <1>3 DEF CopyOK
<1>7. /\ pc[t] \notin {"notifyNext", "notify"}
      /\ pc'[t] \notin {"notifyNext", "notify", "inFlight", "unlockNotFound", "removeScan"}
  BY <1>1, <1>2
<1> QED
  BY <1>1, <1>2, <1>3, <1>4, <1>5, <1>6, <1>7, Moves DEF WordMoves

\* A removal reads the next pointer of the first waiter.
LEMMA NextKeeps ==
  ASSUME NEW listed, NEW rest, NEW depth, NEW deep, Lists(listed, rest, depth, deep),
         EventInv', NEW t \in Threads, RemoveReadNext(t)
  PROVE  ListInv'
<1>1. /\ pc[t] = "removeReadNext" /\ Goto(t, "removePop") /\ "removePop" \in EventLabels
      /\ cached' = [cached EXCEPT ![t] = next[head[t].ptr]] /\ Types /\ CopyOK(t)
      /\ UNCHANGED <<mWaiters, next, posted, head, current>>
  BY DEF RemoveReadNext, EventLabels, RemoveLabels, Lists, EventInv
<1>2. pc'[t] = "removePop" /\ (\A u \in Threads \ {t} : pc'[u] = pc[u]) /\ Awaits(t)'
  BY <1>1, Gone DEF RemoveLabels
<1>3. /\ cached'[t] = next[head[t].ptr]
      /\ \A u \in Threads \ {t} : cached'[u] = cached[u]
  BY <1>1 DEF Types
<1>4. OwnLocals(t)
  BY <1>1, <1>2, <1>3 DEF OwnLocals, Own
<1>5. Awaits(t)
  BY <1>1 DEF Awaits, RemoveLabels
<1>6. CopyOK(t)'
  BY <1>1, <1>2, <1>3 DEF CopyOK
<1>7. /\ pc[t] \notin {"notifyNext", "notify"}
      /\ pc'[t] \notin {"notifyNext", "notify", "inFlight", "unlockNotFound", "removeScan"}
  BY <1>1, <1>2
<1> QED
  BY <1>1, <1>2, <1>4, <1>5, <1>6, <1>7, Moves DEF WordMoves

\* A scan that does not unlink: it goes on, or it ends with a waiter that is off the list.
LEMMA ScanKeeps ==
  ASSUME NEW listed, NEW rest, NEW depth, NEW deep, Lists(listed, rest, depth, deep),
         EventInv', NEW t \in Threads, RemoveScan(t), next[current[t]] # t
  PROVE  ListInv'
<1>1. /\ pc[t] = "removeScan" /\ UNCHANGED <<mWaiters, posted, head, cached, next>>
      /\ \/ next[current[t]] = Null /\ Goto(t, "unlockNotFound") /\ UNCHANGED current
         \/ /\ next[current[t]] \notin {Null, t} /\ UNCHANGED pc
            /\ current' = [current EXCEPT ![t] = next[current[t]]]
  BY WaiterListAssumption DEF RemoveScan
<1>2. /\ Types /\ listed \in SUBSET Threads /\ Attached(listed, depth)
      /\ depth \in [Threads -> Int]
  BY DEF Lists, EventInv
<1>3. PICK c \in listed : c = current[t] /\ (t \in listed => depth[c] < depth[t])
  BY <1>1, <1>2 DEF Attached
<1>4. InOrder(depth, listed, mWaiters.ptr, next)
  BY <1>2 DEF Attached
<1>5. Awaits(t) /\ pc[t] \notin {"notifyNext", "notify"}
  BY <1>1 DEF Awaits, RemoveLabels
<1>6. CASE next[c] = Null
  <2>1. Goto(t, "unlockNotFound") /\ "unlockNotFound" \in EventLabels /\ UNCHANGED current
    BY <1>1, <1>3, <1>6 DEF EventLabels, RemoveLabels
  <2>2. pc'[t] = "unlockNotFound" /\ (\A u \in Threads \ {t} : pc'[u] = pc[u]) /\ Awaits(t)'
    BY <1>2, <2>1, Gone DEF RemoveLabels
  <2>3. OwnLocals(t)
    BY <1>1, <2>1, <2>2 DEF OwnLocals, Own
  <2>4. t \notin listed
    BY <1>3, <1>4, <1>6 DEF InOrder
  <2>5. CopyOK(t)'
    BY <2>2 DEF CopyOK
  <2>6. pc'[t] \notin {"notifyNext", "notify", "removeScan"}
    BY <2>2
  <2> QED
    BY <1>1, <1>5, <2>2, <2>3, <2>4, <2>5, <2>6, Moves DEF WordMoves
<1>7. CASE next[c] # Null
  <2>1. PICK d \in listed : d = next[c] /\ d # t
    BY <1>1, <1>3, <1>4, <1>7 DEF InOrder
  <2>2. t \in listed => depth[d] < depth[t]
    <3>1. t \in listed => depth[d] <= depth[t]
      BY <1>3, <1>4, <2>1 DEF InOrder
    <3>2. t \in listed => depth[d] # depth[t]
      BY <1>4, <2>1 DEF InOrder
    <3>3. d \in Threads
      BY <1>2
    <3> QED
      BY <1>2, <3>1, <3>2, <3>3
  <2>3. UNCHANGED pc /\ current' = [current EXCEPT ![t] = d]
    BY <1>1, <1>3, <1>7, <2>1
  <2>4. current'[t] = d /\ \A u \in Threads \ {t} : current'[u] = current[u]
    BY <1>2, <2>3 DEF Types
  <2>5. OwnLocals(t)
    BY <1>1, <2>3, <2>4 DEF OwnLocals, Own
  <2>6. Awaits(t)' <=> Awaits(t)
    BY <2>3 DEF Awaits
  <2>7. CopyOK(t)'
    BY <1>1, <2>3 DEF CopyOK
  <2>8. pc'[t] \notin {"notifyNext", "notify", "inFlight", "unlockNotFound"}
    BY <1>1, <2>3
  <2> QED
    BY <1>1, <1>5, <2>1, <2>2, <2>4, <2>5, <2>6, <2>7, <2>8, Moves DEF WordMoves
<1> QED
  BY <1>6, <1>7

\* Set sets the flag of an empty list.
LEMMA FlagKeeps ==
  ASSUME NEW listed, NEW rest, NEW depth, NEW deep, Lists(listed, rest, depth, deep),
         EventInv', NoWrap, NEW t \in Threads, SetFlag(t), mWaiters = head[t]
  PROVE  ListInv'
<1>1. /\ pc[t] = "setFlag" /\ Goto(t, "idle") /\ "idle" \in EventLabels /\ Types
      /\ UNCHANGED <<next, posted, head, cached, current>>
  BY DEF SetFlag, CompareAndSwap, EventLabels, ClientLabels, Lists, EventInv
<1>2. mWaiters'.aba = mWaiters.aba + 1 /\ mWaiters'.ptr = mWaiters.ptr
  <2>1. PICK w \in Word : /\ w = mWaiters /\ w.aba + 1 # AbaRange
                          /\ mWaiters' = AddAba([w EXCEPT !.flag = TRUE])
    BY <1>1 DEF Types, NoWrap, SetFlag, CompareAndSwap
  <2> QED
    BY <2>1, Tags, Words
<1>3. pc'[t] = "idle" /\ (\A u \in Threads \ {t} : pc'[u] = pc[u]) /\ ~Awaits(t)'
  BY <1>1, Gone DEF RemoveLabels
<1>4. OwnLocals(t)
  BY <1>1, <1>3 DEF OwnLocals, Own
<1>5. ~Awaits(t) /\ CopyOK(t)'
  BY <1>1, <1>3 DEF Awaits, RemoveLabels, CopyOK
<1>6. /\ pc[t] \notin {"notifyNext", "notify"}
      /\ pc'[t] \notin {"notifyNext", "notify", "inFlight", "unlockNotFound", "removeScan"}
  BY <1>1, <1>3
<1> QED
  BY <1>1, <1>2, <1>3, <1>4, <1>5, <1>6, Moves DEF WordMoves

\* A waiter that is not the first one locks the list and begins its scan.
LEMMA LockKeeps ==
  ASSUME NEW listed, NEW rest, NEW depth, NEW deep, Lists(listed, rest, depth, deep),
         EventInv', NoWrap, NEW t \in Threads, RemoveLock(t), mWaiters = head[t]
  PROVE  ListInv'
<1>1. /\ pc[t] = "removeLock" /\ Goto(t, "removeScan") /\ "removeScan" \in EventLabels /\ Types
      /\ current' = [current EXCEPT ![t] = head[t].ptr]
      /\ UNCHANGED <<next, posted, head, cached>>
  BY DEF RemoveLock, CompareAndSwap, EventLabels, RemoveLabels, Lists, EventInv
<1>2. mWaiters'.aba = mWaiters.aba + 1 /\ mWaiters'.ptr = mWaiters.ptr
  <2>1. PICK w \in Word : /\ w = mWaiters /\ w.aba + 1 # AbaRange
                          /\ mWaiters' = AddAba(Locked(w))
    BY <1>1 DEF Types, NoWrap, RemoveLock, CompareAndSwap
  <2> QED
    BY <2>1, Tags, Words
<1>3. pc'[t] = "removeScan" /\ (\A u \in Threads \ {t} : pc'[u] = pc[u]) /\ Awaits(t)'
  BY <1>1, Gone DEF RemoveLabels
<1>4. current'[t] = mWaiters.ptr /\ \A u \in Threads \ {t} : current'[u] = current[u]
  BY <1>1 DEF Types
<1>5. OwnLocals(t)
  BY <1>1, <1>3, <1>4 DEF OwnLocals, Own
<1>6. Awaits(t) /\ CopyOK(t)'
  <2>1. CopyOK(t)
    BY DEF Lists
  <2> QED
    BY <1>1, <1>3, <2>1 DEF Awaits, RemoveLabels, CopyOK
<1>7. mWaiters.ptr \in listed /\ (t \in listed => depth[mWaiters.ptr] < depth[t])
  <2>1. /\ InOrder(depth, listed, mWaiters.ptr, next) /\ listed \in SUBSET Threads
        /\ depth \in [Threads -> Int] /\ LocalOK(t) /\ CopyOK(t)
    BY DEF Lists, Attached, EventInv
  <2>2. mWaiters.ptr # Null /\ mWaiters.ptr # t
    BY <1>1, <2>1 DEF LocalOK, CopyOK
  <2>3. PICK f \in listed : f = mWaiters.ptr /\ f # t
    BY <2>1, <2>2 DEF InOrder
  <2>4. t \in listed => depth[f] <= depth[t] /\ depth[f] # depth[t]
    BY <2>1, <2>3 DEF InOrder
  <2>5. depth[f] \in Int /\ depth[t] \in Int
    BY <2>1
  <2> QED
    BY <2>3, <2>4, <2>5
<1>8. /\ pc[t] \notin {"notifyNext", "notify"}
      /\ pc'[t] \notin {"notifyNext", "notify", "inFlight", "unlockNotFound"}
  BY <1>1, <1>3
<1> QED
  BY <1>1, <1>2, <1>3, <1>4, <1>5, <1>6, <1>7, <1>8, Moves DEF WordMoves

\* The thread that has the lock bit clears it.
LEMMA UnlockKeeps ==
  ASSUME NEW listed, NEW rest, NEW depth, NEW deep, Lists(listed, rest, depth, deep),
         EventInv', NEW t \in Threads, RemoveUnlock(t) \/ SetUnlock(t)
  PROVE  ListInv'
<1> DEFINE l == IF pc[t] = "unlockNotFound" THEN "inFlight" ELSE "idle"
<1>1. /\ pc[t] \in {"unlockFound", "unlockNotFound", "setUnlock"} /\ Goto(t, l)
      /\ l \in {"idle", "inFlight"} /\ (l = "inFlight" <=> pc[t] = "unlockNotFound")
      /\ l \in EventLabels /\ Types /\ LockOK /\ Attached(listed, depth)
      /\ mWaiters' = Unlocked(mWaiters) /\ UNCHANGED <<next, posted, head, cached, current>>
  BY DEF RemoveUnlock, SetUnlock, ClearLock, EventLabels, ClientLabels, Lists, EventInv
<1> HIDE DEF l
<1>2. /\ mWaiters'.aba = mWaiters.aba /\ mWaiters'.ptr = mWaiters.ptr
      /\ mWaiters'.lock = FALSE
  BY <1>1, ListWordFields DEF Types
<1>3. /\ pc'[t] = l /\ \A u \in Threads \ {t} : pc'[u] = pc[u]
      /\ Awaits(t)' <=> l \in (RemoveLabels \ {"unlockFound"}) \cup {"waiting", "inFlight"}
  BY <1>1, Gone
<1>4. OwnLocals(t)
  BY <1>1, <1>3 DEF OwnLocals, Own
<1>5. (Awaits(t)' <=> Awaits(t)) /\ CopyOK(t)'
  BY <1>1, <1>3 DEF Awaits, RemoveLabels, CopyOK
<1>6. mWaiters.lock
  BY <1>1 DEF LockOK, HasLock
<1>7. pc'[t] \in {"inFlight", "unlockNotFound"} => t \notin listed
  BY <1>1, <1>3 DEF Attached
<1>8. /\ pc[t] \notin {"notifyNext", "notify"}
      /\ pc'[t] \notin {"notifyNext", "notify", "removeScan"}
  BY <1>1, <1>3
<1> QED
  BY <1>1, <1>2, <1>3, <1>4, <1>5, <1>6, <1>7, <1>8, Moves DEF WordMoves

\* Reset leaves an empty list empty, and a word that is not set as it is.
LEMMA ResetKeeps ==
  ASSUME NEW listed, NEW rest, NEW depth, NEW deep, Lists(listed, rest, depth, deep),
         EventInv', NEW t \in Threads, Reset(t)
  PROVE  ListInv'
<1>1. /\ pc[t] = "idle" /\ Types /\ SetLeavesNobody
      /\ mWaiters' = [mWaiters EXCEPT !.flag = FALSE]
      /\ UNCHANGED <<next, posted, pc, head, cached, current>>
  BY DEF Reset, StartRound, Lists, EventInv
<1>2. /\ mWaiters'.aba = mWaiters.aba /\ mWaiters'.ptr = mWaiters.ptr
      /\ mWaiters'.lock = mWaiters.lock
  BY <1>1 DEF Types, Word
<1>3. WordMoves
  <2>1. CASE mWaiters.flag
    BY <1>1, <1>2, <2>1 DEF WordMoves, SetLeavesNobody
  <2>2. CASE ~mWaiters.flag
    <3>1. mWaiters' = mWaiters
      BY <1>1, <2>2 DEF Types, Word
    <3> QED
      BY <3>1 DEF WordMoves
  <2> QED
    BY <2>1, <2>2
<1>4. OwnLocals(t)
  BY <1>1 DEF OwnLocals, Own
<1>5. (Awaits(t)' <=> Awaits(t)) /\ CopyOK(t)'
  BY <1>1 DEF Awaits, CopyOK
<1>6. /\ pc[t] \notin {"notifyNext", "notify"}
      /\ pc'[t] \notin {"notifyNext", "notify", "inFlight", "unlockNotFound", "removeScan"}
  BY <1>1
<1> QED
  BY <1>1, <1>2, <1>3, <1>4, <1>5, <1>6, Moves

\* The list with one more waiter at its head is in order.
LEMMA Pushed ==
  ASSUME Types, NEW listed \in SUBSET Threads, NEW depth \in [Threads -> Int],
         Attached(listed, depth), NEW t \in Threads, t \notin listed, next[t] = mWaiters.ptr
  PROVE  \E d \in [Threads -> Int] :
            InOrder(d, listed \cup {t}, t, next) /\ \A w \in listed : d[w] = depth[w]
<1>1. next \in [Threads -> Pointers] /\ mWaiters.ptr \in Pointers
  BY DEF Types, Word
<1>2. PICK p \in Pointers : p = mWaiters.ptr /\ next[t] = p /\ InOrder(depth, listed, p, next)
  BY <1>1 DEF Attached
<1>3. \E d \in [Threads -> Int] :
         InOrder(d, listed \cup {t}, t, next) /\ \A w \in listed : d[w] = depth[w]
  BY <1>1, <1>2, PushOrder, SMTT(40)
<1> QED
  BY <1>3

\* The word after a thread has made p the first waiter.
LEMMA NewHead ==
  ASSUME NEW t, NEW p \in Pointers, mWaiters \in Word, NoWrap,
         mWaiters = head[t], mWaiters' = WithHead(head[t], p)
  PROVE  /\ mWaiters' \in Word /\ mWaiters'.ptr = p /\ mWaiters'.lock = mWaiters.lock
         /\ mWaiters'.aba = mWaiters.aba + 1
<1>1. PICK w \in Word : w = mWaiters /\ mWaiters' = WithHead(w, p) /\ w.aba + 1 # AbaRange
  BY DEF NoWrap
<1>2. /\ WithHead(w, p).ptr = p /\ WithHead(w, p).lock = w.lock
      /\ WithHead(w, p).aba = w.aba + 1
  BY <1>1, ListWordFields
<1>3. WithHead(w, p) \in Word
  BY ListWordTypes
<1> QED
  BY <1>1, <1>2, <1>3

\* A waiter becomes the first one of the list.
LEMMA PushKeeps ==
  ASSUME NEW listed, NEW rest, NEW depth, NEW deep, Lists(listed, rest, depth, deep),
         EventInv', NoWrap, NEW t \in Threads, AddPush(t), mWaiters = head[t]
  PROVE  ListInv'
<1>1. /\ pc[t] = "addPush" /\ Goto(t, "waiting") /\ "waiting" \in EventLabels /\ Types
      /\ mWaiters' = WithHead(head[t], t) /\ UNCHANGED <<next, posted, head, cached, current>>
  BY DEF AddPush, CompareAndSwap, EventLabels, ClientLabels, Lists, EventInv
<1>2. /\ EventInv /\ PostedOK /\ \A u \in Threads : CopyOK(u)
      /\ listed \in SUBSET Threads /\ rest \in SUBSET Threads
      /\ depth \in [Threads -> Int] /\ deep \in [Threads -> Int]
      /\ TwoLists(listed, rest) /\ Attached(listed, depth) /\ Detached(rest, deep)
  BY DEF Lists
<1>3. /\ mWaiters' \in Word /\ mWaiters'.ptr = t /\ mWaiters'.aba = mWaiters.aba + 1
  BY <1>1, NewHead DEF Types, Pointers
<1>4. pc'[t] = "waiting" /\ (\A u \in Threads \ {t} : pc'[u] = pc[u]) /\ Awaits(t)'
  BY <1>1, Gone
<1>5. OwnLocals(t)
  BY <1>1, <1>4 DEF OwnLocals, Own
<1>6. ~Awaits(t) /\ posted[t] = 0
  <2>1. ~Awaits(t)
    BY <1>1 DEF Awaits, RemoveLabels
  <2> QED
    BY <1>1, <1>2, <2>1 DEF PostedOK, Types
<1>7. CopyOK(t)' /\ \A u \in Threads \ {t} : CopyOK(u)'
  <2>1. CopyOK(t)'
    BY <1>4 DEF CopyOK
  <2> QED
    BY <1>1, <1>2, <1>3, <1>5, <2>1, CopiesKeep
<1>8. \A u \in Threads \ {t} : Awaits(u)' <=> Awaits(u)
  BY <1>4 DEF Awaits
<1>9. PostedOK'
  BY <1>1, <1>2, <1>6, <1>8 DEF PostedOK
<1>10. Owed' = Owed \cup {t} /\ t \notin Owed
  BY <1>1, <1>4, <1>6, <1>8 DEF Owed
<1>11. PICK S \in SUBSET Threads : S = listed \cup {t}
  BY <1>2
<1>12. PICK d \in [Threads -> Int] :
         InOrder(d, S, t, next) /\ \A w \in listed : d[w] = depth[w]
  <2>1. next[t] = mWaiters.ptr
    BY <1>1, <1>2 DEF CopyOK
  <2>2. t \notin listed
    BY <1>2, <1>10 DEF TwoLists
  <2>3. \E d \in [Threads -> Int] :
           InOrder(d, listed \cup {t}, t, next) /\ \A w \in listed : d[w] = depth[w]
    BY <1>1, <1>2, <2>1, <2>2, Pushed
  <2> QED
    BY <1>11, <2>3
<1>13. TwoLists(S, rest)'
  BY <1>2, <1>10, <1>11 DEF TwoLists
<1>14. Attached(S, d)'
  <2>1. ASSUME NEW u \in Threads, pc'[u] = "removeScan"
        PROVE  current[u] \in S /\ (u \in S => d[current[u]] < d[u])
    BY <1>2, <1>4, <1>11, <1>12, <2>1 DEF Attached
  <2>2. ASSUME NEW u \in Threads, pc'[u] \in {"inFlight", "unlockNotFound"}
        PROVE  u \notin S
    BY <1>2, <1>4, <1>11, <2>2 DEF Attached
  <2>3. InOrder(d, S, mWaiters'.ptr, next')
    BY <1>1, <1>3, <1>12
  <2> QED
    BY <1>1, <2>1, <2>2, <2>3 DEF Attached
<1>15. Detached(rest, deep)'
  <2>1. pc[t] \notin {"notifyNext", "notify"} /\ pc'[t] \notin {"notifyNext", "notify"}
    BY <1>1, <1>4
  <2> QED
    BY <1>1, <1>2, <1>5, <2>1, DetachedKeeps
<1> QED
  BY <1>2, <1>7, <1>9, <1>13, <1>14, <1>15, Kept

\* The list without its first waiter is in order.
LEMMA Popped ==
  ASSUME Types, NEW listed \in SUBSET Threads, NEW depth \in [Threads -> Int],
         Attached(listed, depth), NEW t \in Threads, mWaiters.ptr = t
  PROVE  t \in listed /\ InOrder(depth, listed \ {t}, next[t], next)
<1>1. next \in [Threads -> Pointers] /\ t \in Pointers /\ t # Null
  BY WaiterListAssumption DEF Types, Pointers
<1>2. InOrder(depth, listed, t, next)
  BY DEF Attached
<1>3. t \in listed
  BY <1>1, <1>2 DEF InOrder
<1> QED
  BY <1>1, <1>2, <1>3, PopOrder

\* The first waiter removes itself.
LEMMA PopKeeps ==
  ASSUME NEW listed, NEW rest, NEW depth, NEW deep, Lists(listed, rest, depth, deep),
         EventInv', NoWrap, NEW t \in Threads, RemovePop(t), mWaiters = head[t]
  PROVE  ListInv'
<1>1. /\ pc[t] = "removePop" /\ Goto(t, "idle") /\ "idle" \in EventLabels /\ Types
      /\ mWaiters' = WithHead(head[t], cached[t])
      /\ UNCHANGED <<next, posted, head, cached, current>>
  BY DEF RemovePop, CompareAndSwap, EventLabels, ClientLabels, Lists, EventInv
<1>2. /\ EventInv /\ PostedOK /\ \A u \in Threads : CopyOK(u)
      /\ listed \in SUBSET Threads /\ rest \in SUBSET Threads
      /\ depth \in [Threads -> Int] /\ deep \in [Threads -> Int]
      /\ TwoLists(listed, rest) /\ Attached(listed, depth) /\ Detached(rest, deep)
  BY DEF Lists
<1>3. /\ mWaiters.ptr = t /\ ~mWaiters.lock /\ cached[t] = next[t] /\ cached[t] \in Pointers
  BY <1>1, <1>2 DEF EventInv, LocalOK, CopyOK, Types
<1>4. mWaiters' \in Word /\ mWaiters'.ptr = next[t] /\ mWaiters'.aba = mWaiters.aba + 1
  BY <1>1, <1>3, NewHead DEF Types
<1>5. pc'[t] = "idle" /\ (\A u \in Threads \ {t} : pc'[u] = pc[u]) /\ ~Awaits(t)'
  BY <1>1, Gone DEF RemoveLabels
<1>6. OwnLocals(t)
  BY <1>1, <1>5 DEF OwnLocals, Own
<1>7. CopyOK(t)' /\ \A u \in Threads \ {t} : CopyOK(u)'
  <2>1. CopyOK(t)'
    BY <1>5 DEF CopyOK
  <2> QED
    BY <1>1, <1>2, <1>4, <1>6, <2>1, CopiesKeep
<1>8. t \in listed /\ InOrder(depth, listed \ {t}, next[t], next)
  BY <1>1, <1>2, <1>3, Popped
<1>9. posted[t] = 0 /\ t \notin rest
  BY <1>2, <1>8 DEF TwoLists, Owed
<1>10. \A u \in Threads \ {t} : Awaits(u)' <=> Awaits(u)
  BY <1>5 DEF Awaits
<1>11. PostedOK'
  BY <1>1, <1>2, <1>9, <1>10 DEF PostedOK
<1>12. Owed' = Owed \ {t}
  BY <1>1, <1>5, <1>10 DEF Owed
<1>13. PICK S \in SUBSET Threads : S = listed \ {t}
  BY <1>2
<1>14. TwoLists(S, rest)'
  BY <1>2, <1>9, <1>12, <1>13 DEF TwoLists
<1>15. Attached(S, depth)'
  <2>1. \A u \in Threads : pc'[u] # "removeScan"
    BY <1>2, <1>3, <1>5 DEF EventInv, LockOK, HasLock
  <2>2. ASSUME NEW u \in Threads, pc'[u] \in {"inFlight", "unlockNotFound"}
        PROVE  u \notin S
    BY <1>2, <1>5, <1>13, <2>2 DEF Attached
  <2>3. InOrder(depth, S, mWaiters'.ptr, next')
    BY <1>1, <1>4, <1>8, <1>13
  <2> QED
    BY <2>1, <2>2, <2>3 DEF Attached
<1>16. Detached(rest, deep)'
  <2>1. pc[t] \notin {"notifyNext", "notify"} /\ pc'[t] \notin {"notifyNext", "notify"}
    BY <1>1, <1>5
  <2> QED
    BY <1>1, <1>2, <1>6, <2>1, DetachedKeeps
<1> QED
  BY <1>2, <1>7, <1>11, <1>14, <1>15, <1>16, Kept

\* The list without a waiter further down is in order.
LEMMA Unlinked ==
  ASSUME Types, NEW listed \in SUBSET Threads, NEW depth \in [Threads -> Int],
         Attached(listed, depth), NEW c \in listed, NEW t \in Threads, next[c] = t
  PROVE  InOrder(depth, listed \ {t}, mWaiters.ptr, [next EXCEPT ![c] = next[t]])
<1>1. next \in [Threads -> Pointers] /\ mWaiters.ptr \in Pointers
  BY DEF Types, Word
<1>2. InOrder(depth, listed, mWaiters.ptr, next)
  BY DEF Attached
<1> QED
  BY <1>1, <1>2, UnlinkOrder

\* A waiter unlinks itself.
LEMMA UnlinkKeeps ==
  ASSUME NEW listed, NEW rest, NEW depth, NEW deep, Lists(listed, rest, depth, deep),
         EventInv', NEW t \in Threads, RemoveScan(t), next[current[t]] = t
  PROVE  ListInv'
<1>1. /\ pc[t] = "removeScan" /\ Goto(t, "unlockFound") /\ "unlockFound" \in EventLabels /\ Types
      /\ UNCHANGED <<mWaiters, posted, head, cached, current>>
      /\ next' = [next EXCEPT ![current[t]] = next[t]]
  BY WaiterListAssumption DEF RemoveScan, EventLabels, RemoveLabels, Lists, EventInv
<1>2. /\ EventInv /\ PostedOK /\ \A u \in Threads : CopyOK(u)
      /\ listed \in SUBSET Threads /\ rest \in SUBSET Threads
      /\ depth \in [Threads -> Int] /\ deep \in [Threads -> Int]
      /\ TwoLists(listed, rest) /\ Attached(listed, depth) /\ Detached(rest, deep)
  BY DEF Lists
<1>3. PICK c \in listed : c = current[t] /\ next[c] = t
  BY <1>1, <1>2 DEF Attached
<1>4. t \in listed /\ t \notin rest /\ posted[t] = 0
  <2>1. InOrder(depth, listed, mWaiters.ptr, next)
    BY <1>2 DEF Attached
  <2>2. t \in listed
    BY <1>3, <2>1, WaiterListAssumption DEF InOrder
  <2> QED
    BY <1>2, <2>2 DEF TwoLists, Owed
<1>5. pc'[t] = "unlockFound" /\ (\A u \in Threads \ {t} : pc'[u] = pc[u]) /\ ~Awaits(t)'
  BY <1>1, Gone DEF RemoveLabels
<1>6. OwnLocals(t)
  BY <1>1, <1>5 DEF OwnLocals, Own
<1>7. next' = [next EXCEPT ![c] = next[t]] /\ \A w \in Threads : w # c => next'[w] = next[w]
  BY <1>1, <1>3 DEF Types
<1>8. mWaiters.lock /\ mWaiters' = mWaiters /\ mWaiters' \in Word
  BY <1>1, <1>2 DEF EventInv, LockOK, HasLock, Types
<1>9. CopyOK(t)' /\ \A u \in Threads \ {t} : CopyOK(u)'
  <2>1. CopyOK(t)'
    BY <1>5 DEF CopyOK
  <2>2. \A w \in Threads \ {t} : w \notin listed => next'[w] = next[w]
    BY <1>7
  <2> QED
    BY <1>2, <1>6, <1>8, <2>1, <2>2, CopiesKeep
<1>10. \A u \in Threads \ {t} : Awaits(u)' <=> Awaits(u)
  BY <1>5 DEF Awaits
<1>11. PostedOK'
  BY <1>1, <1>2, <1>4, <1>10 DEF PostedOK
<1>12. Owed' = Owed \ {t}
  BY <1>1, <1>5, <1>10 DEF Owed
<1>13. PICK S \in SUBSET Threads : S = listed \ {t}
  BY <1>2
<1>14. TwoLists(S, rest)'
  BY <1>2, <1>4, <1>12, <1>13 DEF TwoLists
<1>15. Attached(S, depth)'
  <2>1. \A u \in Threads : pc'[u] \notin {"removeScan", "unlockNotFound"}
    BY <1>1, <1>2, <1>5 DEF EventInv, LockOK, HasLock
  <2>2. ASSUME NEW u \in Threads, pc'[u] = "inFlight"
        PROVE  u \notin S
    BY <1>2, <1>5, <1>13, <2>2 DEF Attached
  <2>3. InOrder(depth, S, mWaiters'.ptr, next')
    <3>1. InOrder(depth, listed \ {t}, mWaiters.ptr, [next EXCEPT ![c] = next[t]])
      BY <1>1, <1>2, <1>3, Unlinked
    <3> QED
      BY <1>7, <1>8, <1>13, <3>1
  <2> QED
    BY <2>1, <2>2, <2>3 DEF Attached
<1>16. Detached(rest, deep)'
  <2>1. pc[t] \notin {"notifyNext", "notify"} /\ pc'[t] \notin {"notifyNext", "notify"}
    BY <1>1, <1>5
  <2>2. \A w \in rest : next'[w] = next[w]
    BY <1>2, <1>7 DEF TwoLists
  <2> QED
    BY <1>2, <1>6, <2>1, <2>2, DetachedKeeps
<1> QED
  BY <1>2, <1>9, <1>11, <1>14, <1>15, <1>16, Kept

\* Set takes the whole list off the word.
LEMMA DetachKeeps ==
  ASSUME NEW listed, NEW rest, NEW depth, NEW deep, Lists(listed, rest, depth, deep),
         EventInv', NoWrap, NEW t \in Threads, SetLock(t), mWaiters = head[t]
  PROVE  ListInv'
<1>1. /\ pc[t] = "setLock" /\ Goto(t, "notifyNext") /\ "notifyNext" \in EventLabels /\ Types
      /\ current' = [current EXCEPT ![t] = head[t].ptr]
      /\ UNCHANGED <<next, posted, head, cached>>
  BY DEF SetLock, CompareAndSwap, EventLabels, Lists, EventInv
<1>2. /\ EventInv /\ PostedOK /\ \A u \in Threads : CopyOK(u)
      /\ listed \in SUBSET Threads /\ rest \in SUBSET Threads
      /\ depth \in [Threads -> Int] /\ deep \in [Threads -> Int]
      /\ TwoLists(listed, rest) /\ Attached(listed, depth) /\ Detached(rest, deep)
  BY DEF Lists
<1>3. mWaiters' \in Word /\ mWaiters'.ptr = Null /\ mWaiters'.aba = mWaiters.aba + 1
  <2>1. PICK w \in Word : /\ w = mWaiters /\ w.aba + 1 # AbaRange
                          /\ mWaiters' = DetachedWord(w)
    BY <1>1 DEF Types, NoWrap, SetLock, CompareAndSwap
  <2> QED
    BY <2>1, Tags, Words
<1>4. pc'[t] = "notifyNext" /\ (\A u \in Threads \ {t} : pc'[u] = pc[u]) /\ ~Awaits(t)'
  BY <1>1, Gone DEF RemoveLabels
<1>5. current'[t] = mWaiters.ptr /\ \A u \in Threads \ {t} : current'[u] = current[u]
  BY <1>1 DEF SetLock, Types
<1>6. OwnLocals(t)
  BY <1>1, <1>4, <1>5 DEF OwnLocals, Own
<1>7. CopyOK(t)' /\ \A u \in Threads \ {t} : CopyOK(u)'
  <2>1. CopyOK(t)'
    BY <1>4 DEF CopyOK
  <2> QED
    BY <1>1, <1>2, <1>3, <1>6, <2>1, CopiesKeep
<1>8. \A u \in Threads : ~HasLock(u)
  BY <1>1, <1>2 DEF SetLock, EventInv, LockOK, LocalOK
<1>9. Owed = listed
  <2>1. Notifiers = {}
    BY <1>8 DEF Notifiers, HasLock
  <2> QED
    BY <1>2, <2>1 DEF Detached, TwoLists
<1>10. PostedOK' /\ Owed' = Owed
  <2>1. ~Awaits(t)
    BY <1>1 DEF Awaits, RemoveLabels
  <2> QED
    BY <1>1, <1>2, <1>4, <1>6, <2>1, OwedKeeps DEF OwnLocals
<1>11. PICK none \in SUBSET Threads : none = {}
  OBVIOUS
<1>12. TwoLists(none, listed)'
  BY <1>9, <1>10, <1>11 DEF TwoLists
<1>13. Attached(none, depth)'
  <2>1. \A u \in Threads : pc'[u] # "removeScan"
    BY <1>4, <1>8 DEF HasLock
  <2>2. InOrder(depth, none, mWaiters'.ptr, next')
    BY <1>3, <1>11 DEF InOrder
  <2> QED
    BY <1>11, <2>1, <2>2 DEF Attached
<1>14. Detached(listed, depth)'
  <2>1. \A u \in Threads \ {t} : pc'[u] \notin {"notifyNext", "notify"}
    BY <1>4, <1>8 DEF HasLock
  <2>2. InOrder(depth, listed, current'[t], next')
    BY <1>1, <1>2, <1>5 DEF Attached
  <2>3. t \in Notifiers'
    BY <1>4 DEF Notifiers
  <2> QED
    BY <1>4, <2>1, <2>2, <2>3 DEF Detached
<1> QED
  BY <1>2, <1>7, <1>10, <1>11, <1>12, <1>13, <1>14, Kept

\* The waiters that are left without the first one are in order.
LEMMA RestPopped ==
  ASSUME Types, NEW rest \in SUBSET Threads, NEW deep \in [Threads -> Int],
         NEW c \in Pointers, c # Null, InOrder(deep, rest, c, next)
  PROVE  c \in rest /\ InOrder(deep, rest \ {c}, next[c], next)
<1>1. next \in [Threads -> Pointers]
  BY DEF Types
<1>2. c \in rest
  BY DEF InOrder
<1> QED
  BY <1>1, <1>2, PopOrder

\* Set reads the link of the waiter that it is going to notify.
LEMMA NotifyNextKeeps ==
  ASSUME NEW listed, NEW rest, NEW depth, NEW deep, Lists(listed, rest, depth, deep),
         EventInv', NEW t \in Threads, NotifyReadNext(t)
  PROVE  ListInv'
<1>1. /\ pc[t] = "notifyNext" /\ Goto(t, "notify") /\ "notify" \in EventLabels /\ Types
      /\ cached' = [cached EXCEPT ![t] = next[current[t]]] /\ LockOK /\ LocalOK(t)
      /\ UNCHANGED <<mWaiters, next, posted, head, current>>
  BY DEF NotifyReadNext, EventLabels, Lists, EventInv
<1>2. /\ EventInv /\ PostedOK /\ \A u \in Threads : CopyOK(u)
      /\ listed \in SUBSET Threads /\ rest \in SUBSET Threads
      /\ depth \in [Threads -> Int] /\ deep \in [Threads -> Int]
      /\ TwoLists(listed, rest) /\ Attached(listed, depth) /\ Detached(rest, deep)
  BY DEF Lists
<1>3. pc'[t] = "notify" /\ (\A u \in Threads \ {t} : pc'[u] = pc[u]) /\ ~Awaits(t)'
  BY <1>1, Gone DEF RemoveLabels
<1>4. cached'[t] = next[current[t]] /\ \A u \in Threads \ {t} : cached'[u] = cached[u]
  BY <1>1 DEF Types
<1>5. OwnLocals(t)
  BY <1>1, <1>3, <1>4 DEF OwnLocals, Own
<1>6. CopyOK(t)' /\ \A u \in Threads \ {t} : CopyOK(u)'
  <2>1. CopyOK(t)' /\ mWaiters' \in Word
    BY <1>1, <1>3 DEF CopyOK, Types
  <2> QED
    BY <1>1, <1>2, <1>5, <2>1, CopiesKeep
<1>7. PostedOK' /\ Owed' = Owed
  <2>1. ~Awaits(t)
    BY <1>1 DEF Awaits, RemoveLabels
  <2> QED
    BY <1>1, <1>2, <1>3, <1>5, <2>1, OwedKeeps DEF OwnLocals
<1>8. TwoLists(listed, rest)'
  BY <1>2, <1>7 DEF TwoLists
<1>9. Attached(listed, depth)'
  BY <1>1, <1>2, <1>3 DEF Attached
<1>10. Detached(rest, deep)'
  <2>1. PICK c \in Pointers : c = current[t] /\ c # Null
    BY <1>1 DEF Types, LocalOK
  <2>2. c \in rest /\ InOrder(deep, rest \ {c}, next[c], next)
    BY <1>1, <1>2, <2>1, RestPopped DEF Detached
  <2>3. \A u \in Threads \ {t} : pc'[u] \notin {"notifyNext", "notify"}
    BY <1>1, <1>3 DEF LockOK, HasLock
  <2>4. t \in Notifiers'
    BY <1>3 DEF Notifiers
  <2>5. current'[t] = c /\ cached'[t] = next[c] /\ next' = next
    BY <1>1, <1>4, <2>1
  <2> QED
    BY <1>3, <2>2, <2>3, <2>4, <2>5 DEF Detached
<1> QED
  BY <1>2, <1>6, <1>7, <1>8, <1>9, <1>10, Kept

\* Set notifies the waiter that it has reached.
LEMMA NotifyKeeps ==
  ASSUME NEW listed, NEW rest, NEW depth, NEW deep, Lists(listed, rest, depth, deep),
         EventInv', NEW t \in Threads, NotifyCurrent(t)
  PROVE  ListInv'
<1> DEFINE l == IF cached[t] = Null THEN "setUnlock" ELSE "notifyNext"
<1>1. /\ pc[t] = "notify" /\ Goto(t, l) /\ l \in EventLabels /\ Types /\ LockOK
      /\ l \in {"setUnlock", "notifyNext"} /\ (l = "notifyNext" <=> cached[t] # Null)
      /\ posted' = [posted EXCEPT ![current[t]] = @ + 1]
      /\ current' = [current EXCEPT ![t] = cached[t]]
      /\ UNCHANGED <<mWaiters, next, head, cached>>
  BY DEF NotifyCurrent, Notify, EventLabels, Lists, EventInv
<1> HIDE DEF l
<1>2. /\ EventInv /\ PostedOK /\ \A u \in Threads : CopyOK(u)
      /\ listed \in SUBSET Threads /\ rest \in SUBSET Threads
      /\ depth \in [Threads -> Int] /\ deep \in [Threads -> Int]
      /\ TwoLists(listed, rest) /\ Attached(listed, depth) /\ Detached(rest, deep)
  BY DEF Lists
<1>3. /\ pc'[t] = l /\ (\A u \in Threads \ {t} : pc'[u] = pc[u]) /\ ~Awaits(t)'
  BY <1>1, Gone DEF RemoveLabels
<1>4. current'[t] = cached[t] /\ \A u \in Threads \ {t} : current'[u] = current[u]
  BY <1>1 DEF Types
<1>5. OwnLocals(t)
  BY <1>1, <1>3, <1>4 DEF OwnLocals, Own
<1>6. CopyOK(t)' /\ \A u \in Threads \ {t} : CopyOK(u)'
  <2>1. CopyOK(t)' /\ mWaiters' \in Word
    BY <1>1, <1>3 DEF CopyOK, Types
  <2> QED
    BY <1>1, <1>2, <1>5, <2>1, CopiesKeep
<1>7. PICK c \in Threads : /\ c = current[t] /\ c \in rest
                           /\ InOrder(deep, rest \ {c}, cached[t], next)
  BY <1>1, <1>2 DEF Detached
<1>8. Awaits(c) /\ posted[c] = 0 /\ c \notin listed
  BY <1>2, <1>7 DEF TwoLists, Owed
<1>9. posted'[c] = 1 /\ \A u \in Threads \ {c} : posted'[u] = posted[u]
  BY <1>1, <1>7, <1>8 DEF Types
<1>10. \A u \in Threads : Awaits(u)' <=> Awaits(u)
  <2>1. ~Awaits(t)
    BY <1>1 DEF Awaits, RemoveLabels
  <2> QED
    BY <1>3, <2>1 DEF Awaits
<1>11. PostedOK'
  BY <1>2, <1>8, <1>9, <1>10 DEF PostedOK
<1>12. Owed' = Owed \ {c}
  BY <1>9, <1>10 DEF Owed
<1>13. PICK S \in SUBSET Threads : S = rest \ {c}
  BY <1>2
<1>14. TwoLists(listed, S)'
  BY <1>2, <1>8, <1>12, <1>13 DEF TwoLists
<1>15. Attached(listed, depth)'
  BY <1>1, <1>2, <1>3, <1>4 DEF Attached
<1>16. Detached(S, deep)'
  <2>1. \A u \in Threads \ {t} : pc'[u] \notin {"notifyNext", "notify"}
    BY <1>1, <1>3 DEF LockOK, HasLock
  <2>2. InOrder(deep, S, current'[t], next')
    BY <1>1, <1>4, <1>7, <1>13
  <2>3. S # {} => pc'[t] = "notifyNext"
    BY <1>1, <1>3, <1>7, <1>13 DEF InOrder
  <2>4. S # {} => Notifiers' # {}
    BY <2>3 DEF Notifiers
  <2>5. pc'[t] # "notify"
    BY <1>1, <1>3
  <2> QED
    BY <2>1, <2>2, <2>4, <2>5 DEF Detached
<1> QED
  BY <1>2, <1>6, <1>11, <1>13, <1>14, <1>15, <1>16, Kept

\* A wait takes the post of its own semaphore.
LEMMA AwaitKeeps ==
  ASSUME NEW listed, NEW rest, NEW depth, NEW deep, Lists(listed, rest, depth, deep),
         EventInv', NEW t \in Threads, AwaitNotify(t)
  PROVE  ListInv'
<1>1. /\ pc[t] \in {"waiting", "inFlight"} /\ posted[t] > 0 /\ Types
      /\ Goto(t, "signaled") /\ "signaled" \in EventLabels
      /\ posted' = [posted EXCEPT ![t] = @ - 1]
      /\ UNCHANGED <<mWaiters, next, head, cached, current>>
  BY DEF AwaitNotify, EventLabels, ClientLabels, Lists, EventInv
<1>2. /\ EventInv /\ PostedOK /\ \A u \in Threads : CopyOK(u)
      /\ listed \in SUBSET Threads /\ rest \in SUBSET Threads
      /\ depth \in [Threads -> Int] /\ deep \in [Threads -> Int]
      /\ TwoLists(listed, rest) /\ Attached(listed, depth) /\ Detached(rest, deep)
  BY DEF Lists
<1>3. pc'[t] = "signaled" /\ (\A u \in Threads \ {t} : pc'[u] = pc[u]) /\ ~Awaits(t)'
  BY <1>1, Gone DEF RemoveLabels
<1>4. OwnLocals(t)
  BY <1>1, <1>3 DEF OwnLocals, Own
<1>5. CopyOK(t)' /\ \A u \in Threads \ {t} : CopyOK(u)'
  <2>1. CopyOK(t)' /\ mWaiters' \in Word
    BY <1>1, <1>3 DEF CopyOK, Types
  <2> QED
    BY <1>1, <1>2, <1>4, <2>1, CopiesKeep
<1>6. posted'[t] = 0 /\ \A u \in Threads \ {t} : posted'[u] = posted[u]
  BY <1>1, <1>2 DEF Types, PostedOK
<1>7. \A u \in Threads \ {t} : Awaits(u)' <=> Awaits(u)
  BY <1>3 DEF Awaits
<1>8. PostedOK'
  BY <1>2, <1>6, <1>7 DEF PostedOK
<1>9. Owed' = Owed
  BY <1>1, <1>3, <1>6, <1>7 DEF Owed
<1>10. TwoLists(listed, rest)'
  BY <1>2, <1>9 DEF TwoLists
<1>11. Attached(listed, depth)'
  BY <1>1, <1>2, <1>3 DEF Attached
<1>12. Detached(rest, deep)'
  <2>1. pc[t] \notin {"notifyNext", "notify"} /\ pc'[t] \notin {"notifyNext", "notify"}
    BY <1>1, <1>3
  <2> QED
    BY <1>1, <1>2, <1>4, <2>1, DetachedKeeps
<1> QED
  BY <1>2, <1>5, <1>8, <1>10, <1>11, <1>12, Kept

\* At the beginning both lists are empty.
LEMMA ListBegins == Init => ListInv
<1> SUFFICES ASSUME Init
             PROVE  ListInv
  OBVIOUS
<1>1. /\ mWaiters.ptr = Null /\ \A t \in Threads : pc[t] = "idle" /\ posted[t] = 0
  BY DEF Init, ListInit, ZeroWord
<1>2. PostedOK /\ \A t \in Threads : CopyOK(t)
  BY <1>1 DEF PostedOK, CopyOK
<1>3. PICK none \in SUBSET Threads : none = {}
  OBVIOUS
<1>4. TwoLists(none, none)
  BY <1>1, <1>3 DEF TwoLists, Owed, Awaits, RemoveLabels
<1>5. PICK depth : depth \in [Threads -> Int]
  <2>1. [t \in Threads |-> 0] \in [Threads -> Int]
    OBVIOUS
  <2> QED
    BY <2>1
<1>6. Attached(none, depth) /\ Detached(none, depth)
  BY <1>1, <1>3 DEF Attached, Detached, InOrder
<1> QED
  BY <1>2, <1>4, <1>5, <1>6, EventInit DEF ListInv

\* A step of AddWaiter.
LEMMA AddListKeeps ==
  ASSUME NEW listed, NEW rest, NEW depth, NEW deep, Lists(listed, rest, depth, deep),
         EventInv', NoWrap, NEW t \in Threads, AddWaiter(t)
  PROVE  ListInv'
<1>1. CASE AddLoad(t)
  BY <1>1, ReadsWord DEF AddLoad, StartRound
<1>2. CASE AddLink(t)
  BY <1>2, LinkKeeps
<1>3. CASE AddPush(t) /\ mWaiters = head[t]
  BY <1>3, PushKeeps
<1>4. CASE AddPush(t) /\ mWaiters # head[t]
  BY <1>4, ReadsWord DEF AddPush, CompareAndSwap
<1> QED
  BY <1>1, <1>2, <1>3, <1>4 DEF AddWaiter

\* A step of Set.
LEMMA SetListKeeps ==
  ASSUME NEW listed, NEW rest, NEW depth, NEW deep, Lists(listed, rest, depth, deep),
         EventInv', NoWrap, NEW t \in Threads, Set(t)
  PROVE  ListInv'
<1>1. CASE SetLoad(t)
  BY <1>1, ReadsWord DEF SetLoad, StartRound
<1>2. CASE SetSpin(t)
  BY <1>2, PlainMove DEF SetSpin
<1>3. CASE SetFlag(t) /\ mWaiters = head[t]
  BY <1>3, FlagKeeps
<1>4. CASE SetFlag(t) /\ mWaiters # head[t]
  BY <1>4, ReadsWord DEF SetFlag, CompareAndSwap
<1>5. CASE SetLock(t) /\ mWaiters = head[t]
  BY <1>5, DetachKeeps
<1>6. CASE SetLock(t) /\ mWaiters # head[t]
  <2>1. \A u \in Threads \ {t} : current'[u] = current[u]
    BY <1>6 DEF SetLock, Lists, EventInv, Types
  <2> QED
    BY <1>6, <2>1, ReadsWord DEF SetLock, CompareAndSwap
<1>7. CASE NotifyReadNext(t)
  BY <1>7, NotifyNextKeeps
<1>8. CASE NotifyCurrent(t)
  BY <1>8, NotifyKeeps
<1>9. CASE SetUnlock(t)
  BY <1>9, UnlockKeeps
<1> QED
  BY <1>1, <1>2, <1>3, <1>4, <1>5, <1>6, <1>7, <1>8, <1>9 DEF Set

\* A step of RemoveWaiter.
LEMMA RemoveListKeeps ==
  ASSUME NEW listed, NEW rest, NEW depth, NEW deep, Lists(listed, rest, depth, deep),
         EventInv', NoWrap, NEW t \in Threads, RemoveWaiter(t)
  PROVE  ListInv'
<1>1. CASE RemoveLoad(t)
  BY <1>1, ReadsWord DEF RemoveLoad
<1>2. CASE RemoveReadNext(t)
  BY <1>2, NextKeeps
<1>3. CASE RemovePop(t) /\ mWaiters = head[t]
  BY <1>3, PopKeeps
<1>4. CASE RemovePop(t) /\ mWaiters # head[t]
  BY <1>4, ReadsWord DEF RemovePop, CompareAndSwap
<1>5. CASE RemoveLock(t) /\ mWaiters = head[t]
  BY <1>5, LockKeeps
<1>6. CASE RemoveLock(t) /\ mWaiters # head[t]
  <2>1. \A u \in Threads \ {t} : current'[u] = current[u]
    BY <1>6 DEF RemoveLock, Lists, EventInv, Types
  <2> QED
    BY <1>6, <2>1, ReadsWord DEF RemoveLock, CompareAndSwap
<1>7. CASE RemoveScan(t)
  BY <1>7, ScanKeeps, UnlinkKeeps
<1>8. CASE RemoveUnlock(t)
  BY <1>8, UnlockKeeps
<1> QED
  BY <1>1, <1>2, <1>3, <1>4, <1>5, <1>6, <1>7, <1>8 DEF RemoveWaiter

\* Every step keeps both lists right as long as the tag does not wrap around.
LEMMA ListNext == ListInv /\ NoWrap /\ [Next]_eventVars => ListInv'
<1> SUFFICES ASSUME ListInv, NoWrap, [Next]_eventVars
             PROVE  ListInv'
  OBVIOUS
<1>1. PICK listed \in SUBSET Threads, rest \in SUBSET Threads,
           depth \in [Threads -> Int], deep \in [Threads -> Int] :
        Lists(listed, rest, depth, deep)
  BY DEF ListInv, Lists
<1>2. EventInv'
  BY EventNext DEF ListInv
<1>3. ASSUME NEW t \in Threads, Step(t)
      PROVE  ListInv'
  <2>1. CASE AddWaiter(t)
    BY <1>1, <1>2, <2>1, AddListKeeps
  <2>2. CASE Set(t)
    BY <1>1, <1>2, <2>2, SetListKeeps
  <2>3. CASE Reset(t)
    BY <1>1, <1>2, <2>3, ResetKeeps
  <2>4. CASE WaitReturns(t)
    BY <1>1, <1>2, <2>4, PlainMove DEF WaitReturns
  <2>5. CASE ListStep(t)
    <3>1. CASE AwaitNotify(t)
      BY <1>1, <1>2, <3>1, AwaitKeeps
    <3>2. CASE StartRemove(t)
      BY <1>1, <1>2, <3>2, PlainMove DEF StartRemove
    <3>3. CASE RemoveWaiter(t)
      BY <1>1, <1>2, <3>3, RemoveListKeeps
    <3> QED
      BY <2>5, <3>1, <3>2, <3>3 DEF ListStep
  <2> QED
    BY <1>3, <2>1, <2>2, <2>3, <2>4, <2>5 DEF Step
<1>4. CASE UNCHANGED eventVars
  <2>1. UNCHANGED <<mWaiters, next, posted, pc, head, cached, current>>
    BY <1>4 DEF eventVars, listVars
  <2>2. PostedOK' /\ Owed' = Owed
    BY <1>1, <2>1 DEF Lists, PostedOK, Owed, Awaits
  <2>3. \A t \in Threads : CopyOK(t)'
    BY <1>1, <2>1 DEF Lists, CopyOK
  <2>4. TwoLists(listed, rest)' /\ Attached(listed, depth)'
    BY <1>1, <2>1, <2>2 DEF Lists, TwoLists, Attached
  <2>5. Detached(rest, deep)'
    BY <1>1, <2>1 DEF Lists, Detached, Notifiers
  <2> QED
    BY <1>2, <2>2, <2>3, <2>4, <2>5 DEF ListInv
<1> QED
  BY <1>3, <1>4 DEF Next

-----------------------------------------------------------------------------
(* The theorems about the lists. *)
\* The waiters that are reached from p, when the links are in order.
LEMMA Reached ==
  ASSUME NEW S \in SUBSET Threads, NEW depth \in [Threads -> Int], NEW p,
         InOrder(depth, S, p, next)
  PROVE  Reach(p) = S
<1> DEFINE n == Cardinality(S)
           m == Cardinality(Threads)
<1>1. IsFiniteSet(S) /\ n \in Nat /\ m \in Nat /\ n <= m
  BY WaiterListAssumption, FS_Subset, FS_CardinalityType
<1>2. PICK q \in Seq(S) : /\ Len(q) = n /\ Follows(q, p, next)
                          /\ \A w \in S : \E i \in 1 .. Len(q) : q[i] = w
  BY <1>1, SequenceOf
<1>3. q \in Seq(Threads) /\ \A i \in 1 .. n : q[i] \in S
  BY <1>2
<1>4. \A k \in Nat : From(p)[k] = IF k < n THEN q[k + 1] ELSE Null
  BY <1>2, <1>3, FromVisits
<1> HIDE DEF n, m
<1>5. \A k \in 0 .. m : From(p)[k] \in S \cup {Null}
  <2>1. \A k \in 0 .. m : k \in Nat /\ (k < n => k + 1 \in 1 .. n)
    BY <1>1
  <2> QED
    BY <1>3, <1>4, <2>1
<1>6. ASSUME NEW w \in S
      PROVE  \E k \in 0 .. m : From(p)[k] = w
  <2>1. PICK i \in 1 .. n : q[i] = w
    BY <1>2
  <2>2. i - 1 \in Nat /\ i - 1 \in 0 .. m /\ i - 1 < n /\ (i - 1) + 1 = i
    BY <1>1
  <2>3. From(p)[i - 1] = q[i]
    BY <1>4, <2>2
  <2> QED
    BY <2>1, <2>2, <2>3
<1>7. Null \notin S
  BY WaiterListAssumption
<1> QED
  BY <1>5, <1>6, <1>7 DEF Reach, m

(* What NotifiedOnce rests on: while a Set notifies the waiters that it has *)
(* taken off the word, whatever waits, removals and resets do, both lists   *)
(* are in order and hold exactly the waiters that nobody has notified, for  *)
(* a tag that does not wrap around.                                         *)
THEOREM ListInvariance == Spec /\ []NoWrap => []ListInv
  BY ListBegins, ListNext, PTL DEF Spec

(* Each thread that waits is on the list, or with the one Set that has the  *)
(* lock bit, or has been notified once, and never two of these; a waiter    *)
(* that has been removed, and a wait that has returned, is nowhere and gets *)
(* no late notification.                                                    *)
THEOREM EachIsNotifiedOnce == Spec /\ []NoWrap => []NotifiedOnce
<1>1. ASSUME ListInv, NEW t \in Threads
      PROVE  PlacesOf(t) = IF Awaits(t) THEN 1 ELSE 0
  <2>1. PICK listed \in SUBSET Threads, rest \in SUBSET Threads,
             depth \in [Threads -> Int], deep \in [Threads -> Int] :
          Lists(listed, rest, depth, deep)
    BY <1>1 DEF ListInv, Lists
  <2>2. /\ EventInv /\ PostedOK /\ TwoLists(listed, rest)
        /\ Attached(listed, depth) /\ Detached(rest, deep)
    BY <2>1 DEF Lists
  <2>3. Reach(mWaiters.ptr) = listed
    BY <2>2, Reached DEF Attached
  <2>4. ASSUME NEW u \in Threads
        PROVE  StillToNotify(u) = IF u \in Notifiers THEN rest ELSE {}
    <3>1. CASE pc[u] = "notifyNext"
      <4>1. InOrder(deep, rest, current[u], next)
        BY <2>2, <3>1 DEF Detached
      <4>2. Reach(current[u]) = rest
        BY <4>1, Reached
      <4> QED
        BY <3>1, <4>2 DEF StillToNotify, Notifiers
    <3>2. CASE pc[u] = "notify"
      <4>1. PICK S \in SUBSET Threads : S = rest \ {current[u]}
        OBVIOUS
      <4>2. current[u] \in rest /\ InOrder(deep, S, cached[u], next)
        BY <2>2, <3>2, <4>1 DEF Detached
      <4>3. Reach(cached[u]) = S
        BY <4>2, Reached
      <4> QED
        BY <3>2, <4>1, <4>2, <4>3 DEF StillToNotify, Notifiers
    <3>3. CASE pc[u] \notin {"notifyNext", "notify"}
      BY <3>3 DEF StillToNotify, Notifiers
    <3> QED
      BY <3>1, <3>2, <3>3
  <2> DEFINE N == {u \in Threads : t \in StillToNotify(u)}
  <2>5. Cardinality(N) = IF t \in rest THEN 1 ELSE 0
    <3>1. CASE t \in rest
      <4>1. PICK u \in Threads : u \in Notifiers
        BY <2>2, <3>1 DEF Detached, Notifiers
      <4>2. \A v \in Threads : v \in Notifiers <=> v = u
        BY <2>2, <4>1 DEF EventInv, LockOK, HasLock, Notifiers
      <4>3. N = {u}
        BY <2>4, <3>1, <4>2
      <4> QED
        BY <3>1, <4>3, FS_Singleton
    <3>2. CASE t \notin rest
      <4>1. N = {}
        BY <2>4, <3>2
      <4> QED
        BY <3>2, <4>1, FS_EmptySet
    <3> QED
      BY <3>1, <3>2
  <2> HIDE DEF N
  <2>6. posted[t] \in Nat /\ (posted[t] > 0 => posted[t] = 1 /\ Awaits(t))
    BY <2>2 DEF PostedOK, EventInv, Types
  <2>7. /\ t \in listed \/ t \in rest <=> Awaits(t) /\ posted[t] = 0
        /\ ~(t \in listed /\ t \in rest)
    BY <2>2 DEF TwoLists, Owed
  <2>8. PlacesOf(t) = (IF t \in listed THEN 1 ELSE 0) + Cardinality(N) + posted[t]
    BY <2>3 DEF PlacesOf, N
  <2> QED
    BY <2>5, <2>6, <2>7, <2>8
<1>2. ListInv => NotifiedOnce
  BY <1>1 DEF NotifiedOnce
<1> QED
  BY <1>2, ListInvariance, PTL

=============================================================================
