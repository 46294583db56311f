----------------------------- MODULE LifoQueue ------------------------------
(***************************************************************************)
(* MPMCLifoList, a stack of nodes whose root word carries a tag, and its   *)
(* two users: MPMCLifoQueue, which has a list of nodes with a value and one*)
(* of nodes to be used again, and the allocator of waiters, which has the  *)
(* same list once more and a list per thread in front of it.  A node is    *)
(* never given back to the heap, but its next pointer is written by who has*)
(* it while another thread still reads it.                                 *)
(***************************************************************************)
EXTENDS Integers, Sequences, FiniteSets, SequencesExt

CONSTANTS
  Clients,      (* threads                                                   *)
  Nodes,        (* bound: what the heap has                                  *)
  NoNode,
  TagRange,     (* number of values of the tag: 2^16 in the 64-bit build     *)
  MaxUses       (* bound: calls made                                         *)

ASSUME LifoQueueAssumption ==
  /\ NoNode \notin Nodes /\ Clients \cap {"queue", "free", "global"} = {}
  /\ TagRange \in Nat \ {0} /\ MaxUses \in Nat

VARIABLES
  user,         (* "queue" or "allocator": what the lists are used for       *)
  mRoot,        (* per shared list                                           *)
  next,         (* per node                                                  *)
  localFree,    (* per thread: tWaiterFreeList                               *)
  allocated,    (* nodes that have come from the heap                        *)
  hands,        (* per thread: the nodes it has                              *)
  node,         (* per thread: the node it pushes                            *)
  at,           (* per thread: where it is                                   *)
  list,         (* per thread: the list it pushes to or pops from            *)
  oldRoot,      (* per thread: a local of Push and Pop                       *)
  oldNext,      (* per thread: what Pop has read by GetNext                  *)
  uses          (* calls made                                                *)

lifoVars ==
  <<user, mRoot, next, localFree, allocated, hands, node, at, list, oldRoot, oldNext, uses>>

SharedLists == {"queue", "free", "global"}

At(t, label) == at' = [at EXCEPT ![t] = label]

\* A bug: the tag stays as it is.
RootNoTag(p, old) == [ptr |-> p, aba |-> old.aba]

\* The root with pointer p, and ABA_ADDEND added to its tag; the carry is lost.
Root(p, old) == [ptr |-> p, aba |-> IF old.aba + 1 = TagRange THEN 0 ELSE old.aba + 1]

RootCompareAndSwap(t, p, success, retry) ==
  \/ /\ mRoot[list[t]] = oldRoot[t]
     /\ mRoot' = [mRoot EXCEPT ![list[t]] = Root(p, oldRoot[t])]
     /\ At(t, success)
     /\ UNCHANGED oldRoot
  \/ /\ mRoot[list[t]] # oldRoot[t]
     /\ oldRoot' = [oldRoot EXCEPT ![t] = mRoot[list[t]]]
     /\ At(t, retry)
     /\ UNCHANGED mRoot

-----------------------------------------------------------------------------
(* Pop and Push *)

Gain(t, n) ==
  /\ hands' = [hands EXCEPT ![t] = @ \cup {n}]
  /\ node' = [node EXCEPT ![t] = n]

PopBranch(root) == IF root.ptr = NoNode THEN "empty" ELSE "popNext"

PopLoad(t, l) ==
  /\ list' = [list EXCEPT ![t] = l]
  /\ oldRoot' = [oldRoot EXCEPT ![t] = mRoot[l]]
  /\ At(t, PopBranch(mRoot[l]))

PopNext(t) ==
  /\ at[t] = "popNext"
  /\ oldNext' = [oldNext EXCEPT ![t] = next[oldRoot[t].ptr]]
  /\ At(t, "popSwap")
  /\ UNCHANGED <<user, mRoot, next, localFree, allocated, hands, node, list, oldRoot, uses>>

PopSwap(t) ==
  /\ at[t] = "popSwap"
  /\ RootCompareAndSwap(t, oldNext[t], "popped", PopBranch(mRoot[list[t]]))
  /\ IF mRoot[list[t]] = oldRoot[t] THEN Gain(t, oldRoot[t].ptr) ELSE UNCHANGED <<hands, node>>
  /\ UNCHANGED <<user, next, localFree, allocated, list, oldNext, uses>>

PushLoad(t, l) ==
  /\ list' = [list EXCEPT ![t] = l]
  /\ oldRoot' = [oldRoot EXCEPT ![t] = mRoot[l]]
  /\ At(t, "pushNext")

PushNext(t) ==
  /\ at[t] = "pushNext"
  /\ next' = [next EXCEPT ![node[t]] = oldRoot[t].ptr]
  /\ At(t, "pushSwap")
  /\ UNCHANGED <<user, mRoot, localFree, allocated, hands, node, list, oldRoot, oldNext,
                 uses>>

PushSwap(t) ==
  /\ at[t] = "pushSwap"
  /\ RootCompareAndSwap(t, node[t], "idle", "pushNext")
  /\ hands' = IF mRoot[list[t]] = oldRoot[t] THEN [hands EXCEPT ![t] = @ \ {node[t]}] ELSE hands
  /\ UNCHANGED <<user, node, next, localFree, allocated, list, oldNext, uses>>

\* A node from the heap.
Allocate(t) ==
  /\ \E n \in Nodes \ allocated :
       /\ allocated' = allocated \cup {n}
       /\ Gain(t, n)
  /\ At(t, "popped")

StartUse(t) ==
  /\ at[t] = "idle" /\ uses < MaxUses
  /\ uses' = uses + 1

-----------------------------------------------------------------------------
(* MPMCLifoQueue *)

QueuePush(t) ==
  /\ user = "queue" /\ StartUse(t)
  /\ PopLoad(t, "free")
  /\ UNCHANGED <<user, mRoot, next, localFree, allocated, hands, node, oldNext>>

NewNode(t) ==
  /\ user = "queue" /\ at[t] = "empty" /\ list[t] = "free"
  /\ Allocate(t)
  /\ UNCHANGED <<user, mRoot, next, localFree, list, oldRoot, oldNext, uses>>

\* The value is there: node->next = nullptr, and the node goes to the queue.
ClearNext(t) ==
  /\ user = "queue" /\ at[t] = "popped" /\ list[t] = "free"
  /\ next' = [next EXCEPT ![node[t]] = NoNode]
  /\ At(t, "filled")
  /\ UNCHANGED <<user, mRoot, localFree, allocated, hands, node, list, oldRoot, oldNext,
                 uses>>

PushFilled(t) ==
  /\ at[t] = "filled"
  /\ PushLoad(t, "queue")
  /\ UNCHANGED <<user, mRoot, next, localFree, allocated, hands, node, oldNext, uses>>

TryPop(t) ==
  /\ user = "queue" /\ StartUse(t)
  /\ PopLoad(t, "queue")
  /\ UNCHANGED <<user, mRoot, next, localFree, allocated, hands, node, oldNext>>

TryPopFails(t) ==
  /\ user = "queue" /\ at[t] = "empty" /\ list[t] = "queue"
  /\ At(t, "idle")
  /\ UNCHANGED <<user, mRoot, next, localFree, allocated, hands, node, list, oldRoot, oldNext,
                 uses>>

\* The value has been moved out of the node.
PushFree(t) ==
  /\ user = "queue" /\ at[t] = "popped" /\ list[t] = "queue"
  /\ PushLoad(t, "free")
  /\ UNCHANGED <<user, mRoot, next, localFree, allocated, hands, node, oldNext, uses>>

-----------------------------------------------------------------------------
(* Waiter::Allocate and Free, AllocateGlobal and FreeGlobal *)

AllocateWaiter(t) ==
  /\ user = "allocator" /\ StartUse(t)
  /\ \/ /\ localFree[t] # NoNode
        /\ Gain(t, localFree[t])
        /\ localFree' = [localFree EXCEPT ![t] = next[@]]
        /\ UNCHANGED <<at, list, oldRoot>>
     \/ /\ localFree[t] = NoNode
        /\ PopLoad(t, "global")
        /\ UNCHANGED <<hands, node, localFree>>
  /\ UNCHANGED <<user, mRoot, next, allocated, oldNext>>

AllocateGlobal(t) ==
  /\ user = "allocator"
  /\ \/ at[t] = "empty" /\ Allocate(t)
     \/ at[t] = "popped" /\ At(t, "idle") /\ UNCHANGED <<allocated, hands, node>>
  /\ UNCHANGED <<user, mRoot, next, localFree, list, oldRoot, oldNext, uses>>

\* A waiter that is destroyed when it is notified is freed by the notifying thread.
FreeWaiter(t) ==
  /\ user = "allocator" /\ StartUse(t)
  /\ \E u \in Clients : \E n \in hands[u] :
       /\ at[u] = "idle" \/ node[u] # n
       /\ next' = [next EXCEPT ![n] = localFree[t]]
       /\ localFree' = [localFree EXCEPT ![t] = n]
       /\ hands' = [hands EXCEPT ![u] = @ \ {n}]
  /\ UNCHANGED <<user, mRoot, allocated, node, at, list, oldRoot, oldNext>>

FreeGlobal(t) ==
  /\ user = "allocator" /\ StartUse(t)
  /\ \E n \in hands[t] : node' = [node EXCEPT ![t] = n]
  /\ PushLoad(t, "global")
  /\ UNCHANGED <<user, mRoot, next, localFree, allocated, hands, oldNext>>

-----------------------------------------------------------------------------
LifoInit ==
  /\ user \in {"queue", "allocator"}
  /\ mRoot = [l \in SharedLists |-> [ptr |-> NoNode, aba |-> 0]]
  /\ next = [n \in Nodes |-> NoNode]
  /\ localFree = [t \in Clients |-> NoNode]
  /\ allocated = {}
  /\ hands = [t \in Clients |-> {}]
  /\ node = [t \in Clients |-> NoNode]
  /\ at = [t \in Clients |-> "idle"]
  /\ list = [t \in Clients |-> "free"]
  /\ oldRoot = [t \in Clients |-> [ptr |-> NoNode, aba |-> 0]]
  /\ oldNext = [t \in Clients |-> NoNode]
  /\ uses = 0

LifoNext == \E t \in Clients :
  \/ PopNext(t) \/ PopSwap(t) \/ PushNext(t) \/ PushSwap(t)
  \/ QueuePush(t) \/ NewNode(t) \/ ClearNext(t) \/ PushFilled(t)
  \/ TryPop(t) \/ TryPopFails(t) \/ PushFree(t)
  \/ AllocateWaiter(t) \/ AllocateGlobal(t) \/ FreeWaiter(t) \/ FreeGlobal(t)

LifoSpec == LifoInit /\ [][LifoNext]_lifoVars

-----------------------------------------------------------------------------
\* The nodes of the list that begins with p; a list that runs in a circle is cut off.
NodesFrom(p) ==
  LET R[k \in 0 .. Cardinality(Nodes)] ==
        IF k = 0 THEN <<p>>
        ELSE IF Last(R[k - 1]) = NoNode THEN R[k - 1] ELSE Append(R[k - 1], next[Last(R[k - 1])])
  IN  Front(R[Cardinality(Nodes)])

Stack == INSTANCE LifoStack WITH
  Lists <- SharedLists \cup Clients,
  stacks <- [l \in SharedLists \cup Clients |->
              NodesFrom(IF l \in Clients THEN localFree[l] ELSE mRoot[l].ptr)]

(* Each list is a stack and each node has one owner, with any interleaving  *)
(* of pushes and pops that read the root, follow or write a next pointer    *)
(* and swap the root: also if the node at the root has been popped, used    *)
(* and pushed again between the read and the swap.                          *)
IsLifoStack == Stack!Spec

=============================================================================
