----------------------------- MODULE ObjectPool -----------------------------
(***************************************************************************)
(* srp::ObjectPool (srpsamples_segmented.hpp:52-81, .cpp:16-111): a fixed  *)
(* array of nodes, each with a memory segment, threaded on two intrusive   *)
(* linked structures:                                                      *)
(*   - the "source stack" of free nodes: top_entry_ and the snext links;   *)
(*   - the "dest queue" of filled nodes: head_entry_, tail_entry_, the     *)
(*     qnext links and the element counter q_size_.                        *)
(*                                                                         *)
(* Every operator below is one step of one of the four operations (GetOne, *)
(* push, pop, Reclaim): one access to memory the other thread also uses.   *)
(* The module that owns the threads strings the steps together.            *)
(*                                                                         *)
(* The pool has one thread on each side: only the feed thread calls push   *)
(* and GetOne, only the data thread calls pop and Reclaim.  A read or a    *)
(* compare-exchange of a word the other side never writes is therefore     *)
(* merged with the next shared access.  A spurious failure of              *)
(* compare_exchange_weak reloads the value it compared with: a stutter.    *)
(***************************************************************************)
EXTENDS Integers, Sequences

CONSTANTS
  NumNodes,  \* nodes_.size()
  CntMod     \* values of the 32-bit counter external_cnt before it wraps

ASSUME PoolAssumption ==
  /\ NumNodes \in Nat
  /\ CntMod \in Nat \ {0}

VARIABLES
  snext,        \* snext of each node: the free node below it
  qnext,        \* qnext of each node: the queued node after it
  top_entry_,
  head_entry_,
  tail_entry_,
  q_size_

stackVars == <<snext, top_entry_>>
queueVars == <<qnext, head_entry_, tail_entry_, q_size_>>
poolVars  == <<stackVars, queueVars>>

-----------------------------------------------------------------------------
Null == -1                     \* node_idx of "no node"
Node == 0 .. NumNodes - 1

(***************************************************************************)
(* The queue starts with head and tail at node_idx -1, and the first push  *)
(* stores through nodes_[-1].qnext, the first pop reads it back.  That     *)
(* word, just before the array, is Slot -1 here.                           *)
(***************************************************************************)
Slot == Node \cup {Null}

CountPtr == [cnt : 0 .. CntMod - 1, idx : Slot]

\* CountPtr(): external_cnt 1, node_idx -1.
NoPtr == [cnt |-> 1 % CntMod, idx |-> Null]

\* ++external_cnt on a copy.
Bump(p) == [p EXCEPT !.cnt = (@ + 1) % CntMod]

(***************************************************************************)
(* The pool after its constructor and `taken` calls of GetOne: node i was  *)
(* stacked on node i-1, so the calls took the highest nodes.               *)
(***************************************************************************)
PoolInit(taken) ==
  /\ snext = [i \in Node |-> [cnt |-> 1 % CntMod, idx |-> i - 1]]
  /\ qnext = [i \in Slot |-> NoPtr]
  /\ top_entry_ = [cnt |-> 1 % CntMod, idx |-> NumNodes - 1 - taken]
  /\ head_entry_ = NoPtr
  /\ tail_entry_ = NoPtr
  /\ q_size_ = 0

\* What the k-th (from 0) of those calls returned.
InitiallyTaken(k) == [cnt |-> 2 % CntMod, idx |-> NumNodes - 1 - k]

-----------------------------------------------------------------------------
(* push(nd), feed thread.                                                  *)

\* nodes_[old_tail.node_idx].qnext = nd
PushLink(nd) ==
  /\ qnext' = [qnext EXCEPT ![tail_entry_.idx] = Bump(nd)]
  /\ UNCHANGED <<stackVars, head_entry_, tail_entry_, q_size_>>

\* The compare-exchange of tail_entry_ expects nodes_[nd.node_idx].qnext...
PushSwing(nd) ==
  /\ tail_entry_ = qnext[nd.idx]
  /\ tail_entry_' = Bump(nd)
  /\ UNCHANGED <<stackVars, qnext, head_entry_, q_size_>>

\* ...and its failure overwrites that link with the tail it found.
PushRetry(nd) ==
  /\ tail_entry_ # qnext[nd.idx]
  /\ qnext' = [qnext EXCEPT ![nd.idx] = tail_entry_]
  /\ UNCHANGED <<stackVars, head_entry_, tail_entry_, q_size_>>

PushCount ==
  /\ q_size_' = q_size_ + 1
  /\ UNCHANGED <<stackVars, qnext, head_entry_, tail_entry_>>

-----------------------------------------------------------------------------
(* pop(), data thread; its caller has seen queue_size() >= 1.              *)

\* head_entry_ moves on to what qnext of the old head holds.
PopSwing ==
  /\ head_entry_' = qnext[head_entry_.idx]
  /\ UNCHANGED <<stackVars, qnext, tail_entry_, q_size_>>

PopCount ==
  /\ q_size_' = q_size_ - 1
  /\ UNCHANGED <<stackVars, qnext, head_entry_, tail_entry_>>

\* The result is a second read of the old head's link, after the exchange.
PopResult(old_head) == qnext[old_head.idx]

-----------------------------------------------------------------------------
(* GetOne(), feed thread.                                                  *)

\* IncreaseEntryCnt: the top entry's counter goes up; the new entry is the result.
IncreaseEntryCnt ==
  /\ top_entry_' = Bump(top_entry_)
  /\ UNCHANGED <<snext, queueVars>>

\* The exchange that takes `old` off the stack leaves `below`, read before it.
TakeTop(old, below) ==
  /\ top_entry_ = old
  /\ top_entry_' = below
  /\ UNCHANGED <<snext, queueVars>>

-----------------------------------------------------------------------------
(* Reclaim(nd), data thread.  The link first stored serves only as the     *)
(* value the exchange expects to find on top.  A null entry, which Reclaim *)
(* would ignore, has ended the process before it gets here.                *)

ReclaimLink(nd) ==
  /\ snext' = [snext EXCEPT ![nd.idx] = top_entry_]
  /\ UNCHANGED <<top_entry_, queueVars>>

\* Mutant: the exchange is a plain store.
ReclaimStore(nd) ==
  /\ top_entry_' = nd
  /\ UNCHANGED <<snext, queueVars>>

ReclaimSwing(nd) ==
  /\ top_entry_ = snext[nd.idx]
  /\ top_entry_' = nd
  /\ UNCHANGED <<snext, queueVars>>

\* The failed exchange stores the top it found in the node's link.
ReclaimRetry(nd) ==
  /\ top_entry_ # snext[nd.idx]
  /\ ReclaimLink(nd)

-----------------------------------------------------------------------------
(* size(): the code takes the top node's index for the stack's depth.      *)
PoolSize == (NumNodes - 1) - top_entry_.idx

PoolTypeOK ==
  /\ snext \in [Node -> CountPtr]
  /\ qnext \in [Slot -> CountPtr]
  /\ top_entry_ \in CountPtr
  /\ head_entry_ \in CountPtr
  /\ tail_entry_ \in CountPtr
  /\ q_size_ \in Nat

(***************************************************************************)
(* What the links say, for the properties: the nodes met from `first` on,  *)
(* Null from the end of the list on; the free nodes from the top down      *)
(* (more than NumNodes of them are a cycle); the head of the queue and the *)
(* n nodes behind it.                                                      *)
(***************************************************************************)
LinkWalk(first, links, n) ==
  LET walk[k \in 0 .. n] ==
        IF k = 0 THEN first
        ELSE IF walk[k - 1] \in DOMAIN links THEN links[walk[k - 1]].idx ELSE Null
  IN  walk

FreeWalk == LinkWalk(top_entry_.idx, snext, NumNodes)

QueuedNodes(n) == [k \in 1 .. n |-> LinkWalk(head_entry_.idx, qnext, n)[k]]

=============================================================================
