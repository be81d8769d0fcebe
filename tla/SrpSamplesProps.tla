--------------------------- MODULE SrpSamplesProps ---------------------------
(***************************************************************************)
(* Properties of SrpSamplesSegmented.                                      *)
(***************************************************************************)
EXTENDS SrpSamplesSegmented

(***************************************************************************)
(* Type invariant.                                                         *)
(***************************************************************************)
TypeOK ==
  /\ PoolTypeOK
  /\ seg \in [Node -> Segment]
  /\ cPtr \in [Channels -> CountPtr]
  /\ inSmps \in [Channels -> Nat]
  /\ coSamples \in [Channels -> Seq([seq : Nat, len : 0 .. SegSize])]
  /\ ready_ \in BOOLEAN
  /\ acqDone \in BOOLEAN
  /\ fault \in Faults
  /\ fpc \in FeedPoints
  /\ feedCh \in 0 .. 255
  /\ feedNum \in Nat
  /\ feedOld \in CountPtr
  /\ feedNext \in CountPtr
  /\ dpc \in DataPoints
  /\ dataOldHead \in CountPtr
  /\ dataPtr \in CountPtr

-----------------------------------------------------------------------------
\* append_analog has pushed channel c's block and not yet replaced it.
Rolled(c) ==
  c = feedCh /\ fpc \in {"get_incr", "get_next", "get_take", "set"}

\* The node being filled by channel c, Null between push and GetOne.
HeldNode(c) ==
  IF ~Rolled(c) THEN cPtr[c].idx ELSE IF fpc = "set" THEN feedOld.idx ELSE Null

\* The nodes pop has not returned yet, and the one it has.
PendingNodes ==
  CASE dpc \in {"pop_count", "pop_result"} ->
         <<qnext[dataOldHead.idx].idx>> \o
         QueuedNodes(IF dpc = "pop_count" THEN q_size_ - 1 ELSE q_size_)
    [] dpc = "compress" -> <<dataPtr.idx>> \o QueuedNodes(q_size_)
    [] OTHER -> QueuedNodes(q_size_)

\* Compressed, and on its way back to the stack.
Returning(n) == dpc \in {"reclaim_link", "reclaim_swing"} /\ n = dataPtr.idx

\* Where node n is: at a depth of the stack, in a channel, at a position of those pending.
Places(n) ==
  {<<"free", k>> : k \in {j \in 0 .. NumNodes : FreeWalk[j] = n}}
  \cup {<<"held", c>> : c \in {ch \in Channels : HeldNode(ch) = n}}
  \cup {<<"pending", k>> : k \in {j \in DOMAIN PendingNodes : PendingNodes[j] = n}}
  \cup {<<"returning", k>> : k \in {j \in {0} : Returning(n)}}

(***************************************************************************)
(* Every node of the pool is in exactly one place: free, being filled by   *)
(* one channel, waiting for or under compression, or on its way back.  A   *)
(* node in two places is a segment one thread overwrites while the other   *)
(* compresses it, or two channels share; a node in none is lost to the     *)
(* pool.  And what channels fill and pop returns are nodes.                *)
(***************************************************************************)
OnePlacePerNode ==
  fault = "none" =>
    /\ \A n \in Node : Cardinality(Places(n)) = 1
    /\ \A c \in Channels : Rolled(c) \/ HeldNode(c) \in Node
    /\ \A k \in DOMAIN PendingNodes : PendingNodes[k] \in Node

(***************************************************************************)
(* A pushed block never waits without a signal: if the data thread is      *)
(* about to block on ready_ while the queue holds a block, the flag is up, *)
(* or the feed thread is still between push and test_and_set.              *)
(***************************************************************************)
NoLostWakeup ==
  (fault = "none" /\ dpc \in {"check", "wait"} /\ q_size_ > 0) =>
     ready_ \/ fpc \in {"get_incr", "get_next", "get_take", "set", "signal"}

(***************************************************************************)
(* While the data thread keeps up only the feed thread dereferences a null *)
(* segment, and only when GetOne has found the stack empty.                *)
(***************************************************************************)
NullByFeedOnly == fault = "null_block" => fpc = "set" /\ feedOld.idx = Null

(***************************************************************************)
(* The uncaught overflow_error of write_data needs a packet larger than a  *)
(* whole segment: a packet that only overruns the segment in progress gets *)
(* a new one first, whatever the data thread does to the pool meanwhile.   *)
(***************************************************************************)
OverflowByPacket == fault = "overflow_error" => InSize(feedNum) > SegSize

\* The first sample of channel c's block in progress.
NextSeq(c) ==
  IF Rolled(c) THEN inSmps[c] ELSE seg[cPtr[c].idx].smpsSeq

\* The block on node n.
Block(n) == [ch |-> seg[n].chIdx, seq |-> seg[n].smpsSeq, len |-> seg[n].wrPos]

PendingBlocks == [k \in DOMAIN PendingNodes |-> Block(PendingNodes[k])]

Stream == INSTANCE SampleStream WITH
  Streams <- Channels,
  BlockSizes <- 0 .. SegSize,
  SampleSize <- SizeofFloat,
  pending <- PendingBlocks,
  stored <- coSamples,
  nextSeq <- [c \in Channels |-> NextSeq(c)]

(***************************************************************************)
(* The acquisition implements SampleStream: the blocks of a channel are    *)
(* stored each once, in the order they were filled, with no sample between *)
(* them missing, whatever the interleaving of the two threads.             *)
(***************************************************************************)
StreamSpec == Stream!Spec

\* The sample after those of block b; sample n of its channel is in b.
After(b) == b.seq + b.len \div SizeofFloat
Covers(b, n) == b.seq <= n /\ n < After(b)

\* Where sample n of channel c is: a stored block, a pending one, the segment in progress.
Homes(c, n) ==
  {<<"stored", k>> : k \in {j \in DOMAIN coSamples[c] : Covers(coSamples[c][j], n)}}
  \cup {<<"pending", k>> : k \in {j \in DOMAIN PendingBlocks :
           PendingBlocks[j].ch = c /\ Covers(PendingBlocks[j], n)}}
  \cup {<<"filling", k>> : k \in {j \in {0} : ~Rolled(c) /\ Covers(Block(cPtr[c].idx), n)}}

(***************************************************************************)
(* Every sample fed is in exactly one place.  What feed_end leaves behind  *)
(* is therefore what is pending and what the segments in progress hold:    *)
(* nothing else is missing from the blocks Python finds, and nothing is in *)
(* two of them.                                                            *)
(***************************************************************************)
EverySampleOnce ==
  fault = "none" =>
    \A c \in Channels : \A n \in 0 .. inSmps[c] - 1 : Cardinality(Homes(c, n)) = 1

\* The blocks the data thread owes: q_size_ of them and the one it has taken.
BlocksOwed ==
  q_size_ + (IF dpc \in {"pop_result", "compress", "reclaim_link", "reclaim_swing"} THEN 1 ELSE 0)

(***************************************************************************)
(* GetOne finds the stack empty only when the data thread is behind by all *)
(* the nodes but those the channels hold: 9 segments of each channel, with *)
(* BUF_FAC of 10.  The count q_size_ and the links never disagree by a     *)
(* node, so none leaks from the pool in a long acquisition.                *)
(***************************************************************************)
DryPoolIsOwed ==
  (fault = "none" /\ top_entry_.idx = Null) =>
     BlocksOwed + Cardinality({c \in Channels : HeldNode(c) # Null}) = NumNodes

-----------------------------------------------------------------------------
\* The block of channel c that starts with sample n waits to be stored; is stored.
Waiting(c, n) ==
  \E k \in DOMAIN PendingBlocks : PendingBlocks[k].ch = c /\ PendingBlocks[k].seq = n

Stored(c, n) == \E k \in DOMAIN coSamples[c] : coSamples[c][k].seq = n

(***************************************************************************)
(* Every block the feed thread has pushed is stored at some time, unless   *)
(* the acquisition ends first or the process fails.                        *)
(***************************************************************************)
BlocksGetStored ==
  \A c \in Channels, n \in 0 .. MaxSamples :
     Waiting(c, n) ~> Stored(c, n) \/ acqDone \/ fault # "none"

(***************************************************************************)
(* A datafeed callback returns to libsigrok: no loop of push or GetOne     *)
(* spins for ever against the other thread's reclaims.                     *)
(***************************************************************************)
CallbackReturns ==
  fpc = "push_link" ~> fpc \in {"idle"} \/ fault # "none"

(***************************************************************************)
(* After feed_end the data thread ends, so the destructor's join returns.  *)
(***************************************************************************)
DataThreadEnds ==
  fpc = "done" ~> dpc = "ended" \/ fault # "none"

-----------------------------------------------------------------------------
(* Statements of the code's comments and messages that the code refutes.   *)

(***************************************************************************)
(* srpsamples_segmented.hpp:30: status_ says "READY to read, block is      *)
(* full".  The data thread only compresses such blocks.                    *)
(***************************************************************************)
ReadsReadyBlocks ==
  dpc = "compress" /\ dataPtr.idx # Null => seg[dataPtr.idx].status

(***************************************************************************)
(* srpsamples_segmented.cpp:234-236: an exhausted pool ends the process    *)
(* with "BUFFER OVERFLOW: Mem pool exausted", not with a null segment.     *)
(***************************************************************************)
ExhaustionReported == ~(fault = "null_block" /\ fpc = "set")
=============================================================================
