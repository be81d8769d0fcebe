--------------------------- MODULE SrpPoolProofs ---------------------------
(***************************************************************************)
(* What the pool's links and the two threads' locals say about the nodes   *)
(* while the data thread keeps up with the driver: no node is in two       *)
(* places, none is lost, and pop never returns anything but a block of a   *)
(* channel.                                                                *)
(*                                                                         *)
(* The invariant says that rigid values exist which explain the state:     *)
(*   F, m       the free nodes: F[m] on top, F[1] at the bottom, F[0] Null *)
(*   C, h, t    the nodes ever pushed: C[h] is where the head stands,      *)
(*              C[t] where the tail does                                   *)
(*   kind, pos  the place of each node                                     *)
(* A push extends C, a pop moves h, a reclaim extends F, a GetOne lowers   *)
(* m; no step renumbers anything.                                          *)
(***************************************************************************)
EXTENDS SrpSamplesProofs, FiniteSetTheorems

Kinds == {"free", "held", "queued", "hand"}

\* The rigid values are of these types.
Explains(F, m, C, h, t, kind, pos) ==
  /\ F \in [Nat -> Slot] /\ m \in Nat
  /\ C \in [Nat -> Slot] /\ h \in Nat /\ t \in Nat
  /\ kind \in [Node -> Kinds] /\ pos \in [Node -> Int]

\* The source stack.
StackShape(F, m) ==
  /\ F[0] = Null
  /\ top_entry_.idx = F[m]
  /\ \A i \in 1 .. m : F[i] \in Node /\ snext[F[i]].idx = F[i - 1]

\* The last node of the queue that push has counted.
Counted(t) == IF fpc = "push_count" THEN t - 1 ELSE t

\* The dest queue.
QueueShape(C, h, t) ==
  /\ h <= Counted(t)
  /\ head_entry_.idx = C[h] /\ tail_entry_.idx = C[t]
  /\ \A k \in h .. t - 1 : qnext[C[k]].idx = C[k + 1]
  /\ \A k \in h + 1 .. t : C[k] \in Node /\ C[k] # C[h]
  /\ q_size_ = Counted(t) - h + (IF dpc = "pop_count" THEN 1 ELSE 0)

\* The data thread has taken a block off the queue and not yet given its node back.
InHand ==
  dpc \in {"pop_count", "pop_result", "compress", "reclaim_link", "reclaim_swing"}

\* The data thread: the block in hand is the one the head stands on.
PopShape(C, h, t) ==
  /\ dpc \in {"pop_count", "pop_result"} =>
       /\ qnext[dataOldHead.idx].idx = C[h]
       /\ \A k \in h .. t : C[k] # dataOldHead.idx
  /\ dpc \in {"compress", "reclaim_link", "reclaim_swing"} => dataPtr.idx = C[h]
  /\ InHand => C[h] \in Node

\* The feed thread in push; what DriverPace gave it.
PushShape(C, t) ==
  /\ fpc = "push_swing" => qnext[tail_entry_.idx].idx = cPtr[feedCh].idx
  /\ fpc = "push_count" => C[t] = cPtr[feedCh].idx
  /\ fpc \in {"push_link", "push_swing"} => cPtr[feedCh].idx \notin QueueStandsOn
  /\ fpc \in {"push_link", "push_swing", "push_count"} => seg[cPtr[feedCh].idx].status

\* The feed thread in GetOne: what it has read of a free node still holds.
GetShape(kind) ==
  /\ fpc \in {"get_next", "get_take"} => kind[feedOld.idx] = "free"
  /\ fpc = "get_take" => feedNext = snext[feedOld.idx]

\* Each place holds the node that kind and pos put there...
PlacedShape(F, m, C, h, t, kind, pos) ==
  /\ \A i \in 1 .. m : kind[F[i]] = "free" /\ pos[F[i]] = i
  /\ \A c \in Channels :
       HeldNode(c) \in Node => kind[HeldNode(c)] = "held" /\ pos[HeldNode(c)] = c
  /\ \A k \in h + 1 .. Counted(t) : kind[C[k]] = "queued" /\ pos[C[k]] = k
  /\ InHand => kind[C[h]] = "hand"

\* ...and no node is put anywhere else.
FoundShape(F, m, C, h, t, kind, pos) ==
  \A n \in Node :
    /\ kind[n] = "free" => pos[n] \in 1 .. m /\ F[pos[n]] = n
    /\ kind[n] = "held" => pos[n] \in Channels /\ HeldNode(pos[n]) = n
    /\ kind[n] = "queued" => pos[n] \in h + 1 .. Counted(t) /\ C[pos[n]] = n
    /\ kind[n] = "hand" => InHand /\ C[h] = n

\* Every channel has a node to fill.
HoldShape == \A c \in Channels : Rolled(c) \/ HeldNode(c) \in Node

\* What is written on the segments.
SegmentShape(kind) ==
  /\ \A n \in Node : kind[n] \in {"queued", "hand"} =>
       seg[n].chIdx \in Channels /\ seg[n].status
  /\ \A c \in Channels : ~Rolled(c) =>
       LET s == seg[cPtr[c].idx]
       IN  /\ s.chIdx = c
           /\ s.wrPos % SizeofFloat = 0
           /\ s.smpsSeq + s.wrPos \div SizeofFloat = inSmps[c]

Shape(F, m, C, h, t, kind, pos) ==
  /\ StackShape(F, m)
  /\ QueueShape(C, h, t)
  /\ PopShape(C, h, t)
  /\ PushShape(C, t)
  /\ GetShape(kind)
  /\ PlacedShape(F, m, C, h, t, kind, pos)
  /\ FoundShape(F, m, C, h, t, kind, pos)
  /\ HoldShape
  /\ SegmentShape(kind)

\* The inductive invariant.
ShapeInv ==
  \E F, m, C, h, t, kind, pos :
     Explains(F, m, C, h, t, kind, pos) /\ Shape(F, m, C, h, t, kind, pos)


\* A state with rigid values that explain it.
Explained(F, m, C, h, t, kind, pos) ==
  TypeInv /\ Explains(F, m, C, h, t, kind, pos) /\ Shape(F, m, C, h, t, kind, pos)

-----------------------------------------------------------------------------
(* What the proofs below need of the types.                                *)

LEMMA PoolTypes ==
  ASSUME TypeInv
  PROVE  /\ snext \in [Node -> CountPtr]
         /\ qnext \in [Slot -> CountPtr]
         /\ top_entry_ \in CountPtr /\ head_entry_ \in CountPtr /\ tail_entry_ \in CountPtr
         /\ cPtr \in [Channels -> CountPtr]
         /\ feedOld \in CountPtr /\ dataOldHead \in CountPtr /\ dataPtr \in CountPtr
         /\ q_size_ \in Nat
         /\ InCallback => feedCh \in Channels
  BY DEF TypeInv, TypeOK, PoolTypeOK, CallbackChannel

LEMMA IndexTypes ==
  /\ Node \subseteq Slot /\ Null \in Slot /\ Null \notin Node /\ Slot \subseteq Int
  /\ \A p \in CountPtr : p.idx \in Slot /\ Bump(p) \in CountPtr /\ Bump(p).idx = p.idx
<1>1. NumNodes \in Nat
  BY PoolAssumption
<1> QED BY <1>1, PointerTypes DEF Slot, Node, Null

-----------------------------------------------------------------------------
(* Steps that move one of the threads between two points the invariant     *)
(* does not tell apart.                                                    *)

QuietFeed == {"new", "idle", "signal", "write", "end_signal", "done"}
QuietData == {"none", "check", "wait", "clear", "size", "pop_swing", "ended"}

LEMMA QuietShape ==
  ASSUME NEW F, NEW m, NEW C, NEW h, NEW t, NEW kind, NEW pos,
         Explained(F, m, C, h, t, kind, pos),
         UNCHANGED <<poolVars, segVars, feedOld, feedNext, dataOldHead, dataPtr>>,
         UNCHANGED <<fpc, feedCh>> \/ {fpc, fpc'} \subseteq QuietFeed,
         UNCHANGED dpc \/ {dpc, dpc'} \subseteq QuietData
  PROVE  Shape(F, m, C, h, t, kind, pos)'
<1> USE DEF Explained, Shape
<1>1. UNCHANGED <<snext, top_entry_, qnext, head_entry_, tail_entry_, q_size_, seg, cPtr, inSmps>>
  BY DEF poolVars, stackVars, queueVars, segVars
<1>2. \A c \in Channels : HeldNode(c)' = HeldNode(c) /\ Rolled(c)' = Rolled(c)
  BY <1>1 DEF HeldNode, Rolled, QuietFeed
<1>3. Counted(t)' = Counted(t) /\ InHand' = InHand /\ QueueStandsOn' = QueueStandsOn
  BY <1>1 DEF Counted, InHand, QueueStandsOn, QuietFeed, QuietData
<1>4. StackShape(F, m)'
  BY <1>1 DEF StackShape
<1>5. QueueShape(C, h, t)'
  BY <1>1, <1>3 DEF QueueShape, QuietData
<1>6. PopShape(C, h, t)'
  BY <1>1, <1>3 DEF PopShape, QuietData
<1>7. PushShape(C, t)'
  BY <1>1, <1>3 DEF PushShape, QuietFeed
<1>8. GetShape(kind)'
  BY <1>1 DEF GetShape, QuietFeed
<1>9. PlacedShape(F, m, C, h, t, kind, pos)'
  BY <1>2, <1>3 DEF PlacedShape
<1>10. FoundShape(F, m, C, h, t, kind, pos)'
  BY <1>2, <1>3 DEF FoundShape
<1>11. HoldShape' /\ SegmentShape(kind)'
  BY <1>1, <1>2 DEF HoldShape, SegmentShape
<1> QED BY <1>4, <1>5, <1>6, <1>7, <1>8, <1>9, <1>10, <1>11

-----------------------------------------------------------------------------
(* push(nd), feed thread.                                                  *)

\* append_analog seals the segment in progress; DriverPace speaks here.
LEMMA RollsShape ==
  ASSUME KeepsUp,
         NEW F, NEW m, NEW C, NEW h, NEW t, NEW kind, NEW pos,
         Explained(F, m, C, h, t, kind, pos),
         NEW c \in Channels, NEW n \in PktSizes, AppendRolls(c, n)
  PROVE  Shape(F, m, C, h, t, kind, pos)'
<1> USE DEF Explained, Shape
<1>1. /\ UNCHANGED <<snext, top_entry_, qnext, head_entry_, tail_entry_, q_size_, cPtr, inSmps,
                     dpc, dataOldHead, dataPtr>>
      /\ fpc = "idle" /\ fpc' = "push_link" /\ feedCh' = c
      /\ cPtr[c].idx \notin QueueStandsOn
      /\ seg' = [seg EXCEPT ![cPtr[c].idx].status = TRUE]
  BY DEF AppendRolls, FeedAt, Packet, DriverPace, poolVars, stackVars, queueVars, dataVars
<1>2. \A ch \in Channels : HeldNode(ch)' = HeldNode(ch) /\ Rolled(ch)' = Rolled(ch)
  BY <1>1 DEF HeldNode, Rolled
<1>3. Counted(t)' = Counted(t) /\ InHand' = InHand /\ QueueStandsOn' = QueueStandsOn
  BY <1>1 DEF Counted, InHand, QueueStandsOn
<1>4. StackShape(F, m)' /\ QueueShape(C, h, t)' /\ PopShape(C, h, t)'
  BY <1>1, <1>3 DEF StackShape, QueueShape, PopShape
<1>5. PushShape(C, t)' /\ GetShape(kind)'
  <2>1. ~Rolled(c) /\ HeldNode(c) = cPtr[c].idx
    BY <1>1 DEF Rolled, HeldNode
  <2>2. cPtr[c].idx \in Node
    BY <2>1 DEF HoldShape
  <2>3. seg'[cPtr[c].idx].status
    BY <1>1, <2>2 DEF TypeInv, TypeOK, Segment
  <2> QED BY <1>1, <1>3, <2>3 DEF PushShape, GetShape
<1>6. PlacedShape(F, m, C, h, t, kind, pos)' /\ FoundShape(F, m, C, h, t, kind, pos)'
  BY <1>2, <1>3 DEF PlacedShape, FoundShape
<1>7. HoldShape' /\ SegmentShape(kind)'
  <2>1. seg \in [Node -> Segment]
    BY DEF TypeInv, TypeOK
  <2>2. \A k \in Node : /\ seg'[k].chIdx = seg[k].chIdx
                        /\ seg'[k].wrPos = seg[k].wrPos
                        /\ seg'[k].smpsSeq = seg[k].smpsSeq
                        /\ seg[k].status => seg'[k].status
    BY <1>1, <2>1 DEF Segment
  <2>3. \A ch \in Channels : ~Rolled(ch) => cPtr[ch].idx \in Node
    BY DEF HoldShape, HeldNode
  <2> QED BY <1>1, <1>2, <2>2, <2>3 DEF HoldShape, SegmentShape
<1> QED BY <1>4, <1>5, <1>6, <1>7

\* The node being pushed is none of those in the queue.
LEMMA PushedIsApart ==
  ASSUME NEW F, NEW m, NEW C, NEW h, NEW t, NEW kind, NEW pos,
         Explained(F, m, C, h, t, kind, pos),
         fpc \in {"push_link", "push_swing"}
  PROVE  /\ feedCh \in Channels
         /\ cPtr[feedCh].idx \in Node
         /\ kind[cPtr[feedCh].idx] = "held" /\ pos[cPtr[feedCh].idx] = feedCh
         /\ \A k \in h .. t : C[k] # cPtr[feedCh].idx
         /\ dpc \in {"pop_count", "pop_result"} => dataOldHead.idx # cPtr[feedCh].idx
<1> USE DEF Explained, Shape
<1>1. feedCh \in Channels
  BY PoolTypes DEF InCallback
<1>2. ~Rolled(feedCh) /\ HeldNode(feedCh) = cPtr[feedCh].idx
  BY DEF Rolled, HeldNode
<1>3. cPtr[feedCh].idx \in Node
  BY <1>1, <1>2 DEF HoldShape
<1>4. kind[cPtr[feedCh].idx] = "held" /\ pos[cPtr[feedCh].idx] = feedCh
  BY <1>1, <1>2, <1>3 DEF PlacedShape
<1>5. \A k \in h + 1 .. t : kind[C[k]] = "queued"
  BY DEF PlacedShape, Counted
<1>6. C[h] \in QueueStandsOn
  BY DEF QueueShape, QueueStandsOn
<1>7. cPtr[feedCh].idx \notin QueueStandsOn
  BY DEF PushShape
<1>8. h \in Nat /\ t \in Nat
  BY DEF Explains
<1>9. ASSUME NEW k \in h .. t PROVE C[k] # cPtr[feedCh].idx
  <2>1. k = h \/ k \in h + 1 .. t
    BY <1>8
  <2> QED BY <1>4, <1>5, <1>6, <1>7, <2>1
<1> QED BY <1>1, <1>3, <1>4, <1>7, <1>9 DEF QueueStandsOn

\* nodes_[old_tail.node_idx].qnext = nd: past the last link of the queue.
LEMMA PushLinkShape ==
  ASSUME NEW F, NEW m, NEW C, NEW h, NEW t, NEW kind, NEW pos,
         Explained(F, m, C, h, t, kind, pos), FeedPushLink
  PROVE  Shape(F, m, C, h, t, kind, pos)'
<1> USE DEF Explained, Shape
<1>1. /\ UNCHANGED <<snext, top_entry_, head_entry_, tail_entry_, q_size_, seg, cPtr, inSmps,
                     feedCh, feedOld, dpc, dataOldHead, dataPtr>>
      /\ fpc = "push_link" /\ fpc' = "push_swing"
      /\ qnext' = [qnext EXCEPT ![tail_entry_.idx] = Bump(cPtr[feedCh])]
  BY DEF FeedPushLink, FeedAt, PushLink, feedLocals, offQueue, segVars, dataVars, stackVars
<1>2. \A ch \in Channels : HeldNode(ch)' = HeldNode(ch) /\ Rolled(ch)' = Rolled(ch)
  BY <1>1 DEF HeldNode, Rolled
<1>3. /\ Counted(t) = t /\ Counted(t)' = t
      /\ InHand' = InHand /\ QueueStandsOn' = QueueStandsOn
  BY <1>1 DEF Counted, InHand, QueueStandsOn
<1>4. StackShape(F, m)'
  BY <1>1 DEF StackShape
<1>5. h \in Nat /\ t \in Nat /\ h <= t /\ C \in [Nat -> Slot]
  BY <1>3 DEF Explains, QueueShape
<1>6. C[t] = tail_entry_.idx /\ C[t] \in Slot
  BY <1>5 DEF QueueShape
<1>7. \A k \in h .. t - 1 : C[k] # C[t]
  <2> SUFFICES ASSUME NEW k \in h .. t - 1 PROVE C[k] # C[t]
    OBVIOUS
  <2>1. CASE k = h
    BY <1>5, <2>1 DEF QueueShape
  <2>2. CASE k # h
    <3>1. k \in h + 1 .. Counted(t) /\ t \in h + 1 .. Counted(t) /\ k # t
      BY <1>3, <1>5, <2>2
    <3> QED BY <3>1 DEF PlacedShape
  <2> QED BY <2>1, <2>2
<1>8. \A x \in Slot : x # C[t] => qnext'[x] = qnext[x]
  BY <1>1, <1>6, PoolTypes
<1>9. QueueShape(C, h, t)'
  <2>1. \A k \in h .. t - 1 : qnext'[C[k]].idx = C[k + 1]
    <3> SUFFICES ASSUME NEW k \in h .. t - 1 PROVE qnext'[C[k]].idx = C[k + 1]
      OBVIOUS
    <3>1. C[k] \in Slot
      BY <1>5
    <3> QED BY <1>7, <1>8, <3>1 DEF QueueShape
  <2> QED BY <1>1, <1>3, <2>1 DEF QueueShape
<1>10. PopShape(C, h, t)'
  <2>1. dpc \in {"pop_count", "pop_result"} =>
          /\ dataOldHead.idx \in Slot /\ dataOldHead.idx # C[t]
    BY <1>5, PoolTypes, IndexTypes DEF PopShape
  <2> QED BY <1>1, <1>3, <1>8, <2>1 DEF PopShape
<1>11. PushShape(C, t)'
  <2>1. cPtr[feedCh] \in CountPtr
    BY <1>1, PoolTypes DEF InCallback
  <2>2. qnext'[tail_entry_.idx].idx = cPtr[feedCh].idx
    BY <1>1, <1>6, <2>1, IndexTypes, PoolTypes
  <2> QED BY <1>1, <1>3, <2>2 DEF PushShape
<1>12. GetShape(kind)' /\ HoldShape' /\ SegmentShape(kind)'
  BY <1>1, <1>2 DEF GetShape, HoldShape, SegmentShape
<1>13. PlacedShape(F, m, C, h, t, kind, pos)' /\ FoundShape(F, m, C, h, t, kind, pos)'
  BY <1>2, <1>3 DEF PlacedShape, FoundShape
<1> QED BY <1>4, <1>9, <1>10, <1>11, <1>12, <1>13

\* A failed exchange stores the tail in the link of a node no link leads from.
LEMMA PushRetryShape ==
  ASSUME NEW F, NEW m, NEW C, NEW h, NEW t, NEW kind, NEW pos,
         Explained(F, m, C, h, t, kind, pos), FeedPushRetry
  PROVE  Shape(F, m, C, h, t, kind, pos)'
<1> USE DEF Explained, Shape
<1>1. /\ UNCHANGED <<snext, top_entry_, head_entry_, tail_entry_, q_size_, seg, cPtr, inSmps,
                     feedCh, feedOld, dpc, dataOldHead, dataPtr>>
      /\ fpc = "push_swing" /\ fpc' = "push_swing"
      /\ qnext' = [qnext EXCEPT ![cPtr[feedCh].idx] = tail_entry_]
  BY DEF FeedPushRetry, FeedAt, PushRetry, feedLocals, offQueue, segVars, dataVars, stackVars
<1> DEFINE nd == cPtr[feedCh].idx
<1>2. /\ \A k \in h .. t : C[k] # nd
      /\ dpc \in {"pop_count", "pop_result"} => dataOldHead.idx # nd
  BY <1>1, PushedIsApart
<1>3. \A ch \in Channels : HeldNode(ch)' = HeldNode(ch) /\ Rolled(ch)' = Rolled(ch)
  BY <1>1 DEF HeldNode, Rolled
<1>4. /\ Counted(t) = t /\ Counted(t)' = t
      /\ InHand' = InHand /\ QueueStandsOn' = QueueStandsOn
  BY <1>1 DEF Counted, InHand, QueueStandsOn
<1>5. h \in Nat /\ t \in Nat /\ h <= t /\ C \in [Nat -> Slot]
  BY <1>4 DEF Explains, QueueShape
<1>6. \A x \in Slot : x # nd => qnext'[x] = qnext[x]
  BY <1>1, PoolTypes
<1>7. \A k \in h .. t : qnext'[C[k]] = qnext[C[k]]
  BY <1>2, <1>5, <1>6
<1>8. StackShape(F, m)'
  BY <1>1 DEF StackShape
<1>9. QueueShape(C, h, t)'
  BY <1>1, <1>4, <1>5, <1>7 DEF QueueShape
<1>10. PopShape(C, h, t)'
  <2>1. dpc \in {"pop_count", "pop_result"} => qnext'[dataOldHead.idx] = qnext[dataOldHead.idx]
    BY <1>2, <1>6, PoolTypes, IndexTypes
  <2> QED BY <1>1, <1>4, <2>1 DEF PopShape
<1>11. PushShape(C, t)'
  <2>1. tail_entry_.idx = C[t] /\ t \in h .. t
    BY <1>5 DEF QueueShape
  <2> QED BY <1>1, <1>4, <1>7, <2>1 DEF PushShape
<1>12. GetShape(kind)' /\ HoldShape' /\ SegmentShape(kind)'
  BY <1>1, <1>3 DEF GetShape, HoldShape, SegmentShape
<1>13. PlacedShape(F, m, C, h, t, kind, pos)' /\ FoundShape(F, m, C, h, t, kind, pos)'
  BY <1>3, <1>4 DEF PlacedShape, FoundShape
<1> QED BY <1>8, <1>9, <1>10, <1>11, <1>12, <1>13

\* The tail moves on to the pushed node.
LEMMA PushSwingShape ==
  ASSUME NEW F, NEW m, NEW C, NEW h, NEW t, NEW kind, NEW pos,
         Explained(F, m, C, h, t, kind, pos), FeedPushSwing,
         NEW D, D = [C EXCEPT ![t + 1] = cPtr[feedCh].idx]
  PROVE  /\ Explains(F, m, D, h, t + 1, kind, pos)
         /\ Shape(F, m, D, h, t + 1, kind, pos)'
<1> USE DEF Explained, Shape
<1>1. /\ UNCHANGED <<snext, top_entry_, qnext, head_entry_, q_size_, seg, cPtr, inSmps,
                     feedCh, feedOld, dpc, dataOldHead, dataPtr>>
      /\ fpc = "push_swing" /\ fpc' = "push_count"
      /\ tail_entry_' = Bump(cPtr[feedCh])
  BY DEF FeedPushSwing, FeedAt, PushSwing, feedLocals, offQueue, segVars, dataVars, stackVars
<1> DEFINE nd == cPtr[feedCh].idx
<1>2. /\ feedCh \in Channels /\ nd \in Node
      /\ \A k \in h .. t : C[k] # nd
      /\ dpc \in {"pop_count", "pop_result"} => dataOldHead.idx # nd
  BY <1>1, PushedIsApart
<1>3. \A ch \in Channels : HeldNode(ch)' = HeldNode(ch) /\ Rolled(ch)' = Rolled(ch)
  BY <1>1 DEF HeldNode, Rolled
<1>4. Counted(t) = t /\ Counted(t + 1)' = (t + 1) - 1 /\ InHand' = InHand
  BY <1>1 DEF Counted, InHand
<1>5. h \in Nat /\ t \in Nat /\ h <= t /\ C \in [Nat -> Slot]
  BY <1>4 DEF Explains, QueueShape
<1>6. /\ D \in [Nat -> Slot] /\ D[t + 1] = nd
      /\ \A k \in 0 .. t : D[k] = C[k]
  <2>1. nd \in Slot /\ t + 1 \in Nat
    <3> HIDE DEF nd
    <3> QED BY <1>2, <1>5, IndexTypes
  <2>2. D = [C EXCEPT ![t + 1] = nd]
    OBVIOUS
  <2> HIDE DEF nd
  <2>3. D \in [Nat -> Slot] /\ D[t + 1] = nd
    BY <1>5, <2>1, <2>2
  <2> QED BY <1>5, <2>1, <2>2, <2>3
<1>7. StackShape(F, m)'
  BY <1>1 DEF StackShape
<1>8. QueueShape(D, h, t + 1)'
  <2>1. head_entry_'.idx = D[h]
    BY <1>1, <1>5, <1>6 DEF QueueShape
  <2>2. tail_entry_'.idx = D[t + 1]
    BY <1>1, <1>2, <1>6, PoolTypes, IndexTypes
  <2>3. \A k \in h .. t : qnext[D[k]].idx = D[k + 1]
    <3> SUFFICES ASSUME NEW k \in h .. t PROVE qnext[D[k]].idx = D[k + 1]
      OBVIOUS
    <3>1. CASE k = t
      BY <1>1, <1>5, <1>6, <3>1 DEF QueueShape, PushShape
    <3>2. CASE k \in h .. t - 1
      <4>1. k \in 0 .. t /\ k + 1 \in 0 .. t
        BY <1>5, <3>2
      <4> QED BY <1>6, <3>2, <4>1 DEF QueueShape
    <3> QED BY <1>5, <3>1, <3>2
  <2>4. \A k \in h + 1 .. t + 1 : D[k] \in Node /\ D[k] # D[h]
    <3> SUFFICES ASSUME NEW k \in h + 1 .. t + 1 PROVE D[k] \in Node /\ D[k] # D[h]
      OBVIOUS
    <3>1. D[h] = C[h] /\ h \in h .. t
      BY <1>5, <1>6
    <3>2. CASE k = t + 1
      BY <1>2, <1>6, <3>1, <3>2
    <3>3. CASE k \in h + 1 .. t
      <4>1. k \in 0 .. t
        BY <1>5, <3>3
      <4> QED BY <1>6, <3>1, <3>3, <4>1 DEF QueueShape
    <3> QED BY <1>5, <3>2, <3>3
  <2> HIDE DEF nd
  <2>5. (t + 1) - 1 = t
    BY <1>5
  <2> QED BY <1>1, <1>4, <1>5, <2>1, <2>2, <2>3, <2>4, <2>5 DEF QueueShape
<1>9. PopShape(D, h, t + 1)'
  <2>1. D[h] = C[h]
    BY <1>5, <1>6
  <2>2. dpc \in {"pop_count", "pop_result"} =>
          \A k \in h .. t + 1 : D[k] # dataOldHead.idx
    <3> SUFFICES ASSUME dpc \in {"pop_count", "pop_result"}, NEW k \in h .. t + 1
                 PROVE  D[k] # dataOldHead.idx
      OBVIOUS
    <3>1. CASE k = t + 1
      BY <1>2, <1>6, <3>1
    <3>2. CASE k \in h .. t
      <4>1. k \in 0 .. t
        BY <1>5, <3>2
      <4> QED BY <1>6, <3>2, <4>1 DEF PopShape
    <3> QED BY <1>5, <3>1, <3>2
  <2> QED BY <1>1, <1>4, <2>1, <2>2 DEF PopShape
<1>10. PushShape(D, t + 1)' /\ GetShape(kind)'
  BY <1>1, <1>6 DEF PushShape, GetShape
<1>11. HoldShape' /\ SegmentShape(kind)'
  BY <1>1, <1>3 DEF HoldShape, SegmentShape
<1>12. PlacedShape(F, m, D, h, t + 1, kind, pos)' /\ FoundShape(F, m, D, h, t + 1, kind, pos)'
  <2>1. Counted(t + 1)' = t
    BY <1>4, <1>5
  <2>2. \A k \in h + 1 .. t : D[k] = C[k]
    BY <1>5, <1>6
  <2>3. D[h] = C[h]
    BY <1>5, <1>6
  <2>4. PlacedShape(F, m, D, h, t + 1, kind, pos)'
    BY <1>3, <1>4, <2>1, <2>2, <2>3 DEF PlacedShape
  <2>5. FoundShape(F, m, D, h, t + 1, kind, pos)'
    BY <1>3, <1>4, <2>1, <2>2, <2>3 DEF FoundShape
  <2> QED BY <2>4, <2>5
<1>13. Explains(F, m, D, h, t + 1, kind, pos)
  BY <1>5, <1>6 DEF Explains
<1> QED BY <1>7, <1>8, <1>9, <1>10, <1>11, <1>12, <1>13

\* The pushed node is counted: from here on it waits in the queue.
LEMMA PushCountShape ==
  ASSUME NEW F, NEW m, NEW C, NEW h, NEW t, NEW kind, NEW pos,
         Explained(F, m, C, h, t, kind, pos), FeedPushCount,
         NEW kind2, kind2 = [kind EXCEPT ![cPtr[feedCh].idx] = "queued"],
         NEW pos2, pos2 = [pos EXCEPT ![cPtr[feedCh].idx] = t]
  PROVE  /\ Explains(F, m, C, h, t, kind2, pos2)
         /\ Shape(F, m, C, h, t, kind2, pos2)'
<1> USE DEF Explained, Shape
<1>1. /\ UNCHANGED <<snext, top_entry_, qnext, head_entry_, tail_entry_, seg, cPtr, inSmps,
                     feedCh, feedOld, dpc, dataOldHead, dataPtr>>
      /\ fpc = "push_count" /\ fpc' = "get_incr"
      /\ q_size_' = q_size_ + 1
  BY DEF FeedPushCount, FeedAt, PushCount, feedLocals, offQueue, segVars, dataVars, stackVars
<1> DEFINE nd == cPtr[feedCh].idx
<1>2. feedCh \in Channels /\ ~Rolled(feedCh) /\ HeldNode(feedCh) = nd
  BY <1>1, PoolTypes DEF InCallback, Rolled, HeldNode
<1>3. nd \in Node /\ kind[nd] = "held" /\ pos[nd] = feedCh /\ C[t] = nd
  BY <1>1, <1>2 DEF HoldShape, PlacedShape, PushShape
<1>4. /\ \A ch \in {feedCh} : Rolled(ch)' /\ HeldNode(ch)' = Null
      /\ \A ch \in Channels \ {feedCh} : HeldNode(ch)' = HeldNode(ch) /\ Rolled(ch)' = Rolled(ch)
  BY <1>1 DEF HeldNode, Rolled
<1>5. Counted(t) = t - 1 /\ Counted(t)' = t /\ InHand' = InHand
  BY <1>1 DEF Counted, InHand
<1>6. h \in Nat /\ t \in Nat /\ h <= t - 1 /\ C \in [Nat -> Slot]
  BY <1>5 DEF Explains, QueueShape
<1>7. kind \in [Node -> Kinds] /\ pos \in [Node -> Int]
  BY DEF Explains
<1>8. /\ kind2 \in [Node -> Kinds] /\ kind2[nd] = "queued"
      /\ \A x \in Node \ {nd} : kind2[x] = kind[x]
  BY <1>3, <1>7 DEF Kinds
<1>9. /\ pos2 \in [Node -> Int] /\ pos2[nd] = t
      /\ \A x \in Node \ {nd} : pos2[x] = pos[x]
  BY <1>3, <1>6, <1>7
<1> HIDE DEF nd
<1>10. StackShape(F, m)' /\ PopShape(C, h, t)' /\ PushShape(C, t)' /\ GetShape(kind2)'
  BY <1>1, <1>5 DEF StackShape, PopShape, PushShape, GetShape
<1>11. QueueShape(C, h, t)'
  <2>1. q_size_' = t - h + (IF dpc = "pop_count" THEN 1 ELSE 0)
    BY <1>1, <1>5, <1>6 DEF QueueShape
  <2> QED BY <1>1, <1>5, <1>6, <2>1 DEF QueueShape
<1>12. HoldShape' /\ SegmentShape(kind2)'
  <2>1. HoldShape'
    BY <1>4 DEF HoldShape
  <2>2. seg[nd].chIdx \in Channels /\ seg[nd].status
    BY <1>1, <1>2 DEF nd, SegmentShape, PushShape
  <2> QED BY <1>1, <1>4, <1>8, <2>1, <2>2 DEF SegmentShape
<1>13. PlacedShape(F, m, C, h, t, kind2, pos2)'
  <2>1. \A i \in 1 .. m : kind2[F[i]] = "free" /\ pos2[F[i]] = i
    BY <1>3, <1>8, <1>9 DEF PlacedShape, StackShape
  <2>2. \A ch \in Channels : HeldNode(ch)' \in Node =>
           kind2[HeldNode(ch)'] = "held" /\ pos2[HeldNode(ch)'] = ch
    <3> SUFFICES ASSUME NEW ch \in Channels, HeldNode(ch)' \in Node
                 PROVE  kind2[HeldNode(ch)'] = "held" /\ pos2[HeldNode(ch)'] = ch
      OBVIOUS
    <3>1. ch # feedCh
      BY <1>4, IndexTypes
    <3>2. HeldNode(ch)' = HeldNode(ch) /\ HeldNode(ch) # nd
      BY <1>3, <1>4, <3>1 DEF PlacedShape
    <3> QED BY <1>8, <1>9, <3>2 DEF PlacedShape
  <2>3. \A k \in h + 1 .. t : kind2[C[k]] = "queued" /\ pos2[C[k]] = k
    <3> SUFFICES ASSUME NEW k \in h + 1 .. t PROVE kind2[C[k]] = "queued" /\ pos2[C[k]] = k
      OBVIOUS
    <3>1. CASE k = t
      BY <1>3, <1>8, <1>9, <3>1
    <3>2. CASE k \in h + 1 .. t - 1
      <4>1. kind[C[k]] = "queued" /\ pos[C[k]] = k /\ C[k] \in Node
        BY <1>5, <3>2 DEF PlacedShape, QueueShape
      <4> QED BY <1>3, <1>8, <1>9, <4>1
    <3> QED BY <1>6, <3>1, <3>2
  <2>4. InHand => kind2[C[h]] = "hand"
    BY <1>3, <1>8 DEF PlacedShape, PopShape
  <2> QED BY <1>5, <2>1, <2>2, <2>3, <2>4 DEF PlacedShape
<1>14. FoundShape(F, m, C, h, t, kind2, pos2)'
  <2> SUFFICES ASSUME NEW x \in Node
               PROVE  /\ kind2[x] = "free" => pos2[x] \in 1 .. m /\ F[pos2[x]] = x
                      /\ kind2[x] = "held" => pos2[x] \in Channels /\ HeldNode(pos2[x])' = x
                      /\ kind2[x] = "queued" => pos2[x] \in h + 1 .. t /\ C[pos2[x]] = x
                      /\ kind2[x] = "hand" => InHand /\ C[h] = x
    BY <1>5 DEF FoundShape
  <2>1. CASE x = nd
    BY <1>3, <1>6, <1>8, <1>9, <2>1
  <2>2. CASE x # nd
    <3>1. kind2[x] = kind[x] /\ pos2[x] = pos[x]
      BY <1>8, <1>9, <2>2
    <3>2. kind[x] = "held" => pos[x] \in Channels /\ HeldNode(pos[x])' = x
      BY <1>2, <1>4, <2>2 DEF FoundShape
    <3>3. kind[x] = "queued" => pos[x] \in h + 1 .. t /\ C[pos[x]] = x
      BY <1>5, <1>6 DEF FoundShape
    <3> QED BY <3>1, <3>2, <3>3 DEF FoundShape
  <2> QED BY <2>1, <2>2
<1>15. Explains(F, m, C, h, t, kind2, pos2)
  BY <1>8, <1>9 DEF Explains
<1> QED BY <1>10, <1>11, <1>12, <1>13, <1>14, <1>15

-----------------------------------------------------------------------------
(* GetOne(), feed thread, and the use of its result.                       *)

\* The steps of GetOne that move no node.
LEMMA GetReadsShape ==
  ASSUME NEW F, NEW m, NEW C, NEW h, NEW t, NEW kind, NEW pos,
         Explained(F, m, C, h, t, kind, pos),
         FeedGetIncr \/ FeedGetNext \/ FeedGetRetry
  PROVE  Shape(F, m, C, h, t, kind, pos)'
<1> USE DEF Explained, Shape
<1>1. /\ UNCHANGED <<snext, qnext, head_entry_, tail_entry_, q_size_, seg, cPtr, inSmps,
                     feedCh, dpc, dataOldHead, dataPtr>>
      /\ fpc \in {"get_incr", "get_next", "get_take"}
      /\ fpc' \in {"get_incr", "get_next", "get_take", "set"}
  BY DEF FeedGetIncr, FeedGetNext, FeedGetRetry, FeedAt, IncreaseEntryCnt, feedLocals, offQueue,
         segVars, dataVars, queueVars, poolVars, stackVars
<1>2. top_entry_'.idx = top_entry_.idx
  BY PoolTypes, IndexTypes
     DEF FeedGetIncr, FeedGetNext, FeedGetRetry, IncreaseEntryCnt, poolVars, stackVars
<1>3. fpc' = "set" => feedOld'.idx = Null
  BY DEF FeedGetIncr, FeedGetNext, FeedGetRetry, FeedAt, NoPtr
<1>4. \A ch \in Channels : HeldNode(ch)' = HeldNode(ch) /\ Rolled(ch)' = Rolled(ch)
  BY <1>1, <1>3 DEF HeldNode, Rolled
<1>5. Counted(t)' = Counted(t) /\ InHand' = InHand
  BY <1>1 DEF Counted, InHand
<1>6. StackShape(F, m)' /\ QueueShape(C, h, t)' /\ PopShape(C, h, t)' /\ PushShape(C, t)'
  BY <1>1, <1>2, <1>5 DEF StackShape, QueueShape, PopShape, PushShape
<1>7. GetShape(kind)'
  <2>1. CASE FeedGetIncr
    <3>1. /\ fpc' = IF top_entry_.idx = Null THEN "set" ELSE "get_next"
          /\ feedOld' = IF top_entry_.idx = Null THEN NoPtr ELSE Bump(top_entry_)
      BY <2>1 DEF FeedGetIncr, FeedAt
    <3>2. ASSUME fpc' = "get_next" PROVE kind[feedOld'.idx] = "free"
      <4>1. top_entry_.idx # Null /\ feedOld'.idx = top_entry_.idx
        BY <3>1, <3>2, PoolTypes, IndexTypes
      <4>2. F[m] = top_entry_.idx /\ m \in 1 .. m
        BY <4>1 DEF StackShape, Explains
      <4> QED BY <4>1, <4>2 DEF PlacedShape
    <3> QED BY <3>1, <3>2 DEF GetShape
  <2>2. CASE FeedGetNext
    BY <1>1, <2>2 DEF FeedGetNext, FeedAt, GetShape
  <2>3. CASE FeedGetRetry
    BY <2>3 DEF FeedGetRetry, FeedAt, GetShape
  <2> QED BY <2>1, <2>2, <2>3
<1>8. PlacedShape(F, m, C, h, t, kind, pos)' /\ FoundShape(F, m, C, h, t, kind, pos)'
  BY <1>4, <1>5 DEF PlacedShape, FoundShape
<1>9. HoldShape' /\ SegmentShape(kind)'
  BY <1>1, <1>4 DEF HoldShape, SegmentShape
<1> QED BY <1>6, <1>7, <1>8, <1>9

\* The exchange takes the top node off the stack: from here on it is held.
LEMMA GetTakeShape ==
  ASSUME NEW F, NEW m, NEW C, NEW h, NEW t, NEW kind, NEW pos,
         Explained(F, m, C, h, t, kind, pos), FeedGetTake,
         NEW kind2, kind2 = [kind EXCEPT ![feedOld.idx] = "held"],
         NEW pos2, pos2 = [pos EXCEPT ![feedOld.idx] = feedCh]
  PROVE  /\ Explains(F, m - 1, C, h, t, kind2, pos2)
         /\ Shape(F, m - 1, C, h, t, kind2, pos2)'
<1> USE DEF Explained, Shape
<1>1. /\ UNCHANGED <<snext, qnext, head_entry_, tail_entry_, q_size_, seg, cPtr, inSmps,
                     feedCh, feedOld, dpc, dataOldHead, dataPtr>>
      /\ fpc = "get_take" /\ fpc' = "set"
      /\ top_entry_ = feedOld /\ top_entry_' = feedNext
  BY DEF FeedGetTake, FeedAt, TakeTop, feedLocals, offQueue, segVars, dataVars, queueVars
<1> DEFINE nd == feedOld.idx
<1>2. feedCh \in Channels /\ Rolled(feedCh) /\ nd \in Node
  BY <1>1, PoolTypes DEF InCallback, Rolled, TypeInv, TopIsNode
<1>3. m \in Nat /\ m >= 1 /\ m - 1 \in Nat /\ F[m] = nd /\ feedNext.idx = F[m - 1]
  <2>1. F[m] = nd /\ F[0] = Null /\ m \in Nat
    BY <1>1 DEF StackShape, Explains
  <2>2. m # 0
    BY <1>2, <2>1, IndexTypes
  <2>3. m \in 1 .. m /\ m - 1 \in Nat
    BY <2>1, <2>2
  <2> QED BY <1>1, <2>1, <2>3 DEF StackShape, GetShape
<1>4. /\ kind[nd] = "free" /\ pos[nd] = m
  BY <1>3 DEF PlacedShape
<1>5. /\ \A ch \in {feedCh} : Rolled(ch)' /\ HeldNode(ch)' = nd
      /\ HeldNode(feedCh) = Null
      /\ \A ch \in Channels \ {feedCh} : HeldNode(ch)' = HeldNode(ch) /\ Rolled(ch)' = Rolled(ch)
  BY <1>1 DEF HeldNode, Rolled
<1>6. Counted(t)' = Counted(t) /\ InHand' = InHand
  BY <1>1 DEF Counted, InHand
<1>7. kind \in [Node -> Kinds] /\ pos \in [Node -> Int] /\ feedCh \in Int
  BY <1>2, ChannelTypes DEF Explains
<1>8. /\ kind2 \in [Node -> Kinds] /\ kind2[nd] = "held"
      /\ \A x \in Node \ {nd} : kind2[x] = kind[x]
  BY <1>2, <1>7 DEF Kinds
<1>9. /\ pos2 \in [Node -> Int] /\ pos2[nd] = feedCh
      /\ \A x \in Node \ {nd} : pos2[x] = pos[x]
  BY <1>2, <1>7
<1> HIDE DEF nd
<1>10. StackShape(F, m - 1)'
  <2>1. \A i \in 1 .. m - 1 : i \in 1 .. m
    BY <1>3
  <2> QED BY <1>1, <1>3, <2>1 DEF StackShape
<1>11. QueueShape(C, h, t)' /\ PopShape(C, h, t)' /\ PushShape(C, t)' /\ GetShape(kind2)'
  BY <1>1, <1>6 DEF QueueShape, PopShape, PushShape, GetShape
<1>12. HoldShape' /\ SegmentShape(kind2)'
  <2>1. HoldShape'
    BY <1>5 DEF HoldShape
  <2> QED BY <1>1, <1>5, <1>8, <2>1 DEF SegmentShape
<1>13. PlacedShape(F, m - 1, C, h, t, kind2, pos2)'
  <2>1. \A i \in 1 .. m - 1 : kind2[F[i]] = "free" /\ pos2[F[i]] = i
    <3> SUFFICES ASSUME NEW i \in 1 .. m - 1 PROVE kind2[F[i]] = "free" /\ pos2[F[i]] = i
      OBVIOUS
    <3>1. i \in 1 .. m /\ i # m
      BY <1>3
    <3>2. F[i] \in Node /\ kind[F[i]] = "free" /\ pos[F[i]] = i
      BY <3>1 DEF StackShape, PlacedShape
    <3>3. F[i] # nd
      BY <1>4, <3>1, <3>2
    <3> QED BY <1>8, <1>9, <3>2, <3>3
  <2>2. \A ch \in Channels : HeldNode(ch)' \in Node =>
           kind2[HeldNode(ch)'] = "held" /\ pos2[HeldNode(ch)'] = ch
    <3> SUFFICES ASSUME NEW ch \in Channels, HeldNode(ch)' \in Node
                 PROVE  kind2[HeldNode(ch)'] = "held" /\ pos2[HeldNode(ch)'] = ch
      OBVIOUS
    <3>1. CASE ch = feedCh
      BY <1>5, <1>8, <1>9, <3>1
    <3>2. CASE ch # feedCh
      <4>1. HeldNode(ch)' = HeldNode(ch) /\ HeldNode(ch) # nd
        BY <1>4, <1>5, <3>2 DEF PlacedShape
      <4> QED BY <1>8, <1>9, <4>1 DEF PlacedShape
    <3> QED BY <3>1, <3>2
  <2>3. \A k \in h + 1 .. Counted(t) : kind2[C[k]] = "queued" /\ pos2[C[k]] = k
    <3> SUFFICES ASSUME NEW k \in h + 1 .. Counted(t)
                 PROVE  kind2[C[k]] = "queued" /\ pos2[C[k]] = k
      OBVIOUS
    <3>1. kind[C[k]] = "queued" /\ pos[C[k]] = k
      BY DEF PlacedShape
    <3>2. C[k] \in Node
      BY <1>1 DEF QueueShape, Counted
    <3> QED BY <1>4, <1>8, <1>9, <3>1, <3>2
  <2>4. InHand => kind2[C[h]] = "hand"
    BY <1>4, <1>8 DEF PlacedShape, PopShape
  <2> QED BY <1>6, <2>1, <2>2, <2>3, <2>4 DEF PlacedShape
<1>14. FoundShape(F, m - 1, C, h, t, kind2, pos2)'
  <2> SUFFICES ASSUME NEW x \in Node
               PROVE  /\ kind2[x] = "free" => pos2[x] \in 1 .. m - 1 /\ F[pos2[x]] = x
                      /\ kind2[x] = "held" => pos2[x] \in Channels /\ HeldNode(pos2[x])' = x
                      /\ kind2[x] = "queued" => pos2[x] \in h + 1 .. Counted(t) /\ C[pos2[x]] = x
                      /\ kind2[x] = "hand" => InHand /\ C[h] = x
    BY <1>6 DEF FoundShape
  <2>1. CASE x = nd
    BY <1>2, <1>5, <1>8, <1>9, <2>1
  <2>2. CASE x # nd
    <3>1. kind2[x] = kind[x] /\ pos2[x] = pos[x]
      BY <1>8, <1>9, <2>2
    <3>2. kind[x] = "held" => pos[x] \in Channels /\ HeldNode(pos[x])' = x
      <4>1. kind[x] = "held" => pos[x] # feedCh
        BY <1>5, IndexTypes DEF FoundShape
      <4> QED BY <1>5, <4>1 DEF FoundShape
    <3>3. kind[x] = "free" => pos[x] \in 1 .. m - 1 /\ F[pos[x]] = x
      BY <1>3, <2>2 DEF FoundShape
    <3> QED BY <3>1, <3>2, <3>3 DEF FoundShape
  <2> QED BY <2>1, <2>2
<1>15. Explains(F, m - 1, C, h, t, kind2, pos2)
  BY <1>3, <1>8, <1>9 DEF Explains
<1> QED BY <1>10, <1>11, <1>12, <1>13, <1>14, <1>15

\* The new segment is set up on the node GetOne took.
LEMMA SetShape ==
  ASSUME NEW F, NEW m, NEW C, NEW h, NEW t, NEW kind, NEW pos,
         Explained(F, m, C, h, t, kind, pos), FeedSet
  PROVE  Shape(F, m, C, h, t, kind, pos)'
<1> USE DEF Explained, Shape
<1>1. /\ UNCHANGED <<snext, top_entry_, qnext, head_entry_, tail_entry_, q_size_, inSmps,
                     feedCh, feedOld, dpc, dataOldHead, dataPtr>>
      /\ fpc = "set" /\ fpc' = "signal" /\ feedOld.idx # Null
      /\ cPtr' = [cPtr EXCEPT ![feedCh] = feedOld]
      /\ seg' = [seg EXCEPT ![feedOld.idx] = SetSegment(feedCh, inSmps[feedCh])]
  BY DEF FeedSet, FeedAt, poolVars, stackVars, queueVars, dataVars, feedLocals
<1>2. feedCh \in Channels /\ HeldNode(feedCh) = feedOld.idx /\ feedOld.idx \in Node
  BY <1>1, PoolTypes, IndexTypes DEF InCallback, HeldNode, Rolled, Slot
<1>3. kind[feedOld.idx] = "held" /\ pos[feedOld.idx] = feedCh
  BY <1>2 DEF PlacedShape
<1>4. /\ \A ch \in Channels : HeldNode(ch)' = HeldNode(ch)
      /\ \A ch \in Channels \ {feedCh} : ~Rolled(ch) /\ cPtr'[ch] = cPtr[ch]
      /\ cPtr'[feedCh] = feedOld
  BY <1>1, <1>2, PoolTypes DEF HeldNode, Rolled
<1>5. Counted(t)' = Counted(t) /\ InHand' = InHand
  BY <1>1 DEF Counted, InHand
<1>6. StackShape(F, m)' /\ QueueShape(C, h, t)' /\ PopShape(C, h, t)' /\ PushShape(C, t)'
  BY <1>1, <1>5 DEF StackShape, QueueShape, PopShape, PushShape
<1>7. GetShape(kind)' /\ PlacedShape(F, m, C, h, t, kind, pos)'
      /\ FoundShape(F, m, C, h, t, kind, pos)'
  BY <1>1, <1>4, <1>5 DEF GetShape, PlacedShape, FoundShape
<1>8. HoldShape'
  <2>1. \A ch \in Channels : HeldNode(ch) \in Node
    BY <1>2, <1>4 DEF HoldShape
  <2> QED BY <1>4, <2>1 DEF HoldShape
<1>9. SegmentShape(kind)'
  <2>1. seg \in [Node -> Segment] /\ inSmps \in [Channels -> Nat]
    BY DEF TypeInv, TypeOK
  <2>2. \A x \in Node \ {feedOld.idx} : seg'[x] = seg[x]
    BY <1>1, <2>1
  <2>3. /\ seg'[feedOld.idx].chIdx = feedCh
        /\ seg'[feedOld.idx].wrPos = 0
        /\ seg'[feedOld.idx].smpsSeq = inSmps[feedCh]
    BY <1>1, <1>2, <2>1 DEF SetSegment
  <2>4. \A n \in Node : kind[n] \in {"queued", "hand"} =>
           seg'[n].chIdx \in Channels /\ seg'[n].status
    BY <1>3, <2>2 DEF SegmentShape
  <2>5. ASSUME NEW ch \in Channels
        PROVE  LET s == seg'[cPtr'[ch].idx]
               IN  /\ s.chIdx = ch
                   /\ s.wrPos % SizeofFloat = 0
                   /\ s.smpsSeq + s.wrPos \div SizeofFloat = inSmps[ch]
    <3>1. CASE ch = feedCh
      <4>1. inSmps[feedCh] \in Nat
        BY <1>2, <2>1
      <4> QED BY <1>4, <2>3, <3>1, <4>1 DEF SizeofFloat
    <3>2. CASE ch # feedCh
      <4>1. ~Rolled(ch) /\ cPtr'[ch] = cPtr[ch] /\ HeldNode(ch) = cPtr[ch].idx
        BY <1>4, <3>2 DEF HeldNode
      <4>2. cPtr[ch].idx \in Node \ {feedOld.idx}
        BY <1>3, <3>2, <4>1 DEF HoldShape, PlacedShape
      <4> QED BY <2>2, <4>1, <4>2 DEF SegmentShape
    <3> QED BY <3>1, <3>2
  <2> QED BY <1>1, <2>4, <2>5 DEF SegmentShape
<1> QED BY <1>6, <1>7, <1>8, <1>9

\* The stack was empty: the channel's entry becomes null and the process ends.
LEMMA SetNullShape ==
  ASSUME NEW F, NEW m, NEW C, NEW h, NEW t, NEW kind, NEW pos,
         Explained(F, m, C, h, t, kind, pos), FeedSetNull
  PROVE  Shape(F, m, C, h, t, kind, pos)'
<1> USE DEF Explained, Shape
<1>1. /\ UNCHANGED <<snext, top_entry_, qnext, head_entry_, tail_entry_, q_size_, inSmps, seg,
                     feedCh, feedOld, dpc, dataOldHead, dataPtr>>
      /\ fpc = "set" /\ fpc' = "set"
      /\ cPtr' = [cPtr EXCEPT ![feedCh] = feedOld]
  BY DEF FeedSetNull, FeedAt, poolVars, stackVars, queueVars, dataVars, feedLocals
<1>2. /\ \A ch \in Channels : HeldNode(ch)' = HeldNode(ch) /\ Rolled(ch)' = Rolled(ch)
      /\ \A ch \in Channels : ~Rolled(ch) => cPtr'[ch] = cPtr[ch]
  BY <1>1, PoolTypes DEF HeldNode, Rolled
<1>3. Counted(t)' = Counted(t) /\ InHand' = InHand
  BY <1>1 DEF Counted, InHand
<1>4. StackShape(F, m)' /\ QueueShape(C, h, t)' /\ PopShape(C, h, t)' /\ PushShape(C, t)'
  BY <1>1, <1>3 DEF StackShape, QueueShape, PopShape, PushShape
<1>5. GetShape(kind)' /\ PlacedShape(F, m, C, h, t, kind, pos)'
      /\ FoundShape(F, m, C, h, t, kind, pos)' /\ HoldShape' /\ SegmentShape(kind)'
  BY <1>1, <1>2, <1>3 DEF GetShape, PlacedShape, FoundShape, HoldShape, SegmentShape
<1> QED BY <1>4, <1>5

\* The packet is written to the segment its channel holds.
LEMMA WriteShape ==
  ASSUME NEW F, NEW m, NEW C, NEW h, NEW t, NEW kind, NEW pos,
         Explained(F, m, C, h, t, kind, pos), FeedWrite
  PROVE  Shape(F, m, C, h, t, kind, pos)'
<1> USE DEF Explained, Shape
<1>1. /\ UNCHANGED <<snext, top_entry_, qnext, head_entry_, tail_entry_, q_size_, cPtr,
                     feedCh, feedOld, dpc, dataOldHead, dataPtr>>
      /\ fpc = "write" /\ fpc' = "idle"
      /\ seg' = [seg EXCEPT ![cPtr[feedCh].idx].wrPos = @ + InSize(feedNum)]
      /\ inSmps' = [inSmps EXCEPT ![feedCh] = @ + feedNum]
  BY DEF FeedWrite, FeedAt, poolVars, stackVars, queueVars, dataVars, feedLocals
<1>2. /\ \A ch \in Channels : ~Rolled(ch) /\ ~Rolled(ch)'
      /\ \A ch \in Channels : HeldNode(ch) = cPtr[ch].idx /\ HeldNode(ch)' = HeldNode(ch)
  BY <1>1 DEF HeldNode, Rolled
<1>3. Counted(t)' = Counted(t) /\ InHand' = InHand
  BY <1>1 DEF Counted, InHand
<1>4. StackShape(F, m)' /\ QueueShape(C, h, t)' /\ PopShape(C, h, t)' /\ PushShape(C, t)'
  BY <1>1, <1>3 DEF StackShape, QueueShape, PopShape, PushShape
<1>5. GetShape(kind)' /\ PlacedShape(F, m, C, h, t, kind, pos)'
      /\ FoundShape(F, m, C, h, t, kind, pos)' /\ HoldShape'
  BY <1>1, <1>2, <1>3 DEF GetShape, PlacedShape, FoundShape, HoldShape
<1>6. SegmentShape(kind)'
  <2> DEFINE nd == cPtr[feedCh].idx
  <2>1. seg \in [Node -> Segment] /\ inSmps \in [Channels -> Nat] /\ feedNum \in Nat
    BY DEF TypeInv, TypeOK
  <2>2. feedCh \in Channels /\ \A ch \in Channels : cPtr[ch].idx \in Node
    BY <1>1, <1>2, PoolTypes DEF InCallback, HoldShape
  <2>3. /\ \A x \in Node \ {nd} : seg'[x] = seg[x]
        /\ \A x \in Node : seg'[x].chIdx = seg[x].chIdx /\ seg'[x].smpsSeq = seg[x].smpsSeq
        /\ \A x \in Node : seg'[x].status = seg[x].status
        /\ seg'[nd].wrPos = seg[nd].wrPos + 4 * feedNum
    BY <1>1, <2>1, <2>2 DEF Segment, InSize, SizeofFloat
  <2>4. \A n \in Node : kind[n] \in {"queued", "hand"} =>
           seg'[n].chIdx \in Channels /\ seg'[n].status
    BY <2>3 DEF SegmentShape
  <2>5. ASSUME NEW ch \in Channels
        PROVE  LET s == seg'[cPtr[ch].idx]
               IN  /\ s.chIdx = ch
                   /\ s.wrPos % SizeofFloat = 0
                   /\ s.smpsSeq + s.wrPos \div SizeofFloat = inSmps'[ch]
    <3>0. /\ seg[cPtr[ch].idx].chIdx = ch
          /\ seg[cPtr[ch].idx].wrPos % 4 = 0
          /\ seg[cPtr[ch].idx].smpsSeq + seg[cPtr[ch].idx].wrPos \div 4 = inSmps[ch]
      BY <1>2 DEF SegmentShape, SizeofFloat
    <3>1. CASE ch = feedCh
      <4>1. inSmps'[ch] = inSmps[ch] + feedNum
        BY <1>1, <2>1, <3>1
      <4>2. seg[nd].wrPos \in Nat /\ seg[nd].smpsSeq \in Nat /\ inSmps[ch] \in Nat
        BY <2>1, <2>2, SizeTypes DEF Segment
      <4>3. \A w, s, n, k \in Nat : w % 4 = 0 /\ s + w \div 4 = k
              => (w + 4 * n) % 4 = 0 /\ s + (w + 4 * n) \div 4 = k + n
        OBVIOUS
      <4> HIDE DEF nd
      <4>4. cPtr[ch].idx = nd
        BY <3>1 DEF nd
      <4>5. /\ (seg[nd].wrPos + 4 * feedNum) % 4 = 0
            /\ seg[nd].smpsSeq + (seg[nd].wrPos + 4 * feedNum) \div 4 = inSmps[ch] + feedNum
        BY <2>1, <3>0, <4>2, <4>3, <4>4
      <4>6. nd \in Node
        BY <2>2, <4>4
      <4> QED BY <2>3, <3>0, <4>1, <4>4, <4>5, <4>6 DEF SizeofFloat
    <3>2. CASE ch # feedCh
      <4>1. cPtr[ch].idx \in Node \ {nd}
        BY <1>2, <2>2, <3>2 DEF PlacedShape
      <4>2. inSmps'[ch] = inSmps[ch]
        BY <1>1, <2>1, <3>2
      <4> QED BY <2>3, <3>0, <4>1, <4>2 DEF SizeofFloat
    <3> QED BY <3>1, <3>2
  <2> QED BY <1>1, <1>2, <2>4, <2>5 DEF SegmentShape
<1> QED BY <1>4, <1>5, <1>6

-----------------------------------------------------------------------------
(* pop(), data thread, and the use of its result.                          *)

\* The head moves on: the node it comes to stand on is the block in hand.
LEMMA PopSwingShape ==
  ASSUME NEW F, NEW m, NEW C, NEW h, NEW t, NEW kind, NEW pos,
         Explained(F, m, C, h, t, kind, pos), DataPopSwing,
         NEW kind2, kind2 = [kind EXCEPT ![C[h + 1]] = "hand"]
  PROVE  /\ Explains(F, m, C, h + 1, t, kind2, pos)
         /\ Shape(F, m, C, h + 1, t, kind2, pos)'
<1> USE DEF Explained, Shape
<1>1. /\ UNCHANGED <<snext, top_entry_, qnext, tail_entry_, q_size_, seg, cPtr, inSmps,
                     fpc, feedCh, feedOld, feedNext, dataPtr>>
      /\ dpc = "pop_swing" /\ dpc' = "pop_count"
      /\ head_entry_' = qnext[head_entry_.idx] /\ dataOldHead' = head_entry_
  BY DEF DataPopSwing, DataAt, PopSwing, offData, segVars, feedVars, stackVars
<1>2. \A ch \in Channels : HeldNode(ch)' = HeldNode(ch) /\ Rolled(ch)' = Rolled(ch)
  BY <1>1 DEF HeldNode, Rolled
<1>3. Counted(t)' = Counted(t) /\ ~InHand /\ InHand'
  BY <1>1 DEF Counted, InHand
<1>4. /\ h \in Nat /\ t \in Nat /\ C \in [Nat -> Slot]
      /\ Counted(t) \in Int /\ Counted(t) <= t /\ h + 1 <= Counted(t)
  <2>1. h \in Nat /\ t \in Nat /\ C \in [Nat -> Slot]
    BY DEF Explains
  <2>2. Counted(t) \in Int /\ Counted(t) <= t
    BY <2>1 DEF Counted
  <2>3. q_size_ >= 1 /\ q_size_ = Counted(t) - h
    BY <1>1, <2>1, <2>2 DEF TypeInv, PopHasBlock, QueueShape
  <2> QED BY <2>1, <2>2, <2>3
<1> DEFINE nd == C[h + 1]
<1>5. nd \in Node /\ kind[nd] = "queued" /\ pos[nd] = h + 1 /\ head_entry_'.idx = nd
  <2>1. h + 1 \in h + 1 .. Counted(t) /\ h + 1 \in h + 1 .. t /\ h \in h .. t - 1
    BY <1>4
  <2> QED BY <1>1, <2>1 DEF PlacedShape, QueueShape
<1>6. kind \in [Node -> Kinds] /\ pos \in [Node -> Int]
  BY DEF Explains
<1>7. /\ kind2 \in [Node -> Kinds] /\ kind2[nd] = "hand"
      /\ \A x \in Node \ {nd} : kind2[x] = kind[x]
  BY <1>5, <1>6 DEF Kinds
<1> HIDE DEF nd
<1>8. \A k \in h + 2 .. t : C[k] \in Node /\ C[k] # nd
  <2> SUFFICES ASSUME NEW k \in h + 2 .. t PROVE C[k] \in Node /\ C[k] # nd
    OBVIOUS
  <2>1. C[k] \in Node
    BY <1>4 DEF QueueShape
  <2>2. CASE k \in h + 1 .. Counted(t)
    <3>1. pos[C[k]] = k /\ k # h + 1
      BY <1>4, <2>2 DEF PlacedShape
    <3> QED BY <1>5, <2>1, <3>1
  <2>3. CASE k \notin h + 1 .. Counted(t)
    <3>1. fpc = "push_count" /\ k = t
      BY <1>4, <2>3 DEF Counted
    <3>2. C[k] = cPtr[feedCh].idx /\ feedCh \in Channels /\ HeldNode(feedCh) = cPtr[feedCh].idx
      BY <3>1, PoolTypes DEF PushShape, InCallback, HeldNode, Rolled
    <3>3. kind[C[k]] = "held"
      BY <2>1, <3>2 DEF PlacedShape
    <3> QED BY <1>5, <2>1, <3>3
  <2> QED BY <2>2, <2>3
<1>9. StackShape(F, m)'
  BY <1>1 DEF StackShape
<1>10. QueueShape(C, h + 1, t)'
  <2>1. \A k \in (h + 1) + 1 .. t : C[k] \in Node /\ C[k] # C[h + 1]
    <3>1. (h + 1) + 1 = h + 2
      BY <1>4
    <3> QED BY <1>8, <3>1 DEF nd
  <2>2. \A k \in h + 1 .. t - 1 : qnext'[C[k]].idx = C[k + 1]
    BY <1>1, <1>4 DEF QueueShape
  <2>3. q_size_' = Counted(t) - (h + 1) + 1
    BY <1>1, <1>4 DEF QueueShape
  <2>4. head_entry_'.idx = C[h + 1] /\ tail_entry_'.idx = C[t]
    BY <1>1, <1>5 DEF nd, QueueShape
  <2> QED BY <1>1, <1>3, <1>4, <2>1, <2>2, <2>3, <2>4 DEF QueueShape
<1>11. PopShape(C, h + 1, t)'
  <2>1. qnext'[dataOldHead'.idx].idx = C[h + 1]
    BY <1>1, <1>5 DEF nd
  <2>2. \A k \in h + 1 .. t : C[k] # dataOldHead'.idx
    BY <1>1 DEF QueueShape
  <2>3. C[h + 1] \in Node
    BY <1>5 DEF nd
  <2> QED BY <1>1, <2>1, <2>2, <2>3 DEF PopShape
<1>12. PushShape(C, t)'
  <2>1. ASSUME fpc \in {"push_link", "push_swing"}
        PROVE  cPtr[feedCh].idx \notin QueueStandsOn'
    <3>1. /\ \A k \in h .. t : C[k] # cPtr[feedCh].idx
      BY <2>1, PushedIsApart
    <3>2. h \in h .. t /\ h + 1 \in h .. t
      BY <1>4
    <3>3. head_entry_'.idx = C[h + 1] /\ dataOldHead'.idx = C[h]
      BY <1>1, <1>5 DEF nd, QueueShape
    <3> QED BY <1>1, <3>1, <3>2, <3>3 DEF QueueStandsOn
  <2> QED BY <1>1, <2>1 DEF PushShape
<1>13. GetShape(kind2)'
  <2>1. fpc \in {"get_next", "get_take"} => feedOld.idx \in Node
    BY DEF TypeInv, TopIsNode
  <2> QED BY <1>1, <1>5, <1>7, <2>1 DEF GetShape
<1>14. HoldShape' /\ SegmentShape(kind2)'
  BY <1>1, <1>2, <1>5, <1>7 DEF HoldShape, SegmentShape
<1>15. PlacedShape(F, m, C, h + 1, t, kind2, pos)'
  <2>1. \A i \in 1 .. m : kind2[F[i]] = "free" /\ pos[F[i]] = i
    BY <1>5, <1>7 DEF PlacedShape, StackShape
  <2>2. \A ch \in Channels : HeldNode(ch) \in Node =>
           kind2[HeldNode(ch)] = "held" /\ pos[HeldNode(ch)] = ch
    BY <1>5, <1>7 DEF PlacedShape
  <2>3. \A k \in (h + 1) + 1 .. Counted(t) : kind2[C[k]] = "queued" /\ pos[C[k]] = k
    <3> SUFFICES ASSUME NEW k \in (h + 1) + 1 .. Counted(t)
                 PROVE  kind2[C[k]] = "queued" /\ pos[C[k]] = k
      OBVIOUS
    <3>1. k \in h + 2 .. t /\ k \in h + 1 .. Counted(t)
      BY <1>4
    <3> QED BY <1>7, <1>8, <3>1 DEF PlacedShape
  <2>4. kind2[C[h + 1]] = "hand"
    BY <1>7 DEF nd
  <2> QED BY <1>2, <1>3, <2>1, <2>2, <2>3, <2>4 DEF PlacedShape
<1>16. FoundShape(F, m, C, h + 1, t, kind2, pos)'
  <2> SUFFICES ASSUME NEW x \in Node
               PROVE  /\ kind2[x] = "free" => pos[x] \in 1 .. m /\ F[pos[x]] = x
                      /\ kind2[x] = "held" => pos[x] \in Channels /\ HeldNode(pos[x]) = x
                      /\ kind2[x] = "queued" =>
                           pos[x] \in (h + 1) + 1 .. Counted(t) /\ C[pos[x]] = x
                      /\ kind2[x] = "hand" => C[h + 1] = x
    BY <1>2, <1>3 DEF FoundShape
  <2>1. CASE x = nd
    BY <1>7, <2>1 DEF nd
  <2>2. CASE x # nd
    <3>1. kind2[x] = kind[x] /\ kind[x] # "hand"
      BY <1>3, <1>7, <2>2 DEF FoundShape
    <3>2. ASSUME kind[x] = "queued"
          PROVE  pos[x] \in (h + 1) + 1 .. Counted(t) /\ C[pos[x]] = x
      <4>1. pos[x] \in h + 1 .. Counted(t) /\ C[pos[x]] = x
        BY <3>2 DEF FoundShape
      <4>2. pos[x] # h + 1
        BY <2>2, <4>1 DEF nd
      <4> QED BY <1>4, <4>1, <4>2
    <3> QED BY <3>1, <3>2 DEF FoundShape
  <2> QED BY <2>1, <2>2
<1>17. Explains(F, m, C, h + 1, t, kind2, pos)
  BY <1>4, <1>7 DEF Explains
<1> QED BY <1>9, <1>10, <1>11, <1>12, <1>13, <1>14, <1>15, <1>16, <1>17

\* The rest of pop and the compression move no node.
LEMMA PopRestShape ==
  ASSUME NEW F, NEW m, NEW C, NEW h, NEW t, NEW kind, NEW pos,
         Explained(F, m, C, h, t, kind, pos),
         DataPopCount \/ DataPopResult \/ DataCompress
  PROVE  Shape(F, m, C, h, t, kind, pos)'
<1> USE DEF Explained, Shape
<1>1. /\ UNCHANGED <<snext, top_entry_, qnext, head_entry_, tail_entry_, seg, cPtr, inSmps,
                     fpc, feedCh, feedOld, feedNext, dataOldHead>>
      /\ \/ dpc = "pop_count" /\ dpc' = "pop_result" /\ q_size_' = q_size_ - 1
            /\ dataPtr' = dataPtr
         \/ dpc = "pop_result" /\ dpc' = "compress" /\ q_size_' = q_size_
            /\ dataPtr' = qnext[dataOldHead.idx]
         \/ dpc = "compress" /\ dpc' = "reclaim_link" /\ q_size_' = q_size_
            /\ dataPtr' = dataPtr
  BY DEF DataPopCount, DataPopResult, DataCompress, DataAt, PopCount, PopResult, offData,
         segVars, feedVars, poolVars, stackVars, queueVars, dataLocals
<1>2. \A ch \in Channels : HeldNode(ch)' = HeldNode(ch) /\ Rolled(ch)' = Rolled(ch)
  BY <1>1 DEF HeldNode, Rolled
<1>3. Counted(t)' = Counted(t) /\ InHand' /\ InHand /\ Counted(t) \in Int /\ h \in Int
  BY <1>1 DEF Counted, InHand, Explains
<1>4. StackShape(F, m)' /\ GetShape(kind)' /\ HoldShape' /\ SegmentShape(kind)'
  BY <1>1, <1>2 DEF StackShape, GetShape, HoldShape, SegmentShape
<1>5. QueueShape(C, h, t)'
  <2>1. q_size_' = Counted(t) - h + (IF dpc' = "pop_count" THEN 1 ELSE 0)
    BY <1>1, <1>3 DEF QueueShape
  <2> QED BY <1>1, <1>3, <2>1 DEF QueueShape
<1>6. PopShape(C, h, t)'
  BY <1>1, <1>3 DEF PopShape
<1>7. PushShape(C, t)'
  BY <1>1 DEF PushShape, QueueStandsOn
<1>8. PlacedShape(F, m, C, h, t, kind, pos)' /\ FoundShape(F, m, C, h, t, kind, pos)'
  BY <1>2, <1>3 DEF PlacedShape, FoundShape
<1> QED BY <1>4, <1>5, <1>6, <1>7, <1>8

-----------------------------------------------------------------------------
(* Reclaim(nd), data thread.                                               *)

\* The link of the node in hand is no link of the stack yet.
LEMMA ReclaimLinkShape ==
  ASSUME NEW F, NEW m, NEW C, NEW h, NEW t, NEW kind, NEW pos,
         Explained(F, m, C, h, t, kind, pos), DataReclaimLink \/ DataReclaimRetry
  PROVE  Shape(F, m, C, h, t, kind, pos)'
<1> USE DEF Explained, Shape
<1>1. /\ UNCHANGED <<top_entry_, qnext, head_entry_, tail_entry_, q_size_, seg, cPtr, inSmps,
                     fpc, feedCh, feedOld, feedNext, dataOldHead, dataPtr>>
      /\ dpc \in {"reclaim_link", "reclaim_swing"} /\ dpc' = "reclaim_swing"
      /\ snext' = [snext EXCEPT ![dataPtr.idx] = top_entry_]
  BY DEF DataReclaimLink, DataReclaimRetry, ReclaimRetry, DataAt, ReclaimLink, offData,
         segVars, feedVars, queueVars, dataLocals
<1>2. \A ch \in Channels : HeldNode(ch)' = HeldNode(ch) /\ Rolled(ch)' = Rolled(ch)
  BY <1>1 DEF HeldNode, Rolled
<1>3. Counted(t)' = Counted(t) /\ InHand' /\ InHand /\ QueueStandsOn' = QueueStandsOn
  BY <1>1 DEF Counted, InHand, QueueStandsOn
<1>4. dataPtr.idx \in Node /\ kind[dataPtr.idx] = "hand"
  BY <1>1, <1>3 DEF PopShape, PlacedShape
<1>5. \A x \in Node : kind[x] = "free" => snext'[x] = snext[x]
  BY <1>1, <1>4, PoolTypes
<1>6. StackShape(F, m)'
  BY <1>1, <1>5 DEF StackShape, PlacedShape
<1>7. QueueShape(C, h, t)' /\ PopShape(C, h, t)' /\ PushShape(C, t)'
  BY <1>1, <1>3 DEF QueueShape, PopShape, PushShape
<1>8. GetShape(kind)'
  <2>1. fpc \in {"get_next", "get_take"} => feedOld.idx \in Node
    BY DEF TypeInv, TopIsNode
  <2> QED BY <1>1, <1>5, <2>1 DEF GetShape
<1>9. HoldShape' /\ SegmentShape(kind)'
  BY <1>1, <1>2 DEF HoldShape, SegmentShape
<1>10. PlacedShape(F, m, C, h, t, kind, pos)' /\ FoundShape(F, m, C, h, t, kind, pos)'
  BY <1>2, <1>3 DEF PlacedShape, FoundShape
<1> QED BY <1>6, <1>7, <1>8, <1>9, <1>10

\* The exchange puts the node in hand on top of the stack.
LEMMA ReclaimSwingShape ==
  ASSUME NEW F, NEW m, NEW C, NEW h, NEW t, NEW kind, NEW pos,
         Explained(F, m, C, h, t, kind, pos), DataReclaimSwing,
         NEW G, G = [F EXCEPT ![m + 1] = C[h]],
         NEW kind2, kind2 = [kind EXCEPT ![C[h]] = "free"],
         NEW pos2, pos2 = [pos EXCEPT ![C[h]] = m + 1]
  PROVE  /\ Explains(G, m + 1, C, h, t, kind2, pos2)
         /\ Shape(G, m + 1, C, h, t, kind2, pos2)'
<1> USE DEF Explained, Shape
<1>1. /\ UNCHANGED <<snext, qnext, head_entry_, tail_entry_, q_size_, seg, cPtr, inSmps,
                     fpc, feedCh, feedOld, feedNext, dataOldHead, dataPtr>>
      /\ dpc = "reclaim_swing" /\ dpc' = "size"
      /\ top_entry_ = snext[Bump(dataPtr).idx] /\ top_entry_' = Bump(dataPtr)
  BY DEF DataReclaimSwing, DataAt, ReclaimSwing, offData, segVars, feedVars, queueVars,
         dataLocals
<1> DEFINE nd == C[h]
<1>2. \A ch \in Channels : HeldNode(ch)' = HeldNode(ch) /\ Rolled(ch)' = Rolled(ch)
  BY <1>1 DEF HeldNode, Rolled
<1>3. Counted(t)' = Counted(t) /\ ~InHand' /\ InHand
  BY <1>1 DEF Counted, InHand
<1>4. /\ nd \in Node /\ kind[nd] = "hand" /\ dataPtr.idx = nd
      /\ top_entry_'.idx = nd /\ snext[nd] = top_entry_
  BY <1>1, <1>3, PoolTypes, IndexTypes DEF PopShape, PlacedShape
<1>5. /\ m \in Nat /\ h \in Nat /\ t \in Nat /\ F \in [Nat -> Slot] /\ C \in [Nat -> Slot]
      /\ kind \in [Node -> Kinds] /\ pos \in [Node -> Int]
  BY DEF Explains
<1>6. /\ kind2 \in [Node -> Kinds] /\ kind2[nd] = "free"
      /\ \A x \in Node \ {nd} : kind2[x] = kind[x]
  BY <1>4, <1>5 DEF Kinds
<1>7. /\ pos2 \in [Node -> Int] /\ pos2[nd] = m + 1
      /\ \A x \in Node \ {nd} : pos2[x] = pos[x]
  BY <1>4, <1>5
<1>8. /\ G \in [Nat -> Slot] /\ G[m + 1] = nd
      /\ \A i \in 0 .. m : G[i] = F[i]
  <2>1. nd \in Slot /\ m + 1 \in Nat
    BY <1>4, <1>5, IndexTypes
  <2> QED BY <1>5, <2>1
<1> HIDE DEF nd
<1>9. StackShape(G, m + 1)'
  <2>1. G[0] = Null /\ top_entry_'.idx = G[m + 1]
    BY <1>4, <1>5, <1>8 DEF StackShape
  <2>2. ASSUME NEW i \in 1 .. m + 1
        PROVE  G[i] \in Node /\ snext'[G[i]].idx = G[i - 1]
    <3>1. CASE i = m + 1
      <4>1. i - 1 = m /\ G[m] = F[m]
        BY <1>5, <1>8, <3>1
      <4> QED BY <1>1, <1>4, <1>8, <3>1, <4>1 DEF StackShape
    <3>2. CASE i \in 1 .. m
      <4>1. G[i] = F[i] /\ G[i - 1] = F[i - 1]
        BY <1>5, <1>8, <3>2
      <4> QED BY <1>1, <3>2, <4>1 DEF StackShape
    <3> QED BY <1>5, <3>1, <3>2
  <2> QED BY <2>1, <2>2 DEF StackShape
<1>10. QueueShape(C, h, t)' /\ PopShape(C, h, t)' /\ PushShape(C, t)'
  BY <1>1, <1>3 DEF QueueShape, PopShape, PushShape, QueueStandsOn
<1>11. GetShape(kind2)'
  <2>1. fpc \in {"get_next", "get_take"} => feedOld.idx \in Node
    BY DEF TypeInv, TopIsNode
  <2> QED BY <1>1, <1>6, <2>1 DEF GetShape
<1>12. HoldShape' /\ SegmentShape(kind2)'
  BY <1>1, <1>2, <1>6 DEF HoldShape, SegmentShape
<1>13. PlacedShape(G, m + 1, C, h, t, kind2, pos2)'
  <2>1. \A i \in 1 .. m + 1 : kind2[G[i]] = "free" /\ pos2[G[i]] = i
    <3> SUFFICES ASSUME NEW i \in 1 .. m + 1 PROVE kind2[G[i]] = "free" /\ pos2[G[i]] = i
      OBVIOUS
    <3>1. CASE i = m + 1
      BY <1>6, <1>7, <1>8, <3>1
    <3>2. CASE i \in 1 .. m
      <4>1. G[i] = F[i]
        BY <1>8, <3>2
      <4>2. F[i] \in Node /\ kind[F[i]] = "free" /\ pos[F[i]] = i
        BY <3>2 DEF StackShape, PlacedShape
      <4> QED BY <1>4, <1>6, <1>7, <4>1, <4>2
    <3> QED BY <1>5, <3>1, <3>2
  <2>2. \A ch \in Channels : HeldNode(ch) \in Node =>
           kind2[HeldNode(ch)] = "held" /\ pos2[HeldNode(ch)] = ch
    BY <1>4, <1>6, <1>7 DEF PlacedShape
  <2>3. \A k \in h + 1 .. Counted(t) : kind2[C[k]] = "queued" /\ pos2[C[k]] = k
    <3> SUFFICES ASSUME NEW k \in h + 1 .. Counted(t)
                 PROVE  kind2[C[k]] = "queued" /\ pos2[C[k]] = k
      OBVIOUS
    <3>1. k \in h + 1 .. t
      BY <1>5 DEF Counted
    <3>2. C[k] \in Node /\ C[k] # nd
      BY <3>1 DEF QueueShape, nd
    <3> QED BY <1>6, <1>7, <3>2 DEF PlacedShape
  <2> QED BY <1>2, <1>3, <2>1, <2>2, <2>3 DEF PlacedShape
<1>14. FoundShape(G, m + 1, C, h, t, kind2, pos2)'
  <2> SUFFICES ASSUME NEW x \in Node
               PROVE  /\ kind2[x] = "free" => pos2[x] \in 1 .. m + 1 /\ G[pos2[x]] = x
                      /\ kind2[x] = "held" => pos2[x] \in Channels /\ HeldNode(pos2[x]) = x
                      /\ kind2[x] = "queued" => pos2[x] \in h + 1 .. Counted(t) /\ C[pos2[x]] = x
                      /\ kind2[x] # "hand"
    BY <1>2, <1>3 DEF FoundShape
  <2>1. CASE x = nd
    BY <1>5, <1>6, <1>7, <1>8, <2>1
  <2>2. CASE x # nd
    <3>1. kind2[x] = kind[x] /\ pos2[x] = pos[x] /\ kind[x] # "hand"
      BY <1>6, <1>7, <2>2 DEF FoundShape, nd
    <3>2. ASSUME kind[x] = "free" PROVE pos[x] \in 1 .. m + 1 /\ G[pos[x]] = x
      <4>1. pos[x] \in 1 .. m /\ F[pos[x]] = x
        BY <3>2 DEF FoundShape
      <4> QED BY <1>5, <1>8, <4>1
    <3> QED BY <3>1, <3>2 DEF FoundShape
  <2> QED BY <2>1, <2>2
<1>15. Explains(G, m + 1, C, h, t, kind2, pos2)
  BY <1>5, <1>6, <1>7, <1>8 DEF Explains
<1> QED BY <1>9, <1>10, <1>11, <1>12, <1>13, <1>14, <1>15

-----------------------------------------------------------------------------
(* ShapeInv is inductive relative to TypeInv, while the data thread keeps  *)
(* up.                                                                     *)

\* A callback of the feed thread.
LEMMA FeedCallKeepsShape ==
  ASSUME KeepsUp, TypeInv, QuietAtStart, ShapeInv, FeedCall
  PROVE  ShapeInv'
<1>1. PICK F, m, C, h, t, kind, pos : Explained(F, m, C, h, t, kind, pos)
  BY DEF ShapeInv, Explained
<1>2. Shape(F, m, C, h, t, kind, pos)' => ShapeInv'
  BY <1>1 DEF ShapeInv, Explained
<1>3. CASE \/ FeedHeader \/ FeedEnd
           \/ \E c \in Channels, n \in PktSizes : AppendFits(c, n)
  <2>1. /\ UNCHANGED <<poolVars, segVars, feedOld, feedNext, dataOldHead, dataPtr>>
        /\ {fpc, fpc'} \subseteq QuietFeed
        /\ UNCHANGED dpc \/ {dpc, dpc'} \subseteq QuietData
    BY <1>3
       DEF FeedHeader, FeedEnd, AppendFits, FeedAt, dataVars, feedLocals, QuietFeed, QuietData, QuietAtStart
  <2> QED BY <1>1, <1>2, <2>1, QuietShape
<1>4. ASSUME NEW c \in Channels, NEW n \in PktSizes, AppendRolls(c, n)
      PROVE  ShapeInv'
  BY <1>1, <1>2, <1>4, RollsShape
<1> QED BY <1>3, <1>4 DEF FeedCall

\* A step of the feed thread.
LEMMA FeedStepKeepsShape ==
  ASSUME TypeInv, ShapeInv, FeedStep
  PROVE  ShapeInv'
<1>1. PICK F, m, C, h, t, kind, pos : Explained(F, m, C, h, t, kind, pos)
  BY DEF ShapeInv, Explained
<1>2. \A G, n, D, e, f, kind2, pos2 :
        /\ Explains(G, n, D, e, f, kind2, pos2)
        /\ Shape(G, n, D, e, f, kind2, pos2)'
        => ShapeInv'
  BY DEF ShapeInv
<1>3. Shape(F, m, C, h, t, kind, pos)' => ShapeInv'
  BY <1>1, <1>2 DEF Explained
<1>4. CASE FeedWildWrite \/ FeedWriteThrows
  <2>1. UNCHANGED <<poolVars, segVars, feedOld, feedNext, dataOldHead, dataPtr, dpc, fpc, feedCh>>
    BY <1>4 DEF FeedWildWrite, FeedWriteThrows, FeedAt, dataVars, feedLocals, offQueue
  <2> QED BY <1>1, <1>3, <2>1, QuietShape
<1>5. CASE FeedSignal \/ FeedEndSignal
  <2>1. /\ UNCHANGED <<poolVars, segVars, feedOld, feedNext, dataOldHead, dataPtr, dpc>>
        /\ {fpc, fpc'} \subseteq QuietFeed
    BY <1>5 DEF FeedSignal, FeedEndSignal, FeedAt, dataVars, feedLocals, QuietFeed
  <2> QED BY <1>1, <1>3, <2>1, QuietShape
<1>6. CASE FeedPushLink
  BY <1>1, <1>3, <1>6, PushLinkShape
<1>7. CASE FeedPushRetry
  BY <1>1, <1>3, <1>7, PushRetryShape
<1>8. CASE FeedPushSwing
  <2>1. PICK D : D = [C EXCEPT ![t + 1] = cPtr[feedCh].idx]
    OBVIOUS
  <2>2. Explains(F, m, D, h, t + 1, kind, pos) /\ Shape(F, m, D, h, t + 1, kind, pos)'
    BY <1>1, <1>8, <2>1, PushSwingShape
  <2> QED BY <1>2, <2>2
<1>9. CASE FeedPushCount
  <2>1. PICK kind2 : kind2 = [kind EXCEPT ![cPtr[feedCh].idx] = "queued"]
    OBVIOUS
  <2>2. PICK pos2 : pos2 = [pos EXCEPT ![cPtr[feedCh].idx] = t]
    OBVIOUS
  <2>3. Explains(F, m, C, h, t, kind2, pos2) /\ Shape(F, m, C, h, t, kind2, pos2)'
    BY <1>1, <1>9, <2>1, <2>2, PushCountShape
  <2> QED BY <1>2, <2>3
<1>10. CASE FeedGetIncr \/ FeedGetNext \/ FeedGetRetry
  BY <1>1, <1>3, <1>10, GetReadsShape
<1>11. CASE FeedGetTake
  <2>1. PICK kind2 : kind2 = [kind EXCEPT ![feedOld.idx] = "held"]
    OBVIOUS
  <2>2. PICK pos2 : pos2 = [pos EXCEPT ![feedOld.idx] = feedCh]
    OBVIOUS
  <2>3. Explains(F, m - 1, C, h, t, kind2, pos2) /\ Shape(F, m - 1, C, h, t, kind2, pos2)'
    BY <1>1, <1>11, <2>1, <2>2, GetTakeShape
  <2> QED BY <1>2, <2>3
<1>12. CASE FeedSet
  BY <1>1, <1>3, <1>12, SetShape
<1>13. CASE FeedSetNull
  BY <1>1, <1>3, <1>13, SetNullShape
<1>14. CASE FeedWrite
  BY <1>1, <1>3, <1>14, WriteShape
<1> QED
  BY <1>4, <1>5, <1>6, <1>7, <1>8, <1>9, <1>10, <1>11, <1>12, <1>13, <1>14 DEF FeedStep

\* A step of the data thread.
LEMMA DataStepKeepsShape ==
  ASSUME TypeInv, ShapeInv, DataStep
  PROVE  ShapeInv'
<1>1. PICK F, m, C, h, t, kind, pos : Explained(F, m, C, h, t, kind, pos)
  BY DEF ShapeInv, Explained
<1>2. \A G, n, D, e, f, kind2, pos2 :
        /\ Explains(G, n, D, e, f, kind2, pos2)
        /\ Shape(G, n, D, e, f, kind2, pos2)'
        => ShapeInv'
  BY DEF ShapeInv
<1>3. Shape(F, m, C, h, t, kind, pos)' => ShapeInv'
  BY <1>1, <1>2 DEF Explained
<1>4. CASE DataCheck \/ DataWake \/ DataClear \/ DataQueueHasBlock \/ DataQueueDrained
  <2>1. /\ UNCHANGED <<poolVars, segVars, feedOld, feedNext, dataOldHead, dataPtr, fpc, feedCh>>
        /\ {dpc, dpc'} \subseteq QuietData
    BY <1>4 DEF DataCheck, DataWake, DataClear, DataQueueHasBlock, DataQueueDrained, DataAt,
                offData, feedVars, dataLocals, QuietData
  <2> QED BY <1>1, <1>3, <2>1, QuietShape
<1>5. CASE DataPopSwing
  <2>1. PICK kind2 : kind2 = [kind EXCEPT ![C[h + 1]] = "hand"]
    OBVIOUS
  <2>2. Explains(F, m, C, h + 1, t, kind2, pos) /\ Shape(F, m, C, h + 1, t, kind2, pos)'
    BY <1>1, <1>5, <2>1, PopSwingShape
  <2> QED BY <1>2, <2>2
<1>6. CASE DataPopCount \/ DataPopResult \/ DataCompress
  BY <1>1, <1>3, <1>6, PopRestShape
<1>7. CASE DataCompressNull \/ DataCompressFails
  <2>1. UNCHANGED <<poolVars, segVars, feedOld, feedNext, dataOldHead, dataPtr, dpc, fpc, feedCh>>
    BY <1>7 DEF DataCompressNull, DataCompressFails, DataAt, offData, feedVars, dataLocals
  <2> QED BY <1>1, <1>3, <2>1, QuietShape
<1>8. CASE DataReclaimLink \/ DataReclaimRetry
  BY <1>1, <1>3, <1>8, ReclaimLinkShape
<1>9. CASE DataReclaimSwing
  <2>1. PICK G : G = [F EXCEPT ![m + 1] = C[h]]
    OBVIOUS
  <2>2. PICK kind2 : kind2 = [kind EXCEPT ![C[h]] = "free"]
    OBVIOUS
  <2>3. PICK pos2 : pos2 = [pos EXCEPT ![C[h]] = m + 1]
    OBVIOUS
  <2>4. Explains(G, m + 1, C, h, t, kind2, pos2) /\ Shape(G, m + 1, C, h, t, kind2, pos2)'
    BY <1>1, <1>9, <2>1, <2>2, <2>3, ReclaimSwingShape
  <2> QED BY <1>2, <2>4
<1> QED BY <1>4, <1>5, <1>6, <1>7, <1>8, <1>9 DEF DataStep

\* ShapeInv is inductive relative to TypeInv and QuietAtStart.
LEMMA ShapeStep ==
  ASSUME KeepsUp, TypeInv, QuietAtStart, ShapeInv, [Next]_vars
  PROVE  ShapeInv'
<1>1. CASE UNCHANGED vars
  <2>1. PICK F, m, C, h, t, kind, pos : Explained(F, m, C, h, t, kind, pos)
    BY DEF ShapeInv, Explained
  <2>2. Shape(F, m, C, h, t, kind, pos)'
    BY <1>1, <2>1, QuietShape DEF vars, feedVars, dataVars
  <2> QED BY <2>1, <2>2 DEF ShapeInv, Explained
<1> QED
  BY <1>1, FeedCallKeepsShape, FeedStepKeepsShape, DataStepKeepsShape DEF Next

-----------------------------------------------------------------------------
(* What the constructor leaves.                                            *)

\* The order in which the constructor gave the channels their nodes.
ChannelNo(c) == CHOOSE i \in DOMAIN Analog : Analog[i] = c

LEMMA ChannelNumbers ==
  /\ Len(Analog) \in Nat /\ NumNodes \in Nat /\ NumNodes >= Len(Analog)
  /\ \A c \in Channels : ChannelNo(c) \in 1 .. Len(Analog) /\ Analog[ChannelNo(c)] = c
  /\ \A i \in 1 .. Len(Analog) : Analog[i] \in Channels /\ ChannelNo(Analog[i]) = i
<1>1. Len(Analog) \in Nat /\ DOMAIN Analog = 1 .. Len(Analog)
  BY SamplesAssumption, LenProperties
<1>2. NumNodes \in Nat /\ NumNodes >= Len(Analog)
  BY PoolAssumption, SamplesAssumption
<1>3. \A i, j \in DOMAIN Analog : Analog[i] = Analog[j] => i = j
  BY SamplesAssumption
<1>4. \A c \in Channels : ChannelNo(c) \in DOMAIN Analog /\ Analog[ChannelNo(c)] = c
  BY DEF ChannelNo, Channels
<1>5. \A i \in DOMAIN Analog : Analog[i] \in Channels
  BY DEF Channels
<1>6. \A i \in DOMAIN Analog : ChannelNo(Analog[i]) = i
  BY <1>3, <1>4, <1>5
<1> QED BY <1>1, <1>2, <1>4, <1>5, <1>6

\* The first channel holds the last node, and so on downwards; the others are free.
LEMMA InitShape == Init => ShapeInv
<1> SUFFICES ASSUME Init PROVE ShapeInv
  OBVIOUS
<1> DEFINE m == NumNodes - Len(Analog)
           F == [i \in Nat |-> IF i <= NumNodes THEN i - 1 ELSE Null]
           C == [i \in Nat |-> Null]
           kind == [n \in Node |-> IF n < m THEN "free" ELSE "held"]
           pos == [n \in Node |-> IF n < m THEN n + 1 ELSE Analog[NumNodes - n]]
<1>1. m \in Nat /\ Len(Analog) \in Nat /\ NumNodes \in Nat /\ m <= NumNodes
  BY ChannelNumbers
<1>2. /\ snext = [i \in Node |-> [cnt |-> 1 % CntMod, idx |-> i - 1]]
      /\ top_entry_ = [cnt |-> 1 % CntMod, idx |-> NumNodes - 1 - Len(Analog)]
      /\ head_entry_ = NoPtr /\ tail_entry_ = NoPtr /\ q_size_ = 0
      /\ fpc = "new" /\ dpc = "none"
  BY DEF Init, PoolInit
<1>3. /\ \A c \in Channels : cPtr[c] = InitiallyTaken(ChannelNo(c) - 1)
      /\ \A c \in Channels : inSmps[c] = 0
  BY DEF Init, ChannelNo
<1>4. \A c \in Channels : cPtr[c].idx = NumNodes - ChannelNo(c) /\ cPtr[c].idx \in m .. NumNodes - 1
  <2> SUFFICES ASSUME NEW c \in Channels
               PROVE  cPtr[c].idx = NumNodes - ChannelNo(c) /\ cPtr[c].idx \in m .. NumNodes - 1
    OBVIOUS
  <2>1. cPtr[c].idx = NumNodes - 1 - (ChannelNo(c) - 1)
    <3>1. cPtr[c] = InitiallyTaken(ChannelNo(c) - 1)
      BY <1>3
    <3>2. \A k : InitiallyTaken(k).idx = NumNodes - 1 - k
      BY DEF InitiallyTaken
    <3> QED BY <3>1, <3>2
  <2>2. ChannelNo(c) \in 1 .. Len(Analog)
    BY ChannelNumbers
  <2> QED BY <1>1, <2>1, <2>2
<1>5. \A c \in Channels : ~Rolled(c) /\ HeldNode(c) = cPtr[c].idx
  BY <1>2 DEF Rolled, HeldNode
<1>6. Counted(0) = 0 /\ ~InHand
  BY <1>2 DEF Counted, InHand
<1>7. \A n \in Node : n >= m =>
        /\ Analog[NumNodes - n] \in Channels
        /\ cPtr[Analog[NumNodes - n]].idx = n
  <2> SUFFICES ASSUME NEW n \in Node, n >= m
               PROVE  /\ Analog[NumNodes - n] \in Channels
                      /\ cPtr[Analog[NumNodes - n]].idx = n
    OBVIOUS
  <2>1. n \in Nat /\ NumNodes - n \in 1 .. Len(Analog)
    BY <1>1 DEF Node
  <2>2. ChannelNo(Analog[NumNodes - n]) = NumNodes - n /\ Analog[NumNodes - n] \in Channels
    BY <2>1, ChannelNumbers
  <2> QED BY <1>1, <1>4, <2>1, <2>2
<1>8. Explains(F, m, C, 0, 0, kind, pos)
  <2>1. F \in [Nat -> Slot] /\ C \in [Nat -> Slot]
    BY <1>1 DEF Slot, Node, Null
  <2>2. kind \in [Node -> Kinds]
    BY DEF Kinds
  <2>3. Channels \subseteq Int /\ Node \subseteq Int
    BY ChannelTypes, <1>1 DEF Node
  <2>4. pos \in [Node -> Int]
    <3>1. ASSUME NEW n \in Node PROVE (IF n < m THEN n + 1 ELSE Analog[NumNodes - n]) \in Int
      <4>1. CASE n < m
        BY <2>3, <4>1
      <4>2. CASE ~(n < m)
        <5>1. n >= m
          BY <1>1, <2>3, <4>2
        <5> QED BY <1>7, <2>3, <4>2, <5>1
      <4> QED BY <4>1, <4>2
    <3> QED BY <3>1
  <2> QED BY <1>1, <2>1, <2>2, <2>4 DEF Explains
<1>9. StackShape(F, m)
  <2>1. F[0] = Null /\ top_entry_.idx = F[m]
    BY <1>1, <1>2 DEF Null
  <2>2. ASSUME NEW i \in 1 .. m PROVE F[i] \in Node /\ snext[F[i]].idx = F[i - 1]
    <3>1. i \in Nat /\ i - 1 \in Nat /\ i <= NumNodes /\ i - 1 <= NumNodes
      BY <1>1
    <3>2. F[i] = i - 1 /\ F[i - 1] = (i - 1) - 1
      BY <3>1
    <3>3. i - 1 \in Node
      BY <1>1 DEF Node
    <3> QED BY <1>2, <3>2, <3>3
  <2> HIDE DEF m, F
  <2> QED BY <2>1, <2>2 DEF StackShape
<1>10. QueueShape(C, 0, 0) /\ PopShape(C, 0, 0) /\ PushShape(C, 0) /\ GetShape(kind)
  BY <1>2, <1>6 DEF QueueShape, PopShape, PushShape, GetShape, NoPtr
<1>11. PlacedShape(F, m, C, 0, 0, kind, pos)
  <2>1. ASSUME NEW i \in 1 .. m PROVE kind[F[i]] = "free" /\ pos[F[i]] = i
    BY <1>1 DEF Node
  <2>2. ASSUME NEW c \in Channels
        PROVE  kind[HeldNode(c)] = "held" /\ pos[HeldNode(c)] = c
    <3>1. HeldNode(c) = NumNodes - ChannelNo(c) /\ HeldNode(c) \in m .. NumNodes - 1
      BY <1>4, <1>5
    <3>2. ChannelNo(c) \in 1 .. Len(Analog) /\ Analog[ChannelNo(c)] = c
      BY ChannelNumbers
    <3> DEFINE n == HeldNode(c)
    <3>3. NumNodes - n = ChannelNo(c) /\ n \in Node /\ ~(n < m)
      BY <1>1, <3>1, <3>2 DEF Node
    <3> HIDE DEF n
    <3>4. kind[n] = "held" /\ pos[n] = Analog[NumNodes - n]
      BY <3>3
    <3> QED BY <3>2, <3>3, <3>4 DEF n
  <2> HIDE DEF m, F, kind, pos
  <2> QED BY <1>6, <2>1, <2>2 DEF PlacedShape
<1>12. FoundShape(F, m, C, 0, 0, kind, pos)
  <2> SUFFICES ASSUME NEW n \in Node
               PROVE  /\ kind[n] = "free" => pos[n] \in 1 .. m /\ F[pos[n]] = n
                      /\ kind[n] = "held" => pos[n] \in Channels /\ HeldNode(pos[n]) = n
                      /\ kind[n] \notin {"queued", "hand"}
    BY DEF FoundShape
  <2>1. CASE n < m
    BY <1>1, <2>1 DEF Node
  <2>2. CASE n >= m
    <3>1. kind[n] = "held" /\ pos[n] = Analog[NumNodes - n]
      BY <1>1, <2>2 DEF Node
    <3> QED BY <1>5, <1>7, <2>2, <3>1
  <2> QED BY <1>1, <2>1, <2>2 DEF Node
<1>13. HoldShape
  <2>1. \A c \in Channels : HeldNode(c) \in Node
    BY <1>1, <1>4, <1>5 DEF Node
  <2> QED BY <2>1 DEF HoldShape
<1>14. SegmentShape(kind)
  <2>1. \A n \in Node : kind[n] \notin {"queued", "hand"}
    OBVIOUS
  <2>2. ASSUME NEW c \in Channels PROVE seg[cPtr[c].idx] = SetSegment(c, 0)
    <3> DEFINE k == cPtr[c].idx
               Owner == {ch \in Channels : cPtr[ch].idx = k}
    <3>1. k \in Node
      BY <1>1, <1>4 DEF Node
    <3>2. \A ch \in Channels : cPtr[ch].idx = k => ch = c
      BY <1>4, ChannelNumbers
    <3>3. seg[k] = IF Owner = {} THEN FreshSegment
                   ELSE SetSegment(CHOOSE ch \in Owner : TRUE, 0)
      <4>1. Owner = {ch \in Channels : InitiallyTaken(ChannelNo(ch) - 1).idx = k}
        BY <1>3
      <4> HIDE DEF k, Owner
      <4> QED BY <3>1, <4>1 DEF Init, ChannelNo
    <3>4. Owner = {c}
      BY <3>2
    <3> QED BY <3>3, <3>4
  <2>3. \A c \in Channels : /\ seg[cPtr[c].idx].chIdx = c
                            /\ seg[cPtr[c].idx].wrPos = 0
                            /\ seg[cPtr[c].idx].smpsSeq = 0
    <3>1. \A c : SetSegment(c, 0).chIdx = c /\ SetSegment(c, 0).wrPos = 0 /\ SetSegment(c, 0).smpsSeq = 0
      BY DEF SetSegment
    <3> HIDE DEF kind
    <3> QED BY <2>2, <3>1
  <2>4. 0 % 4 = 0 /\ 0 + 0 \div 4 = 0
    OBVIOUS
  <2> HIDE DEF kind
  <2> QED BY <1>3, <2>1, <2>3, <2>4 DEF SegmentShape, SizeofFloat
<1> HIDE DEF m, F, C, kind, pos
<1>15. Shape(F, m, C, 0, 0, kind, pos)
  BY <1>9, <1>10, <1>11, <1>12, <1>13, <1>14 DEF Shape
<1> QED BY <1>8, <1>15 DEF ShapeInv

PoolInv == TypeInv /\ WakeInv /\ ShapeInv

\* While the data thread keeps up the links are those of a stack and a queue.
LEMMA PoolInvariant == KeepsUp => (Spec => []PoolInv)
<1> SUFFICES ASSUME KeepsUp PROVE Spec => []PoolInv
  OBVIOUS
<1>1. Init => PoolInv
  BY InitType, InitWake, InitShape DEF PoolInv
<1>2. PoolInv /\ [Next]_vars => PoolInv'
  <2>1. PoolInv /\ [Next]_vars => ShapeInv'
    BY ShapeStep DEF PoolInv, WakeInv
  <2> QED BY <2>1, TypeStep, WakeStep DEF PoolInv
<1> QED BY <1>1, <1>2, PTL DEF Spec

-----------------------------------------------------------------------------
(* Null segments.                                                          *)

\* The block the data thread compresses is a node's, and a channel's.
LEMMA CompressesBlock == TypeInv /\ ShapeInv /\ dpc = "compress" => HasChannel(dataPtr)
<1> SUFFICES ASSUME TypeInv, ShapeInv, dpc = "compress" PROVE HasChannel(dataPtr)
  OBVIOUS
<1>1. PICK F, m, C, h, t, kind, pos : Shape(F, m, C, h, t, kind, pos)
  BY DEF ShapeInv
<1>2. InHand /\ dataPtr.idx = C[h] /\ C[h] \in Node /\ kind[C[h]] = "hand"
  BY <1>1 DEF Shape, PopShape, PlacedShape, InHand
<1> QED BY <1>1, <1>2, IndexTypes DEF Shape, SegmentShape, HasChannel

(***************************************************************************)
(* While the data thread keeps up it compresses nothing but blocks whose   *)
(* status_ says they are ready to read, so that the block it compresses is *)
(* never one append_analog is filling: what the ready_blocks run refutes   *)
(* needs a driver that outruns the data thread.                            *)
(***************************************************************************)
THEOREM ReadsReadyIfKept == KeepsUp => (Spec => []ReadsReadyBlocks)
<1> SUFFICES ASSUME KeepsUp PROVE Spec => []ReadsReadyBlocks
  OBVIOUS
<1>1. PoolInv => ReadsReadyBlocks
  <2> SUFFICES ASSUME PoolInv, dpc = "compress" PROVE seg[dataPtr.idx].status
    BY DEF ReadsReadyBlocks
  <2>1. PICK F, m, C, h, t, kind, pos : Shape(F, m, C, h, t, kind, pos)
    BY DEF PoolInv, ShapeInv
  <2>2. dataPtr.idx = C[h] /\ C[h] \in Node /\ kind[C[h]] = "hand"
    BY <2>1 DEF Shape, PopShape, PlacedShape, InHand
  <2> QED BY <2>1, <2>2 DEF Shape, SegmentShape
<1> QED BY <1>1, PoolInvariant, PTL

(***************************************************************************)
(* While the data thread keeps up, pop never returns a null entry or a     *)
(* segment without a channel: only append_analog can dereference nullptr,  *)
(* after GetOne has found the stack empty.                                 *)
(***************************************************************************)
THEOREM OnlyFeedMeetsNull == KeepsUp => (Spec => []NullByFeedOnly)
<1> SUFFICES ASSUME KeepsUp PROVE Spec => []NullByFeedOnly
  OBVIOUS
<1>1. Init => NullByFeedOnly
  BY DEF Init, NullByFeedOnly
<1>2. PoolInv /\ NullByFeedOnly /\ [Next]_vars => NullByFeedOnly'
  <2> SUFFICES ASSUME PoolInv, NullByFeedOnly, [Next]_vars PROVE NullByFeedOnly'
    OBVIOUS
  <2> USE DEF NullByFeedOnly
  <2>1. CASE UNCHANGED vars
    BY <2>1 DEF vars, feedVars
  <2>2. CASE FeedCall
    BY <2>2 DEF FeedCall, FeedHeader, FeedEnd, AppendFits, AppendRolls, FeedAt
  <2>3. CASE FeedSetNull
    BY <2>3 DEF FeedSetNull, FeedAt, feedLocals
  <2>4. CASE FeedStep /\ ~FeedSetNull
    BY <2>4
       DEF FeedStep, FeedPushLink, FeedWildWrite, FeedPushSwing, FeedPushRetry, FeedPushCount,
           FeedGetIncr, FeedGetNext, FeedGetTake, FeedGetRetry, FeedSet, FeedSignal,
           FeedWrite, FeedWriteThrows, FeedEndSignal, FeedAt
  <2>5. CASE DataCompressNull
    BY <2>5, CompressesBlock DEF DataCompressNull, DataAt, PoolInv
  <2>6. CASE DataStep /\ ~DataCompressNull
    BY <2>6
       DEF DataStep, DataCheck, DataWake, DataClear, DataQueueHasBlock, DataQueueDrained,
           DataPopSwing, DataPopCount, DataPopResult, DataCompress, DataCompressFails,
           DataReclaimLink, DataReclaimSwing, DataReclaimRetry, DataAt
  <2> QED BY <2>1, <2>2, <2>3, <2>4, <2>5, <2>6 DEF Next
<1> QED BY <1>1, <1>2, PoolInvariant, PTL DEF Spec

-----------------------------------------------------------------------------
(* The walks along the links that OnePlacePerNode is stated with.          *)

\* A set of numbers has a least one.
LEMMA LeastNumber ==
  ASSUME NEW S \in SUBSET Nat, S # {}
  PROVE  \E n \in S : \A k \in S : n <= k
<1>1. PICK n \in S : \A k \in S : ~(<<k, n>> \in OpToRel(<, Nat))
  <2>1. IsWellFoundedOn(OpToRel(<, Nat), Nat)
    BY NatLessThanWellFounded
  <2>2. \E n \in S : \A k \in S : ~(<<k, n>> \in OpToRel(<, Nat))
    BY <2>1, WFMin
  <2> QED BY <2>2
<1>2. ASSUME NEW k \in S PROVE n <= k
  <2>1. ~(<<k, n>> \in {ss \in Nat \X Nat : ss[1] < ss[2]})
    BY <1>1 DEF OpToRel
  <2>2. k \in Nat /\ n \in Nat
    OBVIOUS
  <2>3. ~(k < n)
    BY <2>1, <2>2
  <2> QED BY <2>2, <2>3
<1> QED BY <1>2

\* f starts and goes on as the walk along links does.
Walks(f, first, links, n) ==
  f = [k \in 0 .. n |->
         IF k = 0 THEN first
         ELSE IF f[k - 1] \in DOMAIN links THEN links[f[k - 1]].idx ELSE Null]

\* The walk is the only function that does.
LEMMA WalkForm ==
  ASSUME NEW first, NEW links, NEW n \in Nat, NEW G, Walks(G, first, links, n)
  PROVE  LinkWalk(first, links, n) = G
<1> DEFINE W == LinkWalk(first, links, n)
<1>1. W = CHOOSE f : Walks(f, first, links, n)
  BY DEF LinkWalk, Walks
<1>2. Walks(G, first, links, n)
  OBVIOUS
<1>3. Walks(W, first, links, n)
  <2> HIDE DEF W
  <2> QED BY <1>1, <1>2
<1> HIDE DEF W
<1>4. /\ W = [k \in 0 .. n |->
                IF k = 0 THEN first
                ELSE IF W[k - 1] \in DOMAIN links THEN links[W[k - 1]].idx ELSE Null]
      /\ G = [k \in 0 .. n |->
                IF k = 0 THEN first
                ELSE IF G[k - 1] \in DOMAIN links THEN links[G[k - 1]].idx ELSE Null]
  BY <1>2, <1>3 DEF Walks
<1>5. \A k \in 0 .. n : W[k] = G[k]
  <2> DEFINE D == {k \in 0 .. n : W[k] # G[k]}
  <2> SUFFICES ASSUME D # {} PROVE FALSE
    OBVIOUS
  <2>1. PICK k \in D : \A j \in D : k <= j
    <3>1. D \in SUBSET Nat
      OBVIOUS
    <3> HIDE DEF D
    <3> QED BY <3>1, LeastNumber
  <2>2. k \in 0 .. n /\ W[k] # G[k]
    OBVIOUS
  <2>3. k # 0
    BY <1>4, <2>2
  <2>4. k - 1 \in 0 .. n /\ k - 1 \notin D
    BY <2>1, <2>2, <2>3
  <2>5. W[k - 1] = G[k - 1]
    BY <2>4
  <2>6. W[k] = (IF W[k - 1] \in DOMAIN links THEN links[W[k - 1]].idx ELSE Null)
    BY <1>4, <2>2, <2>3
  <2>7. G[k] = (IF G[k - 1] \in DOMAIN links THEN links[G[k - 1]].idx ELSE Null)
    BY <1>4, <2>2, <2>3
  <2> QED BY <2>2, <2>5, <2>6, <2>7
<1>6. W = G
  BY <1>4, <1>5
<1> QED BY <1>6 DEF W

\* There are no more free nodes than nodes.
LEMMA StackFits ==
  ASSUME NEW F, NEW m, NEW C, NEW h, NEW t, NEW kind, NEW pos,
         Explained(F, m, C, h, t, kind, pos)
  PROVE  m <= NumNodes
<1> DEFINE f == [i \in 1 .. m |-> F[i]]
<1>1. m \in Nat /\ NumNodes \in Nat
  BY PoolAssumption DEF Explained, Explains
<1>2. /\ \A i \in 1 .. m : F[i] \in Node
      /\ \A i, j \in 1 .. m : F[i] = F[j] => i = j
  BY DEF Explained, Shape, StackShape, PlacedShape
<1>3. f \in Injection(1 .. m, Node)
  BY <1>2 DEF Injection, IsInjective
<1>4. IsFiniteSet(Node) /\ Cardinality(Node) = NumNodes
  <2>1. IsFiniteSet(0 .. NumNodes - 1)
        /\ Cardinality(0 .. NumNodes - 1) = IF 0 > NumNodes - 1 THEN 0 ELSE NumNodes - 1 - 0 + 1
    BY <1>1, FS_Interval
  <2> QED BY <1>1, <2>1 DEF Node
<1>5. Cardinality(1 .. m) = m
  <2>1. Cardinality(1 .. m) = IF 1 > m THEN 0 ELSE m - 1 + 1
    BY <1>1, FS_Interval
  <2> QED BY <1>1, <2>1
<1>6. Cardinality(1 .. m) <= Cardinality(Node)
  <2> HIDE DEF f
  <2> QED BY <1>3, <1>4, FS_Injection
<1> QED BY <1>4, <1>5, <1>6

\* From the top down the stack is F read backwards.
LEMMA FreeForm ==
  ASSUME NEW F, NEW m, NEW C, NEW h, NEW t, NEW kind, NEW pos,
         Explained(F, m, C, h, t, kind, pos)
  PROVE  FreeWalk = [k \in 0 .. NumNodes |-> IF k <= m THEN F[m - k] ELSE Null]
<1> DEFINE G == [k \in 0 .. NumNodes |-> IF k <= m THEN F[m - k] ELSE Null]
<1>1. m \in Nat /\ NumNodes \in Nat /\ m <= NumNodes /\ F \in [Nat -> Slot]
  BY StackFits, PoolAssumption DEF Explained, Explains
<1>2. /\ F[0] = Null /\ top_entry_.idx = F[m]
      /\ \A i \in 1 .. m : F[i] \in Node /\ snext[F[i]].idx = F[i - 1]
      /\ DOMAIN snext = Node /\ Null \notin Node
  BY PoolTypes, IndexTypes DEF Explained, Shape, StackShape
<1>3. ASSUME NEW k \in 0 .. NumNodes
      PROVE  G[k] = IF k = 0 THEN top_entry_.idx
                    ELSE IF G[k - 1] \in DOMAIN snext THEN snext[G[k - 1]].idx ELSE Null
  <2>1. CASE k = 0
    BY <1>1, <1>2, <2>1
  <2>2. CASE k # 0
    <3>1. k - 1 \in 0 .. NumNodes
      BY <1>1, <2>2
    <3>2. CASE k <= m
      <4>1. m - (k - 1) \in 1 .. m /\ (m - (k - 1)) - 1 = m - k /\ k - 1 <= m
        BY <1>1, <2>2, <3>2
      <4>2. G[k - 1] = F[m - (k - 1)] /\ G[k] = F[m - k]
        BY <3>1, <3>2, <4>1
      <4> HIDE DEF G
      <4> QED BY <1>2, <2>2, <4>1, <4>2
    <3>3. CASE k = m + 1
      <4>1. G[k - 1] = F[0] /\ G[k] = Null
        BY <1>1, <3>1, <3>3
      <4> HIDE DEF G
      <4> QED BY <1>2, <2>2, <4>1
    <3>4. CASE k > m + 1
      <4>1. G[k - 1] = Null /\ G[k] = Null
        BY <1>1, <3>1, <3>4
      <4> HIDE DEF G
      <4> QED BY <1>2, <2>2, <4>1
    <3> QED BY <1>1, <3>2, <3>3, <3>4
  <2> QED BY <2>1, <2>2
<1>4. Walks(G, top_entry_.idx, snext, NumNodes)
  <2>1. G = [k \in 0 .. NumNodes |-> G[k]]
    OBVIOUS
  <2> HIDE DEF G
  <2> QED BY <1>3, <2>1 DEF Walks
<1> HIDE DEF G
<1>5. FreeWalk = G
  <2>1. LinkWalk(top_entry_.idx, snext, NumNodes) = G
    BY <1>1, <1>4, WalkForm
  <2> QED BY <2>1 DEF FreeWalk
<1> QED BY <1>5 DEF G

\* How many blocks wait in the queue; has pop taken one that is not compressed yet?
Waits(h, t) == Counted(t) - h
Popped == IF dpc \in {"pop_count", "pop_result", "compress"} THEN 1 ELSE 0

\* The queue from its head on is C.
LEMMA QueueForm ==
  ASSUME NEW F, NEW m, NEW C, NEW h, NEW t, NEW kind, NEW pos,
         Explained(F, m, C, h, t, kind, pos)
  PROVE  QueuedNodes(Waits(h, t)) = [k \in 1 .. Waits(h, t) |-> C[h + k]]
<1> DEFINE n == Waits(h, t)
           G == [k \in 0 .. n |-> C[h + k]]
<1>1. h \in Nat /\ t \in Nat /\ C \in [Nat -> Slot] /\ n \in Nat /\ h + n <= t
  BY DEF Explained, Explains, Shape, QueueShape, Waits, Counted
<1> HIDE DEF n
<1>2. /\ head_entry_.idx = C[h] /\ DOMAIN qnext = Slot
      /\ \A k \in h .. t - 1 : qnext[C[k]].idx = C[k + 1]
  BY PoolTypes DEF Explained, Shape, QueueShape
<1>3. ASSUME NEW k \in 0 .. n
      PROVE  G[k] = IF k = 0 THEN head_entry_.idx
                    ELSE IF G[k - 1] \in DOMAIN qnext THEN qnext[G[k - 1]].idx ELSE Null
  <2>1. CASE k = 0
    BY <1>1, <1>2, <2>1
  <2>2. CASE k # 0
    <3>1. k - 1 \in 0 .. n /\ h + (k - 1) \in h .. t - 1 /\ (h + (k - 1)) + 1 = h + k
          /\ h + (k - 1) \in Nat
      BY <1>1, <2>2
    <3>2. G[k - 1] = C[h + (k - 1)] /\ G[k] = C[h + k]
      BY <3>1
    <3> HIDE DEF G
    <3> QED BY <1>1, <1>2, <2>2, <3>1, <3>2
  <2> QED BY <2>1, <2>2
<1>4. Walks(G, head_entry_.idx, qnext, n)
  <2>1. G = [k \in 0 .. n |-> G[k]]
    OBVIOUS
  <2> HIDE DEF G
  <2> QED BY <1>3, <2>1 DEF Walks
<1>5. LinkWalk(head_entry_.idx, qnext, n) = G
  <2> HIDE DEF G
  <2>1. n \in Nat
    BY <1>1
  <2> QED BY <1>4, <2>1, WalkForm
<1>6. \A k \in 1 .. n : k \in 0 .. n
  BY <1>1
<1>7. QueuedNodes(n) = [k \in 1 .. n |-> C[h + k]]
  BY <1>5, <1>6 DEF QueuedNodes
<1> QED BY <1>7 DEF n

\* The nodes that wait to be compressed are C from the popped one on.
LEMMA PendingForm ==
  ASSUME NEW F, NEW m, NEW C, NEW h, NEW t, NEW kind, NEW pos,
         Explained(F, m, C, h, t, kind, pos)
  PROVE  /\ Waits(h, t) \in Nat
         /\ PendingNodes = [k \in 1 .. Waits(h, t) + Popped |-> C[h + k - Popped]]
<1> DEFINE n == Waits(h, t)
<1>1. h \in Nat /\ t \in Nat /\ C \in [Nat -> Slot] /\ n \in Nat
  BY DEF Explained, Explains, Shape, QueueShape, Waits, Counted
<1>2. q_size_ = n + (IF dpc = "pop_count" THEN 1 ELSE 0)
  BY DEF Explained, Shape, QueueShape, Waits
<1>3. QueuedNodes(n) = [k \in 1 .. n |-> C[h + k]]
  BY QueueForm
<1> HIDE DEF n
<1>4. QueuedNodes(n) \in Seq(Slot) /\ Len(QueuedNodes(n)) = n
  BY <1>1, <1>3
<1>5. <<C[h]>> \o QueuedNodes(n) = [k \in 1 .. n + 1 |-> C[h + k - 1]]
  <2>1. <<C[h]>> \in Seq(Slot) /\ Len(<<C[h]>>) = 1
    BY <1>1
  <2> DEFINE s == <<C[h]>>
             q == QueuedNodes(n)
  <2>2. /\ s \o q \in Seq(Slot) /\ Len(s \o q) = 1 + n
        /\ \A k \in 1 .. 1 + n : (s \o q)[k] = IF k <= 1 THEN s[k] ELSE q[k - 1]
    BY <1>1, <1>4, <2>1, ConcatProperties
  <2>3. \A k \in 1 .. n + 1 : (s \o q)[k] = C[h + k - 1]
    <3> SUFFICES ASSUME NEW k \in 1 .. n + 1 PROVE (s \o q)[k] = C[h + k - 1]
      OBVIOUS
    <3>1. CASE k = 1
      <4>1. (s \o q)[k] = C[h] /\ h + k - 1 = h
        BY <1>1, <2>2, <3>1
      <4> QED BY <4>1
    <3>2. CASE k # 1
      <4>1. k - 1 \in 1 .. n /\ h + (k - 1) = h + k - 1
        BY <1>1, <3>2
      <4>2. (s \o q)[k] = q[k - 1]
        BY <1>1, <2>2, <3>2
      <4>3. q[k - 1] = C[h + (k - 1)]
        BY <1>3, <4>1
      <4> QED BY <4>1, <4>2, <4>3
    <3> QED BY <3>1, <3>2
  <2>4. DOMAIN (s \o q) = 1 .. n + 1 /\ s \o q = [k \in 1 .. n + 1 |-> (s \o q)[k]]
    <3>1. 1 + n = n + 1
      BY <1>1
    <3> HIDE DEF s, q
    <3> QED BY <2>2, <3>1, LenProperties
  <2> QED BY <2>3, <2>4
<1>6. CASE dpc = "pop_count"
  <2>1. qnext[dataOldHead.idx].idx = C[h] /\ q_size_ - 1 = n /\ Popped = 1
    BY <1>1, <1>2, <1>6 DEF Explained, Shape, PopShape, Popped
  <2> QED BY <1>1, <1>5, <1>6, <2>1 DEF PendingNodes, n
<1>7. CASE dpc = "pop_result"
  <2>1. qnext[dataOldHead.idx].idx = C[h] /\ q_size_ = n /\ Popped = 1
    BY <1>1, <1>2, <1>7 DEF Explained, Shape, PopShape, Popped
  <2> QED BY <1>1, <1>5, <1>7, <2>1 DEF PendingNodes, n
<1>8. CASE dpc = "compress"
  <2>1. dataPtr.idx = C[h] /\ q_size_ = n /\ Popped = 1
    BY <1>1, <1>2, <1>8 DEF Explained, Shape, PopShape, Popped
  <2> QED BY <1>1, <1>5, <1>8, <2>1 DEF PendingNodes, n
<1>9. CASE dpc \notin {"pop_count", "pop_result", "compress"}
  <2>1. q_size_ = n /\ Popped = 0
    BY <1>1, <1>2, <1>9 DEF Popped
  <2>2. PendingNodes = [k \in 1 .. n |-> C[h + k]]
    BY <1>3, <1>9, <2>1 DEF PendingNodes
  <2>3. \A k \in 1 .. n : h + k = h + k - 0
    BY <1>1
  <2>4. n + 0 = n
    BY <1>1
  <2> QED BY <1>1, <2>1, <2>2, <2>3, <2>4 DEF n
<1> QED BY <1>6, <1>7, <1>8, <1>9

\* Where a node is free, held, pending or returning, by its kind and pos.
LEMMA PlacesForm ==
  ASSUME NEW F, NEW m, NEW C, NEW h, NEW t, NEW kind, NEW pos,
         Explained(F, m, C, h, t, kind, pos),
         NEW n \in Node
  PROVE  /\ {j \in 0 .. NumNodes : FreeWalk[j] = n} =
              IF kind[n] = "free" THEN {m - pos[n]} ELSE {}
         /\ {c \in Channels : HeldNode(c) = n} =
              IF kind[n] = "held" THEN {pos[n]} ELSE {}
         /\ {j \in DOMAIN PendingNodes : PendingNodes[j] = n} =
              IF kind[n] = "queued" THEN {pos[n] - h + Popped}
              ELSE IF kind[n] = "hand" /\ Popped = 1 THEN {1} ELSE {}
         /\ {j \in {0} : Returning(n)} = IF kind[n] = "hand" /\ Popped = 0 THEN {0} ELSE {}
<1> USE DEF Explained, Shape
<1>1. /\ m \in Nat /\ h \in Nat /\ t \in Nat /\ m <= NumNodes /\ NumNodes \in Nat
      /\ pos \in [Node -> Int] /\ kind \in [Node -> Kinds]
  BY StackFits, PoolAssumption DEF Explains
<1>2. n # Null
  BY IndexTypes
<1>3. ASSUME NEW j \in 0 .. NumNodes
      PROVE  FreeWalk[j] = n <=> kind[n] = "free" /\ j = m - pos[n]
  <2>1. FreeWalk[j] = IF j <= m THEN F[m - j] ELSE Null
    BY FreeForm
  <2>2. ASSUME FreeWalk[j] = n PROVE kind[n] = "free" /\ j = m - pos[n]
    <3>1. j <= m /\ F[m - j] = n
      BY <1>2, <2>1, <2>2
    <3>2. m - j \in 1 .. m
      <4>1. m - j # 0
        BY <1>2, <3>1 DEF StackShape
      <4> QED BY <1>1, <3>1, <4>1
    <3>3. kind[n] = "free" /\ pos[n] = m - j
      BY <3>1, <3>2 DEF PlacedShape
    <3> QED BY <1>1, <3>3
  <2>3. ASSUME kind[n] = "free", j = m - pos[n] PROVE FreeWalk[j] = n
    <3>1. pos[n] \in 1 .. m /\ F[pos[n]] = n
      BY <2>3 DEF FoundShape
    <3>2. j <= m /\ m - j = pos[n]
      BY <1>1, <2>3, <3>1
    <3> QED BY <2>1, <3>1, <3>2
  <2> QED BY <2>2, <2>3
<1>4. {j \in 0 .. NumNodes : FreeWalk[j] = n} = IF kind[n] = "free" THEN {m - pos[n]} ELSE {}
  <2>1. kind[n] = "free" => m - pos[n] \in 0 .. NumNodes
    BY <1>1 DEF FoundShape
  <2> QED BY <1>3, <2>1
<1>5. {c \in Channels : HeldNode(c) = n} = IF kind[n] = "held" THEN {pos[n]} ELSE {}
  <2>1. \A c \in Channels : HeldNode(c) = n => kind[n] = "held" /\ pos[n] = c
    BY DEF PlacedShape
  <2>2. kind[n] = "held" => pos[n] \in Channels /\ HeldNode(pos[n]) = n
    BY DEF FoundShape
  <2> QED BY <2>1, <2>2
<1>6. /\ DOMAIN PendingNodes = 1 .. Waits(h, t) + Popped
      /\ \A j \in 1 .. Waits(h, t) + Popped : PendingNodes[j] = C[h + j - Popped]
      /\ Waits(h, t) \in Nat /\ Waits(h, t) = Counted(t) - h /\ Counted(t) \in Int
      /\ Popped \in {0, 1}
  <2>1. Waits(h, t) = Counted(t) - h /\ Counted(t) \in Int /\ Popped \in {0, 1}
    BY <1>1 DEF Waits, Counted, Popped
  <2>2. /\ Waits(h, t) \in Nat
        /\ PendingNodes = [k \in 1 .. Waits(h, t) + Popped |-> C[h + k - Popped]]
    BY PendingForm
  <2> QED BY <2>1, <2>2
<1>7. /\ Popped = 1 => InHand
      /\ InHand => kind[C[h]] = "hand" /\ C[h] \in Node
      /\ Popped = 0 /\ InHand => dpc \in {"reclaim_link", "reclaim_swing"} /\ dataPtr.idx = C[h]
      /\ dpc \in {"reclaim_link", "reclaim_swing"} =>
           InHand /\ dataPtr.idx = C[h] /\ Popped = 0
  BY DEF Popped, InHand, PopShape, PlacedShape
<1>8. ASSUME NEW j \in DOMAIN PendingNodes
      PROVE  PendingNodes[j] = n <=>
               \/ kind[n] = "queued" /\ j = pos[n] - h + Popped
               \/ kind[n] = "hand" /\ Popped = 1 /\ j = 1
  <2>1. j \in 1 .. Waits(h, t) + Popped /\ PendingNodes[j] = C[h + j - Popped]
    BY <1>6
  <2>2. CASE Popped = 1 /\ j = 1
    <3>1. h + j - Popped = h /\ PendingNodes[j] = C[h]
      BY <1>1, <2>1, <2>2
    <3>2. kind[n] = "queued" => pos[n] - h + Popped # 1
      BY <1>1, <1>6, <2>2 DEF FoundShape
    <3>3. kind[C[h]] = "hand" /\ (kind[n] = "hand" => C[h] = n)
      BY <1>7, <2>2 DEF FoundShape
    <3> QED BY <2>2, <3>1, <3>2, <3>3
  <2>3. CASE ~(Popped = 1 /\ j = 1)
    <3>0. /\ j \in Int /\ h \in Int /\ Popped \in {0, 1} /\ Counted(t) \in Int /\ pos[n] \in Int
          /\ 1 <= j /\ j <= Counted(t) - h + Popped
      BY <1>1, <1>6, <2>1
    <3>1. h + j - Popped \in h + 1 .. Counted(t)
      BY <2>3, <3>0
    <3> DEFINE k == h + j - Popped
    <3>2. kind[C[k]] = "queued" /\ pos[C[k]] = k
      BY <3>1 DEF PlacedShape
    <3>3. kind[n] = "queued" /\ pos[n] = k => C[k] = n
      BY DEF FoundShape
    <3>4. j = pos[n] - h + Popped <=> pos[n] = k
      BY <3>0
    <3> HIDE DEF k
    <3>5. PendingNodes[j] = C[k]
      BY <2>1 DEF k
    <3> QED BY <2>3, <3>2, <3>3, <3>4, <3>5
  <2> QED BY <2>2, <2>3
<1>9. {j \in DOMAIN PendingNodes : PendingNodes[j] = n} =
        IF kind[n] = "queued" THEN {pos[n] - h + Popped}
        ELSE IF kind[n] = "hand" /\ Popped = 1 THEN {1} ELSE {}
  <2>1. kind[n] = "queued" => pos[n] - h + Popped \in DOMAIN PendingNodes
    <3>1. ASSUME kind[n] = "queued"
          PROVE  pos[n] - h + Popped \in 1 .. Waits(h, t) + Popped
      <4> DEFINE p == pos[n]
                 last == Counted(t)
      <4>1. p \in h + 1 .. last
        BY <3>1 DEF FoundShape
      <4>2. p \in Int /\ h \in Int /\ last \in Int /\ Popped \in {0, 1} /\ Waits(h, t) = last - h
        BY <1>1, <1>6
      <4> HIDE DEF p, last
      <4>3. 1 <= p - h + Popped /\ p - h + Popped <= (last - h) + Popped
        BY <4>1, <4>2
      <4>4. p - h + Popped \in 1 .. Waits(h, t) + Popped
        BY <4>2, <4>3
      <4> QED BY <4>4 DEF p
    <3> QED BY <1>6, <3>1
  <2>2. Popped = 1 => 1 \in DOMAIN PendingNodes
    BY <1>6
  <2> QED BY <1>8, <2>1, <2>2
<1>10. Returning(n) <=> kind[n] = "hand" /\ Popped = 0
  BY <1>7 DEF Returning, FoundShape
<1> QED BY <1>4, <1>5, <1>9, <1>10

(***************************************************************************)
(* While the data thread keeps up every node of the pool is in exactly one *)
(* place, whatever the number of channels and nodes and whatever the       *)
(* interleaving of push, GetOne, pop and Reclaim; and what channels fill   *)
(* and pop returns are nodes.                                              *)
(***************************************************************************)
THEOREM NodesInOnePlace == KeepsUp => (Spec => []OnePlacePerNode)
<1> SUFFICES ASSUME KeepsUp PROVE Spec => []OnePlacePerNode
  OBVIOUS
<1>1. PoolInv => OnePlacePerNode
  <2> SUFFICES ASSUME PoolInv PROVE OnePlacePerNode
    OBVIOUS
  <2>1. PICK F, m, C, h, t, kind, pos : Explained(F, m, C, h, t, kind, pos)
    BY DEF PoolInv, ShapeInv, Explained
  <2>2. ASSUME NEW n \in Node PROVE Cardinality(Places(n)) = 1
    <3> DEFINE FreeAt == {j \in 0 .. NumNodes : FreeWalk[j] = n}
               HeldBy == {c \in Channels : HeldNode(c) = n}
               PendingAt == {j \in DOMAIN PendingNodes : PendingNodes[j] = n}
               Back == {j \in {0} : Returning(n)}
    <3>1. Places(n) = {<<"free", k>> : k \in FreeAt} \cup {<<"held", c>> : c \in HeldBy}
                      \cup {<<"pending", k>> : k \in PendingAt}
                      \cup {<<"returning", k>> : k \in Back}
      BY DEF Places
    <3>2. /\ FreeAt = IF kind[n] = "free" THEN {m - pos[n]} ELSE {}
          /\ HeldBy = IF kind[n] = "held" THEN {pos[n]} ELSE {}
          /\ PendingAt = IF kind[n] = "queued" THEN {pos[n] - h + Popped}
                         ELSE IF kind[n] = "hand" /\ Popped = 1 THEN {1} ELSE {}
          /\ Back = IF kind[n] = "hand" /\ Popped = 0 THEN {0} ELSE {}
      BY <2>1, PlacesForm
    <3>3. kind[n] \in Kinds /\ Popped \in {0, 1}
      BY <2>1 DEF Explained, Explains, Popped
    <3> HIDE DEF FreeAt, HeldBy, PendingAt, Back
    <3>4. CASE kind[n] = "free"
      <4>1. FreeAt = {m - pos[n]} /\ HeldBy = {} /\ PendingAt = {} /\ Back = {}
        BY <3>2, <3>4
      <4>2. Places(n) = {<<"free", m - pos[n]>>}
        BY <3>1, <4>1
      <4> QED BY <4>2, FS_Singleton
    <3>5. CASE kind[n] = "held"
      <4>1. FreeAt = {} /\ HeldBy = {pos[n]} /\ PendingAt = {} /\ Back = {}
        BY <3>2, <3>5
      <4>2. Places(n) = {<<"held", pos[n]>>}
        BY <3>1, <4>1
      <4> QED BY <4>2, FS_Singleton
    <3>6. CASE kind[n] = "queued"
      <4>1. FreeAt = {} /\ HeldBy = {} /\ PendingAt = {pos[n] - h + Popped} /\ Back = {}
        BY <3>2, <3>6
      <4>2. Places(n) = {<<"pending", pos[n] - h + Popped>>}
        BY <3>1, <4>1
      <4> QED BY <4>2, FS_Singleton
    <3>7. CASE kind[n] = "hand" /\ Popped = 1
      <4>1. FreeAt = {} /\ HeldBy = {} /\ PendingAt = {1} /\ Back = {}
        BY <3>2, <3>7
      <4>2. Places(n) = {<<"pending", 1>>}
        BY <3>1, <4>1
      <4> QED BY <4>2, FS_Singleton
    <3>8. CASE kind[n] = "hand" /\ Popped = 0
      <4>1. FreeAt = {} /\ HeldBy = {} /\ PendingAt = {} /\ Back = {0}
        BY <3>2, <3>8
      <4>2. Places(n) = {<<"returning", 0>>}
        BY <3>1, <4>1
      <4> QED BY <4>2, FS_Singleton
    <3> QED BY <3>3, <3>4, <3>5, <3>6, <3>7, <3>8 DEF Kinds
  <2>3. \A c \in Channels : Rolled(c) \/ HeldNode(c) \in Node
    BY <2>1 DEF Explained, Shape, HoldShape
  <2>4. \A k \in DOMAIN PendingNodes : PendingNodes[k] \in Node
    <3> SUFFICES ASSUME NEW k \in DOMAIN PendingNodes PROVE PendingNodes[k] \in Node
      OBVIOUS
    <3>1. /\ k \in 1 .. Waits(h, t) + Popped /\ PendingNodes[k] = C[h + k - Popped]
          /\ Waits(h, t) = Counted(t) - h /\ h \in Nat /\ t \in Nat /\ Popped \in {0, 1}
          /\ Counted(t) \in Int /\ Counted(t) <= t
      <4>1. /\ DOMAIN PendingNodes = 1 .. Waits(h, t) + Popped
            /\ \A j \in 1 .. Waits(h, t) + Popped : PendingNodes[j] = C[h + j - Popped]
        <5>1. PendingNodes = [j \in 1 .. Waits(h, t) + Popped |-> C[h + j - Popped]]
          BY <2>1, PendingForm
        <5> QED BY <5>1
      <4>2. h \in Nat /\ t \in Nat
        BY <2>1 DEF Explained, Explains
      <4>3. /\ Waits(h, t) = Counted(t) - h /\ Popped \in {0, 1}
            /\ Counted(t) \in Int /\ Counted(t) <= t
        BY <4>2 DEF Waits, Popped, Counted
      <4> QED BY <4>1, <4>2, <4>3
    <3>2. CASE h + k - Popped \in h + 1 .. t
      BY <2>1, <3>1, <3>2 DEF Explained, Shape, QueueShape
    <3>3. CASE h + k - Popped = h /\ Popped = 1
      BY <2>1, <3>1, <3>3 DEF Explained, Shape, PopShape, InHand, Popped
    <3> QED BY <3>1, <3>2, <3>3
  <2> QED BY <2>2, <2>3, <2>4 DEF OnePlacePerNode
<1> QED BY <1>1, PoolInvariant, PTL

-----------------------------------------------------------------------------
(* How many nodes are where.                                               *)

\* Sets that f pairs off have as many elements.
LEMMA PairedOff ==
  ASSUME NEW S, NEW T, IsFiniteSet(S), NEW f \in [S -> T],
         \A x, y \in S : f[x] = f[y] => x = y,
         \A z \in T : \E x \in S : f[x] = z
  PROVE  IsFiniteSet(T) /\ Cardinality(T) = Cardinality(S)
<1>1. f \in Bijection(S, T)
  BY DEF Bijection, Injection, Surjection, IsInjective
<1>2. ExistsBijection(S, T)
  BY <1>1 DEF ExistsBijection
<1> QED BY <1>2, FS_Bijection

LEMMA ChannelsFinite == IsFiniteSet(Channels)
<1> DEFINE first == 0
           last == 255
<1>1. first \in Int /\ last \in Int
  OBVIOUS
<1>2. Channels \subseteq first .. last
  BY ChannelTypes
<1> HIDE DEF first, last
<1>3. IsFiniteSet(first .. last)
  BY <1>1, FS_Interval
<1> QED BY <1>2, <1>3, FS_Subset

\* The nodes whose kind is k.
OfKind(kind, k) == {n \in Node : kind[n] = k}

\* They are counted where they are.
LEMMA KindsCounted ==
  ASSUME NEW F, NEW m, NEW C, NEW h, NEW t, NEW kind, NEW pos,
         Explained(F, m, C, h, t, kind, pos)
  PROVE  /\ \A k \in Kinds : IsFiniteSet(OfKind(kind, k))
         /\ Cardinality(OfKind(kind, "held")) =
              Cardinality({c \in Channels : HeldNode(c) # Null})
         /\ Cardinality(OfKind(kind, "queued")) = Counted(t) - h
         /\ Cardinality(OfKind(kind, "hand")) = IF InHand THEN 1 ELSE 0
<1> USE DEF Explained, Shape
<1> DEFINE Of(k) == {n \in Node : kind[n] = k}
           H == {c \in Channels : HeldNode(c) # Null}
<1>1. /\ h \in Nat /\ t \in Nat /\ Counted(t) \in Int /\ h <= Counted(t) /\ Counted(t) <= t
      /\ pos \in [Node -> Int] /\ kind \in [Node -> Kinds]
  BY DEF Explains, QueueShape, Counted
<1>2. IsFiniteSet(Node) /\ \A k : IsFiniteSet(Of(k))
  <2>1. IsFiniteSet(Node)
    BY FS_Interval, PoolAssumption DEF Node
  <2> QED BY <2>1, FS_Subset
<1>3. Cardinality(Of("held")) = Cardinality(H)
  <2>1. IsFiniteSet(H)
    BY ChannelsFinite, FS_Subset
  <2>2. \A c \in Channels : HeldNode(c) \in Slot
    <3>1. \A c \in Channels : cPtr[c].idx \in Slot
      BY PoolTypes, IndexTypes
    <3>2. feedOld.idx \in Slot
      BY PoolTypes, IndexTypes
    <3> QED BY <3>1, <3>2, IndexTypes DEF HeldNode
  <2>3. \A c \in H : HeldNode(c) \in Of("held") /\ pos[HeldNode(c)] = c
    <3>1. \A c \in H : HeldNode(c) \in Node
      BY <2>2 DEF Slot
    <3> QED BY <3>1 DEF PlacedShape
  <2>4. \A n \in Of("held") : pos[n] \in H /\ HeldNode(pos[n]) = n
    BY IndexTypes DEF FoundShape
  <2> DEFINE f == [c \in H |-> HeldNode(c)]
  <2> HIDE DEF H
  <2>5. f \in [H -> Of("held")] /\ \A c \in H : f[c] = HeldNode(c)
    BY <2>3
  <2> HIDE DEF f, Of
  <2>6. \A c, d \in H : f[c] = f[d] => c = d
    BY <2>3, <2>5
  <2>7. \A n \in Of("held") : \E c \in H : f[c] = n
    BY <2>4, <2>5
  <2> QED BY <2>1, <2>5, <2>6, <2>7, PairedOff
<1>4. Cardinality(Of("queued")) = Counted(t) - h
  <2> DEFINE Q == h + 1 .. Counted(t)
             f == [k \in Q |-> C[k]]
  <2>1. IsFiniteSet(Q) /\ Cardinality(Q) = Counted(t) - h
    <3> DEFINE first == h + 1
               last == Counted(t)
    <3>1. first \in Int /\ last \in Int
      BY <1>1
    <3> HIDE DEF first, last
    <3>2. /\ IsFiniteSet(first .. last)
          /\ Cardinality(first .. last) = IF first > last THEN 0 ELSE last - first + 1
      BY <3>1, FS_Interval
    <3> QED BY <1>1, <3>2 DEF first, last
  <2>2. \A k \in Q : C[k] \in Of("queued") /\ pos[C[k]] = k
    <3>1. \A k \in Q : k \in h + 1 .. t
      BY <1>1
    <3> QED BY <3>1 DEF PlacedShape, QueueShape
  <2>3. \A n \in Of("queued") : pos[n] \in Q /\ C[pos[n]] = n
    BY DEF FoundShape
  <2> HIDE DEF Q
  <2>4. f \in [Q -> Of("queued")] /\ \A k \in Q : f[k] = C[k]
    BY <2>2
  <2> HIDE DEF f, Of
  <2>5. \A j, k \in Q : f[j] = f[k] => j = k
    BY <2>2, <2>4
  <2>6. \A n \in Of("queued") : \E k \in Q : f[k] = n
    BY <2>3, <2>4
  <2> QED BY <2>1, <2>4, <2>5, <2>6, PairedOff
<1>5. Cardinality(Of("hand")) = IF InHand THEN 1 ELSE 0
  <2>1. CASE InHand
    <3>1. Of("hand") = {C[h]}
      BY <2>1 DEF PopShape, PlacedShape, FoundShape
    <3> QED BY <2>1, <3>1, FS_Singleton
  <2>2. CASE ~InHand
    <3>1. Of("hand") = {}
      BY <2>2 DEF FoundShape
    <3> QED BY <2>2, <3>1, FS_EmptySet
  <2> QED BY <2>1, <2>2
<1> QED BY <1>2, <1>3, <1>4, <1>5 DEF OfKind

(***************************************************************************)
(* While the data thread keeps up no node leaks: when the stack is empty   *)
(* the channels hold what the data thread does not owe, whatever the       *)
(* number of nodes and channels, and q_size_ counts what it owes.          *)
(***************************************************************************)
THEOREM EmptyStackIsOwed == KeepsUp => (Spec => []DryPoolIsOwed)
<1> SUFFICES ASSUME KeepsUp PROVE Spec => []DryPoolIsOwed
  OBVIOUS
<1>1. PoolInv => DryPoolIsOwed
  <2> SUFFICES ASSUME PoolInv, top_entry_.idx = Null
               PROVE  BlocksOwed + Cardinality({c \in Channels : HeldNode(c) # Null}) = NumNodes
    BY DEF DryPoolIsOwed
  <2>1. PICK F, m, C, h, t, kind, pos : Explained(F, m, C, h, t, kind, pos)
    BY DEF PoolInv, ShapeInv, Explained
  <2> DEFINE Of(k) == {n \in Node : kind[n] = k}
  <2>2. /\ h \in Nat /\ Counted(t) \in Int /\ m \in Nat /\ NumNodes \in Nat
        /\ kind \in [Node -> Kinds]
    BY <2>1, PoolAssumption DEF Explained, Explains, Counted
  <2>3. \A n \in Node : kind[n] # "free"
    <3>1. m = 0
      <4>1. m # 0 => F[m] \in Node
        BY <2>1, <2>2 DEF Explained, Shape, StackShape
      <4> QED BY <2>1, <4>1, IndexTypes DEF Explained, Shape, StackShape
    <3>2. 1 .. m = {}
      BY <3>1
    <3> QED BY <2>1, <3>2 DEF Explained, Shape, FoundShape
  <2>4. /\ \A k \in Kinds : IsFiniteSet(Of(k))
        /\ Cardinality(Of("held")) = Cardinality({c \in Channels : HeldNode(c) # Null})
        /\ Cardinality(Of("queued")) = Counted(t) - h
        /\ Cardinality(Of("hand")) = IF InHand THEN 1 ELSE 0
    <3>1. /\ \A k \in Kinds : IsFiniteSet(OfKind(kind, k))
          /\ Cardinality(OfKind(kind, "held")) =
               Cardinality({c \in Channels : HeldNode(c) # Null})
          /\ Cardinality(OfKind(kind, "queued")) = Counted(t) - h
          /\ Cardinality(OfKind(kind, "hand")) = IF InHand THEN 1 ELSE 0
      BY <2>1, KindsCounted
    <3> QED BY <3>1 DEF OfKind
  <2>5. Node = Of("held") \cup (Of("queued") \cup Of("hand"))
    BY <2>2, <2>3 DEF Kinds
  <2>6. Of("queued") \cap Of("hand") = {}
        /\ Of("held") \cap (Of("queued") \cup Of("hand")) = {}
    OBVIOUS
  <2> HIDE DEF Of
  <2>7. /\ IsFiniteSet(Of("held")) /\ IsFiniteSet(Of("queued")) /\ IsFiniteSet(Of("hand"))
    BY <2>4 DEF Kinds
  <2>8. /\ IsFiniteSet(Of("queued") \cup Of("hand"))
        /\ Cardinality(Of("queued") \cup Of("hand")) =
             Cardinality(Of("queued")) + Cardinality(Of("hand")) - 0
    BY <2>6, <2>7, FS_Union, FS_EmptySet
  <2>9. Cardinality(Node) =
          Cardinality(Of("held")) + Cardinality(Of("queued") \cup Of("hand")) - 0
    BY <2>5, <2>6, <2>7, <2>8, FS_Union, FS_EmptySet
  <2>10. Cardinality(Node) = NumNodes
    <3>1. Cardinality(0 .. NumNodes - 1) = IF 0 > NumNodes - 1 THEN 0 ELSE NumNodes - 1 - 0 + 1
      BY <2>2, FS_Interval
    <3> QED BY <2>2, <3>1 DEF Node
  <2>11. BlocksOwed = (Counted(t) - h) + (IF InHand THEN 1 ELSE 0)
    <3>1. q_size_ = Counted(t) - h + (IF dpc = "pop_count" THEN 1 ELSE 0)
      BY <2>1 DEF Explained, Shape, QueueShape
    <3> QED BY <2>2, <3>1 DEF BlocksOwed, InHand
  <2>12. Cardinality(Of("held")) \in Nat
    BY <2>7, FS_CardinalityType
  <2> DEFINE held == Cardinality(Of("held"))
             queued == Cardinality(Of("queued"))
             hand == Cardinality(Of("hand"))
  <2>13. NumNodes = held + ((queued + hand - 0)) - 0
    BY <2>8, <2>9, <2>10
  <2> HIDE DEF held, queued, hand
  <2>14. /\ queued = Counted(t) - h /\ hand = (IF InHand THEN 1 ELSE 0) /\ held \in Nat
         /\ held = Cardinality({c \in Channels : HeldNode(c) # Null})
    BY <2>4, <2>12 DEF held, queued, hand
  <2>15. BlocksOwed = queued + hand /\ queued \in Int /\ hand \in Int
    BY <2>2, <2>11, <2>14
  <2>16. BlocksOwed + held = NumNodes
    BY <2>13, <2>14, <2>15
  <2> QED BY <2>14, <2>16
<1> QED BY <1>1, PoolInvariant, PTL

=============================================================================
