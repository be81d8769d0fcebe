-------------------------- MODULE SrpStreamProofs ---------------------------
(***************************************************************************)
(* The storage of an acquisition implements SampleStream: each step of the *)
(* two threads hands a block over, stores one, or changes nothing a reader *)
(* of the stream can see.                                                  *)
(***************************************************************************)
EXTENDS SrpPoolProofs

\* The abstract variables.
NextSeqs == [c \in Channels |-> NextSeq(c)]
MappedVars == <<PendingBlocks, coSamples, NextSeqs>>

\* C[First(h)] is the last node whose block is stored or about to be given back.
First(h) == h - Popped

-----------------------------------------------------------------------------
(* The blocks pending, by the rigid values that explain the state.         *)

LEMMA BlocksForm ==
  ASSUME NEW F, NEW m, NEW C, NEW h, NEW t, NEW kind, NEW pos
  PROVE  Explained(F, m, C, h, t, kind, pos) =>
           /\ h \in Nat /\ t \in Nat /\ First(h) \in Int
           /\ Counted(t) \in Int /\ Counted(t) - First(h) \in Nat
           /\ PendingBlocks = [k \in 1 .. Counted(t) - First(h) |-> Block(C[First(h) + k])]
           /\ \A k \in First(h) + 1 .. Counted(t) :
                C[k] \in Node /\ kind[C[k]] \in {"queued", "hand"}
<1> SUFFICES ASSUME Explained(F, m, C, h, t, kind, pos)
             PROVE  /\ h \in Nat /\ t \in Nat /\ First(h) \in Int
                    /\ Counted(t) \in Int /\ Counted(t) - First(h) \in Nat
                    /\ PendingBlocks =
                         [k \in 1 .. Counted(t) - First(h) |-> Block(C[First(h) + k])]
                    /\ \A k \in First(h) + 1 .. Counted(t) :
                         C[k] \in Node /\ kind[C[k]] \in {"queued", "hand"}
  OBVIOUS
<1>1. h \in Nat /\ t \in Nat
  BY DEF Explained, Explains
<1>2. Popped \in {0, 1} /\ Counted(t) \in Int /\ Counted(t) <= t
  BY <1>1 DEF Popped, Counted
<1>3. /\ PendingNodes = [k \in 1 .. Waits(h, t) + Popped |-> C[h + k - Popped]]
      /\ Waits(h, t) \in Nat
  BY PendingForm
<1>4. Waits(h, t) + Popped = Counted(t) - First(h)
  BY <1>1, <1>2 DEF Waits, First
<1>5. \A k \in Int : h + k - Popped = First(h) + k
  BY <1>1, <1>2 DEF First
<1>6. First(h) \in Int /\ Counted(t) - First(h) \in Nat
  BY <1>1, <1>2, <1>3, <1>4 DEF First
<1>7. PendingBlocks = [k \in 1 .. Counted(t) - First(h) |-> Block(C[First(h) + k])]
  BY <1>3, <1>4, <1>5 DEF PendingBlocks
<1>8. ASSUME NEW k \in First(h) + 1 .. Counted(t)
      PROVE  C[k] \in Node /\ kind[C[k]] \in {"queued", "hand"}
  <2>1. CASE k \in h + 1 .. Counted(t)
    <3>1. k \in h + 1 .. t
      BY <1>1, <1>2, <2>1
    <3> QED BY <2>1, <3>1 DEF Explained, Shape, QueueShape, PlacedShape
  <2>2. CASE k = h /\ Popped = 1
    <3>1. InHand
      BY <2>2 DEF Popped, InHand
    <3> QED BY <2>2, <3>1 DEF Explained, Shape, PopShape, PlacedShape
  <2> QED BY <1>1, <1>2, <2>1, <2>2 DEF First
<1> QED BY <1>1, <1>2, <1>6, <1>7, <1>8

\* The same of the next state.
LEMMA BlocksFormNext ==
  ASSUME NEW F, NEW m, NEW C, NEW h, NEW t, NEW kind, NEW pos
  PROVE  (Explained(F, m, C, h, t, kind, pos) =>
            PendingBlocks = [k \in 1 .. Counted(t) - First(h) |-> Block(C[First(h) + k])])'
<1>1. Explained(F, m, C, h, t, kind, pos) =>
        PendingBlocks = [k \in 1 .. Counted(t) - First(h) |-> Block(C[First(h) + k])]
  BY BlocksForm
<1> QED BY <1>1, PTL

\* The pending blocks stay what they are while C, its two ends and their segments do.
LEMMA BlocksKept ==
  ASSUME NEW F, NEW m, NEW C, NEW h, NEW t, NEW kind, NEW pos,
         Explained(F, m, C, h, t, kind, pos),
         NEW G, NEW n, NEW D, NEW e, NEW f, NEW kind2, NEW pos2,
         Explained(G, n, D, e, f, kind2, pos2)',
         First(e)' = First(h), Counted(f)' = Counted(t),
         \A k \in First(h) + 1 .. Counted(t) : D[k] = C[k],
         \A x \in Node : kind[x] \in {"queued", "hand"} =>
           /\ seg'[x].chIdx = seg[x].chIdx
           /\ seg'[x].smpsSeq = seg[x].smpsSeq
           /\ seg'[x].wrPos = seg[x].wrPos
  PROVE  PendingBlocks' = PendingBlocks
<1> DEFINE a == First(h)
           b == Counted(t)
<1>1. /\ a \in Int /\ b \in Int
      /\ PendingBlocks = [k \in 1 .. b - a |-> Block(C[a + k])]
      /\ \A k \in a + 1 .. b : C[k] \in Node /\ kind[C[k]] \in {"queued", "hand"}
  BY BlocksForm
<1> DEFINE AfterStep(x) == [ch |-> seg'[x].chIdx, seq |-> seg'[x].smpsSeq, len |-> seg'[x].wrPos]
<1>2. PendingBlocks' = [k \in 1 .. b - a |-> AfterStep(D[a + k])]
  <2>1. PendingBlocks' = [k \in 1 .. Counted(f)' - First(e)' |-> AfterStep(D[First(e)' + k])]
    BY BlocksFormNext DEF Block
  <2> QED BY <2>1
<1> HIDE DEF a, b
<1>3. ASSUME NEW k \in 1 .. b - a PROVE AfterStep(D[a + k]) = Block(C[a + k])
  <2>1. a + k \in a + 1 .. b
    BY <1>1
  <2>2. D[a + k] = C[a + k]
    BY <2>1 DEF a, b
  <2>3. C[a + k] \in Node /\ kind[C[a + k]] \in {"queued", "hand"}
    BY <1>1, <2>1
  <2> QED BY <2>2, <2>3 DEF Block
<1> QED BY <1>1, <1>2, <1>3

-----------------------------------------------------------------------------
(* Steps the stream does not see.                                          *)

\* A step after which the same rigid values explain the state.
LEMMA SameStutter ==
  ASSUME NEW F, NEW m, NEW C, NEW h, NEW t, NEW kind, NEW pos,
         Explained(F, m, C, h, t, kind, pos),
         TypeInv', Shape(F, m, C, h, t, kind, pos)',
         Popped' = Popped, Counted(t)' = Counted(t), UNCHANGED coSamples,
         \A x \in Node : kind[x] \in {"queued", "hand"} =>
           /\ seg'[x].chIdx = seg[x].chIdx
           /\ seg'[x].smpsSeq = seg[x].smpsSeq
           /\ seg'[x].wrPos = seg[x].wrPos,
         \A c \in Channels : NextSeq(c)' = NextSeq(c)
  PROVE  UNCHANGED MappedVars
<1>1. Explained(F, m, C, h, t, kind, pos)'
  BY DEF Explained
<1>2. First(h)' = First(h)
  BY DEF First
<1>3. PendingBlocks' = PendingBlocks
  BY <1>1, <1>2, BlocksKept
<1> QED BY <1>3 DEF MappedVars, NextSeqs

\* A step between two points nothing tells apart.
LEMMA QuietStutter ==
  ASSUME NEW F, NEW m, NEW C, NEW h, NEW t, NEW kind, NEW pos,
         Explained(F, m, C, h, t, kind, pos), TypeInv',
         UNCHANGED <<poolVars, segVars, feedOld, feedNext, dataOldHead, dataPtr, coSamples>>,
         UNCHANGED <<fpc, feedCh>> \/ {fpc, fpc'} \subseteq QuietFeed,
         UNCHANGED dpc \/ {dpc, dpc'} \subseteq QuietData
  PROVE  UNCHANGED MappedVars
<1>1. Shape(F, m, C, h, t, kind, pos)'
  BY QuietShape
<1>2. Popped' = Popped /\ Counted(t)' = Counted(t)
  BY DEF Popped, Counted, QuietFeed, QuietData
<1>3. UNCHANGED <<seg, cPtr, inSmps>>
  BY DEF segVars
<1>4. \A c \in Channels : NextSeq(c)' = NextSeq(c)
  BY <1>3 DEF NextSeq, Rolled, QuietFeed
<1> QED BY <1>1, <1>2, <1>3, <1>4, SameStutter

\* A callback of the feed thread.
LEMMA FeedCallStutters ==
  ASSUME KeepsUp, PoolInv, FeedCall
  PROVE  UNCHANGED MappedVars
<1>1. PICK F, m, C, h, t, kind, pos : Explained(F, m, C, h, t, kind, pos)
  BY DEF PoolInv, ShapeInv, Explained
<1>2. TypeInv'
  BY FeedCallType DEF PoolInv
<1>3. CASE \/ FeedHeader \/ FeedEnd
           \/ \E c \in Channels, n \in PktSizes : AppendFits(c, n)
  <2>1. /\ UNCHANGED <<poolVars, segVars, feedOld, feedNext, dataOldHead, dataPtr, coSamples>>
        /\ {fpc, fpc'} \subseteq QuietFeed
        /\ UNCHANGED dpc \/ {dpc, dpc'} \subseteq QuietData
    BY <1>3
       DEF FeedHeader, FeedEnd, AppendFits, FeedAt, dataVars, feedLocals, QuietFeed, QuietData,
           QuietAtStart, PoolInv, WakeInv
  <2> QED BY <1>1, <1>2, <2>1, QuietStutter
<1>4. ASSUME NEW c \in Channels, NEW n \in PktSizes, AppendRolls(c, n)
      PROVE  UNCHANGED MappedVars
  <2>1. Shape(F, m, C, h, t, kind, pos)'
    BY <1>1, <1>4, RollsShape
  <2>2. /\ UNCHANGED <<coSamples, cPtr, inSmps, dpc>>
        /\ fpc = "idle" /\ fpc' = "push_link"
        /\ seg' = [seg EXCEPT ![cPtr[c].idx].status = TRUE]
    BY <1>4 DEF AppendRolls, FeedAt, dataVars
  <2>3. seg \in [Node -> Segment]
    BY <1>1 DEF Explained, TypeInv, TypeOK
  <2>4. \A x \in Node : /\ seg'[x].chIdx = seg[x].chIdx
                        /\ seg'[x].smpsSeq = seg[x].smpsSeq
                        /\ seg'[x].wrPos = seg[x].wrPos
    BY <2>2, <2>3 DEF Segment
  <2>5. \A ch \in Channels : ~Rolled(ch) /\ ~Rolled(ch)' /\ cPtr[ch].idx \in Node
    BY <1>1, <2>2 DEF Explained, Shape, HoldShape, HeldNode, Rolled
  <2>6. \A ch \in Channels : NextSeq(ch)' = NextSeq(ch)
    BY <2>2, <2>4, <2>5 DEF NextSeq
  <2>7. Popped' = Popped /\ Counted(t)' = Counted(t)
    BY <2>2 DEF Popped, Counted
  <2> QED BY <1>1, <1>2, <2>1, <2>2, <2>4, <2>6, <2>7, SameStutter
<1> QED BY <1>3, <1>4 DEF FeedCall

\* A step of the feed thread that is not the count of a pushed block.
LEMMA FeedStepStutters ==
  ASSUME PoolInv, FeedStep, ~FeedPushCount
  PROVE  UNCHANGED MappedVars
<1>1. PICK F, m, C, h, t, kind, pos : Explained(F, m, C, h, t, kind, pos)
  BY DEF PoolInv, ShapeInv, Explained
<1>2. TypeInv'
  BY FeedStepType DEF PoolInv
<1>3. CASE FeedWildWrite \/ FeedWriteThrows \/ FeedSignal \/ FeedEndSignal
  <2>1. /\ UNCHANGED <<poolVars, segVars, feedOld, feedNext, dataOldHead, dataPtr, dpc, coSamples>>
        /\ UNCHANGED <<fpc, feedCh>> \/ {fpc, fpc'} \subseteq QuietFeed
    BY <1>3 DEF FeedWildWrite, FeedWriteThrows, FeedSignal, FeedEndSignal, FeedAt, dataVars,
                feedLocals, offQueue, QuietFeed
  <2> QED BY <1>1, <1>2, <2>1, QuietStutter
<1>4. CASE \/ FeedPushLink \/ FeedPushRetry \/ FeedGetIncr \/ FeedGetNext \/ FeedGetRetry
  <2>1. Shape(F, m, C, h, t, kind, pos)'
    BY <1>1, <1>4, PushLinkShape, PushRetryShape, GetReadsShape
  <2>2. /\ UNCHANGED <<coSamples, cPtr, inSmps, seg, dpc, feedCh>>
        /\ \/ fpc = "push_link" /\ fpc' = "push_swing"
           \/ fpc = "push_swing" /\ fpc' = "push_swing"
           \/ {fpc, fpc'} \subseteq {"get_incr", "get_next", "get_take", "set"}
    BY <1>4 DEF FeedPushLink, FeedPushRetry, FeedGetIncr, FeedGetNext, FeedGetRetry, FeedAt,
                offQueue, segVars, dataVars, feedLocals
  <2>3. \A ch \in Channels : NextSeq(ch)' = NextSeq(ch)
    BY <2>2 DEF NextSeq, Rolled
  <2>4. Popped' = Popped /\ Counted(t)' = Counted(t)
    BY <2>2 DEF Popped, Counted
  <2> QED BY <1>1, <1>2, <2>1, <2>2, <2>3, <2>4, SameStutter
<1>5. CASE FeedPushSwing
  <2>1. PICK D : D = [C EXCEPT ![t + 1] = cPtr[feedCh].idx]
    OBVIOUS
  <2>2. Explains(F, m, D, h, t + 1, kind, pos) /\ Shape(F, m, D, h, t + 1, kind, pos)'
    BY <1>1, <1>5, <2>1, PushSwingShape
  <2>3. /\ UNCHANGED <<coSamples, cPtr, inSmps, seg, dpc, feedCh>>
        /\ fpc = "push_swing" /\ fpc' = "push_count"
    BY <1>5 DEF FeedPushSwing, FeedAt, offQueue, segVars, dataVars, feedLocals
  <2>4. Explained(F, m, D, h, t + 1, kind, pos)'
    BY <1>2, <2>2 DEF Explained
  <2>5. /\ h \in Nat /\ t \in Nat /\ C \in [Nat -> Slot]
        /\ Counted(t) = t /\ Counted(t + 1)' = Counted(t) /\ First(h)' = First(h)
        /\ First(h) \in {h, h - 1}
    BY <1>1, <2>3 DEF Explained, Explains, Counted, First, Popped
  <2>6. \A k \in First(h) + 1 .. Counted(t) : D[k] = C[k]
    BY <2>1, <2>5
  <2>7. PendingBlocks' = PendingBlocks
    BY <1>1, <2>3, <2>4, <2>5, <2>6, BlocksKept
  <2>8. \A ch \in Channels : NextSeq(ch)' = NextSeq(ch)
    BY <2>3 DEF NextSeq, Rolled
  <2> QED BY <2>3, <2>7, <2>8 DEF MappedVars, NextSeqs
<1>6. CASE FeedGetTake
  <2>1. PICK kind2 : kind2 = [kind EXCEPT ![feedOld.idx] = "held"]
    OBVIOUS
  <2>2. PICK pos2 : pos2 = [pos EXCEPT ![feedOld.idx] = feedCh]
    OBVIOUS
  <2>3. Explains(F, m - 1, C, h, t, kind2, pos2) /\ Shape(F, m - 1, C, h, t, kind2, pos2)'
    BY <1>1, <1>6, <2>1, <2>2, GetTakeShape
  <2>4. /\ UNCHANGED <<coSamples, cPtr, inSmps, seg, dpc, feedCh>>
        /\ fpc = "get_take" /\ fpc' = "set"
    BY <1>6 DEF FeedGetTake, FeedAt, offQueue, segVars, dataVars, feedLocals
  <2>5. Explained(F, m - 1, C, h, t, kind2, pos2)'
    BY <1>2, <2>3 DEF Explained
  <2>6. Counted(t)' = Counted(t) /\ First(h)' = First(h)
    BY <2>4 DEF Counted, First, Popped
  <2>7. PendingBlocks' = PendingBlocks
    BY <1>1, <2>4, <2>5, <2>6, BlocksKept
  <2>8. \A ch \in Channels : NextSeq(ch)' = NextSeq(ch)
    BY <2>4 DEF NextSeq, Rolled
  <2> QED BY <2>4, <2>7, <2>8 DEF MappedVars, NextSeqs
<1>7. CASE FeedSet
  <2>1. Shape(F, m, C, h, t, kind, pos)'
    BY <1>1, <1>7, SetShape
  <2>2. /\ UNCHANGED <<coSamples, inSmps, dpc, feedCh>>
        /\ fpc = "set" /\ fpc' = "signal" /\ feedOld.idx # Null
        /\ cPtr' = [cPtr EXCEPT ![feedCh] = feedOld]
        /\ seg' = [seg EXCEPT ![feedOld.idx] = SetSegment(feedCh, inSmps[feedCh])]
    BY <1>7 DEF FeedSet, FeedAt, dataVars, feedLocals
  <2>3. /\ seg \in [Node -> Segment] /\ cPtr \in [Channels -> CountPtr]
        /\ feedCh \in Channels /\ feedOld.idx \in Node
        /\ HeldNode(feedCh) = feedOld.idx /\ Rolled(feedCh)
    BY <1>1, <2>2, PoolTypes, IndexTypes
       DEF Explained, TypeInv, TypeOK, InCallback, HeldNode, Rolled, Slot
  <2>4. kind[feedOld.idx] = "held" /\ pos[feedOld.idx] = feedCh
    BY <1>1, <2>3 DEF Explained, Shape, PlacedShape
  <2>5. /\ \A x \in Node \ {feedOld.idx} : seg'[x] = seg[x]
        /\ seg'[feedOld.idx].smpsSeq = inSmps[feedCh]
        /\ cPtr'[feedCh] = feedOld
        /\ \A ch \in Channels \ {feedCh} : cPtr'[ch] = cPtr[ch]
    BY <2>2, <2>3 DEF SetSegment
  <2>6. ASSUME NEW ch \in Channels PROVE NextSeq(ch)' = NextSeq(ch)
    <3>1. ~Rolled(ch)' /\ NextSeq(ch)' = seg'[cPtr'[ch].idx].smpsSeq
      BY <2>2 DEF NextSeq, Rolled
    <3>2. CASE ch = feedCh
      BY <2>3, <2>5, <3>1, <3>2 DEF NextSeq
    <3>3. CASE ch # feedCh
      <4>1. ~Rolled(ch) /\ HeldNode(ch) = cPtr[ch].idx
        BY <2>2, <3>3 DEF Rolled, HeldNode
      <4>2. cPtr[ch].idx \in Node \ {feedOld.idx}
        BY <1>1, <2>4, <3>3, <4>1 DEF Explained, Shape, HoldShape, PlacedShape
      <4> QED BY <2>5, <3>1, <3>3, <4>1, <4>2 DEF NextSeq
    <3> QED BY <3>2, <3>3
  <2>7. Popped' = Popped /\ Counted(t)' = Counted(t)
    BY <2>2 DEF Popped, Counted
  <2>8. \A x \in Node : kind[x] \in {"queued", "hand"} => seg'[x] = seg[x]
    BY <2>4, <2>5
  <2> QED BY <1>1, <1>2, <2>1, <2>2, <2>6, <2>7, <2>8, SameStutter
<1>8. CASE FeedSetNull
  <2>1. Shape(F, m, C, h, t, kind, pos)'
    BY <1>1, <1>8, SetNullShape
  <2>2. /\ UNCHANGED <<coSamples, inSmps, seg, dpc, feedCh>>
        /\ fpc = "set" /\ fpc' = "set"
        /\ cPtr' = [cPtr EXCEPT ![feedCh] = feedOld]
    BY <1>8 DEF FeedSetNull, FeedAt, dataVars, feedLocals
  <2>3. cPtr \in [Channels -> CountPtr]
    BY <1>1 DEF Explained, TypeInv, TypeOK
  <2>4. \A ch \in Channels : NextSeq(ch)' = NextSeq(ch)
    BY <2>2, <2>3 DEF NextSeq, Rolled
  <2>5. Popped' = Popped /\ Counted(t)' = Counted(t)
    BY <2>2 DEF Popped, Counted
  <2> QED BY <1>1, <1>2, <2>1, <2>2, <2>4, <2>5, SameStutter
<1>9. CASE FeedWrite
  <2>1. Shape(F, m, C, h, t, kind, pos)'
    BY <1>1, <1>9, WriteShape
  <2>2. /\ UNCHANGED <<coSamples, cPtr, dpc, feedCh>>
        /\ fpc = "write" /\ fpc' = "idle"
        /\ seg' = [seg EXCEPT ![cPtr[feedCh].idx].wrPos = @ + InSize(feedNum)]
    BY <1>9 DEF FeedWrite, FeedAt, dataVars, feedLocals
  <2>3. /\ seg \in [Node -> Segment] /\ feedCh \in Channels
        /\ \A ch \in Channels : ~Rolled(ch) /\ ~Rolled(ch)' /\ cPtr[ch].idx \in Node
    BY <1>1, <2>2, PoolTypes
       DEF Explained, TypeInv, TypeOK, InCallback, Shape, HoldShape, HeldNode, Rolled
  <2>4. kind[cPtr[feedCh].idx] = "held"
    BY <1>1, <2>3 DEF Explained, Shape, PlacedShape, HeldNode
  <2>5. /\ \A x \in Node \ {cPtr[feedCh].idx} : seg'[x] = seg[x]
        /\ \A x \in Node : seg'[x].smpsSeq = seg[x].smpsSeq
    BY <2>2, <2>3 DEF Segment
  <2>6. \A ch \in Channels : NextSeq(ch)' = NextSeq(ch)
    BY <2>2, <2>3, <2>5 DEF NextSeq
  <2>7. Popped' = Popped /\ Counted(t)' = Counted(t)
    BY <2>2 DEF Popped, Counted
  <2>8. \A x \in Node : kind[x] \in {"queued", "hand"} => seg'[x] = seg[x]
    BY <2>4, <2>5
  <2> QED BY <1>1, <1>2, <2>1, <2>2, <2>6, <2>7, <2>8, SameStutter
<1> QED BY <1>3, <1>4, <1>5, <1>6, <1>7, <1>8, <1>9 DEF FeedStep

\* A step of the data thread that does not store a block.
LEMMA DataStepStutters ==
  ASSUME PoolInv, DataStep, ~DataCompress
  PROVE  UNCHANGED MappedVars
<1>1. PICK F, m, C, h, t, kind, pos : Explained(F, m, C, h, t, kind, pos)
  BY DEF PoolInv, ShapeInv, Explained
<1>2. TypeInv'
  BY DataStepType DEF PoolInv
<1>3. UNCHANGED <<segVars, seg, cPtr, inSmps, coSamples, feedVars, fpc, feedCh, feedOld, feedNext>>
  BY DEF DataStep, DataCheck, DataWake, DataClear, DataQueueHasBlock, DataQueueDrained,
         DataPopSwing, DataPopCount, DataPopResult, DataCompressNull, DataCompressFails,
         DataReclaimLink, DataReclaimSwing, DataReclaimRetry, offData, segVars, feedVars
<1>4. /\ \A c \in Channels : NextSeq(c)' = NextSeq(c)
      /\ Counted(t)' = Counted(t)
  BY <1>3 DEF NextSeq, Rolled, Counted
<1>5. CASE \/ DataCheck \/ DataWake \/ DataClear \/ DataQueueHasBlock \/ DataQueueDrained
           \/ DataCompressNull \/ DataCompressFails
  <2>1. /\ UNCHANGED <<poolVars, dataOldHead, dataPtr>>
        /\ UNCHANGED dpc \/ {dpc, dpc'} \subseteq QuietData
    BY <1>5 DEF DataCheck, DataWake, DataClear, DataQueueHasBlock, DataQueueDrained,
                DataCompressNull, DataCompressFails, DataAt, dataLocals, QuietData
  <2> QED BY <1>1, <1>2, <1>3, <2>1, QuietStutter
<1>6. CASE DataPopSwing
  <2>1. PICK kind2 : kind2 = [kind EXCEPT ![C[h + 1]] = "hand"]
    OBVIOUS
  <2>2. Explains(F, m, C, h + 1, t, kind2, pos) /\ Shape(F, m, C, h + 1, t, kind2, pos)'
    BY <1>1, <1>6, <2>1, PopSwingShape
  <2>3. Explained(F, m, C, h + 1, t, kind2, pos)'
    BY <1>2, <2>2 DEF Explained
  <2>4. dpc = "pop_swing" /\ dpc' = "pop_count" /\ h \in Nat
    BY <1>1, <1>6 DEF DataPopSwing, DataAt, Explained, Explains
  <2>5. First(h + 1)' = First(h)
    BY <2>4 DEF First, Popped
  <2>6. PendingBlocks' = PendingBlocks
    BY <1>1, <1>3, <1>4, <2>3, <2>5, BlocksKept
  <2> QED BY <1>3, <1>4, <2>6 DEF MappedVars, NextSeqs
<1>7. CASE DataPopCount \/ DataPopResult \/ DataReclaimLink \/ DataReclaimRetry
  <2>1. Shape(F, m, C, h, t, kind, pos)'
    BY <1>1, <1>7, PopRestShape, ReclaimLinkShape
  <2>2. Popped' = Popped
    BY <1>7 DEF DataPopCount, DataPopResult, DataReclaimLink, DataReclaimRetry, DataAt, Popped
  <2> QED BY <1>1, <1>2, <1>3, <1>4, <2>1, <2>2, SameStutter
<1>8. CASE DataReclaimSwing
  <2>1. PICK G : G = [F EXCEPT ![m + 1] = C[h]]
    OBVIOUS
  <2>2. PICK kind2 : kind2 = [kind EXCEPT ![C[h]] = "free"]
    OBVIOUS
  <2>3. PICK pos2 : pos2 = [pos EXCEPT ![C[h]] = m + 1]
    OBVIOUS
  <2>4. Explains(G, m + 1, C, h, t, kind2, pos2) /\ Shape(G, m + 1, C, h, t, kind2, pos2)'
    BY <1>1, <1>8, <2>1, <2>2, <2>3, ReclaimSwingShape
  <2>5. Explained(G, m + 1, C, h, t, kind2, pos2)'
    BY <1>2, <2>4 DEF Explained
  <2>6. First(h)' = First(h)
    BY <1>8 DEF DataReclaimSwing, DataAt, First, Popped
  <2>7. PendingBlocks' = PendingBlocks
    BY <1>1, <1>3, <1>4, <2>5, <2>6, BlocksKept
  <2> QED BY <1>3, <1>4, <2>7 DEF MappedVars, NextSeqs
<1> QED BY <1>5, <1>6, <1>7, <1>8 DEF DataStep

-----------------------------------------------------------------------------
(* The two steps the stream sees.                                          *)

LEMMA LastAdded ==
  ASSUME NEW n \in Nat, NEW S, NEW p \in [1 .. n -> S], NEW q \in [1 .. n + 1 -> S],
         \A k \in 1 .. n : q[k] = p[k]
  PROVE  q = Append(p, q[n + 1])
<1>1. /\ p \in Seq(S) /\ Len(p) = n /\ q \in Seq(S) /\ Len(q) = n + 1
      /\ q[n + 1] \in S
  OBVIOUS
<1>2. /\ Append(p, q[n + 1]) \in Seq(S)
      /\ Len(Append(p, q[n + 1])) = n + 1
      /\ \A k \in 1 .. n : Append(p, q[n + 1])[k] = p[k]
      /\ Append(p, q[n + 1])[n + 1] = q[n + 1]
  BY <1>1, AppendProperties
<1>3. \A k \in 1 .. n + 1 : Append(p, q[n + 1])[k] = q[k]
  <2>1. \A k \in 1 .. n + 1 : k \in 1 .. n \/ k = n + 1
    OBVIOUS
  <2> QED BY <1>2, <2>1
<1> QED BY <1>1, <1>2, <1>3, SeqEqual

LEMMA FirstRemoved ==
  ASSUME NEW n \in Nat, NEW S, NEW p \in [1 .. n + 1 -> S], NEW q \in [1 .. n -> S],
         \A k \in 1 .. n : q[k] = p[k + 1]
  PROVE  p # <<>> /\ Head(p) = p[1] /\ q = Tail(p)
<1>1. p \in Seq(S) /\ Len(p) = n + 1 /\ q \in Seq(S) /\ Len(q) = n
  OBVIOUS
<1>2. p # <<>> /\ Head(p) = p[1]
  BY <1>1
<1>3. /\ Tail(p) \in Seq(S) /\ Len(Tail(p)) = n
      /\ \A k \in 1 .. n : Tail(p)[k] = p[k + 1]
  BY <1>1, <1>2, HeadTailProperties
<1> QED BY <1>1, <1>2, <1>3, SeqEqual

BlockType == [ch : 0 .. 255, seq : Nat, len : 0 .. SegSize]

LEMMA BlockTypes ==
  ASSUME NEW F, NEW m, NEW C, NEW h, NEW t, NEW kind, NEW pos,
         Explained(F, m, C, h, t, kind, pos)
  PROVE  PendingBlocks \in [1 .. Counted(t) - First(h) -> BlockType]
<1>1. /\ First(h) \in Int /\ Counted(t) \in Int
      /\ PendingBlocks = [k \in 1 .. Counted(t) - First(h) |-> Block(C[First(h) + k])]
      /\ \A k \in First(h) + 1 .. Counted(t) : C[k] \in Node
  BY BlocksForm
<1>2. \A x \in Node : Block(x) \in BlockType
  BY DEF Explained, TypeInv, TypeOK, Segment, Block, BlockType
<1>3. \A k \in 1 .. Counted(t) - First(h) : C[First(h) + k] \in Node
  <2>1. \A k \in 1 .. Counted(t) - First(h) : First(h) + k \in First(h) + 1 .. Counted(t)
    BY <1>1
  <2> QED BY <1>1, <2>1
<1> QED BY <1>1, <1>2, <1>3

LEMMA BlockTypesNext ==
  ASSUME NEW F, NEW m, NEW C, NEW h, NEW t, NEW kind, NEW pos
  PROVE  (Explained(F, m, C, h, t, kind, pos) =>
            PendingBlocks \in [1 .. Counted(t) - First(h) -> BlockType])'
<1>1. Explained(F, m, C, h, t, kind, pos) =>
        PendingBlocks \in [1 .. Counted(t) - First(h) -> BlockType]
  BY BlockTypes
<1> QED BY <1>1, PTL

\* push's count makes the block pop can take.
LEMMA PushCountHandsOver ==
  ASSUME PoolInv, FeedPushCount
  PROVE  /\ seg[cPtr[feedCh].idx].wrPos \in 0 .. SegSize /\ feedCh \in Channels
         /\ Stream!HandOver(feedCh, seg[cPtr[feedCh].idx].wrPos)
<1>1. PICK F, m, C, h, t, kind, pos : Explained(F, m, C, h, t, kind, pos)
  BY DEF PoolInv, ShapeInv, Explained
<1> DEFINE nd == cPtr[feedCh].idx
<1>2. TypeInv'
  BY FeedStepType DEF PoolInv, FeedStep
<1>3. /\ UNCHANGED <<coSamples, seg, cPtr, inSmps, dpc, feedCh>>
      /\ fpc = "push_count" /\ fpc' = "get_incr"
  BY DEF FeedPushCount, FeedAt, offQueue, segVars, dataVars, feedLocals
<1>4. PICK kind2 : kind2 = [kind EXCEPT ![nd] = "queued"]
  OBVIOUS
<1>5. PICK pos2 : pos2 = [pos EXCEPT ![nd] = t]
  OBVIOUS
<1>6. Explained(F, m, C, h, t, kind2, pos2)'
  <2>1. Explains(F, m, C, h, t, kind2, pos2) /\ Shape(F, m, C, h, t, kind2, pos2)'
    BY <1>1, <1>4, <1>5, PushCountShape
  <2> QED BY <1>2, <2>1 DEF Explained
<1>7. /\ feedCh \in Channels /\ ~Rolled(feedCh) /\ HeldNode(feedCh) = nd
      /\ \A ch \in Channels : ~Rolled(ch)
  BY <1>1, <1>3, PoolTypes DEF Explained, TypeInv, InCallback, Rolled, HeldNode
<1>8. nd \in Node /\ C[t] = nd
  BY <1>1, <1>3, <1>7 DEF Explained, Shape, HoldShape, PushShape
<1>9. /\ seg[nd].chIdx = feedCh
      /\ seg[nd].smpsSeq + seg[nd].wrPos \div SizeofFloat = inSmps[feedCh]
  BY <1>1, <1>7 DEF Explained, Shape, SegmentShape
<1>10. seg[nd].wrPos \in 0 .. SegSize
  BY <1>1, <1>8 DEF Explained, TypeInv, TypeOK, Segment
<1> HIDE DEF nd
<1> DEFINE n == Counted(t) - First(h)
<1>11. /\ n \in Nat /\ Counted(t) \in Int /\ First(h) \in Int /\ t \in Nat
       /\ PendingBlocks = [k \in 1 .. n |-> Block(C[First(h) + k])]
       /\ PendingBlocks \in [1 .. n -> BlockType]
  BY <1>1, BlocksForm, BlockTypes
<1>12. First(h)' = First(h) /\ Counted(t) = t - 1 /\ Counted(t)' = t
  BY <1>3 DEF First, Popped, Counted
<1>13. Counted(t)' - First(h)' = n + 1 /\ First(h) + (n + 1) = t
  BY <1>11, <1>12
<1> HIDE DEF n
<1>14. /\ PendingBlocks' = [k \in 1 .. n + 1 |-> Block(C[First(h) + k])]
       /\ PendingBlocks' \in [1 .. n + 1 -> BlockType]
  <2>1. /\ PendingBlocks' = [k \in 1 .. Counted(t) - First(h) |-> Block(C[First(h) + k])]'
        /\ PendingBlocks' \in [1 .. Counted(t)' - First(h)' -> BlockType]
    BY <1>6, BlocksFormNext, BlockTypesNext
  <2> QED BY <1>3, <1>12, <1>13, <2>1 DEF Block
<1>15. PendingBlocks' = Append(PendingBlocks, PendingBlocks'[n + 1])
  BY <1>11, <1>14, LastAdded
<1>16. PendingBlocks'[n + 1] =
         [ch |-> feedCh, seq |-> NextSeqs[feedCh], len |-> seg[nd].wrPos]
  <2>1. PendingBlocks'[n + 1] = Block(nd)
    BY <1>8, <1>11, <1>13, <1>14
  <2>2. NextSeqs[feedCh] = seg[nd].smpsSeq
    BY <1>7 DEF NextSeqs, NextSeq, nd
  <2> QED BY <1>9, <2>1, <2>2 DEF Block
<1>17. NextSeqs' = [NextSeqs EXCEPT ![feedCh] = @ + seg[nd].wrPos \div SizeofFloat]
  <2>1. \A ch \in Channels \ {feedCh} : NextSeq(ch)' = NextSeq(ch)
    BY <1>3 DEF NextSeq, Rolled
  <2>2. \A ch \in {feedCh} : NextSeq(ch)' = inSmps[ch]
    BY <1>3 DEF NextSeq, Rolled
  <2>3. NextSeq(feedCh) = seg[nd].smpsSeq
    BY <1>7 DEF NextSeq, nd
  <2> QED BY <1>7, <1>9, <2>1, <2>2, <2>3 DEF NextSeqs
<1> QED BY <1>3, <1>7, <1>10, <1>15, <1>16, <1>17 DEF Stream!HandOver, NextSeqs, nd

\* Compressing the block in hand stores the oldest block pending.
LEMMA CompressStores ==
  ASSUME PoolInv, DataCompress
  PROVE  Stream!Store
<1>1. PICK F, m, C, h, t, kind, pos : Explained(F, m, C, h, t, kind, pos)
  BY DEF PoolInv, ShapeInv, Explained
<1>2. TypeInv'
  BY DataStepType DEF PoolInv, DataStep
<1>3. /\ UNCHANGED <<seg, cPtr, inSmps, fpc, feedCh>>
      /\ dpc = "compress" /\ dpc' = "reclaim_link"
      /\ coSamples' = [coSamples EXCEPT ![seg[dataPtr.idx].chIdx] =
                         Append(@, Compressed(seg[dataPtr.idx]))]
  BY DEF DataCompress, DataAt, offData, segVars, feedVars
<1>4. Explained(F, m, C, h, t, kind, pos)'
  BY <1>1, <1>2, PopRestShape DEF Explained
<1>5. dataPtr.idx = C[h]
  BY <1>1, <1>3 DEF Explained, Shape, PopShape
<1> DEFINE n == Counted(t) - h
<1>6. h \in Nat /\ First(h) = h - 1 /\ First(h)' = h /\ Counted(t)' = Counted(t)
  BY <1>1, <1>3 DEF First, Popped, Counted, Explained, Explains
<1>7. /\ PendingBlocks' = [k \in 1 .. Counted(t) - First(h) |-> Block(C[First(h) + k])]'
      /\ PendingBlocks' \in [1 .. Counted(t)' - First(h)' -> BlockType]
  BY <1>4, BlocksFormNext, BlockTypesNext
<1>8. /\ PendingBlocks' = [k \in 1 .. n |-> Block(C[h + k])]
      /\ PendingBlocks' \in [1 .. n -> BlockType]
  BY <1>3, <1>6, <1>7 DEF Block
<1>9. /\ PendingBlocks = [k \in 1 .. Counted(t) - (h - 1) |-> Block(C[(h - 1) + k])]
      /\ PendingBlocks \in [1 .. Counted(t) - (h - 1) -> BlockType]
      /\ Counted(t) \in Int
  BY <1>1, <1>6, BlocksForm, BlockTypes
<1>10. Counted(t) - (h - 1) = n + 1 /\ n \in Nat
  <2>1. h <= Counted(t)
    BY <1>1 DEF Explained, Shape, QueueShape
  <2> QED BY <1>6, <1>9, <2>1
<1> HIDE DEF n
<1>11. \A k \in 1 .. n : PendingBlocks'[k] = PendingBlocks[k + 1]
  <2> SUFFICES ASSUME NEW k \in 1 .. n PROVE PendingBlocks'[k] = PendingBlocks[k + 1]
    OBVIOUS
  <2>1. k + 1 \in 1 .. n + 1 /\ (h - 1) + (k + 1) = h + k
    BY <1>6, <1>10
  <2>2. PendingBlocks[k + 1] = Block(C[(h - 1) + (k + 1)])
    BY <1>9, <1>10, <2>1
  <2> QED BY <1>8, <2>1, <2>2
<1>12. PendingBlocks \in [1 .. n + 1 -> BlockType]
  BY <1>9, <1>10
<1>13. /\ PendingBlocks # <<>> /\ Head(PendingBlocks) = PendingBlocks[1]
       /\ PendingBlocks' = Tail(PendingBlocks)
  BY <1>8, <1>10, <1>11, <1>12, FirstRemoved
<1>14. PendingBlocks[1] = Block(dataPtr.idx)
  <2>1. 1 \in 1 .. n + 1 /\ (h - 1) + 1 = h
    BY <1>6, <1>10
  <2> QED BY <1>5, <1>9, <1>10, <2>1
<1>15. coSamples' = [coSamples EXCEPT ![Head(PendingBlocks).ch] =
                       Append(@, [seq |-> Head(PendingBlocks).seq,
                                  len |-> Head(PendingBlocks).len])]
  <2>1. Head(PendingBlocks) = Block(dataPtr.idx)
    BY <1>13, <1>14
  <2>2. /\ Block(dataPtr.idx).ch = seg[dataPtr.idx].chIdx
        /\ [seq |-> Block(dataPtr.idx).seq, len |-> Block(dataPtr.idx).len] =
             Compressed(seg[dataPtr.idx])
    BY DEF Block, Compressed
  <2> QED BY <1>3, <2>1, <2>2
<1>16. NextSeqs' = NextSeqs
  BY <1>3 DEF NextSeqs, NextSeq, Rolled
<1> QED BY <1>13, <1>15, <1>16 DEF Stream!Store, NextSeqs

-----------------------------------------------------------------------------
(* The refinement.                                                         *)

LEMMA StreamInit == PoolInv /\ Init => Stream!Init
<1> SUFFICES ASSUME PoolInv, Init PROVE Stream!Init
  OBVIOUS
<1>1. q_size_ = 0 /\ dpc = "none" /\ fpc = "new" /\ inSmps = [c \in Channels |-> 0]
  BY DEF Init, PoolInit
<1>2. PendingBlocks = <<>>
  <2>1. PICK F, m, C, h, t, kind, pos : Explained(F, m, C, h, t, kind, pos)
    BY DEF PoolInv, ShapeInv, Explained
  <2>2. Counted(t) - First(h) = 0
    <3>1. h \in Nat /\ t \in Nat
      BY <2>1 DEF Explained, Explains
    <3> QED BY <1>1, <2>1, <3>1
            DEF Explained, Shape, QueueShape, Counted, First, Popped
  <2>3. PendingBlocks \in [1 .. 0 -> BlockType]
    BY <2>1, <2>2, BlockTypes
  <2> QED BY <2>3
<1>3. ASSUME NEW c \in Channels PROVE NextSeq(c) = 0
  <2>1. ~Rolled(c) /\ cPtr[c].idx \in Node
    BY <1>1 DEF PoolInv, ShapeInv, Shape, HoldShape, HeldNode, Rolled
  <2>2. seg[cPtr[c].idx].smpsSeq = 0
    <3>1. \A k \in Node : seg[k].smpsSeq = 0
      BY DEF Init, FreshSegment, SetSegment
    <3> QED BY <2>1, <3>1
  <2> QED BY <2>1, <2>2 DEF NextSeq
<1>4. coSamples = [c \in Channels |-> <<>>]
  BY DEF Init
<1> QED BY <1>2, <1>3, <1>4 DEF Stream!Init

LEMMA StreamStep ==
  ASSUME KeepsUp, PoolInv, [Next]_vars
  PROVE  [Stream!Next]_(Stream!streamVars)
<1>1. UNCHANGED MappedVars => UNCHANGED Stream!streamVars
  BY DEF MappedVars, NextSeqs, Stream!streamVars
<1>2. CASE FeedPushCount
  BY <1>2, PushCountHandsOver DEF Stream!Next
<1>3. CASE FeedStep /\ ~FeedPushCount
  BY <1>1, <1>3, FeedStepStutters
<1>4. CASE FeedCall
  BY <1>1, <1>4, FeedCallStutters
<1>5. CASE DataCompress
  BY <1>5, CompressStores DEF Stream!Next
<1>6. CASE DataStep /\ ~DataCompress
  BY <1>1, <1>6, DataStepStutters
<1>7. CASE UNCHANGED vars
  <2>1. UNCHANGED <<poolVars, segVars, coSamples, feedVars, dataVars>>
    BY <1>7 DEF vars
  <2>2. PICK F, m, C, h, t, kind, pos : Explained(F, m, C, h, t, kind, pos)
    BY DEF PoolInv, ShapeInv, Explained
  <2>3. TypeInv'
    BY <1>7, TypeStutter DEF PoolInv
  <2> QED BY <1>1, <2>1, <2>2, <2>3, QuietStutter DEF feedVars, dataVars
<1> QED BY <1>2, <1>3, <1>4, <1>5, <1>6, <1>7 DEF Next

(***************************************************************************)
(* While the data thread keeps up with the driver, the storage of an       *)
(* acquisition is a SampleStream for any number of channels and nodes:     *)
(* each filled block of a channel is stored once, in the order the blocks  *)
(* were filled, with no sample between them missing.  push's count is the  *)
(* step that hands a block over, the compression the one that stores it.   *)
(***************************************************************************)
THEOREM AcquisitionIsStream == KeepsUp => (Spec => StreamSpec)
<1> SUFFICES ASSUME KeepsUp PROVE Spec => StreamSpec
  OBVIOUS
<1>1. PoolInv /\ Init => Stream!Init
  BY StreamInit
<1>2. PoolInv /\ [Next]_vars => [Stream!Next]_(Stream!streamVars)
  BY StreamStep
<1> QED BY <1>1, <1>2, PoolInvariant, PTL DEF Spec, StreamSpec, Stream!Spec

-----------------------------------------------------------------------------
(* Every sample in one place, from the refinement: p the pending blocks,   *)
(* s the stored ones, x the first sample of each channel's next block.     *)

StoredType == [seq : Nat, len : 0 .. SegSize]

StreamTypes(p, s, x) ==
  p \in Seq(BlockType) /\ s \in [Channels -> Seq(StoredType)] /\ x \in [Channels -> Nat]

\* The blocks of a channel follow one another, the stored ones first, up to x.
InOrder(p, s, x) ==
  /\ \A c \in Channels : \A k \in 1 .. Len(s[c]) : After(s[c][k]) <= x[c]
  /\ \A j \in 1 .. Len(p) : p[j].ch \in Channels /\ After(p[j]) <= x[p[j].ch]
  /\ \A c \in Channels : \A j, k \in 1 .. Len(s[c]) :
       j < k => After(s[c][j]) <= s[c][k].seq
  /\ \A j, k \in 1 .. Len(p) :
       j < k /\ p[j].ch = p[k].ch => After(p[j]) <= p[k].seq
  /\ \A c \in Channels : \A k \in 1 .. Len(s[c]) : \A j \in 1 .. Len(p) :
       p[j].ch = c => After(s[c][k]) <= p[j].seq

InStored(s, c, n) == \E k \in 1 .. Len(s[c]) : Covers(s[c][k], n)
InPending(p, c, n) == \E j \in 1 .. Len(p) : p[j].ch = c /\ Covers(p[j], n)

\* No sample before x is missing.
NoneMissing(p, s, x) ==
  \A c \in Channels : \A n \in 0 .. x[c] - 1 : InStored(s, c, n) \/ InPending(p, c, n)

Tidy(p, s, x) == StreamTypes(p, s, x) /\ InOrder(p, s, x) /\ NoneMissing(p, s, x)

LEMMA AfterType ==
  /\ \A b \in StoredType \cup BlockType : After(b) \in Nat /\ b.seq <= After(b) /\ b.seq \in Nat
<1> SUFFICES ASSUME NEW b \in StoredType \cup BlockType
             PROVE  After(b) \in Nat /\ b.seq <= After(b) /\ b.seq \in Nat
  OBVIOUS
<1>1. b.seq \in Nat /\ b.len \in Nat
  BY SizeTypes DEF StoredType, BlockType
<1> DEFINE l == b.len
<1>2. l \div 4 \in Nat
  <2>1. l \in Nat
    BY <1>1
  <2> QED BY <2>1
<1> QED BY <1>1, <1>2 DEF After, SizeofFloat

\* HandOver: the block at the end of p starts where x says and ends at the new x.
LEMMA HandOverTidy ==
  ASSUME NEW p, NEW s, NEW x, Tidy(p, s, x),
         NEW c \in Channels, NEW len \in 0 .. SegSize
  PROVE  Tidy(Append(p, [ch |-> c, seq |-> x[c], len |-> len]), s,
              [x EXCEPT ![c] = @ + len \div SizeofFloat])
<1> DEFINE b == [ch |-> c, seq |-> x[c], len |-> len]
           q == Append(p, b)
           y == [x EXCEPT ![c] = @ + len \div SizeofFloat]
<1>1. p \in Seq(BlockType) /\ s \in [Channels -> Seq(StoredType)] /\ x \in [Channels -> Nat]
  BY DEF Tidy, StreamTypes
<1>2. b \in BlockType /\ b.ch = c /\ b.seq = x[c] /\ After(b) = x[c] + len \div SizeofFloat
  BY <1>1, ChannelTypes DEF BlockType, After
<1>3. After(b) \in Nat /\ x[c] <= After(b)
  BY <1>2, AfterType
<1>4. /\ y \in [Channels -> Nat] /\ y[c] = After(b)
      /\ \A d \in Channels : x[d] <= y[d] /\ (d # c => y[d] = x[d])
  BY <1>1, <1>2, <1>3
<1>5. /\ q \in Seq(BlockType) /\ Len(q) = Len(p) + 1 /\ Len(p) \in Nat
      /\ q[Len(p) + 1] = b /\ \A j \in 1 .. Len(p) : q[j] = p[j]
  BY <1>1, <1>2, AppendProperties, LenProperties
<1> HIDE DEF b, q, y
<1>6. \A j \in 1 .. Len(q) : j \in 1 .. Len(p) \/ j = Len(p) + 1
  BY <1>5
<1>7. \A j \in 1 .. Len(p) : p[j] \in BlockType /\ After(p[j]) \in Nat
  BY <1>1, AfterType
<1>8. \A d \in Channels : \A k \in 1 .. Len(s[d]) : After(s[d][k]) \in Nat
  BY <1>1, AfterType
<1>9. InOrder(q, s, y)
  <2>1. ASSUME NEW d \in Channels, NEW k \in 1 .. Len(s[d]) PROVE After(s[d][k]) <= y[d]
    <3>1. After(s[d][k]) <= x[d]
      BY DEF Tidy, InOrder
    <3> QED BY <1>1, <1>4, <1>8, <3>1
  <2>2. ASSUME NEW j \in 1 .. Len(q) PROVE q[j].ch \in Channels /\ After(q[j]) <= y[q[j].ch]
    <3>1. CASE j \in 1 .. Len(p)
      <4>1. p[j].ch \in Channels /\ After(p[j]) <= x[p[j].ch]
        BY <3>1 DEF Tidy, InOrder
      <4> QED BY <1>1, <1>4, <1>5, <1>7, <3>1, <4>1
    <3>2. CASE j = Len(p) + 1
      BY <1>2, <1>3, <1>4, <1>5, <3>2
    <3> QED BY <1>6, <3>1, <3>2
  <2>3. ASSUME NEW j \in 1 .. Len(q), NEW k \in 1 .. Len(q), j < k, q[j].ch = q[k].ch
        PROVE  After(q[j]) <= q[k].seq
    <3>1. CASE k \in 1 .. Len(p)
      <4>1. j \in 1 .. Len(p)
        BY <1>5, <2>3, <3>1
      <4> QED BY <1>5, <2>3, <3>1, <4>1 DEF Tidy, InOrder
    <3>2. CASE k = Len(p) + 1
      <4>1. j \in 1 .. Len(p)
        BY <1>5, <2>3, <3>2
      <4>2. p[j].ch = c /\ After(p[j]) <= x[p[j].ch]
        BY <1>2, <1>5, <2>3, <3>2, <4>1 DEF Tidy, InOrder
      <4> QED BY <1>2, <1>5, <3>2, <4>1, <4>2
    <3> QED BY <1>6, <3>1, <3>2
  <2>4. ASSUME NEW d \in Channels, NEW k \in 1 .. Len(s[d]), NEW j \in 1 .. Len(q), q[j].ch = d
        PROVE  After(s[d][k]) <= q[j].seq
    <3>1. CASE j \in 1 .. Len(p)
      BY <1>5, <2>4, <3>1 DEF Tidy, InOrder
    <3>2. CASE j = Len(p) + 1
      BY <1>2, <1>5, <2>4, <3>2 DEF Tidy, InOrder
    <3> QED BY <1>6, <3>1, <3>2
  <2>5. \A d \in Channels : \A j, k \in 1 .. Len(s[d]) :
          j < k => After(s[d][j]) <= s[d][k].seq
    BY DEF Tidy, InOrder
  <2> QED BY <2>1, <2>2, <2>3, <2>4, <2>5 DEF InOrder
<1>10. NoneMissing(q, s, y)
  <2> SUFFICES ASSUME NEW d \in Channels, NEW n \in 0 .. y[d] - 1
               PROVE  InStored(s, d, n) \/ InPending(q, d, n)
    BY DEF NoneMissing
  <2>1. CASE n \in 0 .. x[d] - 1
    <3>1. InPending(p, d, n) => InPending(q, d, n)
      <4>1. \A j \in 1 .. Len(p) : j \in 1 .. Len(q)
        BY <1>5
      <4> QED BY <1>5, <4>1 DEF InPending
    <3> QED BY <2>1, <3>1 DEF Tidy, NoneMissing
  <2>2. CASE n \notin 0 .. x[d] - 1
    <3>1. d = c /\ Covers(b, n)
      BY <1>1, <1>2, <1>4, <2>2 DEF Covers
    <3>2. Len(p) + 1 \in 1 .. Len(q)
      BY <1>5
    <3> QED BY <1>2, <1>5, <3>1, <3>2 DEF InPending
  <2> QED BY <2>1, <2>2
<1>11. StreamTypes(q, s, y)
  BY <1>1, <1>4, <1>5 DEF StreamTypes
<1> QED BY <1>9, <1>10, <1>11 DEF Tidy, b, q, y

\* Store: the first block of p becomes the last of its channel's.
LEMMA StoreTidy ==
  ASSUME NEW p, NEW s, NEW x, Tidy(p, s, x), p # <<>>
  PROVE  Tidy(Tail(p), [s EXCEPT ![Head(p).ch] = Append(@, [seq |-> Head(p).seq,
                                                           len |-> Head(p).len])], x)
<1> DEFINE c == Head(p).ch
           b == [seq |-> Head(p).seq, len |-> Head(p).len]
           q == Tail(p)
           r == [s EXCEPT ![c] = Append(@, b)]
<1>1. p \in Seq(BlockType) /\ s \in [Channels -> Seq(StoredType)] /\ x \in [Channels -> Nat]
  BY DEF Tidy, StreamTypes
<1>2. /\ Head(p) = p[1] /\ q \in Seq(BlockType) /\ Len(p) \in Nat /\ Len(q) = Len(p) - 1
      /\ \A j \in 1 .. Len(q) : q[j] = p[j + 1]
      /\ 1 \in 1 .. Len(p)
  <2>1. /\ Head(p) = p[1] /\ q \in Seq(BlockType) /\ Len(q) = Len(p) - 1
        /\ \A j \in 1 .. Len(q) : q[j] = p[j + 1]
    BY <1>1, HeadTailProperties
  <2>2. Len(p) \in Nat /\ Len(p) # 0
    BY <1>1, EmptySeq, LenProperties
  <2> QED BY <2>1, <2>2
<1>3. \A j \in 1 .. Len(q) : j + 1 \in 1 .. Len(p) /\ 1 < j + 1
  BY <1>2
<1>4. /\ p[1] \in BlockType /\ c \in Channels /\ c = p[1].ch
      /\ b \in StoredType /\ b.seq = p[1].seq /\ After(b) = After(p[1])
      /\ After(p[1]) <= x[c]
      /\ \A n : Covers(b, n) <=> Covers(p[1], n)
  <2>1. p[1] \in BlockType /\ p[1].ch \in Channels /\ After(p[1]) <= x[p[1].ch]
    BY <1>1, <1>2 DEF Tidy, InOrder
  <2> QED BY <1>2, <2>1 DEF BlockType, StoredType, After, Covers
<1> HIDE DEF c, b, q
<1> DEFINE N == Len(s[c])
<1>5. /\ r \in [Channels -> Seq(StoredType)] /\ Len(r[c]) = N + 1 /\ N \in Nat
      /\ r[c][N + 1] = b /\ \A k \in 1 .. N : r[c][k] = s[c][k]
      /\ \A d \in Channels : d # c => r[d] = s[d]
  <2>1. s[c] \in Seq(StoredType) /\ N \in Nat
    BY <1>1, <1>4
  <2>2. /\ Append(s[c], b) \in Seq(StoredType) /\ Len(Append(s[c], b)) = N + 1
        /\ Append(s[c], b)[N + 1] = b
        /\ \A k \in 1 .. N : Append(s[c], b)[k] = s[c][k]
    BY <1>4, <2>1, AppendProperties
  <2>3. r[c] = Append(s[c], b)
    BY <1>1, <1>4
  <2> QED BY <1>1, <1>4, <2>1, <2>2, <2>3
<1> HIDE DEF N, r
<1>6. \A k \in 1 .. N + 1 : k \in 1 .. N \/ k = N + 1
  BY <1>5
\* A block of r is one of s or b.
<1>7. ASSUME NEW d \in Channels, NEW k \in 1 .. Len(r[d])
      PROVE  \/ k \in 1 .. Len(s[d]) /\ r[d][k] = s[d][k]
             \/ d = c /\ k = N + 1 /\ r[d][k] = b
  <2>1. CASE d = c
    BY <1>5, <1>6, <2>1 DEF N
  <2>2. CASE d # c
    BY <1>5, <2>2
  <2> QED BY <2>1, <2>2
<1>8. \A d \in Channels : \A k \in 1 .. Len(s[d]) : k \in 1 .. Len(r[d]) /\ r[d][k] = s[d][k]
  <2> SUFFICES ASSUME NEW d \in Channels, NEW k \in 1 .. Len(s[d])
               PROVE  k \in 1 .. Len(r[d]) /\ r[d][k] = s[d][k]
    OBVIOUS
  <2>1. CASE d = c
    BY <1>5, <2>1 DEF N
  <2>2. CASE d # c
    BY <1>5, <2>2
  <2> QED BY <2>1, <2>2
<1>9. InOrder(q, r, x)
  <2>1. ASSUME NEW d \in Channels, NEW k \in 1 .. Len(r[d]) PROVE After(r[d][k]) <= x[d]
    BY <1>4, <1>7, <2>1 DEF Tidy, InOrder
  <2>2. ASSUME NEW j \in 1 .. Len(q) PROVE q[j].ch \in Channels /\ After(q[j]) <= x[q[j].ch]
    BY <1>2, <1>3, <2>2 DEF Tidy, InOrder
  <2>3. ASSUME NEW d \in Channels, NEW j \in 1 .. Len(r[d]), NEW k \in 1 .. Len(r[d]), j < k
        PROVE  After(r[d][j]) <= r[d][k].seq
    <3>1. CASE k \in 1 .. Len(s[d]) /\ r[d][k] = s[d][k]
      <4>1. j # N + 1 \/ d # c
        <5>1. d = c => k \in 1 .. N
          BY <3>1 DEF N
        <5> QED BY <1>5, <2>3, <5>1
      <4>2. j \in 1 .. Len(s[d]) /\ r[d][j] = s[d][j]
        BY <1>7, <4>1
      <4> QED BY <2>3, <3>1, <4>2 DEF Tidy, InOrder
    <3>2. CASE d = c /\ k = N + 1 /\ r[d][k] = b
      <4>1. j # N + 1
        BY <1>5, <2>3, <3>2
      <4>2. j \in 1 .. Len(s[d]) /\ r[d][j] = s[d][j]
        BY <1>7, <4>1
      <4>3. After(s[c][j]) <= p[1].seq
        BY <1>2, <1>4, <3>2, <4>2 DEF Tidy, InOrder
      <4> QED BY <1>4, <3>2, <4>2, <4>3
    <3> QED BY <1>7, <3>1, <3>2
  <2>4. ASSUME NEW j \in 1 .. Len(q), NEW k \in 1 .. Len(q), j < k, q[j].ch = q[k].ch
        PROVE  After(q[j]) <= q[k].seq
    <3>1. j + 1 < k + 1
      BY <1>2, <2>4
    <3> QED BY <1>2, <1>3, <2>4, <3>1 DEF Tidy, InOrder
  <2>5. ASSUME NEW d \in Channels, NEW k \in 1 .. Len(r[d]), NEW j \in 1 .. Len(q), q[j].ch = d
        PROVE  After(r[d][k]) <= q[j].seq
    <3>1. j + 1 \in 1 .. Len(p) /\ 1 < j + 1 /\ q[j] = p[j + 1]
      BY <1>2, <1>3
    <3>2. CASE k \in 1 .. Len(s[d]) /\ r[d][k] = s[d][k]
      BY <2>5, <3>1, <3>2 DEF Tidy, InOrder
    <3>3. CASE d = c /\ r[d][k] = b
      <4>1. After(p[1]) <= p[j + 1].seq
        BY <1>2, <1>4, <2>5, <3>1, <3>3 DEF Tidy, InOrder
      <4> QED BY <1>4, <3>1, <3>3, <4>1
    <3> QED BY <1>7, <3>2, <3>3
  <2> QED BY <2>1, <2>2, <2>3, <2>4, <2>5 DEF InOrder
<1>10. NoneMissing(q, r, x)
  <2> SUFFICES ASSUME NEW d \in Channels, NEW n \in 0 .. x[d] - 1
               PROVE  InStored(r, d, n) \/ InPending(q, d, n)
    BY DEF NoneMissing
  <2>1. InStored(s, d, n) => InStored(r, d, n)
    BY <1>8 DEF InStored
  <2>2. ASSUME NEW j \in 1 .. Len(p), p[j].ch = d, Covers(p[j], n)
        PROVE  InStored(r, d, n) \/ InPending(q, d, n)
    <3>1. CASE j = 1
      <4>1. N + 1 \in 1 .. Len(r[c]) /\ Covers(r[c][N + 1], n) /\ d = c
        BY <1>4, <1>5, <2>2, <3>1
      <4> QED BY <4>1 DEF InStored
    <3>2. CASE j # 1
      <4>1. j - 1 \in 1 .. Len(q) /\ (j - 1) + 1 = j
        BY <1>2, <3>2
      <4>2. q[j - 1] = p[j]
        BY <1>2, <4>1
      <4> QED BY <2>2, <4>1, <4>2 DEF InPending
    <3> QED BY <3>1, <3>2
  <2> QED BY <2>1, <2>2 DEF Tidy, NoneMissing, InPending
<1>11. StreamTypes(q, r, x)
  BY <1>1, <1>2, <1>5 DEF StreamTypes
<1> QED BY <1>9, <1>10, <1>11 DEF Tidy, c, b, q, r

TidyInv == Tidy(PendingBlocks, coSamples, NextSeqs)

LEMMA TidyInit == Stream!Init => TidyInv
<1> SUFFICES ASSUME Stream!Init PROVE TidyInv
  OBVIOUS
<1>1. /\ PendingBlocks = <<>> /\ coSamples = [c \in Channels |-> <<>>]
      /\ NextSeqs = [c \in Channels |-> 0]
  BY DEF Stream!Init, NextSeqs
<1>2. /\ PendingBlocks \in Seq(BlockType) /\ Len(PendingBlocks) = 0
      /\ \A c \in Channels : coSamples[c] \in Seq(StoredType) /\ Len(coSamples[c]) = 0
  BY <1>1
<1>3. StreamTypes(PendingBlocks, coSamples, NextSeqs)
  BY <1>1, <1>2 DEF StreamTypes
<1>4. InOrder(PendingBlocks, coSamples, NextSeqs)
  BY <1>2 DEF InOrder
<1>5. NoneMissing(PendingBlocks, coSamples, NextSeqs)
  BY <1>1 DEF NoneMissing
<1> QED BY <1>3, <1>4, <1>5 DEF TidyInv, Tidy

LEMMA TidyStep == TidyInv /\ [Stream!Next]_(Stream!streamVars) => TidyInv'
<1> SUFFICES ASSUME TidyInv, [Stream!Next]_(Stream!streamVars) PROVE TidyInv'
  OBVIOUS
<1>1. ASSUME NEW c \in Channels, NEW len \in 0 .. SegSize, Stream!HandOver(c, len)
      PROVE  TidyInv'
  <2>1. /\ PendingBlocks' = Append(PendingBlocks, [ch |-> c, seq |-> NextSeqs[c], len |-> len])
        /\ NextSeqs' = [NextSeqs EXCEPT ![c] = @ + len \div SizeofFloat]
        /\ coSamples' = coSamples
    BY <1>1 DEF Stream!HandOver, NextSeqs
  <2>2. Tidy(PendingBlocks', coSamples', NextSeqs')
    BY <2>1, HandOverTidy DEF TidyInv
  <2> QED BY <2>2 DEF TidyInv
<1>2. CASE Stream!Store
  <2>1. /\ PendingBlocks # <<>> /\ PendingBlocks' = Tail(PendingBlocks)
        /\ coSamples' = [coSamples EXCEPT ![Head(PendingBlocks).ch] =
                           Append(@, [seq |-> Head(PendingBlocks).seq,
                                      len |-> Head(PendingBlocks).len])]
        /\ NextSeqs' = NextSeqs
    BY <1>2 DEF Stream!Store, NextSeqs
  <2>2. Tidy(PendingBlocks', coSamples', NextSeqs')
    BY <2>1, StoreTidy DEF TidyInv
  <2> QED BY <2>2 DEF TidyInv
<1>3. CASE UNCHANGED Stream!streamVars
  <2>1. UNCHANGED <<PendingBlocks, coSamples, NextSeqs>>
    BY <1>3 DEF Stream!streamVars, NextSeqs
  <2>2. Tidy(PendingBlocks', coSamples', NextSeqs')
    BY <2>1 DEF TidyInv
  <2> QED BY <2>2 DEF TidyInv
<1> QED BY <1>1, <1>2, <1>3 DEF Stream!Next

\* At most one block of a tidy stream has sample n of channel c.
LEMMA OneBlock ==
  ASSUME NEW p, NEW s, NEW x, Tidy(p, s, x), NEW c \in Channels, NEW n \in Nat
  PROVE  /\ \A j, k \in 1 .. Len(s[c]) : Covers(s[c][j], n) /\ Covers(s[c][k], n) => j = k
         /\ \A j, k \in 1 .. Len(p) :
              p[j].ch = c /\ Covers(p[j], n) /\ p[k].ch = c /\ Covers(p[k], n)
              => j = k
         /\ InStored(s, c, n) => ~InPending(p, c, n)
         /\ InStored(s, c, n) \/ InPending(p, c, n) => n < x[c]
<1>1. /\ p \in Seq(BlockType) /\ s[c] \in Seq(StoredType) /\ x[c] \in Nat
      /\ Len(p) \in Nat /\ Len(s[c]) \in Nat
  BY DEF Tidy, StreamTypes
<1>2. \A j \in 1 .. Len(p) : After(p[j]) \in Nat /\ p[j].seq \in Nat
  BY <1>1, AfterType
<1>3. \A k \in 1 .. Len(s[c]) : After(s[c][k]) \in Nat /\ s[c][k].seq \in Nat
  BY <1>1, AfterType
<1>4. ASSUME NEW j \in 1 .. Len(s[c]), NEW k \in 1 .. Len(s[c]),
             Covers(s[c][j], n), Covers(s[c][k], n), j < k
      PROVE  FALSE
  <2>1. After(s[c][j]) <= s[c][k].seq
    BY <1>4 DEF Tidy, InOrder
  <2> QED BY <1>3, <1>4, <2>1 DEF Covers
<1>5. ASSUME NEW j \in 1 .. Len(p), NEW k \in 1 .. Len(p), p[j].ch = c, p[k].ch = c,
             Covers(p[j], n), Covers(p[k], n), j < k
      PROVE  FALSE
  <2>1. After(p[j]) <= p[k].seq
    BY <1>5 DEF Tidy, InOrder
  <2> QED BY <1>2, <1>5, <2>1 DEF Covers
<1>6. ASSUME NEW k \in 1 .. Len(s[c]), NEW j \in 1 .. Len(p), p[j].ch = c,
             Covers(s[c][k], n), Covers(p[j], n)
      PROVE  FALSE
  <2>1. After(s[c][k]) <= p[j].seq
    BY <1>6 DEF Tidy, InOrder
  <2> QED BY <1>2, <1>3, <1>6, <2>1 DEF Covers
<1>7. ASSUME NEW k \in 1 .. Len(s[c]), Covers(s[c][k], n) PROVE n < x[c]
  <2>1. After(s[c][k]) <= x[c]
    BY DEF Tidy, InOrder
  <2> QED BY <1>1, <1>3, <1>7, <2>1 DEF Covers
<1>8. ASSUME NEW j \in 1 .. Len(p), p[j].ch = c, Covers(p[j], n) PROVE n < x[c]
  <2>1. After(p[j]) <= x[c]
    BY <1>8 DEF Tidy, InOrder
  <2> QED BY <1>1, <1>2, <1>8, <2>1 DEF Covers
<1>9. \A j, k \in 1 .. Len(s[c]) : Covers(s[c][j], n) /\ Covers(s[c][k], n) => j = k
  BY <1>1, <1>4
<1>10. \A j, k \in 1 .. Len(p) :
         p[j].ch = c /\ Covers(p[j], n) /\ p[k].ch = c /\ Covers(p[k], n)
         => j = k
  <2>1. SUFFICES ASSUME NEW j \in 1 .. Len(p), NEW k \in 1 .. Len(p),
                        p[j].ch = c, p[k].ch = c,
                        Covers(p[j], n), Covers(p[k], n)
                 PROVE  j = k
    OBVIOUS
  <2>2. CASE j < k
    BY <1>5, <2>1, <2>2
  <2>3. CASE k < j
    BY <1>5, <2>1, <2>3
  <2>4. j \in Nat /\ k \in Nat
    BY <1>1
  <2> QED BY <2>1, <2>2, <2>3, <2>4
<1>11. InStored(s, c, n) => ~InPending(p, c, n)
  BY <1>6 DEF InStored, InPending
<1>12. InStored(s, c, n) \/ InPending(p, c, n) => n < x[c]
  BY <1>7, <1>8 DEF InStored, InPending
<1> QED BY <1>9, <1>10, <1>11, <1>12

\* The segment in progress goes from NextSeq to the last sample fed.
LEMMA FillingForm ==
  ASSUME PoolInv, NEW c \in Channels, NEW n \in Nat
  PROVE  /\ NextSeq(c) \in Nat /\ inSmps[c] \in Nat
         /\ Rolled(c) => NextSeq(c) = inSmps[c]
         /\ ~Rolled(c) => (Covers(Block(cPtr[c].idx), n) <=> NextSeq(c) <= n /\ n < inSmps[c])
<1>1. PICK F, m, C, h, t, kind, pos : Explained(F, m, C, h, t, kind, pos)
  BY DEF PoolInv, ShapeInv, Explained
<1>2. inSmps[c] \in Nat
  BY DEF PoolInv, TypeInv, TypeOK
<1>3. CASE Rolled(c)
  BY <1>2, <1>3 DEF NextSeq
<1>4. CASE ~Rolled(c)
  <2> DEFINE b == seg[cPtr[c].idx]
  <2>1. cPtr[c].idx \in Node
    BY <1>1, <1>4 DEF Explained, Shape, HoldShape, HeldNode
  <2>2. b \in Segment /\ b.smpsSeq + b.wrPos \div SizeofFloat = inSmps[c]
    BY <1>1, <1>4, <2>1 DEF Explained, Shape, SegmentShape, TypeInv, TypeOK
  <2>3. b.smpsSeq \in Nat
    BY <2>2 DEF Segment
  <2>4. NextSeq(c) = b.smpsSeq
    BY <1>4 DEF NextSeq
  <2> HIDE DEF b
  <2>5. Block(cPtr[c].idx).seq = b.smpsSeq /\ Block(cPtr[c].idx).len = b.wrPos
    BY DEF Block, b
  <2> QED BY <1>2, <1>4, <2>2, <2>3, <2>4, <2>5 DEF Covers, After
<1> QED BY <1>3, <1>4

LEMMA OneHome ==
  ASSUME PoolInv, TidyInv, NEW c \in Channels, NEW n \in 0 .. inSmps[c] - 1
  PROVE  Cardinality(Homes(c, n)) = 1
<1> DEFINE S == {j \in DOMAIN coSamples[c] : Covers(coSamples[c][j], n)}
           P == {j \in DOMAIN PendingBlocks :
                   PendingBlocks[j].ch = c /\ Covers(PendingBlocks[j], n)}
           G == {j \in {0} : ~Rolled(c) /\ Covers(Block(cPtr[c].idx), n)}
<1>1. /\ NextSeq(c) \in Nat /\ inSmps[c] \in Nat
      /\ Rolled(c) => NextSeq(c) = inSmps[c]
      /\ ~Rolled(c) => (Covers(Block(cPtr[c].idx), n) <=> NextSeq(c) <= n /\ n < inSmps[c])
  <2>1. n \in Nat
    <3>1. inSmps[c] \in Nat
      BY DEF PoolInv, TypeInv, TypeOK
    <3> QED BY <3>1
  <2> QED BY <2>1, FillingForm
<1>2. n \in Nat /\ n < inSmps[c]
  BY <1>1
<1>3. /\ DOMAIN coSamples[c] = 1 .. Len(coSamples[c])
      /\ DOMAIN PendingBlocks = 1 .. Len(PendingBlocks)
      /\ NextSeqs[c] = NextSeq(c)
  <2>1. coSamples[c] \in Seq(StoredType) /\ PendingBlocks \in Seq(BlockType)
    BY DEF TidyInv, Tidy, StreamTypes
  <2> QED BY <2>1, LenProperties DEF NextSeqs
<1>4. /\ InStored(coSamples, c, n) <=> S # {}
      /\ InPending(PendingBlocks, c, n) <=> P # {}
  BY <1>3 DEF InStored, InPending
<1>5. /\ \A j, k \in S : j = k
      /\ \A j, k \in P : j = k
      /\ S # {} => P = {}
      /\ S # {} \/ P # {} => n < NextSeq(c)
  <2>1. /\ \A j, k \in 1 .. Len(coSamples[c]) :
             Covers(coSamples[c][j], n) /\ Covers(coSamples[c][k], n) => j = k
        /\ \A j, k \in 1 .. Len(PendingBlocks) :
             PendingBlocks[j].ch = c /\ Covers(PendingBlocks[j], n)
             /\ PendingBlocks[k].ch = c /\ Covers(PendingBlocks[k], n)
             => j = k
        /\ InStored(coSamples, c, n) => ~InPending(PendingBlocks, c, n)
        /\ InStored(coSamples, c, n) \/ InPending(PendingBlocks, c, n) => n < NextSeqs[c]
    <3>1. Tidy(PendingBlocks, coSamples, NextSeqs)
      BY DEF TidyInv
    <3>2. n \in Nat /\ c \in Channels
      BY <1>2
    <3> QED BY <3>1, <3>2, OneBlock, Zenon
  <2> QED BY <1>3, <1>4, <2>1
<1>6. n < NextSeq(c) => S # {} \/ P # {}
  <2>1. n < NextSeq(c) => n \in 0 .. NextSeqs[c] - 1
    BY <1>1, <1>2, <1>3
  <2>2. n < NextSeq(c) =>
          InStored(coSamples, c, n) \/ InPending(PendingBlocks, c, n)
    BY <2>1 DEF TidyInv, Tidy, NoneMissing
  <2> QED BY <1>4, <2>2
<1>7. G = IF n < NextSeq(c) THEN {} ELSE {0}
  BY <1>1, <1>2
<1>8. Homes(c, n) = {<<"stored", k>> : k \in S} \cup {<<"pending", k>> : k \in P}
                    \cup {<<"filling", k>> : k \in G}
  BY DEF Homes
<1> HIDE DEF S, P, G
<1>9. CASE n < NextSeq(c) /\ S # {}
  <2>1. PICK k : k \in S
    BY <1>9
  <2>2. S = {k}
    BY <1>5, <2>1
  <2>3. P = {} /\ G = {}
    BY <1>5, <1>7, <1>9
  <2>4. Homes(c, n) = {<<"stored", k>>}
    BY <1>8, <2>2, <2>3
  <2> QED BY <2>4, FS_Singleton
<1>10. CASE n < NextSeq(c) /\ S = {}
  <2>1. PICK k : k \in P
    BY <1>6, <1>10
  <2>2. P = {k}
    BY <1>5, <2>1
  <2>3. S = {} /\ G = {}
    BY <1>7, <1>10
  <2>4. Homes(c, n) = {<<"pending", k>>}
    BY <1>8, <2>2, <2>3
  <2> QED BY <2>4, FS_Singleton
<1>11. CASE ~(n < NextSeq(c))
  <2>1. S = {} /\ P = {} /\ G = {0}
    BY <1>5, <1>7, <1>11
  <2>2. Homes(c, n) = {<<"filling", 0>>}
    BY <1>8, <2>1
  <2> QED BY <2>2, FS_Singleton
<1> QED BY <1>9, <1>10, <1>11

(***************************************************************************)
(* While the data thread keeps up every sample fed is in exactly one       *)
(* place, for any number of channels and nodes and any sizes: a stored     *)
(* block, a pending one, or the segment its channel fills.                 *)
(***************************************************************************)
THEOREM SamplesHaveOneHome == KeepsUp => (Spec => []EverySampleOnce)
<1> SUFFICES ASSUME KeepsUp PROVE Spec => []EverySampleOnce
  OBVIOUS
<1>1. PoolInv /\ Init => TidyInv
  BY StreamInit, TidyInit
<1>2. PoolInv /\ TidyInv /\ [Next]_vars => TidyInv'
  BY StreamStep, TidyStep
<1>3. PoolInv /\ TidyInv => EverySampleOnce
  BY OneHome DEF EverySampleOnce
<1> QED BY <1>1, <1>2, <1>3, PoolInvariant, PTL DEF Spec

=============================================================================
