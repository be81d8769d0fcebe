-------------------------- MODULE SrpSamplesProofs --------------------------
(***************************************************************************)
(* Theorems about SrpSamplesSegmented, for every set of channels, pool,    *)
(* segment and packet size, and whatever the pace of the driver.           *)
(***************************************************************************)
EXTENDS SrpSamplesProps, SequenceTheorems, TLAPS

\* A callback is between its first step and its return.
InCallback ==
  fpc \in {"push_link", "push_swing", "push_count", "get_incr", "get_next",
           "get_take", "set", "signal", "write"}

\* The packet in progress is for a channel of the storage.
CallbackChannel == InCallback => feedCh \in Channels

\* GetOne only follows the entry of a node.
TopIsNode == fpc \in {"get_next", "get_take"} => feedOld.idx \in Node

\* pop is called on a queue that holds a block: only pop takes blocks away.
PopHasBlock == dpc \in {"pop_swing", "pop_count"} => q_size_ >= 1

\* Nothing is queued before the data thread starts.
QuietAtStart == dpc = "none" <=> fpc = "new"
EmptyAtStart == dpc = "none" => q_size_ = 0

TypeInv == TypeOK /\ CallbackChannel /\ TopIsNode /\ PopHasBlock

-----------------------------------------------------------------------------
(* Types of the pieces.                                                    *)

\* The segment size is a number of bytes, and so is a packet's.
LEMMA SizeTypes ==
  /\ SegSize \in Nat
  /\ \A n \in Nat : InSize(n) \in Nat
<1>1. BlkLim \in Nat /\ PgSz \in Nat /\ PgSz > 0
  BY SamplesAssumption
<1>2. BlkLim \div PgSz \in Nat
  BY <1>1
<1>3. \A a, b \in Nat : a * b \in Nat
  OBVIOUS
<1>4. (BlkLim \div PgSz) + (IF BlkLim % PgSz # 0 THEN 1 ELSE 0) \in Nat
  BY <1>2
<1>5. SegSize \in Nat
  BY <1>1, <1>3, <1>4 DEF SegSize, GET_BLK_ALIGN
<1>6. \A n \in Nat : InSize(n) \in Nat
  BY DEF InSize, SizeofFloat
<1> QED BY <1>5, <1>6

\* Counted pointers stay counted pointers.
LEMMA PointerTypes ==
  /\ NoPtr \in CountPtr
  /\ \A p \in CountPtr : Bump(p) \in CountPtr /\ Bump(p).idx = p.idx
  /\ \A p \in CountPtr : p.idx \in Slot
  /\ Node \subseteq Slot /\ Null \in Slot
<1>1. CntMod \in Nat /\ CntMod > 0
  BY PoolAssumption
<1>2. \A k \in Nat : k % CntMod \in 0 .. CntMod - 1
  BY <1>1
<1> QED BY <1>1, <1>2 DEF NoPtr, CountPtr, Bump, Slot, Node, Null

\* A segment that has been set up, sealed or written to is a segment.
LEMMA SegmentTypes ==
  /\ FreshSegment \in Segment
  /\ \A c \in 0 .. 255, n \in Nat : SetSegment(c, n) \in Segment
  /\ \A s \in Segment : [s EXCEPT !.status = TRUE] \in Segment
  /\ \A s \in Segment, n \in Nat :
        s.wrPos + InSize(n) <= SegSize => [s EXCEPT !.wrPos = @ + InSize(n)] \in Segment
<1> USE SizeTypes DEF Segment
<1>1. FreshSegment \in Segment
  BY DEF FreshSegment
<1>2. \A c \in 0 .. 255, n \in Nat : SetSegment(c, n) \in Segment
  BY DEF SetSegment
<1>3. \A s \in Segment : [s EXCEPT !.status = TRUE] \in Segment
  OBVIOUS
<1>4. ASSUME NEW s \in Segment, NEW n \in Nat, s.wrPos + InSize(n) <= SegSize
      PROVE  [s EXCEPT !.wrPos = @ + InSize(n)] \in Segment
  <2>1. s.wrPos \in 0 .. SegSize /\ InSize(n) \in Nat
    OBVIOUS
  <2>2. s.wrPos + InSize(n) \in 0 .. SegSize
    BY <1>4, <2>1
  <2> QED BY <2>2
<1> QED BY <1>1, <1>2, <1>3, <1>4

\* A channel index is a byte, as a_ch_map_'s keys are.
LEMMA ChannelTypes == Channels \subseteq 0 .. 255
<1> DEFINE Byte == 0 .. 255
<1>1. Analog \in Seq(Byte)
  BY SamplesAssumption
<1> HIDE DEF Byte
<1>2. \A i \in DOMAIN Analog : Analog[i] \in Byte
  BY <1>1
<1> QED BY <1>2 DEF Channels, Byte

-----------------------------------------------------------------------------
\* What GetOne gave to a channel in the constructor.
LEMMA InitialPointers ==
  ASSUME NEW c \in Channels
  PROVE  InitiallyTaken((CHOOSE i \in DOMAIN Analog : Analog[i] = c) - 1)
           \in [cnt : 0 .. CntMod - 1, idx : Node]
<1> DEFINE k == CHOOSE i \in DOMAIN Analog : Analog[i] = c
<1>1. k \in DOMAIN Analog
  BY DEF Channels
<1>2. Len(Analog) \in Nat /\ DOMAIN Analog = 1 .. Len(Analog)
  BY SamplesAssumption, LenProperties
<1>3. NumNodes \in Nat /\ NumNodes >= Len(Analog)
  BY PoolAssumption, SamplesAssumption
<1>4. CntMod \in Nat /\ CntMod > 0
  BY PoolAssumption
<1>5. 2 % CntMod \in 0 .. CntMod - 1
  BY <1>4
<1> HIDE DEF k
<1>6. NumNodes - 1 - (k - 1) \in Node
  BY <1>1, <1>2, <1>3 DEF Node
<1> QED BY <1>5, <1>6 DEF InitiallyTaken, k

\* The constructor leaves a state of the right types.
THEOREM InitType == Init => TypeInv
<1> SUFFICES ASSUME Init PROVE TypeInv
  OBVIOUS
<1>1. Len(Analog) \in Nat /\ NumNodes \in Nat /\ NumNodes >= Len(Analog)
  BY SamplesAssumption, PoolAssumption
<1>2. PoolTypeOK
  <2>1. 1 % CntMod \in 0 .. CntMod - 1
    BY PoolAssumption
  <2>2. \A i \in -1 .. NumNodes - 1 : [cnt |-> 1 % CntMod, idx |-> i] \in CountPtr
    BY <2>1, <1>1 DEF CountPtr, Slot, Node, Null
  <2> QED BY <1>1, <2>2, PointerTypes DEF Init, PoolInit, PoolTypeOK, Node
<1>3. cPtr \in [Channels -> CountPtr]
  BY InitialPointers, PointerTypes DEF Init, CountPtr
<1>4. seg \in [Node -> Segment]
  BY SegmentTypes, ChannelTypes DEF Init
<1>5. coSamples \in [Channels -> Seq([seq : Nat, len : 0 .. SegSize])]
  BY DEF Init
<1>6. /\ inSmps \in [Channels -> Nat]
      /\ fault \in Faults /\ fpc \in FeedPoints /\ dpc \in DataPoints
      /\ feedCh \in 0 .. 255 /\ feedNum \in Nat
      /\ feedOld \in CountPtr /\ feedNext \in CountPtr
      /\ dataOldHead \in CountPtr /\ dataPtr \in CountPtr
  BY PointerTypes DEF Init, Faults, FeedPoints, DataPoints
<1>7. ready_ \in BOOLEAN /\ acqDone \in BOOLEAN
  BY DEF Init
<1>8. TypeOK
  BY <1>2, <1>3, <1>4, <1>5, <1>6, <1>7 DEF TypeOK
<1>9. CallbackChannel /\ TopIsNode /\ PopHasBlock
  BY DEF Init, CallbackChannel, InCallback, TopIsNode, PopHasBlock
<1> QED BY <1>8, <1>9 DEF TypeInv

-----------------------------------------------------------------------------
\* The pool's operations keep the pool's types.
LEMMA PoolOperationTypes ==
  ASSUME PoolTypeOK, NEW nd \in CountPtr, NEW nd2 \in CountPtr
  PROVE  /\ PushLink(nd) => PoolTypeOK'
         /\ PushSwing(nd) => PoolTypeOK'
         /\ PushRetry(nd) => PoolTypeOK'
         /\ PushCount => PoolTypeOK'
         /\ PopSwing => PoolTypeOK'
         /\ (PopCount /\ q_size_ >= 1) => PoolTypeOK'
         /\ IncreaseEntryCnt => PoolTypeOK'
         /\ TakeTop(nd, nd2) => PoolTypeOK'
         /\ ReclaimLink(nd) => PoolTypeOK'
         /\ ReclaimSwing(nd) => PoolTypeOK'
         /\ ReclaimRetry(nd) => PoolTypeOK'
<1> USE DEF PoolTypeOK, stackVars, queueVars
<1>1. PushLink(nd) => PoolTypeOK'
  BY PointerTypes DEF PushLink
<1>2. PushSwing(nd) => PoolTypeOK'
  BY PointerTypes DEF PushSwing
<1>3. PushRetry(nd) => PoolTypeOK'
  BY DEF PushRetry
<1>4. PushCount => PoolTypeOK'
  BY DEF PushCount
<1>5. PopSwing => PoolTypeOK'
  BY PointerTypes DEF PopSwing
<1>6. (PopCount /\ q_size_ >= 1) => PoolTypeOK'
  BY DEF PopCount
<1>7. IncreaseEntryCnt => PoolTypeOK'
  BY PointerTypes DEF IncreaseEntryCnt
<1>8. TakeTop(nd, nd2) => PoolTypeOK'
  BY DEF TakeTop
<1>9. ReclaimLink(nd) => PoolTypeOK'
  BY DEF ReclaimLink
<1>10. ReclaimSwing(nd) => PoolTypeOK'
  BY DEF ReclaimSwing
<1>11. ReclaimRetry(nd) => PoolTypeOK'
  BY <1>9 DEF ReclaimRetry
<1> QED
  BY <1>1, <1>2, <1>3, <1>4, <1>5, <1>6, <1>7, <1>8, <1>9, <1>10, <1>11

\* A step that leaves the pool alone keeps its types.
LEMMA PoolUnchanged == PoolTypeOK /\ UNCHANGED poolVars => PoolTypeOK'
BY DEF PoolTypeOK, poolVars, stackVars, queueVars

-----------------------------------------------------------------------------
(* Every step keeps TypeInv, one step of the proof per action.             *)

\* What a feed thread's step inside a callback leaves alone besides the pool.
LEMMA FeedLocalStep ==
  ASSUME TypeInv, InCallback, fpc' \in FeedPoints, feedCh' = feedCh, feedNum' = feedNum,
         feedOld' \in CountPtr, feedNext' \in CountPtr,
         fpc' \in {"get_next", "get_take"} => feedOld'.idx \in Node,
         UNCHANGED offQueue, fault' \in Faults,
         PoolTypeOK', q_size_' >= q_size_
  PROVE  TypeInv'
<1>1. TypeOK'
  BY DEF TypeInv, TypeOK, offQueue, segVars, dataVars
<1>2. PopHasBlock'
  BY DEF TypeInv, TypeOK, PoolTypeOK, PopHasBlock, offQueue, dataVars
<1>3. CallbackChannel'
  BY DEF TypeInv, CallbackChannel
<1>4. TopIsNode'
  BY DEF TopIsNode
<1> QED BY <1>1, <1>2, <1>3, <1>4 DEF TypeInv

\* The same for the data thread.
LEMMA DataLocalStep ==
  ASSUME TypeInv, dpc' \in DataPoints, PoolTypeOK',
         dpc' \in {"pop_swing", "pop_count"} => q_size_' >= 1,
         dataOldHead' \in CountPtr, dataPtr' \in CountPtr, ready_' \in BOOLEAN,
         UNCHANGED offData, UNCHANGED coSamples, fault' \in Faults
  PROVE  TypeInv'
<1>1. TypeOK'
  BY DEF TypeInv, TypeOK, offData, segVars, feedVars
<1>2. PopHasBlock'
  BY DEF PopHasBlock
<1>3. CallbackChannel' /\ TopIsNode'
  BY DEF TypeInv, CallbackChannel, InCallback, TopIsNode, offData, feedVars
<1> QED BY <1>1, <1>2, <1>3 DEF TypeInv

\* The calls libsigrok makes keep the types.
LEMMA FeedCallType == TypeInv /\ FeedCall => TypeInv'
<1> SUFFICES ASSUME TypeInv, FeedCall PROVE TypeInv'
  OBVIOUS
<1> USE DEF FeedAt, InCallback, TypeInv, CallbackChannel, TopIsNode, PopHasBlock
<1>1. CASE FeedHeader
  <2>1. PoolTypeOK'
    BY <1>1, PoolUnchanged DEF FeedHeader, TypeOK
  <2>2. TypeOK'
    BY <1>1, <2>1 DEF FeedHeader, TypeOK, segVars, FeedPoints, DataPoints
  <2> QED BY <1>1, <2>2 DEF FeedHeader, poolVars, queueVars
<1>2. CASE FeedEnd
  <2>1. PoolTypeOK'
    BY <1>2, PoolUnchanged DEF FeedEnd, TypeOK
  <2>2. TypeOK'
    BY <1>2, <2>1 DEF FeedEnd, TypeOK, segVars, dataVars, feedLocals, FeedPoints
  <2> QED BY <1>2, <2>2 DEF FeedEnd, poolVars, queueVars, dataVars, feedLocals
<1>3. ASSUME NEW c \in Channels, NEW n \in PktSizes, AppendFits(c, n) PROVE TypeInv'
  <2>1. PoolTypeOK'
    BY <1>3, PoolUnchanged DEF AppendFits, TypeOK
  <2>2. feedCh' \in 0 .. 255 /\ feedNum' \in Nat
    BY <1>3, ChannelTypes, SamplesAssumption DEF AppendFits, Packet
  <2>3. TypeOK'
    BY <1>3, <2>1, <2>2 DEF AppendFits, TypeOK, segVars, dataVars, FeedPoints
  <2> QED
    BY <1>3, <2>3 DEF AppendFits, Packet, poolVars, queueVars, dataVars
<1>4. ASSUME NEW c \in Channels, NEW n \in PktSizes, AppendRolls(c, n) PROVE TypeInv'
  <2>1. PoolTypeOK'
    BY <1>4, PoolUnchanged DEF AppendRolls, TypeOK
  <2>2. feedCh' \in 0 .. 255 /\ feedNum' \in Nat
    BY <1>4, ChannelTypes, SamplesAssumption DEF AppendRolls, Packet
  <2>3. seg' \in [Node -> Segment]
    <3>1. seg' = [seg EXCEPT ![cPtr[c].idx].status = TRUE] /\ seg \in [Node -> Segment]
      BY <1>4 DEF AppendRolls, TypeOK
    <3> QED BY ONLY <3>1, SegmentTypes
  <2>4. TypeOK'
    BY <1>4, <2>1, <2>2, <2>3 DEF AppendRolls, TypeOK, dataVars, FeedPoints
  <2> QED
    BY <1>4, <2>4 DEF AppendRolls, Packet, poolVars, queueVars, dataVars
<1> QED BY <1>1, <1>2, <1>3, <1>4 DEF FeedCall

\* So do the steps inside a callback.
LEMMA FeedStepType == TypeInv /\ FeedStep => TypeInv'
<1> SUFFICES ASSUME TypeInv, FeedStep PROVE TypeInv'
  OBVIOUS
<1>1. /\ PoolTypeOK /\ q_size_ \in Nat /\ fault \in Faults
      /\ feedOld \in CountPtr /\ feedNext \in CountPtr
      /\ InCallback => feedCh \in Channels /\ cPtr[feedCh] \in CountPtr
  BY DEF TypeInv, TypeOK, CallbackChannel, PoolTypeOK
<1> USE DEF FeedAt, InCallback, FeedPoints, feedLocals
<1>2. CASE FeedPushLink
  <2>1. PoolTypeOK'
    BY <1>1, <1>2, PoolOperationTypes DEF FeedPushLink
  <2>2. q_size_' = q_size_
    BY <1>2 DEF FeedPushLink, PushLink
  <2> QED BY <1>1, <1>2, <2>1, <2>2, FeedLocalStep DEF FeedPushLink
<1>3. CASE FeedWildWrite
  <2>1. PoolTypeOK' /\ q_size_' = q_size_
    BY <1>1, <1>3, PoolUnchanged DEF FeedWildWrite, poolVars, queueVars
  <2> QED BY <1>1, <1>3, <2>1, FeedLocalStep DEF FeedWildWrite, Faults
<1>4. CASE FeedPushSwing
  BY <1>1, <1>4, FeedLocalStep, PoolOperationTypes DEF FeedPushSwing, PushSwing
<1>5. CASE FeedPushRetry
  <2>1. PoolTypeOK'
    BY <1>1, <1>5, PoolOperationTypes DEF FeedPushRetry
  <2>2. q_size_' = q_size_
    BY <1>5 DEF FeedPushRetry, PushRetry
  <2> QED BY <1>1, <1>5, <2>1, <2>2, FeedLocalStep DEF FeedPushRetry
<1>6. CASE FeedPushCount
  BY <1>1, <1>6, FeedLocalStep, PoolOperationTypes DEF FeedPushCount, PushCount
<1>7. CASE FeedGetIncr
  <2>1. PoolTypeOK' /\ q_size_' = q_size_
    BY <1>1, <1>7, PoolOperationTypes DEF FeedGetIncr, IncreaseEntryCnt, queueVars
  <2>2. top_entry_ \in CountPtr
    BY <1>1 DEF PoolTypeOK
  <2>3. feedOld' \in CountPtr /\ (fpc' = "get_next" => feedOld'.idx \in Node)
    BY <1>7, <2>2, PointerTypes DEF FeedGetIncr, Slot
  <2> QED BY <1>1, <1>7, <2>1, <2>3, FeedLocalStep DEF FeedGetIncr
<1>8. CASE FeedGetNext
  <2>1. PoolTypeOK' /\ q_size_' = q_size_
    BY <1>1, <1>8, PoolUnchanged DEF FeedGetNext, poolVars, queueVars
  <2>2. feedOld.idx \in Node
    BY <1>8 DEF FeedGetNext, TypeInv, TopIsNode
  <2>3. feedNext' \in CountPtr
    BY <1>1, <1>8, <2>2 DEF FeedGetNext, PoolTypeOK
  <2> QED BY <1>1, <1>8, <2>1, <2>2, <2>3, FeedLocalStep DEF FeedGetNext
<1>9. CASE FeedGetTake
  BY <1>1, <1>9, FeedLocalStep, PoolOperationTypes DEF FeedGetTake, TakeTop, queueVars
<1>10. CASE FeedGetRetry
  <2>1. PoolTypeOK' /\ q_size_' = q_size_
    BY <1>1, <1>10, PoolUnchanged DEF FeedGetRetry, poolVars, queueVars
  <2> QED BY <1>1, <1>10, <2>1, FeedLocalStep DEF FeedGetRetry
<1>11. CASE FeedSet
  <2>1. PoolTypeOK' /\ q_size_' = q_size_
    BY <1>1, <1>11, PoolUnchanged DEF FeedSet, poolVars, queueVars
  <2>2. cPtr' \in [Channels -> CountPtr]
    BY <1>1, <1>11 DEF FeedSet, TypeInv, TypeOK
  <2>3. seg' \in [Node -> Segment]
    <3>1. feedCh \in 0 .. 255 /\ inSmps[feedCh] \in Nat /\ seg \in [Node -> Segment]
      BY <1>1, <1>11 DEF FeedSet, TypeInv, TypeOK
    <3>2. seg' = [seg EXCEPT ![feedOld.idx] = SetSegment(feedCh, inSmps[feedCh])]
      BY <1>11 DEF FeedSet
    <3> QED BY ONLY <3>1, <3>2, SegmentTypes
  <2>4. TypeOK'
    BY <1>11, <2>1, <2>2, <2>3 DEF FeedSet, TypeInv, TypeOK, dataVars, Faults
  <2> QED
    BY <1>11, <2>1, <2>4
       DEF FeedSet, TypeInv, CallbackChannel, TopIsNode, PopHasBlock, dataVars
<1>12. CASE FeedSetNull
  <2>1. PoolTypeOK' /\ q_size_' = q_size_
    BY <1>1, <1>12, PoolUnchanged DEF FeedSetNull, poolVars, queueVars
  <2>2. cPtr' \in [Channels -> CountPtr]
    BY <1>1, <1>12 DEF FeedSetNull, TypeInv, TypeOK
  <2>3. TypeOK'
    BY <1>12, <2>1, <2>2 DEF FeedSetNull, TypeInv, TypeOK, dataVars, Faults
  <2> QED
    BY <1>12, <2>1, <2>3
       DEF FeedSetNull, TypeInv, CallbackChannel, TopIsNode, PopHasBlock, dataVars
<1>13. CASE FeedSignal
  <2>1. PoolTypeOK' /\ q_size_' = q_size_
    BY <1>1, <1>13, PoolUnchanged DEF FeedSignal, poolVars, queueVars
  <2>2. TypeOK'
    BY <1>13, <2>1 DEF FeedSignal, TypeInv, TypeOK, dataVars, segVars
  <2> QED
    BY <1>13, <2>1, <2>2
       DEF FeedSignal, TypeInv, CallbackChannel, TopIsNode, PopHasBlock, dataVars
<1>14. CASE FeedWrite
  <2>1. PoolTypeOK' /\ q_size_' = q_size_
    BY <1>1, <1>14, PoolUnchanged DEF FeedWrite, poolVars, queueVars
  <2>2. inSmps' \in [Channels -> Nat]
    BY <1>1, <1>14 DEF FeedWrite, TypeInv, TypeOK
  <2>3. seg' \in [Node -> Segment]
    <3>1. feedNum \in Nat /\ seg \in [Node -> Segment]
      BY DEF TypeInv, TypeOK
    <3>2. /\ seg' = [seg EXCEPT ![cPtr[feedCh].idx].wrPos = @ + InSize(feedNum)]
          /\ ~(seg[cPtr[feedCh].idx].wrPos + InSize(feedNum) > SegSize)
      BY <1>14 DEF FeedWrite, Overruns
    <3> DEFINE k == cPtr[feedCh].idx
    <3>3. CASE k \in Node
      <4>1. seg[k].wrPos + InSize(feedNum) <= SegSize
        BY <3>1, <3>2, <3>3, SizeTypes DEF Segment
      <4>2. [seg[k] EXCEPT !.wrPos = @ + InSize(feedNum)] \in Segment
        BY <3>1, <3>3, <4>1, SegmentTypes
      <4> QED BY ONLY <3>1, <3>2, <3>3, <4>2
    <3>4. CASE k \notin Node
      BY ONLY <3>1, <3>2, <3>4
    <3> QED BY <3>3, <3>4
  <2>4. TypeOK'
    BY <1>14, <2>1, <2>2, <2>3 DEF FeedWrite, TypeInv, TypeOK, dataVars
  <2> QED
    BY <1>14, <2>1, <2>4
       DEF FeedWrite, TypeInv, CallbackChannel, TopIsNode, PopHasBlock, dataVars
<1>15. CASE FeedWriteThrows
  <2>1. PoolTypeOK' /\ q_size_' = q_size_
    BY <1>1, <1>15, PoolUnchanged DEF FeedWriteThrows, poolVars, queueVars
  <2> QED BY <1>1, <1>15, <2>1, FeedLocalStep DEF FeedWriteThrows, Faults
<1>16. CASE FeedEndSignal
  <2>1. PoolTypeOK' /\ q_size_' = q_size_
    BY <1>1, <1>16, PoolUnchanged DEF FeedEndSignal, poolVars, queueVars
  <2>2. TypeOK'
    BY <1>16, <2>1 DEF FeedEndSignal, TypeInv, TypeOK, dataVars, segVars
  <2> QED
    BY <1>16, <2>1, <2>2
       DEF FeedEndSignal, TypeInv, CallbackChannel, TopIsNode, PopHasBlock, dataVars
<1> QED
  BY <1>2, <1>3, <1>4, <1>5, <1>6, <1>7, <1>8, <1>9, <1>10, <1>11, <1>12, <1>13,
     <1>14, <1>15, <1>16 DEF FeedStep

\* So do the data thread's.
LEMMA DataStepType == TypeInv /\ DataStep => TypeInv'
<1> SUFFICES ASSUME TypeInv, DataStep PROVE TypeInv'
  OBVIOUS
<1>1. /\ PoolTypeOK /\ q_size_ \in Nat /\ fault \in Faults /\ ready_ \in BOOLEAN
      /\ dataOldHead \in CountPtr /\ dataPtr \in CountPtr /\ head_entry_ \in CountPtr
      /\ dpc \in {"pop_swing", "pop_count"} => q_size_ >= 1
  BY DEF TypeInv, TypeOK, PopHasBlock, PoolTypeOK
<1> USE DEF DataAt, DataPoints, dataLocals
<1>2. ASSUME \/ DataCheck \/ DataWake \/ DataClear \/ DataQueueHasBlock
             \/ DataQueueDrained \/ DataCompressNull \/ DataCompressFails
      PROVE  TypeInv'
  <2> USE DEF DataCheck, DataWake, DataClear, DataQueueHasBlock, DataQueueDrained,
              DataCompressNull, DataCompressFails
  <2>1. UNCHANGED poolVars
    BY <1>2
  <2>2. PoolTypeOK' /\ q_size_' = q_size_
    BY <1>1, <2>1, PoolUnchanged DEF poolVars, queueVars
  <2>3. ready_' \in BOOLEAN
    BY <1>1, <1>2
  <2>4. fault' \in Faults
    BY <1>1, <1>2 DEF Faults
  <2> QED BY <1>1, <1>2, <2>2, <2>3, <2>4, DataLocalStep
<1>3. CASE DataPopSwing
  <2>1. PoolTypeOK' /\ q_size_' = q_size_
    BY <1>1, <1>3, PoolOperationTypes DEF DataPopSwing, PopSwing
  <2> QED BY <1>1, <1>3, <2>1, DataLocalStep DEF DataPopSwing
<1>4. CASE DataPopCount
  <2>1. PoolTypeOK'
    BY <1>1, <1>4, PoolOperationTypes DEF DataPopCount
  <2> QED BY <1>1, <1>4, <2>1, DataLocalStep DEF DataPopCount
<1>5. CASE DataPopResult
  <2>1. PoolTypeOK' /\ q_size_' = q_size_
    BY <1>1, <1>5, PoolUnchanged DEF DataPopResult, poolVars, queueVars
  <2>2. PopResult(dataOldHead) \in CountPtr
    BY <1>1, PointerTypes DEF PopResult, PoolTypeOK
  <2> QED BY <1>1, <1>5, <2>1, <2>2, DataLocalStep DEF DataPopResult
<1>6. CASE DataCompress
  <2>1. PoolTypeOK' /\ q_size_' = q_size_
    BY <1>1, <1>6, PoolUnchanged DEF DataCompress, poolVars, queueVars
  <2>2. coSamples' \in [Channels -> Seq([seq : Nat, len : 0 .. SegSize])]
    <3> DEFINE s == seg[dataPtr.idx]
               CoBlock == [seq : Nat, len : 0 .. SegSize]
    <3>1. s \in Segment /\ s.chIdx \in Channels
      BY <1>1, <1>6 DEF DataCompress, HasChannel, TypeInv, TypeOK, CountPtr, Slot
    <3>2. Compressed(s) \in CoBlock
      BY <3>1 DEF Compressed, Segment
    <3>3. /\ coSamples \in [Channels -> Seq(CoBlock)]
          /\ coSamples' = [coSamples EXCEPT ![s.chIdx] = Append(@, Compressed(s))]
      BY <1>6 DEF DataCompress, TypeInv, TypeOK
    <3> HIDE DEF CoBlock, s
    <3>4. Append(coSamples[s.chIdx], Compressed(s)) \in Seq(CoBlock)
      BY <3>1, <3>2, <3>3, AppendProperties
    <3>5. coSamples' \in [Channels -> Seq(CoBlock)]
      BY <3>3, <3>4
    <3> QED BY <3>5 DEF CoBlock
  <2>3. TypeOK'
    BY <1>6, <2>1, <2>2 DEF DataCompress, TypeInv, TypeOK, offData, segVars, feedVars
  <2> QED
    BY <1>6, <2>3
       DEF DataCompress, TypeInv, CallbackChannel, InCallback, TopIsNode, PopHasBlock,
           offData, feedVars
<1>7. CASE DataReclaimLink
  <2>1. PoolTypeOK'
    BY <1>1, <1>7, PoolOperationTypes DEF DataReclaimLink
  <2> QED BY <1>1, <1>7, <2>1, DataLocalStep DEF DataReclaimLink
<1>8. CASE DataReclaimSwing
  <2>1. PoolTypeOK'
    BY <1>1, <1>8, PoolOperationTypes, PointerTypes DEF DataReclaimSwing
  <2> QED BY <1>1, <1>8, <2>1, DataLocalStep DEF DataReclaimSwing
<1>9. CASE DataReclaimRetry
  <2>1. PoolTypeOK'
    BY <1>1, <1>9, PoolOperationTypes DEF DataReclaimRetry
  <2> QED BY <1>1, <1>9, <2>1, DataLocalStep DEF DataReclaimRetry
<1> QED
  BY <1>2, <1>3, <1>4, <1>5, <1>6, <1>7, <1>8, <1>9 DEF DataStep

\* So does a step that changes nothing.
LEMMA TypeStutter == TypeInv /\ UNCHANGED vars => TypeInv'
<1> SUFFICES ASSUME TypeInv, UNCHANGED vars PROVE TypeInv'
  OBVIOUS
<1> USE DEF vars
<1>1. PoolTypeOK'
  BY PoolUnchanged DEF TypeInv, TypeOK
<1>2. TypeOK'
  BY <1>1 DEF TypeInv, TypeOK, segVars, feedVars, dataVars
<1> QED
  BY <1>2 DEF TypeInv, CallbackChannel, InCallback, TopIsNode, PopHasBlock, feedVars,
              dataVars, poolVars, queueVars

\* TypeInv is inductive.
LEMMA TypeStep == TypeInv /\ [Next]_vars => TypeInv'
BY FeedCallType, FeedStepType, DataStepType, TypeStutter DEF Next

(***************************************************************************)
(* The types of all state hold for ever, and with them: the queue's        *)
(* counter never becomes negative, since pop is only called on a queue     *)
(* that holds a block and nobody else takes blocks; no write position runs *)
(* past a segment.                                                         *)
(***************************************************************************)
THEOREM TypeCorrect == Spec => []TypeOK
<1>1. TypeInv => TypeOK
  BY DEF TypeInv
<1> QED BY <1>1, InitType, TypeStep, PTL DEF Spec

\* The inductive invariant itself, for the theorems below.
THEOREM TypeInvariant == Spec => []TypeInv
BY InitType, TypeStep, PTL DEF Spec

\* The depth the pool reports is at most the number of its nodes.
LEMMA DepthBound == PoolTypeOK => PoolSize <= NumNodes
<1>1. ASSUME PoolTypeOK PROVE top_entry_.idx \in Slot
  BY <1>1, PointerTypes DEF PoolTypeOK
<1>2. NumNodes \in Nat
  BY PoolAssumption
<1> QED BY <1>1, <1>2 DEF PoolSize, Slot, Node, Null

(***************************************************************************)
(* append_analog's overflow check (srpsamples_segmented.cpp:234) never     *)
(* fires: whatever the threads do, size() > blkNum_ is false when it is    *)
(* evaluated, so an exhausted pool always ends in the null segment.        *)
(***************************************************************************)
THEOREM CheckNeverFires == Spec => [](fault # "pool_exhausted")
<1> DEFINE Silent == fault # "pool_exhausted"
<1>1. Init => Silent
  BY DEF Init
<1>2. TypeInv /\ Silent /\ [Next]_vars => Silent'
  <2> SUFFICES ASSUME TypeInv, Silent, [Next]_vars PROVE Silent'
    OBVIOUS
  <2>1. CASE UNCHANGED vars
    BY <2>1 DEF vars
  <2>2. CASE FeedCall
    BY <2>2 DEF FeedCall, FeedHeader, FeedEnd, AppendFits, AppendRolls
  <2>3. CASE FeedSet
    <3>1. PoolTypeOK
      BY DEF TypeInv, TypeOK
    <3>2. PoolSize <= NumNodes /\ PoolSize \in Int /\ NumNodes \in Nat
      <4>1. top_entry_.idx \in Int
        BY <3>1, PointerTypes, PoolAssumption DEF PoolTypeOK, Slot, Node, Null
      <4> QED BY <3>1, <4>1, DepthBound, PoolAssumption DEF PoolSize
    <3>3. ~(PoolSize > NumNodes)
      BY <3>2
    <3> QED BY <2>3, <3>3 DEF FeedSet
  <2>4. CASE FeedStep /\ ~FeedSet
    BY <2>4
       DEF FeedStep, FeedPushLink, FeedWildWrite, FeedPushSwing, FeedPushRetry, FeedPushCount,
           FeedGetIncr, FeedGetNext, FeedGetTake, FeedGetRetry, FeedSetNull, FeedSignal,
           FeedWrite, FeedWriteThrows, FeedEndSignal
  <2>5. CASE DataStep
    BY <2>5
       DEF DataStep, DataCheck, DataWake, DataClear, DataQueueHasBlock, DataQueueDrained,
           DataPopSwing, DataPopCount, DataPopResult, DataCompress, DataCompressNull,
           DataCompressFails, DataReclaimLink, DataReclaimSwing, DataReclaimRetry
  <2> QED BY <2>1, <2>2, <2>3, <2>4, <2>5 DEF Next
<1> QED BY <1>1, <1>2, InitType, TypeStep, PTL DEF Spec

-----------------------------------------------------------------------------
(* No lost wakeup.                                                         *)

WakeInv == QuietAtStart /\ EmptyAtStart /\ NoLostWakeup

\* No block is queued and no thread runs when the constructor returns.
LEMMA InitWake == Init => WakeInv
BY DEF Init, PoolInit, WakeInv, QuietAtStart, EmptyAtStart, NoLostWakeup

\* WakeInv is inductive relative to TypeInv.
LEMMA WakeStep == TypeInv /\ WakeInv /\ [Next]_vars => WakeInv'
<1> SUFFICES ASSUME TypeInv, WakeInv, [Next]_vars PROVE WakeInv'
  OBVIOUS
<1>1. q_size_ \in Nat
  BY DEF TypeInv, TypeOK, PoolTypeOK
<1> USE DEF WakeInv, QuietAtStart, EmptyAtStart, NoLostWakeup
<1>2. CASE UNCHANGED vars
  BY <1>2 DEF vars, poolVars, queueVars, feedVars, dataVars
<1>3. CASE FeedCall
  <2> USE DEF FeedAt, poolVars, queueVars, dataVars
  <2>1. CASE FeedHeader
    BY <2>1 DEF FeedHeader
  <2>2. CASE FeedEnd
    BY <2>2 DEF FeedEnd
  <2>3. ASSUME NEW c \in Channels, NEW n \in PktSizes, AppendFits(c, n) \/ AppendRolls(c, n)
        PROVE  WakeInv'
    <3>1. fpc = "idle" /\ fpc' # "new" /\ UNCHANGED <<q_size_, dpc, ready_, fault>>
      BY <2>3 DEF AppendFits, AppendRolls
    <3> QED BY <3>1
  <2> QED BY <1>3, <2>1, <2>2, <2>3 DEF FeedCall
<1>4. CASE FeedStep
  <2> USE DEF FeedAt, poolVars, queueVars, dataVars, offQueue, segVars
  <2>1. ASSUME \/ FeedWildWrite \/ FeedGetNext \/ FeedGetRetry \/ FeedSet
               \/ FeedSetNull \/ FeedWrite \/ FeedWriteThrows
        PROVE  WakeInv'
    BY <2>1 DEF FeedWildWrite, FeedGetNext, FeedGetRetry, FeedSet, FeedSetNull, FeedWrite,
                FeedWriteThrows
  <2>2. ASSUME \/ FeedPushLink \/ FeedPushSwing \/ FeedPushRetry \/ FeedPushCount
               \/ FeedGetIncr \/ FeedGetTake
        PROVE  WakeInv'
    BY <1>1, <2>2
       DEF FeedPushLink, FeedPushSwing, FeedPushRetry, FeedPushCount, FeedGetIncr,
           FeedGetTake, PushLink, PushSwing, PushRetry, PushCount, IncreaseEntryCnt, TakeTop
  <2>3. ASSUME FeedSignal \/ FeedEndSignal PROVE WakeInv'
    <3>1. ready_' /\ UNCHANGED <<q_size_, dpc>> /\ fpc # "new" /\ fpc' # "new"
      BY <2>3 DEF FeedSignal, FeedEndSignal
    <3> QED BY <3>1
  <2> QED BY <1>4, <2>1, <2>2, <2>3 DEF FeedStep
<1>5. CASE DataStep
  <2> USE DEF DataAt, poolVars, queueVars, offData, feedVars
  <2>1. ASSUME \/ DataCheck \/ DataWake \/ DataClear \/ DataQueueHasBlock
               \/ DataQueueDrained \/ DataPopResult \/ DataCompress
               \/ DataCompressNull \/ DataCompressFails
        PROVE  WakeInv'
    BY <1>1, <2>1 DEF DataCheck, DataWake, DataClear, DataQueueHasBlock, DataQueueDrained,
                DataPopResult, DataCompress, DataCompressNull, DataCompressFails
  <2>2. ASSUME \/ DataPopSwing \/ DataPopCount \/ DataReclaimLink
               \/ DataReclaimSwing \/ DataReclaimRetry
        PROVE  WakeInv'
    BY <1>1, <2>2
       DEF DataPopSwing, DataPopCount, DataReclaimLink, DataReclaimSwing,
           DataReclaimRetry, PopSwing, PopCount, ReclaimLink, ReclaimSwing, ReclaimRetry
  <2> QED BY <1>5, <2>1, <2>2 DEF DataStep
<1> QED BY <1>2, <1>3, <1>4, <1>5 DEF Next

(***************************************************************************)
(* The data thread never blocks on the flag with a block in the queue and  *)
(* no signal raised or about to be, whatever the sizes and the pace.       *)
(***************************************************************************)
THEOREM NoWakeupLost == Spec => []NoLostWakeup
<1>1. WakeInv => NoLostWakeup
  BY DEF WakeInv
<1> QED BY <1>1, InitType, TypeStep, InitWake, WakeStep, PTL DEF Spec

-----------------------------------------------------------------------------
(* An overflow_error is the packet's fault.                                *)

\* While the process runs every channel has a segment.
ChannelsHaveNodes == fault = "none" => \A c \in Channels : cPtr[c].idx \in Node

\* The segment about to be written has room for the packet, or is empty.
RoomOrEmpty ==
  (fault = "none" /\ fpc \in {"signal", "write"}) =>
     LET s == seg[cPtr[feedCh].idx]
     IN  s.wrPos + InSize(feedNum) <= SegSize \/ s.wrPos = 0

OverflowInv == ChannelsHaveNodes /\ RoomOrEmpty /\ OverflowByPacket

\* Every channel starts on an empty segment of its own.
LEMMA InitOverflow == Init => OverflowInv
<1> SUFFICES ASSUME Init PROVE OverflowInv
  OBVIOUS
<1>1. ChannelsHaveNodes
  BY InitialPointers DEF Init, ChannelsHaveNodes
<1> QED BY <1>1 DEF Init, OverflowInv, RoomOrEmpty, OverflowByPacket

\* OverflowInv is inductive relative to TypeInv.
LEMMA OverflowStep == TypeInv /\ OverflowInv /\ [Next]_vars => OverflowInv'
<1> SUFFICES ASSUME TypeInv, OverflowInv, [Next]_vars PROVE OverflowInv'
  OBVIOUS
<1> USE DEF OverflowInv, ChannelsHaveNodes, RoomOrEmpty, OverflowByPacket
<1>1. /\ SegSize \in Nat /\ \A n \in Nat : InSize(n) \in Nat
      /\ seg \in [Node -> Segment] /\ \A k \in Node : seg[k].wrPos \in 0 .. SegSize
      /\ cPtr \in [Channels -> CountPtr] /\ feedNum \in Nat
  BY SizeTypes DEF TypeInv, TypeOK, Segment
\* Steps that touch no segment and lead neither to the write nor to a fault.
<1>2. ASSUME UNCHANGED <<cPtr, seg, feedCh, feedNum, fault>>,
             fpc' \in {"signal", "write"} => fpc \in {"signal", "write"}
      PROVE  OverflowInv'
  BY <1>2
<1>3. CASE UNCHANGED vars
  BY <1>2, <1>3 DEF vars, segVars, feedVars
<1>4. CASE FeedCall
  <2> USE DEF FeedAt
  <2>1. CASE FeedHeader \/ FeedEnd
    BY <1>2, <2>1 DEF FeedHeader, FeedEnd, segVars, feedLocals
  <2>2. ASSUME NEW c \in Channels, NEW n \in PktSizes, AppendFits(c, n) PROVE OverflowInv'
    <3>1. /\ fault = "none" /\ UNCHANGED <<cPtr, seg, fault>>
          /\ feedCh' = c /\ feedNum' = n
          /\ SegSize - seg[cPtr[c].idx].wrPos >= InSize(n)
      BY <2>2 DEF AppendFits, Packet, segVars, Capacity
    <3>2. n \in Nat /\ cPtr[c].idx \in Node
      BY <3>1, SamplesAssumption
    <3> QED BY <1>1, <3>1, <3>2
  <2>3. ASSUME NEW c \in Channels, NEW n \in PktSizes, AppendRolls(c, n) PROVE OverflowInv'
    BY <2>3 DEF AppendRolls
  <2> QED BY <1>4, <2>1, <2>2, <2>3 DEF FeedCall
<1>5. CASE FeedStep
  <2> USE DEF FeedAt, feedLocals, offQueue, segVars
  <2>1. ASSUME \/ FeedPushLink \/ FeedPushSwing \/ FeedPushRetry \/ FeedPushCount
               \/ FeedGetNext \/ FeedGetTake \/ FeedGetRetry
        PROVE  UNCHANGED <<cPtr, seg, feedCh, feedNum, fault>> /\ fpc' # "write"
               /\ fpc' # "signal"
    BY <2>1 DEF FeedPushLink, FeedPushSwing, FeedPushRetry, FeedPushCount, FeedGetNext,
                FeedGetTake, FeedGetRetry
  <2>2. ASSUME FeedGetIncr \/ FeedSignal \/ FeedEndSignal PROVE OverflowInv'
    <3>1. /\ UNCHANGED <<cPtr, seg, feedCh, feedNum, fault>>
          /\ fpc' \in {"signal", "write"} => fpc \in {"signal", "write"}
      BY <2>2 DEF FeedGetIncr, FeedSignal, FeedEndSignal
    <3> QED BY <1>2, <3>1
  <2>3. ASSUME FeedWildWrite \/ FeedSetNull PROVE OverflowInv'
    BY <2>3 DEF FeedWildWrite, FeedSetNull
  <2>4. CASE FeedSet
    <3>1. /\ feedOld.idx \in Node /\ fpc' = "signal" /\ feedCh' = feedCh /\ fault = "none"
          /\ cPtr' = [cPtr EXCEPT ![feedCh] = feedOld]
          /\ seg' = [seg EXCEPT ![feedOld.idx] = SetSegment(feedCh, inSmps[feedCh])]
          /\ fault' # "overflow_error"
      BY <2>4, PointerTypes DEF FeedSet, TypeInv, TypeOK, Slot
    <3>2. feedCh \in Channels
      BY <2>4 DEF FeedSet, TypeInv, CallbackChannel, InCallback
    <3>3. cPtr'[feedCh] = feedOld /\ seg'[feedOld.idx].wrPos = 0
      BY <1>1, <3>1, <3>2 DEF SetSegment
    <3>4. \A c \in Channels : cPtr'[c].idx \in Node
      BY <1>1, <3>1
    <3> QED BY <3>1, <3>3, <3>4
  <2>5. CASE FeedWrite
    BY <2>5 DEF FeedWrite
  <2>6. CASE FeedWriteThrows
    <3>1. /\ fault = "none" /\ fpc = "write" /\ UNCHANGED <<cPtr, seg, feedCh, feedNum>>
          /\ fault' = "overflow_error"
          /\ seg[cPtr[feedCh].idx].wrPos + InSize(feedNum) > SegSize
      BY <2>6 DEF FeedWriteThrows, Overruns
    <3>2. cPtr[feedCh].idx \in Node
      BY <3>1 DEF TypeInv, CallbackChannel, InCallback
    <3>3. InSize(feedNum) > SegSize
      BY <1>1, <3>1, <3>2
    <3> QED BY <3>1, <3>3
  <2> QED BY <1>2, <1>5, <2>1, <2>2, <2>3, <2>4, <2>5, <2>6 DEF FeedStep
<1>6. CASE DataStep
  <2> DEFINE FeedStateKept ==
        /\ UNCHANGED <<cPtr, seg, feedCh, feedNum, fpc>>
        /\ fault = "none" /\ fault' # "overflow_error"
  <2>1. FeedStateKept
    <3> USE DEF DataAt, offData, segVars, feedVars
    <3>1. ASSUME \/ DataCheck \/ DataWake \/ DataClear \/ DataQueueHasBlock
                 \/ DataQueueDrained \/ DataPopSwing \/ DataPopCount \/ DataPopResult
          PROVE  FeedStateKept
      BY <3>1 DEF DataCheck, DataWake, DataClear, DataQueueHasBlock, DataQueueDrained,
                  DataPopSwing, DataPopCount, DataPopResult
    <3>2. ASSUME \/ DataCompress \/ DataCompressNull \/ DataCompressFails
                 \/ DataReclaimLink \/ DataReclaimSwing \/ DataReclaimRetry
          PROVE  FeedStateKept
      BY <3>2 DEF DataCompress, DataCompressNull, DataCompressFails, DataReclaimLink,
                  DataReclaimSwing, DataReclaimRetry
    <3> QED BY <1>6, <3>1, <3>2 DEF DataStep
  <2> QED BY <2>1
<1> QED BY <1>3, <1>4, <1>5, <1>6 DEF Next

(***************************************************************************)
(* write_data throws only on packets larger than a whole segment, whatever *)
(* the pace of the driver and whatever has become of the pool.             *)
(***************************************************************************)
THEOREM OverflowNeedsPacket == Spec => []OverflowByPacket
<1>1. OverflowInv => OverflowByPacket
  BY DEF OverflowInv
<1> QED BY <1>1, InitType, TypeStep, InitOverflow, OverflowStep, PTL DEF Spec
=============================================================================
