------------------------ MODULE SrpSamplesSegmented ------------------------
(***************************************************************************)
(* srp::SrpSamplesSegmented (srpsamples_segmented.hpp:91-148, .cpp:115-279)*)
(* the storage of one acquisition.  Two threads work on it:                *)
(*   - the feed thread (the session's sampling thread, inside              *)
(*     sr_session_run) calls feed_header once, append_analog for each      *)
(*     analog packet and feed_end once;                                    *)
(*   - the data thread, started by feed_header, runs data_proc_th.         *)
(* The feed thread fills one segment per channel; a segment that cannot    *)
(* take the next packet goes into the pool's queue, and the data thread    *)
(* compresses it into the channel's coSamples_ and gives the node back.    *)
(*                                                                         *)
(* The initial state is what the constructor leaves.  A step that ends the *)
(* process (a null dereference, an exception nobody catches, memory        *)
(* corruption) sets `fault`, after which nothing happens.                  *)
(***************************************************************************)
EXTENDS ObjectPool, FiniteSets

CONSTANTS
  Analog,        \* the enabled analog channels' indices, in channel order
  BUF_FAC,       \* segments per channel (10 in the code)
  BlkLim,        \* requested segment size, bytes
  PgSz,          \* getpagesize()
  PktSizes,      \* num_samples of the packets the driver sends
  MaxSamples,    \* bound: samples per channel in one acquisition
  KeepsUp,       \* is the data thread as fast as the driver? see DriverPace
  ZstdOverhead   \* bytes zstd may add to incompressible input

Channels == {Analog[i] : i \in DOMAIN Analog}

\* GET_BLK_ALIGN: up to whole pages.
GET_BLK_ALIGN(blkLim) ==
  ((blkLim \div PgSz) + (IF blkLim % PgSz # 0 THEN 1 ELSE 0)) * PgSz

SegSize == GET_BLK_ALIGN(BlkLim)

SizeofFloat == 4
InSize(n) == n * SizeofFloat

ASSUME SamplesAssumption ==
  /\ Analog \in Seq(0 .. 255)
  /\ \A i, j \in DOMAIN Analog : Analog[i] = Analog[j] => i = j
  /\ NumNodes = (Len(Analog) * BUF_FAC) % 256    \* uint8_t blkNum_
  /\ NumNodes >= Len(Analog)
  /\ BlkLim \in Nat /\ PgSz \in Nat \ {0}
  /\ PktSizes \subseteq Nat
  /\ BUF_FAC \in Nat /\ MaxSamples \in Nat /\ KeepsUp \in BOOLEAN /\ ZstdOverhead \in Nat

(***************************************************************************)
(* in_size, inSmps_ and smpsSeq_ are uint32_t: the model is of packets of  *)
(* less than 2^30 samples, and of acquisitions in which inSmps_ does not   *)
(* wrap (it would at 2^32 samples of a channel; TLC counts half as far).   *)
(***************************************************************************)
ASSUME WidthAssumption ==
  /\ \A n \in PktSizes : n <= 1073741823
  /\ MaxSamples <= 2147483647

VARIABLES
  seg,        \* the BufSegment of each node
  cPtr,       \* AChStat.cPtr: the node each channel fills
  inSmps,     \* AChStat.inSmps_
  coSamples,  \* AChStat.coSamples_, each block by first sample and length
  ready_,
  acqDone,
  fault,
  fpc, feedCh, feedNum, feedOld, feedNext,  \* feed thread: point, packet, GetOne's locals
  dpc, dataOldHead, dataPtr                 \* data thread: point, pop's local, its own

segVars  == <<seg, cPtr, inSmps>>
feedVars == <<fpc, feedCh, feedNum, feedOld, feedNext>>
dataVars == <<dpc, dataOldHead, dataPtr>>
vars == <<poolVars, segVars, coSamples, ready_, acqDone, fault, feedVars, dataVars>>

FeedPoints ==
  {"new", "idle", "push_link", "push_swing", "push_count", "get_incr", "get_next",
   "get_take", "set", "signal", "write", "end_signal", "done"}
DataPoints ==
  {"none", "check", "wait", "clear", "size", "pop_swing", "pop_count",
   "pop_result", "compress", "reclaim_link", "reclaim_swing", "ended"}
Faults == {"none", "null_block", "pool_exhausted", "overflow_error", "wild_write", "zstd_error"}

Segment == [status : BOOLEAN, chIdx : 0 .. 255, wrPos : 0 .. SegSize, smpsSeq : Nat]
FreshSegment == [status |-> FALSE, chIdx |-> 0, wrPos |-> 0, smpsSeq |-> 0]

\* BufSegment::set
SetSegment(chIdx, smpsSeq) ==
  [status |-> FALSE, chIdx |-> chIdx, wrPos |-> 0, smpsSeq |-> smpsSeq]

\* BufSegment::capacity
Capacity(s) == SegSize - s.wrPos

\* SrpSamplesSegmented::SrpSamplesSegmented
Init ==
  LET take(c) == InitiallyTaken((CHOOSE i \in DOMAIN Analog : Analog[i] = c) - 1)
      owner(k) == {c \in Channels : take(c).idx = k}
  IN  /\ PoolInit(Len(Analog))
      /\ cPtr = [c \in Channels |-> take(c)]
      /\ seg = [k \in Node |-> IF owner(k) = {} THEN FreshSegment
                               ELSE SetSegment(CHOOSE c \in owner(k) : TRUE, 0)]
      /\ inSmps = [c \in Channels |-> 0]
      /\ coSamples = [c \in Channels |-> <<>>]
      /\ ready_ = FALSE
      /\ acqDone = TRUE
      /\ fault = "none"
      /\ fpc = "new" /\ feedCh = 0 /\ feedNum = 0
      /\ feedOld = NoPtr /\ feedNext = NoPtr
      /\ dpc = "none" /\ dataOldHead = NoPtr /\ dataPtr = NoPtr

-----------------------------------------------------------------------------
(* The feed thread.                                                        *)

FeedAt(from, to) == fault = "none" /\ fpc = from /\ fpc' = to

FeedHeader ==
  /\ FeedAt("new", "idle")
  /\ acqDone' = FALSE
  /\ dpc' = "check"
  /\ UNCHANGED <<poolVars, segVars, coSamples, ready_, fault, feedCh, feedNum,
                 feedOld, feedNext, dataOldHead, dataPtr>>

(***************************************************************************)
(* Timing, the one assumption about speed.  With KeepsUp the data thread   *)
(* takes at least one block from the queue in the time a segment takes to  *)
(* fill: when a packet overruns the segment of channel c, pop has moved    *)
(* the queue's head off that segment's node and has returned (a node that  *)
(* was never queued before has nothing to wait for).  Without KeepsUp the  *)
(* driver is as fast as it likes.                                          *)
(***************************************************************************)
QueueStandsOn ==
  {head_entry_.idx} \cup
  (IF dpc \in {"pop_count", "pop_result"} THEN {dataOldHead.idx} ELSE {})

DriverPace(c) == KeepsUp => cPtr[c].idx \notin QueueStandsOn

Packet(c, n) ==
  /\ inSmps[c] + n <= MaxSamples
  /\ feedCh' = c
  /\ feedNum' = n

\* Mutant: the capacity is not looked at.
AppendUnchecked(c, n) ==
  /\ FeedAt("idle", "write")
  /\ Packet(c, n)
  /\ UNCHANGED <<poolVars, segVars, coSamples, ready_, acqDone, fault, feedOld,
                 feedNext, dataVars>>

\* append_analog, the packet fits.
AppendFits(c, n) ==
  /\ FeedAt("idle", "write")
  /\ Packet(c, n)
  /\ Capacity(seg[cPtr[c].idx]) >= InSize(n)
  /\ UNCHANGED <<poolVars, segVars, coSamples, ready_, acqDone, fault, feedOld,
                 feedNext, dataVars>>

\* append_analog, the segment is full: seal it and start push.
AppendRolls(c, n) ==
  /\ FeedAt("idle", "push_link")
  /\ Packet(c, n)
  /\ DriverPace(c)
  /\ Capacity(seg[cPtr[c].idx]) < InSize(n)
  /\ seg' = [seg EXCEPT ![cPtr[c].idx].status = TRUE]
  /\ UNCHANGED <<poolVars, cPtr, inSmps, coSamples, ready_, acqDone, fault, feedOld,
                 feedNext, dataVars>>

feedLocals == <<feedCh, feedNum, feedOld, feedNext>>
offQueue == <<segVars, coSamples, ready_, acqDone, dataVars>>

FeedPushLink ==
  /\ FeedAt("push_link", "push_swing")
  /\ PushLink(cPtr[feedCh])
  /\ UNCHANGED <<offQueue, fault, feedLocals>>

(***************************************************************************)
(* The first push stores through nodes_[-1].  Either the word belongs to   *)
(* nobody and keeps what is stored (FeedPushLink with tail index -1), or a *)
(* live object is damaged and nothing more can be said.                    *)
(***************************************************************************)
FeedWildWrite ==
  /\ FeedAt("push_link", "push_link")
  /\ tail_entry_.idx = Null
  /\ fault' = "wild_write"
  /\ UNCHANGED <<poolVars, offQueue, feedLocals>>

FeedPushSwing ==
  /\ FeedAt("push_swing", "push_count")
  /\ PushSwing(cPtr[feedCh])
  /\ UNCHANGED <<offQueue, fault, feedLocals>>

FeedPushRetry ==
  /\ FeedAt("push_swing", "push_swing")
  /\ PushRetry(cPtr[feedCh])
  /\ UNCHANGED <<offQueue, fault, feedLocals>>

FeedPushCount ==
  /\ FeedAt("push_count", "get_incr")
  /\ PushCount
  /\ UNCHANGED <<offQueue, fault, feedLocals>>

\* GetOne: count the reader in; an empty stack makes the result CountPtr().
FeedGetIncr ==
  /\ FeedAt("get_incr", IF top_entry_.idx = Null THEN "set" ELSE "get_next")
  /\ IncreaseEntryCnt
  /\ feedOld' = IF top_entry_.idx = Null THEN NoPtr ELSE Bump(top_entry_)
  /\ UNCHANGED <<offQueue, fault, feedCh, feedNum, feedNext>>

\* GetOne: node->snext is read before the exchange.
FeedGetNext ==
  /\ FeedAt("get_next", "get_take")
  /\ feedNext' = snext[feedOld.idx]
  /\ UNCHANGED <<poolVars, offQueue, fault, feedCh, feedNum, feedOld>>

\* Mutant: the exchange is a plain store.
TakeUnchecked ==
  /\ FeedAt("get_take", "set")
  /\ top_entry_' = feedNext
  /\ UNCHANGED <<snext, queueVars, offQueue, fault, feedLocals>>

FeedGetTake ==
  /\ FeedAt("get_take", "set")
  /\ TakeTop(feedOld, feedNext)
  /\ UNCHANGED <<offQueue, fault, feedLocals>>

\* Mutant: the failed exchange is tried again on the same stale entry.
StaleRetry ==
  /\ FeedAt("get_take", "get_take")
  /\ top_entry_ # feedOld
  /\ UNCHANGED <<poolVars, offQueue, fault, feedLocals>>

\* The failed exchange reloads `old` and GetOne starts over.
FeedGetRetry ==
  /\ FeedAt("get_take", "get_incr")
  /\ top_entry_ # feedOld
  /\ UNCHANGED <<poolVars, offQueue, fault, feedLocals>>

\* Mutant: the new segment does not start where the channel's samples stand.
SetFromZero ==
  /\ FeedAt("set", "signal")
  /\ feedOld.idx # Null
  /\ cPtr' = [cPtr EXCEPT ![feedCh] = feedOld]
  /\ seg' = [seg EXCEPT ![feedOld.idx] = SetSegment(feedCh, 0)]
  /\ UNCHANGED <<poolVars, inSmps, coSamples, ready_, acqDone, dataVars, fault, feedLocals>>

\* The new segment is set up; only then is the pool's depth looked at.
FeedSet ==
  /\ FeedAt("set", "signal")
  /\ feedOld.idx # Null
  /\ cPtr' = [cPtr EXCEPT ![feedCh] = feedOld]
  /\ seg' = [seg EXCEPT ![feedOld.idx] = SetSegment(feedCh, inSmps[feedCh])]
  /\ fault' = IF PoolSize > NumNodes THEN "pool_exhausted" ELSE fault
  /\ UNCHANGED <<poolVars, inSmps, coSamples, ready_, acqDone, dataVars, feedLocals>>

\* GetObj gave nullptr, and set writes through it.
FeedSetNull ==
  /\ FeedAt("set", "set")
  /\ feedOld.idx = Null
  /\ cPtr' = [cPtr EXCEPT ![feedCh] = feedOld]
  /\ fault' = "null_block"
  /\ UNCHANGED <<poolVars, seg, inSmps, coSamples, ready_, acqDone, dataVars, feedLocals>>

\* Mutant: the consumer is not signalled.
NoSignal ==
  /\ FeedAt("signal", "write")
  /\ UNCHANGED <<poolVars, offQueue, fault, feedLocals>>

\* ready_.test_and_set(); ready_.notify_one()
FeedSignal ==
  /\ FeedAt("signal", "write")
  /\ ready_' = TRUE
  /\ UNCHANGED <<poolVars, segVars, coSamples, acqDone, dataVars, fault, feedLocals>>

\* BufSegment::write_data refuses what would run past the segment.
Overruns == seg[cPtr[feedCh].idx].wrPos + InSize(feedNum) > SegSize

FeedWrite ==
  /\ FeedAt("write", "idle")
  /\ ~Overruns
  /\ seg' = [seg EXCEPT ![cPtr[feedCh].idx].wrPos = @ + InSize(feedNum)]
  /\ inSmps' = [inSmps EXCEPT ![feedCh] = @ + feedNum]
  /\ UNCHANGED <<poolVars, cPtr, coSamples, ready_, acqDone, dataVars, fault, feedLocals>>

FeedWriteThrows ==
  /\ FeedAt("write", "write")
  /\ Overruns
  /\ fault' = "overflow_error"
  /\ UNCHANGED <<poolVars, offQueue, feedLocals>>

FeedEnd ==
  /\ FeedAt("idle", "end_signal")
  /\ acqDone' = TRUE
  /\ UNCHANGED <<poolVars, segVars, coSamples, ready_, dataVars, fault, feedLocals>>

FeedEndSignal ==
  /\ FeedAt("end_signal", "done")
  /\ ready_' = TRUE
  /\ UNCHANGED <<poolVars, segVars, coSamples, acqDone, dataVars, fault, feedLocals>>

-----------------------------------------------------------------------------
(* The data thread.                                                        *)

DataAt(from, to) == fault = "none" /\ dpc = from /\ dpc' = to

dataLocals == <<dataOldHead, dataPtr>>
offData == <<segVars, acqDone, feedVars>>

\* Mutant: the flag is cleared before the wait.
ClearBeforeWait ==
  /\ DataAt("check", IF acqDone THEN "ended" ELSE "wait")
  /\ ready_' = FALSE
  /\ UNCHANGED <<poolVars, offData, coSamples, fault, dataLocals>>

\* while(!acqDone)
DataCheck ==
  /\ DataAt("check", IF acqDone THEN "ended" ELSE "wait")
  /\ UNCHANGED <<poolVars, offData, coSamples, ready_, fault, dataLocals>>

\* Mutant: acqDone is read again for wait's argument.
WakeUnlessDone ==
  /\ DataAt("wait", "clear")
  /\ ready_ # acqDone
  /\ UNCHANGED <<poolVars, offData, coSamples, ready_, fault, dataLocals>>

(***************************************************************************)
(* ready_.wait(acqDone) blocks while ready_ equals its argument.  acqDone  *)
(* is a plain bool, and the build (-O3) takes the FALSE the loop condition *)
(* has just read for the argument too.                                     *)
(***************************************************************************)
DataWake ==
  /\ DataAt("wait", "clear")
  /\ ready_
  /\ UNCHANGED <<poolVars, offData, coSamples, ready_, fault, dataLocals>>

DataClear ==
  /\ DataAt("clear", "size")
  /\ ready_' = FALSE
  /\ UNCHANGED <<poolVars, offData, coSamples, fault, dataLocals>>

\* Mutant: pop without looking at queue_size().
PopUnasked ==
  /\ DataAt("size", "pop_swing")
  /\ UNCHANGED <<poolVars, offData, coSamples, ready_, fault, dataLocals>>

\* while(segPool_->queue_size() >= 1)
DataQueueHasBlock ==
  /\ DataAt("size", "pop_swing")
  /\ q_size_ >= 1
  /\ UNCHANGED <<poolVars, offData, coSamples, ready_, fault, dataLocals>>

DataQueueDrained ==
  /\ DataAt("size", "check")
  /\ q_size_ < 1
  /\ UNCHANGED <<poolVars, offData, coSamples, ready_, fault, dataLocals>>

DataPopSwing ==
  /\ DataAt("pop_swing", "pop_count")
  /\ PopSwing
  /\ dataOldHead' = head_entry_
  /\ UNCHANGED <<offData, coSamples, ready_, fault, dataPtr>>

DataPopCount ==
  /\ DataAt("pop_count", "pop_result")
  /\ PopCount
  /\ UNCHANGED <<offData, coSamples, ready_, fault, dataLocals>>

\* Mutant: the node pop leaves behind is taken for the one it removed.
PopOldHead ==
  /\ DataAt("pop_result", "compress")
  /\ dataPtr' = dataOldHead
  /\ UNCHANGED <<poolVars, offData, coSamples, ready_, fault, dataOldHead>>

DataPopResult ==
  /\ DataAt("pop_result", "compress")
  /\ dataPtr' = PopResult(dataOldHead)
  /\ UNCHANGED <<poolVars, offData, coSamples, ready_, fault, dataOldHead>>

\* What coSamples_ gains from a segment: its samples, from smpsSeq_ on.
Compressed(s) == [seq |-> s.smpsSeq, len |-> s.wrPos]

\* GetObj finds a segment, and a_ch_map_ the channel written on it.
HasChannel(p) == p.idx # Null /\ seg[p.idx].chIdx \in Channels

DataCompress ==
  /\ DataAt("compress", "reclaim_link")
  /\ HasChannel(dataPtr)
  /\ LET s == seg[dataPtr.idx]
     IN  coSamples' = [coSamples EXCEPT ![s.chIdx] = Append(@, Compressed(s))]
  /\ UNCHANGED <<poolVars, offData, ready_, fault, dataLocals>>

DataCompressNull ==
  /\ DataAt("compress", "compress")
  /\ ~HasChannel(dataPtr)
  /\ fault' = "null_block"
  /\ UNCHANGED <<poolVars, offData, coSamples, ready_, dataLocals>>

\* zstd's output is limited to blkSz_; its error code is used as a size.
DataCompressFails ==
  /\ DataAt("compress", "compress")
  /\ HasChannel(dataPtr)
  /\ seg[dataPtr.idx].wrPos + ZstdOverhead > BlkLim
  /\ fault' = "zstd_error"
  /\ UNCHANGED <<poolVars, offData, coSamples, ready_, dataLocals>>

DataReclaimLink ==
  /\ DataAt("reclaim_link", "reclaim_swing")
  /\ ReclaimLink(dataPtr)
  /\ UNCHANGED <<offData, coSamples, ready_, fault, dataLocals>>

DataReclaimSwing ==
  /\ DataAt("reclaim_swing", "size")
  /\ ReclaimSwing(Bump(dataPtr))
  /\ UNCHANGED <<offData, coSamples, ready_, fault, dataLocals>>

DataReclaimRetry ==
  /\ DataAt("reclaim_swing", "reclaim_swing")
  /\ ReclaimRetry(dataPtr)
  /\ UNCHANGED <<offData, coSamples, ready_, fault, dataLocals>>

-----------------------------------------------------------------------------
\* The steps a callback takes by itself once libsigrok has called it.
FeedStep ==
  \/ FeedPushLink \/ FeedWildWrite \/ FeedPushSwing \/ FeedPushRetry \/ FeedPushCount
  \/ FeedGetIncr \/ FeedGetNext \/ FeedGetTake \/ FeedGetRetry
  \/ FeedSet \/ FeedSetNull \/ FeedSignal \/ FeedWrite \/ FeedWriteThrows
  \/ FeedEndSignal

\* The calls libsigrok makes.
FeedCall ==
  \/ FeedHeader
  \/ FeedEnd
  \/ \E c \in Channels, n \in PktSizes : AppendFits(c, n) \/ AppendRolls(c, n)

DataStep ==
  \/ DataCheck \/ DataWake \/ DataClear
  \/ DataQueueHasBlock \/ DataQueueDrained
  \/ DataPopSwing \/ DataPopCount \/ DataPopResult
  \/ DataCompress \/ DataCompressNull \/ DataCompressFails
  \/ DataReclaimLink \/ DataReclaimSwing \/ DataReclaimRetry

Next == FeedCall \/ FeedStep \/ DataStep

Spec == Init /\ [][Next]_vars

\* Both threads keep being scheduled; no call of libsigrok is promised.
FairSpec == Spec /\ WF_vars(FeedStep) /\ WF_vars(DataStep)
=============================================================================
