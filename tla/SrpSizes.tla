------------------------------- MODULE SrpSizes -------------------------------
(***************************************************************************)
(* How large the buffers of a capture are: SrpDevice::get_buf_size, which  *)
(* new_storage asks, and the constructors of the storage and its pool,     *)
(* with the widths of their integers.  start_capture runs without the GIL: *)
(* other threads set options (SrpConfig) and enable channels between its   *)
(* steps, up to the acquisition, which takes the sample rate then in force.*)
(***************************************************************************)
EXTENDS SrpConfig

CONSTANTS
  SampleRate, BufferSize,  \* the options "samplerate" and "buffersize"
  PgSz,                    \* the page size
  UInt8Mod,                \* 2^8; 2^32 is 2 * (INT_MAX + 1)
  BUF_FAC,                 \* segments per channel (10 in the code)
  Counts                   \* bound: how many analog channels can be enabled

UInt32Mod == 2 * (IntMax + 1)
SizeofFloat == 4
T_LIMIT == 200

ASSUME SizesAssumption ==
  /\ {SampleRate, BufferSize} \subseteq Options /\ SampleRate # BufferSize
  /\ PgSz \in Nat \ {0} /\ UInt32Mod % PgSz = 0
  /\ UInt8Mod \in Nat \ {0} /\ BUF_FAC \in Nat \ {0} /\ Counts \subseteq Nat

VARIABLES
  confs,    \* SrpDevice.confs_
  analog,   \* how many analog channels are enabled
  start,    \* start_capture's point and locals
  storage,  \* the storage it made last, if any
  touched,  \* has the sample rate been set since start_capture read an option?
  broken    \* did start_capture end the process?

sizesVars == <<confs, analog, start, storage, touched, broken>>

Start(pc, channels, opt, read) == [pc |-> pc, channels |-> channels, opt |-> opt, read |-> read]

NotStarted == Start("idle", 0, NoOption, 0)

SizesInit ==
  /\ ConfigInit
  /\ confs \in SUBSET {SampleRate, BufferSize}
  /\ \A o \in {SampleRate, BufferSize} : info[o].type = "UINT64"
  /\ analog \in Counts
  /\ start = NotStarted /\ storage = {} /\ touched = FALSE /\ broken = FALSE

-----------------------------------------------------------------------------
(* The arithmetic.                                                         *)

\* The bytes of 200 ms, in 64 bits.
Limit(rate) == (rate \div (1000 \div T_LIMIT)) * SizeofFloat

\* Mutant: rounded down to a page.
RoundedDown(rate) == LET low == Limit(rate) % UInt32Mod IN low - (low % PgSz)

\* The mask ~(pgsz - 1) has 32 bits, so it takes the upper half of the sum away.
GET_BUF_SIZE_ALLIGNED(rate) ==
  LET low == (Limit(rate) + PgSz) % UInt32Mod IN low - (low % PgSz)

\* Mutant: always one page more.
AlignedPast(blkLim) == ((blkLim \div PgSz + 1) * PgSz) % UInt32Mod

GET_BLK_ALIGN(blkLim) ==
  ((blkLim \div PgSz + (IF blkLim % PgSz # 0 THEN 1 ELSE 0)) * PgSz) % UInt32Mod

\* Mutant: the option's 64 bits.
Untruncated(o, n) == IF o = BufferSize THEN n ELSE GET_BUF_SIZE_ALLIGNED(n)

\* What get_buf_size makes of the value n of option o: 32 bits.
BufSize(o, n) == IF o = BufferSize THEN n % UInt32Mod ELSE GET_BUF_SIZE_ALLIGNED(n)

\* Mutant: the segments of one channel.
OnePool(channels) == BUF_FAC % UInt8Mod

\* uint8_t blkNum_, and the pool's num.
BlkNum(channels) == (channels * BUF_FAC) % UInt8Mod

\* A storage of blkLim bytes; limit is what data_proc_th gives zstd, int32_t blkSz_ as a size_t.
Storage(channels, opt, read) ==
  LET blkLim == BufSize(opt, read) IN
  [channels |-> channels, opt |-> opt, read |-> read,
   nodes |-> BlkNum(channels), segment |-> GET_BLK_ALIGN(blkLim),
   coBuff |-> blkLim, limit |-> WrapInt32(blkLim) % ULongMod]

-----------------------------------------------------------------------------
(* start_capture.                                                          *)

Going(from) == fault = NoFault /\ ~broken /\ start.pc = from

\* new_storage counts the channels that are enabled.
StartCapture ==
  /\ Going("idle")
  /\ start' = Start("size", analog, NoOption, 0)
  /\ UNCHANGED <<confs, analog, storage, touched, broken>>

\* The option that decides: the sample rate unless there is a buffer size.
Decides == IF BufferSize \in confs THEN BufferSize ELSE SampleRate

\* value() gives an option of 64 bits, if it can be read.
ReadSize ==
  /\ Going("size")
  /\ Decides \in confs /\ "GET" \in info[Decides].can
  /\ start' = Start("make", start.channels, Decides, stored[Decides].n)
  /\ touched' = FALSE
  /\ UNCHANGED <<confs, analog, storage, broken>>

\* sr_config_get fails, or std::get finds the empty string value() starts from.
ReadThrows ==
  /\ Going("size") /\ Decides \in confs
  /\ start' = NotStarted
  /\ UNCHANGED <<confs, analog, storage, touched, broken>>

\* confs_["samplerate"] of a device without one is a null pointer.
ReadNull ==
  /\ Going("size") /\ Decides \notin confs
  /\ broken' = TRUE
  /\ UNCHANGED <<confs, analog, start, storage, touched>>

\* The constructors: each channel takes a segment, which is null from an empty pool.
MakeStorage ==
  LET s == Storage(start.channels, start.opt, start.read) IN
  /\ Going("make")
  /\ IF s.channels > s.nodes
     THEN broken' = TRUE /\ UNCHANGED <<start, storage>>
     ELSE /\ storage' = {s}
          /\ start' = [start EXCEPT !.pc = "run"]
          /\ UNCHANGED broken
  /\ UNCHANGED <<confs, analog, touched>>

\* stop_capture, or the acquisition ends.
StopCapture ==
  /\ Going("run")
  /\ start' = NotStarted
  /\ UNCHANGED <<confs, analog, storage, touched, broken>>

SetEnabled(n) ==
  /\ fault = NoFault /\ ~broken /\ analog' = n
  /\ UNCHANGED <<confs, start, storage, touched, broken>>

Capturing ==
  \/ StartCapture \/ ReadSize \/ ReadThrows \/ ReadNull \/ MakeStorage \/ StopCapture
  \/ \E n \in Counts : SetEnabled(n)

\* set_value by other threads.
Setting ==
  /\ ~broken
  /\ \E c \in Callers :
        \/ /\ Convert(c) \/ \E o \in Options, v \in Arguments : SetValue(c, o, v)
           /\ UNCHANGED touched
        \/ DriverSet(c) /\ touched' = (touched \/ call[c].opt = SampleRate)
  /\ UNCHANGED <<confs, analog, start, storage, broken>>

SizesNext == (Capturing /\ UNCHANGED configVars) \/ Setting

SizesSpec == SizesInit /\ [][SizesNext]_<<configVars, sizesVars>>

-----------------------------------------------------------------------------
(* Properties.                                                             *)

UInt32 == 0 .. UInt32Mod - 1

Storages ==
  [channels : Nat, opt : {SampleRate, BufferSize}, read : UInt64, nodes : 0 .. UInt8Mod - 1,
   segment : UInt32, coBuff : UInt32, limit : UInt64]

SizesTypeOK ==
  /\ confs \subseteq {SampleRate, BufferSize} /\ analog \in Nat
  /\ start \in [pc : {"idle", "size", "make", "run"}, channels : Nat, opt : Options, read : UInt64]
  /\ storage \subseteq Storages
  /\ touched \in BOOLEAN /\ broken \in BOOLEAN

(***************************************************************************)
(* While a capture runs, a segment sized by the sample rate holds all that *)
(* the driver sends in 200 ms at the rate in force, whatever other threads *)
(* did meanwhile, unless they set the rate itself, or the size takes more  *)
(* than 32 bits.                                                           *)
(***************************************************************************)
RoomForRate ==
  \A s \in storage :
     (start.pc = "run" /\ s.opt = SampleRate /\ ~touched /\ Limit(s.read) + PgSz < UInt32Mod)
       => s.segment > Limit(stored[SampleRate].n)

(***************************************************************************)
(* zstd may write as much as coBuff_ holds, up to 2 GiB (beyond that       *)
(* blkSz_ is negative), and that is as much as a segment holds, for a      *)
(* segment sized by the sample rate or in whole pages.                     *)
(***************************************************************************)
BuffersAgree ==
  \A s \in storage :
     /\ s.coBuff <= IntMax => s.limit = s.coBuff
     /\ (s.opt = SampleRate \/ s.coBuff % PgSz = 0) => s.segment = s.coBuff

(***************************************************************************)
(* A capture that started has a segment for each of its channels, whatever *)
(* was enabled meanwhile, and BUF_FAC for each while their number fits in  *)
(* blkNum_.  A start_capture that ended the process had too many channels, *)
(* or a device without a sample rate.                                      *)
(***************************************************************************)
PoolHoldsChannels ==
  /\ \A s \in storage :
       /\ s.nodes >= s.channels
       /\ s.channels * BUF_FAC < UInt8Mod => s.nodes = s.channels * BUF_FAC
  /\ broken => start.channels * BUF_FAC >= UInt8Mod \/ confs = {}
=============================================================================
