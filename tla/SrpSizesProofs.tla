--------------------------- MODULE SrpSizesProofs ---------------------------
(***************************************************************************)
(* Proofs about SrpSizes, for every page size, width, number of channels   *)
(* and value of the options.                                               *)
(***************************************************************************)
EXTENDS SrpSizes, SrpConfigProofs

-----------------------------------------------------------------------------
(* The arithmetic.                                                         *)

\* Division with remainder.
LEMMA DivMod ==
  ASSUME NEW a \in Nat, NEW b \in Nat \ {0}
  PROVE  a \div b \in Nat /\ a % b \in 0 .. b - 1 /\ a = b * (a \div b) + (a % b)
OBVIOUS

\* Multiplying by at least 1.
LEMMA Times ==
  ASSUME NEW a \in Nat, NEW b \in Nat \ {0}
  PROVE  a * b \in Nat /\ b * a = a * b /\ a * b >= a
OBVIOUS

\* Whole pages have no remainder.
LEMMA WholePages ==
  ASSUME NEW a \in Nat, NEW b \in Nat \ {0}
  PROVE  (b * a) % b = 0 /\ (b * a) \div b = a
OBVIOUS

\* What fits is not truncated.
LEMMA SmallMod ==
  ASSUME NEW a \in Nat, NEW b \in Nat \ {0}, a < b
  PROVE  a % b = a
OBVIOUS

\* The types of the constants, and that 64 bits are at least 32.
LEMMA SizeWidths ==
  /\ UInt32Mod \in Nat \ {0} /\ PgSz \in Nat \ {0} /\ UInt8Mod \in Nat \ {0} /\ BUF_FAC \in Nat \ {0}
  /\ ULongMod \in Nat \ {0} /\ UInt64 \subseteq Nat /\ UInt32 = 0 .. UInt32Mod - 1
  /\ UInt32Mod <= ULongMod
BY WidthAssumption, SizesAssumption
   DEF WidthAssumption, SizesAssumption, UInt32Mod, ULongMod, UInt64, UInt32

\* The bytes of 200 ms are a number.
LEMMA LimitNat ==
  ASSUME NEW rate \in Nat
  PROVE  Limit(rate) \in Nat
BY DEF Limit, T_LIMIT, SizeofFloat

\* A multiple of the page size is left alone.
LEMMA AlignWhole ==
  ASSUME NEW n \in UInt32, n % PgSz = 0
  PROVE  GET_BLK_ALIGN(n) = n
<1>1. n \in Nat /\ n = PgSz * (n \div PgSz) /\ n \div PgSz \in Nat
  BY SizeWidths, DivMod
<1>2. (n \div PgSz) * PgSz = n
  BY <1>1, SizeWidths
<1>3. n % UInt32Mod = n
  BY SizeWidths, SmallMod
<1>4. GET_BLK_ALIGN(n) = ((n \div PgSz + 0) * PgSz) % UInt32Mod
  BY DEF GET_BLK_ALIGN
<1> QED BY <1>1, <1>2, <1>3, <1>4

\* Rounding up to a page gives 32 bits.
LEMMA AlignTyped ==
  ASSUME NEW n \in Nat
  PROVE  GET_BLK_ALIGN(n) \in UInt32
<1> DEFINE pages == n \div PgSz + (IF n % PgSz # 0 THEN 1 ELSE 0)
<1>1. pages \in Nat
  <2>1. n \div PgSz \in Nat BY SizeWidths, DivMod
  <2> QED BY <2>1
<1>2. pages * PgSz \in Nat BY <1>1, SizeWidths, Times
<1> HIDE DEF pages
<1>3. (pages * PgSz) % UInt32Mod \in 0 .. UInt32Mod - 1
  BY <1>2, SizeWidths, DivMod
<1> QED BY <1>3, SizeWidths DEF GET_BLK_ALIGN, pages

\* A size from the sample rate is whole pages, and more than 200 ms unless it was truncated.
LEMMA SizeOfRate ==
  ASSUME NEW rate \in Nat
  PROVE  LET size == GET_BUF_SIZE_ALLIGNED(rate) IN
         /\ size \in UInt32 /\ size % PgSz = 0
         /\ Limit(rate) + PgSz < UInt32Mod => size > Limit(rate)
<1> DEFINE low == (Limit(rate) + PgSz) % UInt32Mod
           size == GET_BUF_SIZE_ALLIGNED(rate)
<1>1. Limit(rate) + PgSz \in Nat BY LimitNat, SizeWidths
<1>2. low \in 0 .. UInt32Mod - 1 BY <1>1, SizeWidths, DivMod
<1>3. size = low - (low % PgSz) BY DEF GET_BUF_SIZE_ALLIGNED
<1>4. Limit(rate) + PgSz < UInt32Mod => low = Limit(rate) + PgSz
  BY <1>1, SizeWidths, SmallMod
<1> HIDE DEF low, size
<1>5. low \in Nat /\ low % PgSz \in 0 .. PgSz - 1 /\ low = PgSz * (low \div PgSz) + (low % PgSz)
      /\ low \div PgSz \in Nat
  <2>1. low \in Nat BY <1>2, SizeWidths
  <2> QED BY <2>1, SizeWidths, DivMod
<1>6. size = PgSz * (low \div PgSz)
  <2>1. PgSz * (low \div PgSz) \in Nat BY <1>5, SizeWidths, Times
  <2> QED BY <1>3, <1>5, <2>1, SizeWidths
<1>7. size % PgSz = 0 BY <1>5, <1>6, SizeWidths, WholePages
<1>8. size \in 0 .. UInt32Mod - 1
  <2>1. size \in Nat BY <1>5, <1>6, SizeWidths, Times
  <2> QED BY <1>2, <1>3, <1>5, <2>1, SizeWidths
<1>9. Limit(rate) + PgSz < UInt32Mod => size > Limit(rate)
  <2> DEFINE rest == low % PgSz
  <2>1. size = low - rest /\ rest \in 0 .. PgSz - 1 BY <1>3, <1>5
  <2> HIDE DEF rest
  <2> QED BY <1>4, <2>1, LimitNat, SizeWidths
<1> QED BY <1>7, <1>8, <1>9, SizeWidths DEF size

\* get_buf_size gives 32 bits.
LEMMA BufSizeTyped ==
  ASSUME NEW o, NEW n \in UInt64
  PROVE  BufSize(o, n) \in UInt32 /\ BufSize(o, n) \in Nat
<1>1. n \in Nat BY SizeWidths
<1>2. n % UInt32Mod \in UInt32 BY <1>1, SizeWidths, DivMod
<1>3. GET_BUF_SIZE_ALLIGNED(n) \in UInt32 BY <1>1, SizeOfRate
<1> QED BY <1>2, <1>3, SizeWidths DEF BufSize

\* blkSz_, a signed int, as a size_t: the size itself below 2 GiB.
LEMMA LimitOfZstd ==
  ASSUME NEW n \in UInt32
  PROVE  /\ WrapInt32(n) % ULongMod \in UInt64
         /\ n <= IntMax => WrapInt32(n) % ULongMod = n
<1> DEFINE w == WrapInt32(n)
<1>0. IntMax \in Nat /\ n \in Nat BY WidthAssumption, SizeWidths DEF WidthAssumption
<1>1. w \in Int
  <2>1. (n + IntMax + 1) % (2 * (IntMax + 1)) \in Int BY <1>0
  <2> QED BY <1>0, <2>1 DEF WrapInt32
<1>2. w % ULongMod \in 0 .. ULongMod - 1 BY <1>1, SizeWidths
<1>3. n <= IntMax => w = n
  <2>1. n <= IntMax => (n + IntMax + 1) % (2 * (IntMax + 1)) = n + IntMax + 1
    BY <1>0, SmallMod
  <2> QED BY <1>0, <2>1 DEF WrapInt32
<1>4. n < ULongMod BY <1>0, SizeWidths
<1> QED BY <1>0, <1>2, <1>3, <1>4, SizeWidths, SmallMod DEF UInt64

\* blkNum_ has 8 bits, and holds what fits.
LEMMA BlkNumTyped ==
  ASSUME NEW n \in Nat
  PROVE  /\ BlkNum(n) \in 0 .. UInt8Mod - 1
         /\ n * BUF_FAC < UInt8Mod => BlkNum(n) = n * BUF_FAC /\ BlkNum(n) >= n
<1>1. n * BUF_FAC \in Nat /\ n * BUF_FAC >= n BY SizeWidths, Times
<1>2. (n * BUF_FAC) % UInt8Mod \in 0 .. UInt8Mod - 1 BY <1>1, SizeWidths, DivMod
<1>3. n * BUF_FAC < UInt8Mod => (n * BUF_FAC) % UInt8Mod = n * BUF_FAC
  BY <1>1, SizeWidths, SmallMod
<1> QED BY <1>1, <1>2, <1>3 DEF BlkNum

\* What the constructors make of any value that get_buf_size read.
LEMMA StorageFacts ==
  ASSUME NEW ch \in Nat, NEW o \in {SampleRate, BufferSize}, NEW n \in UInt64
  PROVE  LET s == Storage(ch, o, n) IN
         /\ s \in Storages
         /\ s.channels = ch /\ s.opt = o /\ s.read = n /\ s.nodes = BlkNum(ch)
         /\ s.coBuff <= IntMax => s.limit = s.coBuff
         /\ (o = SampleRate \/ s.coBuff % PgSz = 0) => s.segment = s.coBuff
         /\ (o = SampleRate /\ Limit(n) + PgSz < UInt32Mod) => s.segment > Limit(n)
<1> DEFINE size == BufSize(o, n)
           s == Storage(ch, o, n)
<1>1. s = [channels |-> ch, opt |-> o, read |-> n, nodes |-> BlkNum(ch),
           segment |-> GET_BLK_ALIGN(size), coBuff |-> size, limit |-> WrapInt32(size) % ULongMod]
  BY DEF Storage
<1>2. size \in UInt32 /\ size \in Nat BY BufSizeTyped
<1>3. o = SampleRate => size = GET_BUF_SIZE_ALLIGNED(n)
  BY SizesAssumption DEF BufSize, SizesAssumption
<1>4. n \in Nat BY SizeWidths
<1> HIDE DEF size
<1>5. s \in Storages BY <1>1, <1>2, AlignTyped, LimitOfZstd, BlkNumTyped DEF Storages
<1>6. s.coBuff <= IntMax => s.limit = s.coBuff BY <1>1, <1>2, LimitOfZstd
<1>7. o = SampleRate => size % PgSz = 0 /\ (Limit(n) + PgSz < UInt32Mod => size > Limit(n))
  BY <1>3, <1>4, SizeOfRate
<1>8. size % PgSz = 0 => GET_BLK_ALIGN(size) = size BY <1>2, AlignWhole
<1> QED BY <1>1, <1>5, <1>6, <1>7, <1>8

-----------------------------------------------------------------------------
(* The invariant: the storage is what the constructors made of the option  *)
(* start_capture read, and what it read is the rate in force until another *)
(* thread sets it.                                                         *)

Options64 == \A o \in {SampleRate, BufferSize} : info[o].type = "UINT64"

StorageMade ==
  \A s \in storage :
     /\ s = Storage(s.channels, s.opt, s.read) /\ s.nodes >= s.channels

StartRead ==
  /\ start.pc \in {"make", "run"} => start.opt \in {SampleRate, BufferSize}
  /\ (start.pc \in {"make", "run"} /\ start.opt = SampleRate /\ ~touched)
       => start.read = stored[SampleRate].n
  /\ start.pc = "run" => storage = {Storage(start.channels, start.opt, start.read)}

BrokenStart ==
  broken => (start.pc = "make" /\ start.channels > BlkNum(start.channels)) \/ confs = {}

SizesInv == ConfigInv /\ SizesTypeOK /\ Options64 /\ StorageMade /\ StartRead /\ BrokenStart

\* The initial states.
LEMMA SizesInitInv == SizesInit => SizesInv
<1> SUFFICES ASSUME SizesInit PROVE SizesInv
  OBVIOUS
<1> USE DEF SizesInit, NotStarted, Start
<1>1. ConfigInv BY ConfigInitInv
<1>2. NoOption \in Options /\ 0 \in UInt64
  BY ConfigAssumption, WidthAssumption DEF ConfigAssumption, WidthAssumption, NoOption, UInt64, ULongMod
<1>3. analog \in Nat BY SizesAssumption DEF SizesAssumption
<1>4. SizesTypeOK BY <1>2, <1>3 DEF SizesTypeOK
<1>5. Options64 BY DEF Options64
<1>6. StorageMade /\ StartRead /\ BrokenStart BY DEF StorageMade, StartRead, BrokenStart
<1> QED BY <1>1, <1>4, <1>5, <1>6 DEF SizesInv

\* The value of an option of 64 bits.
LEMMA StoredNumber ==
  ASSUME ConfigInv, Options64, NEW o \in {SampleRate, BufferSize}
  PROVE  stored[o].n \in UInt64
<1>1. stored[o] \in Holds("UINT64")
  BY SizesAssumption DEF SizesAssumption, ConfigInv, ConfigTypeOK, Options64
<1> QED BY <1>1 DEF Holds, Gvar

\* start_capture, stop_capture and set_enabled.
LEMMA CapturingKeeps ==
  ASSUME SizesInv, Capturing, UNCHANGED configVars
  PROVE  SizesInv'
<1> USE DEF SizesInv, Going
<1>0. ConfigInv' /\ Options64'
  <2>1. ConfigInv' BY ConfigNextInv
  <2> QED BY <2>1 DEF configVars, Options64
<1>a. NoOption \in Options /\ 0 \in UInt64 /\ stored' = stored
  BY ConfigAssumption, WidthAssumption
     DEF ConfigAssumption, WidthAssumption, NoOption, UInt64, ULongMod, configVars
<1>1. CASE StartCapture
  <2>1. SizesTypeOK' BY <1>1, <1>a DEF StartCapture, Start, SizesTypeOK
  <2>2. StorageMade' /\ StartRead' /\ BrokenStart'
    BY <1>1 DEF StartCapture, Start, StorageMade, StartRead, BrokenStart
  <2> QED BY <1>0, <2>1, <2>2
<1>2. CASE ReadSize
  <2>1. Decides \in {SampleRate, BufferSize} /\ Decides \in Options
    BY SizesAssumption DEF Decides, SizesAssumption
  <2>2. stored[Decides].n \in UInt64 BY <2>1, StoredNumber
  <2>3. SizesTypeOK' BY <1>2, <2>1, <2>2 DEF ReadSize, Start, SizesTypeOK
  <2>4. StorageMade' BY <1>2 DEF ReadSize, StorageMade
  <2>5. StartRead' BY <1>2, <1>a, <2>1 DEF ReadSize, Start, StartRead
  <2>6. BrokenStart' BY <1>2 DEF ReadSize, BrokenStart
  <2> QED BY <1>0, <2>3, <2>4, <2>5, <2>6
<1>3. CASE ReadThrows
  <2>1. SizesTypeOK' BY <1>3, <1>a DEF ReadThrows, NotStarted, Start, SizesTypeOK
  <2>2. StorageMade' /\ StartRead' /\ BrokenStart'
    BY <1>3 DEF ReadThrows, NotStarted, Start, StorageMade, StartRead, BrokenStart
  <2> QED BY <1>0, <2>1, <2>2
<1>4. CASE ReadNull
  <2>1. SizesTypeOK' BY <1>4 DEF ReadNull, SizesTypeOK
  <2>2. StorageMade' /\ StartRead' BY <1>4, <1>a DEF ReadNull, StorageMade, StartRead
  <2>3. confs = {} BY <1>4 DEF ReadNull, Decides, SizesTypeOK
  <2>4. BrokenStart' BY <1>4, <2>3 DEF ReadNull, BrokenStart
  <2> QED BY <1>0, <2>1, <2>2, <2>4
<1>5. CASE MakeStorage
  <2> DEFINE s == Storage(start.channels, start.opt, start.read)
  <2>0. start.channels \in Nat /\ start.opt \in {SampleRate, BufferSize} /\ start.read \in UInt64
    BY <1>5 DEF MakeStorage, SizesTypeOK, StartRead
  <2>1. s \in Storages /\ s.channels = start.channels /\ s.opt = start.opt /\ s.read = start.read
        /\ s.nodes = BlkNum(start.channels)
    BY <2>0, StorageFacts
  <2>2. CASE s.channels > s.nodes
    <3>1. broken' = TRUE /\ UNCHANGED <<start, storage, confs, analog, touched>> /\ start.pc = "make"
      BY <1>5, <2>2 DEF MakeStorage
    <3>2. SizesTypeOK' BY <3>1 DEF SizesTypeOK
    <3>3. StorageMade' /\ StartRead' BY <3>1, <1>a DEF StorageMade, StartRead
    <3>4. BrokenStart' BY <2>1, <2>2, <3>1 DEF BrokenStart
    <3> QED BY <1>0, <3>2, <3>3, <3>4
  <2>3. CASE ~(s.channels > s.nodes)
    <3>1. /\ storage' = {s} /\ start' = [start EXCEPT !.pc = "run"]
          /\ UNCHANGED <<broken, confs, analog, touched>> /\ start.pc = "make"
      BY <1>5, <2>3 DEF MakeStorage
    <3>2. start' \in [pc : {"idle", "size", "make", "run"}, channels : Nat, opt : Options, read : UInt64]
          /\ start'.channels = start.channels /\ start'.opt = start.opt /\ start'.read = start.read
      BY <3>1 DEF SizesTypeOK
    <3>3. SizesTypeOK' BY <2>1, <3>1, <3>2 DEF SizesTypeOK
    <3>4. s.nodes >= s.channels
      BY <2>1, <2>3, <2>0, BlkNumTyped, SizeWidths
    <3>5. StorageMade' BY <2>1, <3>1, <3>4 DEF StorageMade
    <3>6. StartRead' BY <2>0, <3>1, <3>2, <1>a DEF StartRead
    <3>7. BrokenStart' BY <1>5, <3>1 DEF BrokenStart, MakeStorage, Going
    <3> QED BY <1>0, <3>3, <3>5, <3>6, <3>7
  <2> QED BY <2>2, <2>3
<1>6. CASE StopCapture
  <2>1. SizesTypeOK' BY <1>6, <1>a DEF StopCapture, NotStarted, Start, SizesTypeOK
  <2>2. StorageMade' /\ StartRead' /\ BrokenStart'
    BY <1>6 DEF StopCapture, NotStarted, Start, StorageMade, StartRead, BrokenStart
  <2> QED BY <1>0, <2>1, <2>2
<1>7. ASSUME NEW n \in Counts, SetEnabled(n) PROVE SizesInv'
  <2>1. SizesTypeOK' BY <1>7, SizesAssumption DEF SetEnabled, SizesTypeOK, SizesAssumption
  <2>2. StorageMade' /\ StartRead' /\ BrokenStart'
    BY <1>7, <1>a DEF SetEnabled, StorageMade, StartRead, BrokenStart
  <2> QED BY <1>0, <2>1, <2>2
<1> QED BY <1>1, <1>2, <1>3, <1>4, <1>5, <1>6, <1>7 DEF Capturing

\* set_value by other threads: the rate that was read stays the one in force while ~touched.
LEMMA SettingKeeps ==
  ASSUME SizesInv, Setting
  PROVE  SizesInv'
<1>0. ~broken /\ UNCHANGED <<confs, analog, start, storage, broken>>
  BY DEF Setting
<1>1. PICK c \in Callers :
        \/ /\ Convert(c) \/ \E o \in Options, v \in Arguments : SetValue(c, o, v)
           /\ UNCHANGED touched
        \/ DriverSet(c) /\ touched' = (touched \/ call[c].opt = SampleRate)
  BY DEF Setting
<1>2. ConfigInv' BY <1>1, ConvertKeeps, SetValueKeeps, DriverSetKeeps DEF SizesInv
<1>3. UNCHANGED info BY <1>1 DEF Convert, SetValue, DriverSet
<1>4. touched' \in BOOLEAN /\ (touched => touched')
  BY <1>1 DEF SizesInv, SizesTypeOK
<1>5. ~touched' => stored'[SampleRate] = stored[SampleRate]
  <2>1. CASE DriverSet(c)
    <3>1. \/ UNCHANGED stored
          \/ stored' = [stored EXCEPT ![call[c].opt] = call[c].gvar]
      BY <2>1 DEF DriverSet
    <3>2. stored \in [Options -> Gvars] /\ SampleRate \in Options
      BY SizesAssumption DEF SizesInv, ConfigInv, ConfigTypeOK, SizesAssumption
    <3>3. CASE UNCHANGED touched /\ (Convert(c) \/ \E o \in Options, v \in Arguments : SetValue(c, o, v))
      BY <3>3 DEF Convert, SetValue
    <3>4. CASE touched' = (touched \/ call[c].opt = SampleRate)
      BY <3>1, <3>2, <3>4
    <3> QED BY <1>1, <3>3, <3>4
  <2>2. CASE Convert(c) \/ \E o \in Options, v \in Arguments : SetValue(c, o, v)
    BY <2>2 DEF Convert, SetValue
  <2> QED BY <1>1, <2>1, <2>2
<1>6. SizesTypeOK' BY <1>0, <1>4 DEF SizesInv, SizesTypeOK
<1>7. Options64' /\ StorageMade' /\ BrokenStart'
  BY <1>0, <1>3 DEF SizesInv, Options64, StorageMade, BrokenStart
<1>8. StartRead' BY <1>0, <1>4, <1>5 DEF SizesInv, StartRead
<1> QED BY <1>2, <1>6, <1>7, <1>8 DEF SizesInv

\* Every step.
LEMMA SizesNextInv == SizesInv /\ [SizesNext]_<<configVars, sizesVars>> => SizesInv'
<1>1. ASSUME SizesInv, UNCHANGED <<configVars, sizesVars>> PROVE SizesInv'
  <2>1. ConfigInv' BY <1>1, ConfigNextInv DEF SizesInv
  <2>2. SizesTypeOK' /\ StorageMade' /\ BrokenStart'
    BY <1>1 DEF SizesInv, sizesVars, SizesTypeOK, StorageMade, BrokenStart
  <2>3. Options64' /\ StartRead'
    BY <1>1 DEF SizesInv, sizesVars, configVars, Options64, StartRead
  <2> QED BY <2>1, <2>2, <2>3 DEF SizesInv
<1> QED BY <1>1, CapturingKeeps, SettingKeeps DEF SizesNext

-----------------------------------------------------------------------------

(***************************************************************************)
(* get_buf_size and the constructors keep every size within its C type:    *)
(* what exceeds it is cut where the code cuts it, and nothing later.       *)
(***************************************************************************)
THEOREM SizesTypeCorrect == SizesSpec => []SizesTypeOK
<1>1. SizesInv => SizesTypeOK BY DEF SizesInv
<1> QED BY SizesInitInv, SizesNextInv, <1>1, PTL DEF SizesSpec

(***************************************************************************)
(* A segment sized by the sample rate has room for more than 200 ms at the *)
(* rate in force, for every rate and page size, if nobody set the rate     *)
(* while start_capture was under way and the size fits in 32 bits.         *)
(***************************************************************************)
THEOREM SegmentHasRoom == SizesSpec => []RoomForRate
<1>1. SizesInv => RoomForRate
  <2> SUFFICES ASSUME SizesInv, NEW s \in storage, start.pc = "run", s.opt = SampleRate, ~touched,
                      Limit(s.read) + PgSz < UInt32Mod
               PROVE  s.segment > Limit(stored[SampleRate].n)
    BY DEF RoomForRate
  <2>1. s = Storage(start.channels, start.opt, start.read)
    BY DEF SizesInv, StartRead
  <2>2. start.channels \in Nat /\ start.opt \in {SampleRate, BufferSize} /\ start.read \in UInt64
    BY DEF SizesInv, SizesTypeOK, StartRead
  <2>3. s.opt = start.opt /\ s.read = start.read
    BY <2>1, <2>2, StorageFacts
  <2>4. start.read = stored[SampleRate].n
    BY <2>3 DEF SizesInv, StartRead
  <2> QED BY <2>1, <2>2, <2>3, <2>4, StorageFacts
<1> QED BY SizesInitInv, SizesNextInv, <1>1, PTL DEF SizesSpec

(***************************************************************************)
(* The buffer zstd writes to is as large as the limit it is given, below   *)
(* 2 GiB, and as large as the segment it reads, when that is whole pages.  *)
(***************************************************************************)
THEOREM BuffersFit == SizesSpec => []BuffersAgree
<1>1. SizesInv => BuffersAgree
  <2> SUFFICES ASSUME SizesInv, NEW s \in storage
               PROVE  /\ s.coBuff <= IntMax => s.limit = s.coBuff
                      /\ (s.opt = SampleRate \/ s.coBuff % PgSz = 0) => s.segment = s.coBuff
    BY DEF BuffersAgree
  <2>1. s = Storage(s.channels, s.opt, s.read) BY DEF SizesInv, StorageMade
  <2>2. s.channels \in Nat /\ s.opt \in {SampleRate, BufferSize} /\ s.read \in UInt64
    BY DEF SizesInv, SizesTypeOK, Storages
  <2> QED BY <2>1, <2>2, StorageFacts
<1> QED BY SizesInitInv, SizesNextInv, <1>1, PTL DEF SizesSpec

(***************************************************************************)
(* Every channel of a capture has its segment, for any number of channels; *)
(* only a number of segments that a uint8_t cannot hold makes the          *)
(* constructor follow a null segment.                                      *)
(***************************************************************************)
THEOREM EveryChannelHasSegment == SizesSpec => []PoolHoldsChannels
<1>1. SizesInv => PoolHoldsChannels
  <2> SUFFICES ASSUME SizesInv PROVE PoolHoldsChannels
    OBVIOUS
  <2>1. ASSUME NEW s \in storage
        PROVE  /\ s.nodes >= s.channels
               /\ s.channels * BUF_FAC < UInt8Mod => s.nodes = s.channels * BUF_FAC
    <3>1. s = Storage(s.channels, s.opt, s.read) /\ s.nodes >= s.channels
      BY DEF SizesInv, StorageMade
    <3>2. s.channels \in Nat /\ s.opt \in {SampleRate, BufferSize} /\ s.read \in UInt64
      BY DEF SizesInv, SizesTypeOK, Storages
    <3>3. s.nodes = BlkNum(s.channels) BY <3>1, <3>2, StorageFacts
    <3> QED BY <3>1, <3>2, <3>3, BlkNumTyped
  <2>2. ASSUME broken PROVE start.channels * BUF_FAC >= UInt8Mod \/ confs = {}
    <3>1. start.channels \in Nat BY DEF SizesInv, SizesTypeOK
    <3>2. start.channels * BUF_FAC \in Nat BY <3>1, SizeWidths, Times
    <3>3. CASE start.channels > BlkNum(start.channels)
      <4>1. ~(start.channels * BUF_FAC < UInt8Mod)
        <5> DEFINE n == start.channels
        <5> HIDE DEF n
        <5>1. n \in Nat /\ n > BlkNum(n) BY <3>1, <3>3 DEF n
        <5>2. BlkNum(n) \in Nat /\ (n * BUF_FAC < UInt8Mod => BlkNum(n) >= n)
          BY <5>1, SizeWidths, BlkNumTyped
        <5>3. ~(n * BUF_FAC < UInt8Mod) BY <5>1, <5>2
        <5> QED BY <5>3 DEF n
      <4> QED BY <3>2, <4>1, SizeWidths
    <3> QED BY <2>2, <3>3 DEF SizesInv, BrokenStart
  <2> QED BY <2>1, <2>2 DEF PoolHoldsChannels
<1> QED BY SizesInitInv, SizesNextInv, <1>1, PTL DEF SizesSpec
=============================================================================
