--------------------------- MODULE SrpConfigProofs ---------------------------
(***************************************************************************)
(* Proofs about SrpConfig, for every set of callers, options, arguments    *)
(* and capabilities and every width of the integers.                       *)
(***************************************************************************)
EXTENDS SrpConfig, WellFoundedInduction, TLAPS

-----------------------------------------------------------------------------
(* The conversions.                                                        *)

\* The C integers are bounded by Python's.
LEMMA Widths ==
  /\ ULongMod \in Nat \ {0} /\ UInt64 \subseteq Number /\ Int32 \subseteq Number
  /\ \A n \in Number : n % ULongMod \in UInt64
  /\ \A n \in Long : n % ULongMod \in UInt64
BY WidthAssumption DEF WidthAssumption, ULongMod, UInt64, Int32, Long, Number

\* A text is a value of a text option.
LEMMA TextHeld ==
  ASSUME NEW n, NEW w, [word |-> w, n |-> n] \in Texts
  PROVE  GText(n, w) \in Holds("STRING")
<1> DEFINE y == [word |-> w, n |-> n]
<1>1. y \in Texts /\ y.n = n /\ y.word = w OBVIOUS
<1> HIDE DEF y
<1>2. GText(y.n, y.word) \in {GText(x.n, x.word) : x \in Texts} BY <1>1
<1> QED BY <1>1, <1>2 DEF Holds

\* What set_value hands to the driver has the option's type, or is uninitialised.
LEMMA ConvertedHolds ==
  ASSUME NEW t \in Datatypes, NEW v \in Arguments, NEW g \in Converted(t, v), g # Raise
  PROVE  g \in Holds(t) \cup {Wild}
<1>0. v.n \in Number BY ConfigAssumption DEF ConfigAssumption
<1>1. CASE t = "UINT64"
  <2>h. Holds(t) = {Gvar("UINT64", n) : n \in UInt64} BY <1>1 DEF Holds
  <2>g. g \in ToUInt64(v) BY <1>1 DEF Converted
  <2>1. CASE IsInt(v)
    BY <2>h, <2>g, <2>1 DEF ToUInt64, Cast
  <2>2. CASE ~IsInt(v) /\ IsStr(v)
    <3>1. SizeString(v) # Err /\ g = SizeString(v)
      BY <2>g, <2>2 DEF ToUInt64
    <3>2. v.n % ULongMod \in UInt64 /\ 0 \in UInt64 /\ ULongMod - 1 \in UInt64
      BY <1>0, Widths DEF UInt64
    <3>3. \E n \in UInt64 : SizeString(v) = Gvar("UINT64", n)
      BY <3>1, <3>2 DEF SizeString
    <3> QED BY <2>h, <3>1, <3>3
  <2>3. CASE ~IsInt(v) /\ ~IsStr(v)
    BY <2>h, <2>g, <2>3 DEF ToUInt64, Garbage
  <2> QED BY <2>1, <2>2, <2>3
<1>2. CASE t = "INT32"
  <2>h. Holds(t) = {Gvar("INT32", n) : n \in Int32} BY <1>2 DEF Holds
  <2>g. g \in ToInt32(v) BY <1>2 DEF Converted
  <2>1. 0 \in Int32 BY WidthAssumption DEF WidthAssumption, Int32
  <2> QED BY <2>h, <2>g, <2>1 DEF ToInt32, Cast, Garbage
<1>3. CASE t = "STRING"
  <2>g. g \in ToText(v) BY <1>3 DEF Converted
  <2>1. CASE IsInt(v)
    <3>1. v.n \in Int32 /\ g = GText(v.n, FALSE)
      BY <2>g, <2>1 DEF ToText
    <3>2. [word |-> FALSE, n |-> v.n] \in Texts
      BY <1>0 DEF Texts
    <3> QED BY <1>3, <3>1, <3>2, TextHeld
  <2>2. CASE ~IsInt(v) /\ IsStr(v)
    <3>1. [word |-> v.word, n |-> v.n] \in Texts
      BY <2>2, ConfigAssumption DEF ConfigAssumption
    <3>2. g = GText(v.n, v.word)
      BY <2>g, <2>2 DEF ToText
    <3> QED BY <1>3, <3>1, <3>2, TextHeld
  <2>3. CASE ~IsInt(v) /\ ~IsStr(v)
    <3>1. [word |-> TRUE, n |-> WordEmpty] \in Texts
      BY WidthAssumption DEF WidthAssumption, Texts
    <3>2. g = GText(WordEmpty, TRUE)
      BY <2>g, <2>3 DEF ToText
    <3> QED BY <1>3, <3>1, <3>2, TextHeld
  <2> QED BY <2>1, <2>2, <2>3
<1>4. CASE t = "BOOL"
  <2>h. Holds(t) = {Gvar("BOOL", n) : n \in {0, 1}} BY <1>4 DEF Holds
  <2>g. g \in ToBool(v) BY <1>4 DEF Converted
  <2> QED BY <2>h, <2>g DEF ToBool, Garbage
<1>5. CASE t = "FLOAT"
  <2>h. Holds(t) = {Gvar("FLOAT", n) : n \in Number} BY <1>5 DEF Holds
  <2>g. g \in ToFloat(v) BY <1>5 DEF Converted
  <2> QED BY <2>h, <2>g, <1>0 DEF ToFloat, Garbage
<1>6. CASE t = "RATIONAL"
  <2>h. Holds(t) = {GTuple(p, q) : p, q \in UInt64} BY <1>6 DEF Holds
  <2>g. g \in ToRational(v) BY <1>6 DEF Converted
  <2>1. CASE PairOfInts(v)
    <3>1. -1 \in Long
      BY WidthAssumption DEF WidthAssumption, Long
    <3>2. AsLong(v.kids[1].n) \in UInt64 /\ AsLong(v.kids[2].n) \in UInt64
      BY <3>1, Widths DEF AsLong
    <3> QED BY <2>h, <2>g, <2>1, <3>2 DEF ToRational
  <2>2. CASE ~PairOfInts(v)
    BY <2>g, <2>2 DEF ToRational
  <2> QED BY <2>1, <2>2
<1>7. CASE t = "OTHER"
  BY <1>7 DEF Converted
<1> QED BY <1>1, <1>2, <1>3, <1>4, <1>5, <1>6, <1>7 DEF Datatypes

\* It is uninitialised only for a type without conversion, or a rational that is no pair of ints.
LEMMA WildIsMisuse ==
  ASSUME NEW t \in Datatypes, NEW v \in Arguments, Wild \in Converted(t, v)
  PROVE  t = "OTHER" \/ (t = "RATIONAL" /\ ~PairOfInts(v))
<1> SUFFICES ASSUME t # "OTHER", ~(t = "RATIONAL" /\ ~PairOfInts(v)) PROVE FALSE
  OBVIOUS
<1>1. CASE t = "UINT64"
  BY <1>1 DEF Converted, ToUInt64, Cast, SizeString, Garbage, Wild, Gvar, Raise, Err
<1>2. CASE t = "INT32"
  BY <1>2 DEF Converted, ToInt32, Cast, Garbage, Wild, Gvar, Raise
<1>3. CASE t = "STRING"
  BY <1>3 DEF Converted, ToText, Wild, Gvar, GText, Raise
<1>4. CASE t = "BOOL"
  BY <1>4 DEF Converted, ToBool, Garbage, Wild, Gvar, Raise
<1>5. CASE t = "FLOAT"
  BY <1>5 DEF Converted, ToFloat, Garbage, Wild, Gvar, Raise
<1>6. CASE t = "RATIONAL"
  BY <1>6 DEF Converted, ToRational, Wild, Gvar, GTuple, GBox
<1> QED BY <1>1, <1>2, <1>3, <1>4, <1>5, <1>6 DEF Datatypes
\* A scan option is null or uninitialised only for the texts that FaultsAreMisuse names.
LEMMA ScanMisuse ==
  ASSUME NEW t \in Datatypes, NEW v \in Arguments, ParseScanOpt(t, v) \in {Wild, NoGvar}
  PROVE  \/ t = "OTHER"
         \/ v.word /\ v.n = WordEmpty /\ t # "BOOL"
         \/ t \in {"UINT64", "INT32", "RATIONAL"} /\ (v.word \/ v.n < 0)
<1> SUFFICES ASSUME t # "OTHER", ~(v.word /\ v.n = WordEmpty /\ t # "BOOL") PROVE
       t \in {"UINT64", "INT32", "RATIONAL"} /\ (v.word \/ v.n < 0)
  OBVIOUS
<1> USE DEF Wild, NoGvar, Gvar
<1>1. CASE t = "UINT64"
  BY <1>1 DEF ParseScanOpt, OrWild, SizeString, Err
<1>2. CASE t = "INT32"
  BY <1>2 DEF ParseScanOpt, SizeString, Err
<1>3. CASE t = "RATIONAL"
  BY <1>3 DEF ParseScanOpt, OrWild, RationalString, GTuple, GBox, Err
<1>4. CASE t = "STRING"
  BY <1>4 DEF ParseScanOpt, GText
<1>5. CASE t = "BOOL"
  BY <1>5 DEF ParseScanOpt, BoolString
<1>6. CASE t = "FLOAT"
  BY <1>6 DEF ParseScanOpt
<1> QED BY <1>1, <1>2, <1>3, <1>4, <1>5, <1>6 DEF Datatypes

-----------------------------------------------------------------------------
(* What goes to Python.                                                    *)

\* What get_value makes of a scalar and of a rational.
LEMMA LeavesToPy ==
  /\ \A n \in UInt64 : GvarToPy[Gvar("UINT64", n)] = Py("int", n)
  /\ \A n \in Int32 : GvarToPy[Gvar("INT32", n)] = Py("int", n)
  /\ \A n \in {0, 1} : GvarToPy[Gvar("BOOL", n)] = Py("bool", n)
  /\ \A n \in Number : GvarToPy[Gvar("FLOAT", n)] = Py("float", n)
  /\ \A x \in Texts : GvarToPy[GText(x.n, x.word)] = PyText(x.n, x.word)
  /\ \A p, q \in UInt64 :
       GvarToPy[GTuple(p, q)] = PyBox("tuple", <<Py("int", p), Py("int", q)>>)
<1>1. \A g \in Gvars : g.type \notin DOMAIN ContainerClasses => GvarToPy[g] = LeafToPy(g)
  BY TreeAssumption DEF TreeAssumption, ToPy
<1>2. \A t \in Datatypes : Holds(t) \subseteq Gvars
  BY ConfigAssumption DEF ConfigAssumption
<1>3. ASSUME NEW n \in UInt64 PROVE GvarToPy[Gvar("UINT64", n)] = Py("int", n)
  <2>1. Gvar("UINT64", n) \in Gvars
    BY <1>2 DEF Holds, Datatypes
  <2> QED BY <1>1, <2>1 DEF LeafToPy, LeafClasses, ContainerClasses, Gvar, Py
<1>4. ASSUME NEW n \in Int32 PROVE GvarToPy[Gvar("INT32", n)] = Py("int", n)
  <2>1. Gvar("INT32", n) \in Gvars
    BY <1>2 DEF Holds, Datatypes
  <2> QED BY <1>1, <2>1 DEF LeafToPy, LeafClasses, ContainerClasses, Gvar, Py
<1>5. ASSUME NEW n \in {0, 1} PROVE GvarToPy[Gvar("BOOL", n)] = Py("bool", n)
  <2>1. Gvar("BOOL", n) \in Gvars
    BY <1>2 DEF Holds, Datatypes
  <2> QED BY <1>1, <2>1 DEF LeafToPy, LeafClasses, ContainerClasses, Gvar, Py
<1>6. ASSUME NEW n \in Number PROVE GvarToPy[Gvar("FLOAT", n)] = Py("float", n)
  <2>1. Gvar("FLOAT", n) \in Gvars
    BY <1>2 DEF Holds, Datatypes
  <2> QED BY <1>1, <2>1 DEF LeafToPy, LeafClasses, ContainerClasses, Gvar, Py
<1>7. ASSUME NEW x \in Texts PROVE GvarToPy[GText(x.n, x.word)] = PyText(x.n, x.word)
  <2>1. GText(x.n, x.word) \in Gvars
    BY <1>2 DEF Holds, Datatypes
  <2> QED BY <1>1, <2>1 DEF LeafToPy, LeafClasses, ContainerClasses, GText, PyText
<1>8. ASSUME NEW p \in UInt64, NEW q \in UInt64
      PROVE  GvarToPy[GTuple(p, q)] = PyBox("tuple", <<Py("int", p), Py("int", q)>>)
  <2> DEFINE g == GTuple(p, q)
             k == <<Gvar("UINT64", p), Gvar("UINT64", q)>>
  <2>1. g \in Gvars
    BY <1>2 DEF Holds, Datatypes
  <2>2. g.type = "TUPLE" /\ g.kids = k /\ DOMAIN k = 1 .. 2
    BY DEF GTuple, GBox
  <2>3. GvarToPy[g] = ToPy(g, GvarToPy)
    BY <2>1, TreeAssumption DEF TreeAssumption
  <2> HIDE DEF g
  <2>4. ContainerClasses[g.type] = "tuple" /\ g.type \in DOMAIN ContainerClasses
    BY <2>2 DEF ContainerClasses
  <2>5. ToPy(g, GvarToPy) = PyBox("tuple", [i \in DOMAIN g.kids |-> GvarToPy[g.kids[i]]])
    BY <2>4 DEF ToPy
  <2>6. GvarToPy[k[1]] = Py("int", p) /\ GvarToPy[k[2]] = Py("int", q)
    BY <1>3
  <2> HIDE DEF k
  <2>7. [i \in DOMAIN g.kids |-> GvarToPy[g.kids[i]]] = <<Py("int", p), Py("int", q)>>
    BY <2>2, <2>6
  <2> QED BY <2>3, <2>5, <2>7 DEF g
<1> QED BY <1>3, <1>4, <1>5, <1>6, <1>7, <1>8

\* There is no hole in the value of an option whose datatype is converted.
LEMMA NoHoles ==
  ASSUME NEW t \in Datatypes \ {"OTHER"}, NEW g \in Holds(t)
  PROVE  ~HasHole[g]
<1>0. g \in Gvars /\ HasHole[g] = HoleIn(g, HasHole)
  BY TreeAssumption, ConfigAssumption DEF TreeAssumption, ConfigAssumption
<1>1. CASE t = "RATIONAL"
  <2> DEFINE k(p, q) == <<Gvar("UINT64", p), Gvar("UINT64", q)>>
  <2>1. PICK p \in UInt64, q \in UInt64 : g = GTuple(p, q)
    BY <1>1 DEF Holds
  <2>2. g.type = "TUPLE" /\ g.kids = k(p, q) /\ DOMAIN k(p, q) = 1 .. 2
    BY <2>1 DEF GTuple, GBox
  <2>3. \A n \in UInt64 : GvarToPy[Gvar("UINT64", n)] # PyNull
    <3>1. \A n : Py("int", n).cls = "int" /\ PyNull.cls = "null"
      BY DEF Py, PyNull
    <3>2. \A n : Py("int", n) # PyNull
      BY <3>1
    <3> QED BY <3>2, LeavesToPy
  <2>4. \A n \in UInt64 : ~HasHole[Gvar("UINT64", n)]
    <3>1. \A n \in UInt64 : Gvar("UINT64", n) \in Gvars
      BY ConfigAssumption DEF ConfigAssumption, Holds, Datatypes
    <3> QED BY <3>1, TreeAssumption DEF TreeAssumption, HoleIn, Gvar
  <2>5. \A i \in 1 .. 2 : GvarToPy[k(p, q)[i]] # PyNull /\ ~HasHole[k(p, q)[i]]
    <3>1. k(p, q)[1] = Gvar("UINT64", p) /\ k(p, q)[2] = Gvar("UINT64", q)
      OBVIOUS
    <3> QED BY <2>3, <2>4, <3>1
  <2> HIDE DEF k
  <2> QED BY <1>0, <2>2, <2>5 DEF HoleIn
<1>2. CASE t # "RATIONAL"
  <2>1. g.type \notin {"VARIANT", "TUPLE", "ARRAY", "DICT"}
    BY <1>2 DEF Holds, Datatypes, Gvar, GText
  <2> QED BY <1>0, <2>1 DEF HoleIn
<1> QED BY <1>1, <1>2

-----------------------------------------------------------------------------
(* The invariant.  An uninitialised GVariant on its way to sr_config_set   *)
(* tells already what the fault will be.                                   *)

WildCalls ==
  \A c \in Callers :
     (call[c].pc = "set" /\ call[c].gvar = Wild)
       => LET t == info[call[c].opt].type IN
          t = "OTHER" \/ (t = "RATIONAL" /\ ~PairOfInts(call[c].arg))

\* What a call in progress holds.
LEMMA CallFields ==
  ASSUME NEW f \in Calls, f.pc # "idle"
  PROVE  f.opt \in Options /\ f.arg \in Arguments
<1>1. CASE f = Idle
  BY <1>1 DEF Idle, Frame
<1>2. CASE f \in [pc : {"convert"}, opt : Options, arg : Arguments, gvar : {NoGvar}, err : {FALSE}]
  BY <1>2
<1>3. CASE f \in [pc : {"set"}, opt : Options, arg : Arguments, gvar : Gvars \cup {Wild},
                 err : BOOLEAN]
  BY <1>3
<1> QED BY <1>1, <1>2, <1>3 DEF Calls

ConfigInv == ConfigTypeOK /\ WildCalls /\ FaultsAreMisuse

\* The options start with values of their types.
LEMMA ConfigInitInv == ConfigInit => ConfigInv
<1> SUFFICES ASSUME ConfigInit PROVE ConfigInv
  OBVIOUS
<1> USE DEF ConfigInit
<1>1. NoOption \in Options BY ConfigAssumption DEF ConfigAssumption, NoOption
<1>2. ConfigTypeOK
  <2>1. stored \in [Options -> Gvars] /\ \A o \in Options : stored[o] \in Holds(info[o].type)
    BY ConfigAssumption DEF ConfigAssumption
  <2>2. call \in [Callers -> Calls] /\ \A c \in Callers : call[c].pc = "idle"
    BY DEF Calls, Idle, Frame
  <2>3. NoFault \in [op : {"none", "get", "set", "list", "scan"}, opt : Options,
                     arg : Arguments \cup {PyNull}]
    BY <1>1 DEF NoFault
  <2> QED BY <2>1, <2>2, <2>3 DEF ConfigTypeOK
<1>3. WildCalls BY DEF WildCalls, Idle, Frame
<1>4. FaultsAreMisuse BY DEF FaultsAreMisuse, NoFault
<1> QED BY <1>2, <1>3, <1>4 DEF ConfigInv

\* A call that returns leaves no frame.
LEMMA ReturnKeeps ==
  ASSUME ConfigInv, NEW c \in Callers, NEW r, Returns(c, r), UNCHANGED <<info, fault>>,
         stored' \in [Options -> Gvars], \A o \in Options : stored'[o] \in Holds(info[o].type)
  PROVE  ConfigInv'
<1> USE DEF ConfigInv, Returns
<1>1. ConfigTypeOK' BY DEF ConfigTypeOK, Calls, Idle, Frame
<1>2. WildCalls' BY DEF WildCalls, ConfigTypeOK, Idle, Frame
<1>3. FaultsAreMisuse' BY DEF FaultsAreMisuse
<1> QED BY <1>1, <1>2, <1>3

\* A call that ends the process changes nothing else.
LEMMA FaultKeeps ==
  ASSUME ConfigInv, UNCHANGED <<info, stored, call>>,
         NEW op \in {"get", "set", "list", "scan"}, NEW o \in Options,
         NEW v \in Arguments \cup {PyNull}, Fault(op, o, v), FaultsAreMisuse'
  PROVE  ConfigInv'
<1> USE DEF ConfigInv, Fault
<1>1. ConfigTypeOK' BY DEF ConfigTypeOK
<1>2. WildCalls' BY DEF WildCalls
<1> QED BY <1>1, <1>2

\* set_value's first step only keeps its argument.
LEMMA SetValueKeeps ==
  ASSUME ConfigInv, NEW c \in Callers, NEW o \in Options, NEW v \in Arguments, SetValue(c, o, v)
  PROVE  ConfigInv'
<1>1. CASE "SET" \in info[o].can
  <2> USE <1>1 DEF ConfigInv, SetValue
  <2>0. call' = [call EXCEPT ![c] = Frame("convert", o, v, NoGvar, FALSE)] OBVIOUS
  <2>1. ConfigTypeOK' BY <2>0 DEF ConfigTypeOK, Calls, Frame
  <2>2. WildCalls' BY <2>0 DEF WildCalls, ConfigTypeOK, Frame
  <2>3. FaultsAreMisuse' BY DEF FaultsAreMisuse
  <2> QED BY <2>1, <2>2, <2>3
<1>2. CASE "SET" \notin info[o].can
  BY <1>2, ReturnKeeps DEF SetValue, ConfigInv, ConfigTypeOK
<1> QED BY <1>1, <1>2

\* Its second makes a value of the option's type, or nothing.
LEMMA ConvertKeeps ==
  ASSUME ConfigInv, NEW c \in Callers, Convert(c)
  PROVE  ConfigInv'
<1> DEFINE f == call[c]
           t == info[f.opt].type
<1>0. f.opt \in Options /\ f.arg \in Arguments /\ t \in Datatypes
  <2>1. f \in Calls /\ f.pc = "convert" /\ info \in [Options -> [type : Datatypes, can : Capabilities]]
    BY DEF ConfigInv, ConfigTypeOK, Convert
  <2>2. f.opt \in Options /\ f.arg \in Arguments
    BY <2>1, CallFields
  <2> QED BY <2>1, <2>2
<1>1. PICK g \in Converted(t, f.arg) :
        IF g = Raise
        THEN Returns(c, Raised)
        ELSE /\ call' = [call EXCEPT ![c] = Frame("set", f.opt, f.arg, g, LeavesError(t, f.arg))]
             /\ UNCHANGED res
  BY DEF Convert
<1>2. UNCHANGED <<info, stored, fault>> BY DEF Convert
<1>3. CASE g = Raise
  BY <1>1, <1>2, <1>3, ReturnKeeps DEF ConfigInv, ConfigTypeOK
<1>4. CASE g # Raise
  <2>0. call' = [call EXCEPT ![c] = Frame("set", f.opt, f.arg, g, LeavesError(t, f.arg))]
    BY <1>1, <1>4
  <2>1. g \in Holds(t) \cup {Wild} BY <1>0, <1>4, ConvertedHolds
  <2>2. g \in Gvars \cup {Wild} BY <1>0, <2>1, ConfigAssumption DEF ConfigAssumption
  <2>3. LeavesError(t, f.arg) \in BOOLEAN BY DEF LeavesError
  <2>4. Frame("set", f.opt, f.arg, g, LeavesError(t, f.arg)) \in Calls
    BY <1>0, <2>2, <2>3 DEF Calls, Frame
  <2>5. ConfigTypeOK' BY <1>2, <2>0, <2>1, <2>4 DEF ConfigInv, ConfigTypeOK, Frame
  <2>6. g = Wild => t = "OTHER" \/ (t = "RATIONAL" /\ ~PairOfInts(f.arg))
    BY <1>0, WildIsMisuse
  <2>7. WildCalls' BY <1>2, <2>0, <2>6 DEF ConfigInv, ConfigTypeOK, WildCalls, Frame
  <2>8. FaultsAreMisuse' BY <1>2 DEF ConfigInv, FaultsAreMisuse
  <2> QED BY <2>5, <2>7, <2>8 DEF ConfigInv
<1> QED BY <1>3, <1>4

\* Its third hands that to the driver.
LEMMA DriverSetKeeps ==
  ASSUME ConfigInv, NEW c \in Callers, DriverSet(c)
  PROVE  ConfigInv'
<1> DEFINE f == call[c]
<1>0. f.opt \in Options /\ f.arg \in Arguments /\ f.pc = "set"
  <2>1. f \in Calls /\ f.pc = "set"
    BY DEF ConfigInv, ConfigTypeOK, DriverSet
  <2> QED BY <2>1, CallFields
<1>1. CASE f.gvar = Wild
  <2>1. Fault("set", f.opt, f.arg) /\ UNCHANGED <<info, stored, call>>
    BY <1>1 DEF DriverSet
  <2>2. FaultsAreMisuse'
    BY <1>0, <1>1, <2>1 DEF ConfigInv, WildCalls, FaultsAreMisuse, Fault
  <2> QED BY <1>0, <2>1, <2>2, FaultKeeps
<1>2. CASE f.gvar # Wild
  <2>1. \E r : Returns(c, r)
    BY <1>2 DEF DriverSet
  <2>2. stored' \in {stored, [stored EXCEPT ![f.opt] = f.gvar]} /\ UNCHANGED <<info, fault>>
    BY <1>2 DEF DriverSet
  <2>3. f.gvar \in Holds(info[f.opt].type)
    BY <1>0, <1>2 DEF ConfigInv, ConfigTypeOK
  <2>4. f.gvar \in Gvars
    BY <1>0, <2>3, ConfigAssumption DEF ConfigInv, ConfigTypeOK, ConfigAssumption
  <2>5. stored' \in [Options -> Gvars] /\ \A o \in Options : stored'[o] \in Holds(info[o].type)
    BY <1>0, <2>2, <2>3, <2>4 DEF ConfigInv, ConfigTypeOK
  <2> QED BY <2>1, <2>2, <2>5, ReturnKeeps
<1> QED BY <1>1, <1>2
\* A value goes to Python whole, or ends the process if its datatype is not converted.
LEMMA HandOverKeeps ==
  ASSUME ConfigInv, NEW c \in Callers, NEW op \in {"get", "list"}, NEW o \in Options,
         NEW g, NEW r, HandOver(c, op, o, g, r), UNCHANGED <<info, stored>>,
         HasHole[g] => info[o].type = "OTHER"
  PROVE  ConfigInv'
<1>1. CASE HasHole[g]
  <2>1. Fault(op, o, PyNull) /\ UNCHANGED call
    BY <1>1 DEF HandOver
  <2>2. FaultsAreMisuse'
    BY <1>1, <2>1 DEF FaultsAreMisuse, Fault
  <2> QED BY <2>1, <2>2, FaultKeeps
<1>2. CASE ~HasHole[g]
  <2>1. UNCHANGED fault /\ \E x : Returns(c, x)
    BY <1>2 DEF HandOver, Handed
  <2> QED BY <2>1, ReturnKeeps DEF ConfigInv, ConfigTypeOK
<1> QED BY <1>1, <1>2

\* get_value and list.
LEMMA LookKeeps ==
  ASSUME ConfigInv, NEW c \in Callers, NEW o \in Options, GetValue(c, o) \/ List(c, o)
  PROVE  ConfigInv'
<1>0. UNCHANGED <<info, stored>> /\ stored \in [Options -> Gvars] /\ info[o].type \in Datatypes
      /\ \A p \in Options : stored[p] \in Holds(info[p].type)
  BY DEF GetValue, List, ConfigInv, ConfigTypeOK
<1>1. ASSUME DriverRefuses(c) PROVE ConfigInv'
  BY <1>0, <1>1, ReturnKeeps DEF DriverRefuses
<1>2. CASE UNCHANGED call /\ "GET" \notin info[o].can /\ Fault("get", o, PyNull)
  <2>1. FaultsAreMisuse' BY <1>0, <1>2 DEF FaultsAreMisuse, Fault
  <2> QED BY <1>0, <1>2, <2>1, FaultKeeps
<1>3. CASE UNCHANGED call /\ "LIST" \notin info[o].can /\ Fault("list", o, PyNull)
  <2>1. FaultsAreMisuse' BY <1>0, <1>3 DEF FaultsAreMisuse, Fault
  <2> QED BY <1>0, <1>3, <2>1, FaultKeeps
<1>4. CASE GetValue(c, o)
  <2>1. HasHole[stored[o]] => info[o].type = "OTHER"
    BY <1>0, NoHoles
  <2>2. HandOver(c, "get", o, stored[o], GvarToPy[stored[o]]) => ConfigInv'
    BY <1>0, <2>1, HandOverKeeps
  <2> QED BY <1>1, <1>2, <1>4, <2>2 DEF GetValue
<1>5. CASE List(c, o)
  <2>1. \A g \in Offers(info[o].type) : HasHole[g] => info[o].type = "OTHER"
    BY ConfigAssumption DEF ConfigAssumption, Offers
  <2>2. \A g \in Offers(info[o].type) : HandOver(c, "list", o, g, Listed(g)) => ConfigInv'
    BY <1>0, <2>1, HandOverKeeps
  <2> QED BY <1>1, <1>3, <1>5, <2>2 DEF List
<1> QED BY <1>4, <1>5

\* A scan ends the process only on a text that the property names.
LEMMA ScanKeeps ==
  ASSUME ConfigInv, NEW c \in Callers, NEW o \in Options, NEW v \in Arguments, Scan(c, o, v)
  PROVE  ConfigInv'
<1>0. UNCHANGED <<info, stored>> /\ stored \in [Options -> Gvars] /\ info[o].type \in Datatypes
      /\ \A p \in Options : stored[p] \in Holds(info[p].type)
  BY DEF Scan, ConfigInv, ConfigTypeOK
<1>1. CASE ParseScanOpt(info[o].type, v) \in {Wild, NoGvar}
  <2>1. Fault("scan", o, v) /\ UNCHANGED call
    BY <1>1 DEF Scan
  <2>2. FaultsAreMisuse'
    BY <1>0, <1>1, <2>1, ScanMisuse DEF FaultsAreMisuse, Fault
  <2> QED BY <1>0, <2>1, <2>2, FaultKeeps
<1>2. CASE ParseScanOpt(info[o].type, v) \notin {Wild, NoGvar}
  BY <1>0, <1>2, ReturnKeeps DEF Scan
<1> QED BY <1>1, <1>2

\* The invariant is inductive.
LEMMA ConfigNextInv == ConfigInv /\ [ConfigNext]_configVars => ConfigInv'
<1> SUFFICES ASSUME ConfigInv, [ConfigNext]_configVars PROVE ConfigInv'
  OBVIOUS
<1>1. CASE UNCHANGED configVars
  BY <1>1 DEF configVars, ConfigInv, ConfigTypeOK, WildCalls, FaultsAreMisuse
<1>2. CASE ConfigNext
  <2> PICK c \in Callers :
        \/ \E o \in Options :
              \/ GetValue(c, o) \/ List(c, o)
              \/ \E v \in Arguments : SetValue(c, o, v) \/ Scan(c, o, v)
        \/ Convert(c) \/ DriverSet(c)
    BY <1>2 DEF ConfigNext
  <2> QED BY LookKeeps, SetValueKeeps, ScanKeeps, ConvertKeeps, DriverSetKeeps
<1> QED BY <1>1, <1>2

-----------------------------------------------------------------------------

(***************************************************************************)
(* The values in the driver and in a set_value keep the type of their      *)
(* option, for any arguments: nothing set_value converts leaves the C type *)
(* that libsigrok checks.                                                  *)
(***************************************************************************)
THEOREM ConfigTypeCorrect == ConfigSpec => []ConfigTypeOK
<1>1. ConfigInv => ConfigTypeOK BY DEF ConfigInv
<1> QED BY ConfigInitInv, ConfigNextInv, <1>1, PTL DEF ConfigSpec

(***************************************************************************)
(* A call of get_value, list, set_value or scan ends the process only when *)
(* caps() or the datatype would have told so, whatever the other threads   *)
(* do between its steps.                                                   *)
(***************************************************************************)
THEOREM OnlyMisuseFaults == ConfigSpec => []FaultsAreMisuse
<1>1. ConfigInv => FaultsAreMisuse BY DEF ConfigInv
<1> QED BY ConfigInitInv, ConfigNextInv, <1>1, PTL DEF ConfigSpec

-----------------------------------------------------------------------------
(* The scan options.                                                       *)

\* Whole turns change no remainder.
LEMMA Turns ==
  ASSUME NEW K \in Nat \ {0}, NEW k \in Nat, NEW a \in 0 .. K - 1
  PROVE  (a + k * K) % K = a
<1> DEFINE x == a + k * K
           d == x \div K - k
<1>1. k * K \in Nat
  OBVIOUS
<1>2. x = K * (x \div K) + (x % K) /\ x % K \in 0 .. K - 1 /\ x \div K \in Int
  BY <1>1
<1>3. d \in Int /\ K * d = K * (x \div K) - k * K
  <2> DEFINE q == x \div K
  <2>1. q \in Int
    BY <1>2
  <2> HIDE DEF q
  <2>2. K * (q - k) = K * q - k * K
    BY <2>1
  <2> QED BY <2>1, <2>2 DEF q
<1>4. K * d = a - (x % K)
  <2> DEFINE kK == k * K
             Kq == K * (x \div K)
  <2>1. kK \in Int /\ Kq \in Int /\ x = a + kK /\ x = Kq + (x % K) /\ K * d = Kq - kK
    BY <1>1, <1>2, <1>3
  <2> HIDE DEF kK, Kq, x, d
  <2> QED BY <1>2, <2>1
<1> HIDE DEF x, d
<1>5. d = 0
  <2>1. d >= 1 => K * d >= K
    BY <1>3
  <2>2. d <= -1 => K * d <= -K
    BY <1>3
  <2> DEFINE Kd == K * d
  <2>3. Kd < K /\ Kd > -K
    <3>1. x % K \in 0 .. K - 1
      BY <1>2
    <3> QED BY <1>4, <3>1
  <2>4. (d >= 1 => Kd >= K) /\ (d <= -1 => Kd <= -K)
    BY <2>1, <2>2
  <2>5. d \in Int /\ Kd \in Int
    BY <1>3
  <2> HIDE DEF Kd
  <2> QED BY <2>3, <2>4, <2>5
<1> QED BY <1>2, <1>4, <1>5 DEF x

\* An int read as an unsigned long and cast back is itself.
LEMMA IntSurvives ==
  ASSUME NEW n \in Int32
  PROVE  WrapInt32(n % ULongMod) = n
<1> DEFINE K == 2 * (IntMax + 1)
           k == (LongMax + 1) \div (IntMax + 1)
           a == n + IntMax + 1
<1>1. /\ IntMax \in Nat /\ LongMax \in Nat /\ IntMax <= LongMax
      /\ n \in -(IntMax + 1) .. IntMax
  BY WidthAssumption DEF WidthAssumption, Int32
<1>2. k \in Nat /\ LongMax + 1 = (IntMax + 1) * k
  BY <1>1, WidthAssumption DEF WidthAssumption
<1>3. K \in Nat \ {0} /\ a \in 0 .. K - 1
  BY <1>1
<1>4. ULongMod = k * K /\ ULongMod \in Nat \ {0}
  <2> HIDE DEF k
  <2>1. 2 * ((IntMax + 1) * k) = k * (2 * (IntMax + 1))
    BY <1>1, <1>2
  <2> QED BY <1>1, <1>2, <2>1 DEF ULongMod
<1>5. CASE n >= 0
  <2>1. n % ULongMod = n
    BY <1>1, <1>5 DEF ULongMod
  <2>2. (n + IntMax + 1) % K = n + IntMax + 1
    BY <1>1, <1>3
  <2> QED BY <1>1, <2>1, <2>2 DEF WrapInt32
<1>6. CASE n < 0
  <2>1. n % ULongMod = n + ULongMod
    <3>1. n + ULongMod \in 0 .. ULongMod - 1
      BY <1>1, <1>6 DEF ULongMod
    <3> QED BY <1>1, <1>4, <3>1
  <2>2. n + ULongMod + IntMax + 1 = a + k * K
    BY <1>1, <1>4
  <2>3. (a + k * K) % K = a
    BY <1>2, <1>3, Turns
  <2> QED BY <1>1, <2>1, <2>2, <2>3 DEF WrapInt32
<1> QED BY <1>1, <1>5, <1>6

\* strtof returns a nearest float, and a float for itself.
LEMMA NearestFloat ==
  ASSUME NEW n \in Number
  PROVE  /\ Strtof[n] \in Singles
         /\ \A k \in Singles : Distance(Strtof[n], n) <= Distance(k, n)
         /\ n \in Singles => Strtof[n] = n
<1> DEFINE less == {ss \in Nat \X Nat : ss[1] < ss[2]}
           far == {Distance(k, n) : k \in Singles}
<1>0. \A j, k \in Number : Distance(j, k) \in Nat /\ (Distance(j, k) = 0 <=> j = k)
  BY WidthAssumption DEF WidthAssumption, Distance, Number, ULongMod
<1>1. IsWellFoundedOn(less, Nat)
  BY NatLessThanWellFounded DEF OpToRel
<1>2. far \subseteq Nat /\ far # {}
  BY <1>0, WidthAssumption DEF WidthAssumption
<1>3. \E d \in far : \A e \in far : <<e, d>> \notin less
  <2> HIDE DEF less, far
  <2> QED BY <1>1, <1>2, WFMin
<1>4. \E d \in far : \A e \in far : d <= e
  <2>1. \A d, e \in Nat : <<e, d>> \notin less => d <= e
    OBVIOUS
  <2> HIDE DEF less, far
  <2>2. PICK d \in far : \A e \in far : <<e, d>> \notin less
    BY <1>3
  <2>3. \A e \in far : d <= e
    BY <1>2, <2>1, <2>2
  <2> QED BY <2>3
<1>5. \E m \in Singles : \A k \in Singles : Distance(m, n) <= Distance(k, n)
  BY <1>4
<1>6. /\ Strtof[n] \in Singles
      /\ \A k \in Singles : Distance(Strtof[n], n) <= Distance(k, n)
  BY <1>5 DEF Strtof
<1>7. ASSUME n \in Singles PROVE Strtof[n] = n
  <2>1. Distance(Strtof[n], n) <= 0 /\ Strtof[n] \in Number
    BY <1>0, <1>6, <1>7, WidthAssumption DEF WidthAssumption
  <2> QED BY <1>0, <2>1
<1> QED BY <1>6, <1>7

LEMMA NumeralAgrees ==
  ASSUME NEW t \in Datatypes \ {"BOOL", "RATIONAL", "OTHER"}, NEW n \in Number,
         NEW v, v = PyText(n, FALSE), Means(t, v) # {}
  PROVE  \/ ParseScanOpt(t, v) \in Converted(t, v)
         \/ /\ t = "FLOAT" /\ n \notin Singles
            /\ \A k \in Singles : Distance(ParseScanOpt(t, v).n, n) <= Distance(k, n)
<1>1. v.n = n /\ v.word = FALSE /\ IsStr(v) /\ ~IsInt(v) /\ Numeric(v)
  BY DEF PyText, IsStr, IsInt, Numeric
<1>2. CASE t = "UINT64"
  <2>1. n \in UInt64
    BY <1>1, <1>2 DEF Means
  <2>2. SizeString(v) # Err
    BY <1>1 DEF SizeString, Err, Gvar
  <2> QED BY <1>1, <1>2, <2>2 DEF ParseScanOpt, Converted, ToUInt64, OrWild
<1>3. CASE t = "INT32"
  <2>1. n \in Int32
    BY <1>1, <1>3 DEF Means
  <2>2. SizeString(v) = Gvar("UINT64", n % ULongMod)
    <3>1. n < ULongMod
      BY <2>1, WidthAssumption DEF WidthAssumption, Int32, ULongMod
    <3> QED BY <1>1, <3>1 DEF SizeString
  <2>3. SizeString(v).n = n % ULongMod /\ SizeString(v) # Err
    <3>1. \A k : Gvar("UINT64", k).n = k /\ Gvar("UINT64", k) # Err
      BY DEF Gvar, Err
    <3> QED BY <2>2, <3>1
  <2>4. ParseScanOpt(t, v) = Gvar("INT32", n)
    BY <1>1, <1>3, <2>1, <2>3, IntSurvives DEF ParseScanOpt
  <2>5. Converted(t, v) = {Gvar("INT32", n)}
    BY <1>1, <1>3, <2>1 DEF Converted, ToInt32
  <2> QED BY <2>4, <2>5
<1>4. CASE t = "STRING"
  BY <1>1, <1>4 DEF ParseScanOpt, Converted, ToText
<1>5. CASE t = "FLOAT"
  <2>1. ParseScanOpt(t, v) = Gvar("FLOAT", Strtof[n]) /\ Converted(t, v) = {Gvar("FLOAT", n)}
    BY <1>1, <1>5 DEF ParseScanOpt, Converted, ToFloat
  <2>2. Gvar("FLOAT", Strtof[n]).n = Strtof[n]
    BY DEF Gvar
  <2> QED BY <1>5, <2>1, <2>2, NearestFloat
<1> QED BY <1>2, <1>3, <1>4, <1>5 DEF Datatypes

(***************************************************************************)
(* scan reads a numeral as set_value does, for every width of the integers *)
(* and of a float and whatever datatype the option has but BOOL: scan's    *)
(* detour through an unsigned long loses no sign of an INT32, and its      *)
(* detour through a float moves a FLOAT no further than to the nearest one.*)
(***************************************************************************)
THEOREM NumeralsAgree == ConfigSpec => []ScanAgrees
<1>1. ConfigTypeOK => ScanAgrees
  <2> SUFFICES ASSUME ConfigTypeOK, NEW o \in Options, NEW n \in Number,
                      info[o].type \notin {"BOOL", "RATIONAL", "OTHER"},
                      Means(info[o].type, PyText(n, FALSE)) # {}
               PROVE  LET scanned == ParseScanOpt(info[o].type, PyText(n, FALSE)) IN
                      \/ scanned \in Converted(info[o].type, PyText(n, FALSE))
                      \/ /\ info[o].type = "FLOAT" /\ n \notin Singles
                         /\ \A k \in Singles : Distance(scanned.n, n) <= Distance(k, n)
    BY DEF ScanAgrees
  <2>1. info[o].type \in Datatypes \ {"BOOL", "RATIONAL", "OTHER"}
    BY DEF ConfigTypeOK
  <2> QED BY <2>1, NumeralAgrees
<1> QED BY <1>1, ConfigTypeCorrect, PTL

-----------------------------------------------------------------------------
(* The options are registers: the values.                                  *)

\* What set_value converts an argument to is what the argument means.
LEMMA ConvertedMeans ==
  ASSUME NEW t \in Datatypes, NEW v \in Arguments, Means(t, v) # {},
         NEW g \in Converted(t, v), g # Raise, g # Wild
  PROVE  Means(t, v) = {GvarToPy[g]} /\ ~LeavesError(t, v)
<1>0. v.n \in Number /\ ~(IsInt(v) /\ IsStr(v))
  BY ConfigAssumption DEF ConfigAssumption, IsInt, IsStr
<1>1. CASE t = "UINT64"
  <2>1. Numeric(v) /\ v.n \in UInt64 /\ Means(t, v) = {Py("int", v.n)}
    BY <1>1 DEF Means
  <2>2. v.n \in 0 .. ULongMod - 1 /\ ULongMod \in Nat
    BY <2>1, Widths DEF UInt64
  <2>3. v.n % ULongMod = v.n /\ v.n < ULongMod
    BY <2>2
  <2>4. SizeString(v) = Gvar("UINT64", v.n) \/ v.word
    BY <2>3 DEF SizeString
  <2>5. g = Gvar("UINT64", v.n)
    BY <1>0, <1>1, <2>1, <2>4 DEF Converted, ToUInt64, Cast, Numeric
  <2> QED BY <1>1, <2>1, <2>5, LeavesToPy DEF LeavesError
<1>2. CASE t = "INT32"
  <2>1. Numeric(v) /\ v.n \in Int32 /\ Means(t, v) = {Py("int", v.n)}
    BY <1>2 DEF Means
  <2>2. g = Gvar("INT32", v.n)
    BY <1>0, <1>2, <2>1 DEF Converted, ToInt32, Cast, Numeric
  <2> QED BY <1>2, <2>1, <2>2, LeavesToPy DEF LeavesError
<1>3. CASE t = "STRING"
  <2>1. CASE IsStr(v)
    <3>1. Means(t, v) = {v} /\ g = GText(v.n, v.word)
      BY <1>0, <1>3, <2>1 DEF Means, Converted, ToText
    <3>2. v = PyText(v.n, v.word) /\ [word |-> v.word, n |-> v.n] \in Texts
      BY <2>1, ConfigAssumption DEF ConfigAssumption
    <3>3. PICK x \in Texts : x.word = v.word /\ x.n = v.n
      BY <3>2
    <3>4. GvarToPy[GText(v.n, v.word)] = v
      BY <3>2, <3>3, LeavesToPy
    <3> QED BY <1>3, <3>1, <3>4 DEF LeavesError
  <2>2. CASE ~IsStr(v)
    <3>1. IsInt(v) /\ v.n \in Int32 /\ Means(t, v) = {PyText(v.n, FALSE)}
      BY <1>3, <2>2 DEF Means
    <3>2. g = GText(v.n, FALSE)
      BY <1>3, <3>1 DEF Converted, ToText
    <3>3. PICK x \in Texts : x.word = FALSE /\ x.n = v.n
      <4>1. [word |-> FALSE, n |-> v.n] \in Texts
        BY <1>0 DEF Texts
      <4> QED BY <4>1
    <3>4. GvarToPy[GText(v.n, FALSE)] = PyText(v.n, FALSE)
      BY <3>3, LeavesToPy
    <3> QED BY <1>3, <3>1, <3>2, <3>4 DEF LeavesError
  <2> QED BY <2>1, <2>2
<1>4. CASE t = "BOOL"
  <2>1. CASE IsInt(v)
    <3>1. v.n \in Int32 /\ Means(t, v) = {Py("bool", IF v.n = 0 THEN 0 ELSE 1)}
      BY <1>0, <1>4, <2>1 DEF Means
    <3>2. g = Gvar("BOOL", IF v.n = 0 THEN 0 ELSE 1)
      BY <1>4, <2>1, <3>1 DEF Converted, ToBool
    <3> QED BY <1>4, <3>1, <3>2, LeavesToPy DEF LeavesError
  <2>2. CASE ~IsInt(v)
    <3>1. IsStr(v) /\ v.word /\ v.n \in {WordFalse, WordTrue} /\ Means(t, v) = {Py("bool", v.n)}
      BY <1>4, <2>2 DEF Means
    <3>2. v.n \in {0, 1} /\ g = Gvar("BOOL", v.n)
      BY <1>4, <2>2, <3>1 DEF Converted, ToBool, WordFalse, WordTrue, WordEmpty
    <3> QED BY <1>4, <3>1, <3>2, LeavesToPy DEF LeavesError
  <2> QED BY <2>1, <2>2
<1>5. CASE t = "FLOAT"
  <2>1. (Numeric(v) \/ v.cls = "float") /\ Means(t, v) = {Py("float", v.n)}
    BY <1>5 DEF Means
  <2>2. g = Gvar("FLOAT", v.n)
    BY <1>0, <1>5, <2>1 DEF Converted, ToFloat, Numeric
  <2> QED BY <1>0, <1>5, <2>1, <2>2, LeavesToPy DEF LeavesError
<1>6. CASE t = "RATIONAL"
  <2>1. /\ IsRational(v)
        /\ Means(t, v) = {PyBox("tuple", <<Py("int", v.kids[1].n), Py("int", v.kids[2].n)>>)}
    BY <1>6 DEF Means
  <2>2. /\ PairOfInts(v)
        /\ v.kids[1].n \in 0 .. LongMax /\ v.kids[2].n \in 0 .. LongMax
    BY <2>1 DEF IsRational, PairOfInts
  <2>3. \A n \in 0 .. LongMax : n \in Long /\ n \in UInt64 /\ AsLong(n) = n
    BY WidthAssumption DEF WidthAssumption, Long, UInt64, ULongMod, AsLong
  <2>4. g = GTuple(v.kids[1].n, v.kids[2].n)
    BY <1>6, <2>2, <2>3 DEF Converted, ToRational
  <2>5. GvarToPy[GTuple(v.kids[1].n, v.kids[2].n)] =
          PyBox("tuple", <<Py("int", v.kids[1].n), Py("int", v.kids[2].n)>>)
    BY <2>2, <2>3, LeavesToPy
  <2>6. ~LeavesError(t, v)
    BY <2>2, <2>3 DEF LeavesError
  <2> QED BY <2>1, <2>4, <2>5, <2>6
<1>7. CASE t = "OTHER"
  BY <1>7 DEF Converted
<1> QED BY <1>1, <1>2, <1>3, <1>4, <1>5, <1>6, <1>7 DEF Datatypes

\* An argument the datatype refuses is never converted.
LEMMA RefusedRaises ==
  ASSUME NEW t, NEW v \in Arguments, Refuses(t, v), NEW g \in Converted(t, v)
  PROVE  g = Raise
<1>0. ~(IsInt(v) /\ IsStr(v)) /\ ~(IsStr(v) /\ v.cls = "float")
  BY DEF IsInt, IsStr
<1>1. CASE t = "UINT64" /\ IsInt(v) /\ v.n \notin UInt64
  BY <1>1 DEF Converted, ToUInt64, Cast
<1>2. CASE t = "UINT64" /\ IsStr(v) /\ v.word /\ v.n # WordEmpty
  <2>1. SizeString(v) = Err
    BY <1>2 DEF SizeString
  <2> QED BY <1>0, <1>2, <2>1 DEF Converted, ToUInt64
<1>3. CASE t \in {"INT32", "STRING", "BOOL"} /\ IsInt(v) /\ v.n \notin Int32
  BY <1>3 DEF Converted, ToInt32, ToText, ToBool, Cast
<1>4. CASE t = "FLOAT" /\ IsStr(v) /\ v.word
  BY <1>0, <1>4 DEF Converted, ToFloat
<1> QED BY <1>1, <1>2, <1>3, <1>4 DEF Refuses

-----------------------------------------------------------------------------
(* The options are registers: the steps.                                   *)

\* OptionRegister's values are those of SrpConfig.
LEMMA SameValues ==
  /\ Register!PyNull = PyNull /\ Register!Done = Done /\ Register!Raised = Raised
  /\ \A t, v : Register!Means(t, v) = Means(t, v)
  /\ \A t, v : Register!Refuses(t, v) = Refuses(t, v)
  /\ \A t : Register!Holds(t) = Holds(t)
  /\ Register!GvarToPy = GvarToPy
<1>1. Register!PyNull = PyNull /\ Register!Done = Done /\ Register!Raised = Raised
  BY DEF Register!PyNull, Register!Done, Register!Raised, Register!Py, PyNull, Done, Raised, Py
<1>2. \A t : Register!Holds(t) = Holds(t)
  BY DEF Register!Holds, Register!Gvar, Register!GTuple, Register!GBox, Register!GText,
         Register!UInt64, Register!Int32, Register!Number, Register!Texts, Register!ULongMod,
         Holds, Gvar, GTuple, GBox, GText, UInt64, Int32, Number, Texts, ULongMod
<1>3. \A t, v : Register!Means(t, v) = Means(t, v)
  BY DEF Register!Means, Register!Numeric, Register!IsInt, Register!IsStr, Register!IsPair,
         Register!IsRational, Register!Py, Register!PyText, Register!PyBox, Register!UInt64,
         Register!Int32, Register!ULongMod, Register!WordTrue, Register!WordFalse,
         Means, Numeric, IsInt, IsStr, IsPair, IsRational, Py, PyText, PyBox, UInt64, Int32,
         ULongMod, WordTrue, WordFalse
<1>4. \A t, v : Register!Refuses(t, v) = Refuses(t, v)
  BY DEF Register!Refuses, Register!IsInt, Register!IsStr, Register!UInt64, Register!Int32,
         Register!ULongMod, Register!WordEmpty, Refuses, IsInt, IsStr, UInt64, Int32,
         ULongMod, WordEmpty
<1>5. Register!GvarToPy = GvarToPy
  BY DEF Register!GvarToPy, Register!ToPy, Register!LeafToPy, Register!LeafClasses,
         Register!ContainerClasses, Register!PyBox, Register!PyNull, Register!Py,
         GvarToPy, ToPy, LeafToPy, LeafClasses, ContainerClasses, PyBox, PyNull, Py
<1> QED BY <1>1, <1>2, <1>3, <1>4, <1>5

Values == [o \in Options |-> GvarToPy[stored[o]]]
Asked(f) == IF f = Idle THEN {} ELSE {<<f.opt, f.arg>>}
AskedBy == [c \in Callers |-> Asked(call[c])]
MappedVars == <<info, Values, AskedBy, res>>

\* What a set_value hands to the driver is what it has converted its argument to.
HandsConverted ==
  \A c \in Callers :
     LET f == call[c]
         t == info[f.opt].type
     IN  f.pc = "set" => /\ f.gvar \in Converted(t, f.arg) /\ f.gvar # Raise
                         /\ f.err = LeavesError(t, f.arg)

RegisterInv == ConfigTypeOK /\ HandsConverted

LEMMA RegisterInvariant == ConfigSpec => []RegisterInv
<1>1. ConfigInit => HandsConverted
  BY DEF ConfigInit, HandsConverted, Idle, Frame
<1>2. ConfigTypeOK /\ HandsConverted /\ [ConfigNext]_configVars => HandsConverted'
  <2> SUFFICES ASSUME ConfigTypeOK, HandsConverted, [ConfigNext]_configVars
               PROVE  HandsConverted'
    OBVIOUS
  <2>1. call \in [Callers -> Calls]
    BY DEF ConfigTypeOK
  <2>2. CASE UNCHANGED configVars
    BY <2>2 DEF configVars, HandsConverted
  <2>3. ASSUME NEW c \in Callers, NEW r, Returns(c, r), UNCHANGED info PROVE HandsConverted'
    BY <2>1, <2>3 DEF Returns, HandsConverted, Idle, Frame
  <2>4. ASSUME UNCHANGED <<info, call>> PROVE HandsConverted'
    BY <2>4 DEF HandsConverted
  <2>5. ASSUME NEW c \in Callers, NEW o \in Options, GetValue(c, o) \/ List(c, o)
        PROVE  HandsConverted'
    <3>1. UNCHANGED info /\ (UNCHANGED call \/ \E r : Returns(c, r))
      BY <2>5 DEF GetValue, List, HandOver, Handed, DriverRefuses
    <3> QED BY <2>3, <2>4, <3>1
  <2>6. ASSUME NEW c \in Callers, NEW o \in Options, NEW v \in Arguments, Scan(c, o, v)
        PROVE  HandsConverted'
    BY <2>3, <2>4, <2>6 DEF Scan
  <2>7. ASSUME NEW c \in Callers, NEW o \in Options, NEW v \in Arguments, SetValue(c, o, v)
        PROVE  HandsConverted'
    <3>1. CASE "SET" \in info[o].can
      BY <2>1, <2>7, <3>1 DEF SetValue, HandsConverted, Frame
    <3>2. CASE "SET" \notin info[o].can
      BY <2>3, <2>7, <3>2 DEF SetValue
    <3> QED BY <3>1, <3>2
  <2>8. ASSUME NEW c \in Callers, Convert(c) PROVE HandsConverted'
    <3> DEFINE f == call[c]
               t == info[f.opt].type
    <3>1. UNCHANGED info
      BY <2>8 DEF Convert
    <3>2. PICK g \in Converted(t, f.arg) :
            IF g = Raise
            THEN Returns(c, Raised)
            ELSE call' = [call EXCEPT ![c] =
                            Frame("set", f.opt, f.arg, g, LeavesError(t, f.arg))]
      BY <2>8 DEF Convert
    <3>3. CASE g = Raise
      BY <2>3, <3>1, <3>2, <3>3
    <3>4. CASE g # Raise
      BY <2>1, <3>1, <3>2, <3>4 DEF HandsConverted, Frame
    <3> QED BY <3>3, <3>4
  <2>9. ASSUME NEW c \in Callers, DriverSet(c) PROVE HandsConverted'
    <3>1. UNCHANGED info /\ (UNCHANGED call \/ \E r : Returns(c, r))
      BY <2>9 DEF DriverSet
    <3> QED BY <2>3, <2>4, <3>1
  <2> QED BY <2>2, <2>5, <2>6, <2>7, <2>8, <2>9 DEF ConfigNext
<1> QED BY <1>1, <1>2, ConfigTypeCorrect, PTL DEF ConfigSpec, RegisterInv

\* A call in progress, and none.
LEMMA AskedOf ==
  /\ Asked(Idle) = {}
  /\ \A pc, o, v, g, e : pc # "idle" => Asked(Frame(pc, o, v, g, e)) = {<<o, v>>}
  /\ \A f : f.pc # "idle" => Asked(f) = {<<f.opt, f.arg>>}
BY DEF Asked, Idle, Frame

\* The return of a call, as the register sees it.
LEMMA ReturnAnswers ==
  ASSUME RegisterInv, NEW c \in Callers, NEW r, Returns(c, r), UNCHANGED info
  PROVE  Register!Answers(c, r)
<1>1. call \in [Callers -> Calls]
  BY DEF RegisterInv, ConfigTypeOK
<1>2. AskedBy' = [AskedBy EXCEPT ![c] = {}]
  BY <1>1, AskedOf DEF Returns, AskedBy
<1> QED BY <1>2 DEF Register!Answers, Returns, AskedBy, Asked

\* A call that is not set_value returns.
LEMMA LookAnswers ==
  ASSUME RegisterInv, NEW c \in Callers, NEW r, Calling(c), Returns(c, r), UNCHANGED info
  PROVE  AskedBy[c] = {} /\ UNCHANGED AskedBy /\ res' = r
<1>1. call \in [Callers -> Calls]
  BY DEF RegisterInv, ConfigTypeOK
<1>2. UNCHANGED call
  BY <1>1 DEF Calling, Returns
<1> QED BY <1>2, AskedOf DEF AskedBy, Returns, Calling

LEMMA GetIsRegister ==
  ASSUME RegisterInv, NEW c \in Callers, NEW o \in Options, GetValue(c, o)
  PROVE  Register!Get(c, o) \/ UNCHANGED MappedVars
<1>1. UNCHANGED <<info, stored>> /\ Calling(c)
  BY DEF GetValue
<1>2. UNCHANGED Values
  BY <1>1 DEF Values
<1>3. CASE "GET" \in info[o].can
  <2>0. CASE HandOver(c, "get", o, stored[o], GvarToPy[stored[o]]) /\ HasHole[stored[o]]
    BY <1>1, <1>2, <2>0 DEF HandOver, MappedVars, AskedBy
  <2>1. CASE \E r \in ({Values[o]} \ {PyNull}) \cup {Raised} : Returns(c, r)
    <3>1. PICK r \in ({Values[o]} \ {PyNull}) \cup {Raised} : Returns(c, r)
      BY <2>1
    <3>2. AskedBy[c] = {} /\ UNCHANGED AskedBy /\ res' = r
      BY <1>1, <3>1, LookAnswers
    <3> QED BY <1>1, <1>2, <1>3, <3>1, <3>2, SameValues DEF Register!Get, Values, AskedBy, Asked
  <2>2. Values[o] = GvarToPy[stored[o]]
    BY DEF Values
  <2> QED BY <1>3, <2>0, <2>1, <2>2 DEF GetValue, HandOver, Handed, DriverRefuses
<1>4. CASE "GET" \notin info[o].can
  BY <1>1, <1>2, <1>4 DEF GetValue, MappedVars, AskedBy
<1> QED BY <1>3, <1>4

LEMMA LookIsRegister ==
  ASSUME RegisterInv, NEW c \in Callers, NEW o \in Options,
         List(c, o) \/ \E v \in Arguments : Scan(c, o, v)
  PROVE  Register!Look(c) \/ UNCHANGED MappedVars
<1>1. UNCHANGED <<info, stored>> /\ Calling(c)
  BY DEF List, Scan
<1>2. UNCHANGED Values
  BY <1>1 DEF Values
<1>3. ASSUME NEW r, Returns(c, r), r.cls \in {"done", "raised", "listed"}
      PROVE  Register!Look(c)
  <2>1. AskedBy[c] = {} /\ UNCHANGED AskedBy /\ res' = r
    BY <1>1, <1>3, LookAnswers
  <2> QED BY <1>1, <1>2, <1>3, <2>1 DEF Register!Look, Values, AskedBy, Asked
<1>4. CASE UNCHANGED <<call, res>>
  BY <1>1, <1>2, <1>4 DEF MappedVars, AskedBy
<1>5. CASE List(c, o)
  <2>1. Raised.cls = "raised" /\ \A g : Listed(g).cls = "listed"
    BY DEF Raised, Py, Listed, PyBox
  <2>2. UNCHANGED <<call, res>> \/ Returns(c, Raised) \/ \E g : Returns(c, Listed(g))
    BY <1>5 DEF List, HandOver, Handed, DriverRefuses
  <2> QED BY <1>3, <1>4, <2>1, <2>2
<1>6. CASE \E v \in Arguments : Scan(c, o, v)
  <2>1. Done.cls = "done"
    BY DEF Done, Py
  <2> QED BY <1>3, <1>4, <1>6, <2>1 DEF Scan
<1> QED BY <1>5, <1>6

LEMMA SetValueAsks ==
  ASSUME RegisterInv, NEW c \in Callers, NEW o \in Options, NEW v \in Arguments,
         SetValue(c, o, v)
  PROVE  Register!Ask(c, o, v)
<1>1. UNCHANGED <<info, stored>> /\ Calling(c) /\ call \in [Callers -> Calls]
  BY DEF SetValue, RegisterInv, ConfigTypeOK
<1>2. UNCHANGED Values /\ AskedBy[c] = {}
  BY <1>1, AskedOf DEF Values, AskedBy, Calling
<1>3. CASE "SET" \in info[o].can
  <2>1. call' = [call EXCEPT ![c] = Frame("convert", o, v, NoGvar, FALSE)] /\ UNCHANGED res
    BY <1>3 DEF SetValue
  <2>2. AskedBy' = [AskedBy EXCEPT ![c] = {<<o, v>>}]
    <3>1. Asked(Frame("convert", o, v, NoGvar, FALSE)) = {<<o, v>>}
      BY DEF Asked, Idle, Frame
    <3> QED BY <1>1, <2>1, <3>1 DEF AskedBy
  <2> QED BY <1>1, <1>2, <1>3, <2>1, <2>2 DEF Register!Ask, Values, AskedBy, Asked
<1>4. CASE "SET" \notin info[o].can
  <2>1. UNCHANGED AskedBy /\ res' = Done
    BY <1>1, <1>4, LookAnswers DEF SetValue
  <2> QED BY <1>1, <1>2, <1>4, <2>1, SameValues DEF Register!Ask, Values, AskedBy, Asked
<1> QED BY <1>3, <1>4

\* What a set_value in progress has asked for.
LEMMA InProgress ==
  ASSUME RegisterInv, NEW c \in Callers, call[c].pc # "idle"
  PROVE  /\ AskedBy[c] = {<<call[c].opt, call[c].arg>>}
         /\ call[c].opt \in Options /\ call[c].arg \in Arguments
         /\ info[call[c].opt].type \in Datatypes
<1>1. call[c] \in Calls /\ info \in [Options -> [type : Datatypes, can : Capabilities]]
  BY DEF RegisterInv, ConfigTypeOK
<1>2. call[c].opt \in Options /\ call[c].arg \in Arguments
  BY <1>1, CallFields
<1> QED BY <1>1, <1>2, AskedOf DEF AskedBy

LEMMA ConvertIsRegister ==
  ASSUME RegisterInv, NEW c \in Callers, Convert(c)
  PROVE  Register!Refuse(c) \/ UNCHANGED MappedVars
<1> DEFINE f == call[c]
           t == info[f.opt].type
<1>1. UNCHANGED <<info, stored>> /\ f.pc = "convert" /\ call \in [Callers -> Calls]
  BY DEF Convert, RegisterInv, ConfigTypeOK
<1>2. UNCHANGED Values /\ AskedBy[c] = {<<f.opt, f.arg>>}
  BY <1>1, InProgress DEF Values
<1>3. PICK g \in Converted(t, f.arg) :
        IF g = Raise
        THEN Returns(c, Raised)
        ELSE /\ call' = [call EXCEPT ![c] = Frame("set", f.opt, f.arg, g, LeavesError(t, f.arg))]
             /\ UNCHANGED res
  BY DEF Convert
<1>4. CASE g = Raise
  <2>1. Register!Answers(c, Raised)
    BY <1>1, <1>3, <1>4, ReturnAnswers
  <2> QED BY <1>2, <2>1, SameValues DEF Register!Refuse, Values, AskedBy, Asked
<1>5. CASE g # Raise
  <2>1. AskedBy' = [AskedBy EXCEPT ![c] = {<<f.opt, f.arg>>}]
    <3>1. Asked(Frame("set", f.opt, f.arg, g, LeavesError(t, f.arg))) = {<<f.opt, f.arg>>}
      BY DEF Asked, Idle, Frame
    <3> QED BY <1>1, <1>3, <1>5, <3>1 DEF AskedBy
  <2>2. UNCHANGED AskedBy
    BY <1>2, <2>1 DEF AskedBy
  <2> QED BY <1>1, <1>2, <1>3, <1>5, <2>2 DEF MappedVars
<1> QED BY <1>4, <1>5

LEMMA DriverSetIsRegister ==
  ASSUME RegisterInv, NEW c \in Callers, DriverSet(c)
  PROVE  \/ Register!Take(c) \/ Register!Refuse(c) \/ Register!Unpromised(c)
         \/ UNCHANGED MappedVars
<1> DEFINE f == call[c]
           o == f.opt
           v == f.arg
           t == info[o].type
<1>1. UNCHANGED info /\ f.pc = "set" /\ stored \in [Options -> Gvars]
  BY DEF DriverSet, RegisterInv, ConfigTypeOK
<1>2. /\ AskedBy[c] = {<<o, v>>} /\ o \in Options /\ v \in Arguments /\ t \in Datatypes
      /\ f.gvar \in Holds(t) \cup {Wild}
      /\ f.gvar \in Converted(t, v) /\ f.gvar # Raise /\ f.err = LeavesError(t, v)
  BY <1>1, InProgress DEF RegisterInv, ConfigTypeOK, HandsConverted
<1> HIDE DEF t
<1>3. CASE f.gvar = Wild
  BY <1>1, <1>3 DEF DriverSet, MappedVars, Values, AskedBy
<1>4. CASE f.gvar # Wild /\ Returns(c, Raised) /\ UNCHANGED stored
  <2>1. Register!Answers(c, Raised) /\ UNCHANGED Values
    BY <1>1, <1>4, ReturnAnswers DEF Values
  <2> QED BY <1>2, <2>1, SameValues DEF Register!Refuse, Values, AskedBy, Asked
<1>5. CASE /\ f.gvar # Wild
           /\ stored' = [stored EXCEPT ![o] = f.gvar]
           /\ Returns(c, IF f.err THEN Raised ELSE Done)
  <2>1. Values' = [Values EXCEPT ![o] = GvarToPy[f.gvar]]
    BY <1>1, <1>2, <1>5 DEF Values
  <2>2. ~Refuses(t, v)
    BY <1>2, RefusedRaises
  <2>3. CASE Means(t, v) # {}
    <3>1. Means(t, v) = {GvarToPy[f.gvar]} /\ ~f.err
      BY <1>2, <1>5, <2>3, ConvertedMeans
    <3>2. Register!Answers(c, Done)
      BY <1>1, <1>5, <3>1, ReturnAnswers
    <3>3. Register!Take(c)
      BY <1>2, <2>1, <3>1, <3>2, SameValues DEF Register!Take, Values, AskedBy, Asked, t
    <3> QED BY <3>3
  <2>4. CASE Means(t, v) = {}
    <3>1. PICK r \in {Done, Raised} : Register!Answers(c, r)
      BY <1>1, <1>5, ReturnAnswers
    <3>2. Register!Unpromised(c)
      BY <1>2, <1>5, <2>1, <2>2, <2>4, <3>1, SameValues
         DEF Register!Unpromised, Values, AskedBy, Asked, t
    <3> QED BY <3>2
  <2> QED BY <2>3, <2>4
<1> QED BY <1>3, <1>4, <1>5 DEF DriverSet

(***************************************************************************)
(* The options implement OptionRegister for every set of callers, options, *)
(* arguments and capabilities and every width of the integers: whatever    *)
(* calls come between the steps of a set_value, get_value returns the      *)
(* meaning of the last argument taken, and what is refused changes nothing.*)
(***************************************************************************)
THEOREM OptionsAreRegisters == ConfigSpec => RegisterSpec
<1>1. ConfigInit => Register!Init
  <2> SUFFICES ASSUME ConfigInit PROVE Register!Init
    OBVIOUS
  <2>1. \A o \in Options : stored[o] \in Gvars
    BY ConfigAssumption DEF ConfigAssumption, ConfigInit
  <2>2. AskedBy = [c \in Callers |-> {}] /\ res = Done
    BY AskedOf DEF ConfigInit, AskedBy
  <2> QED BY <2>1, <2>2, SameValues DEF Register!Init, AskedBy, Asked
<1>2. RegisterInv /\ [ConfigNext]_configVars => [Register!Next]_(Register!vars)
  <2> SUFFICES ASSUME RegisterInv, [ConfigNext]_configVars
               PROVE  [Register!Next]_(Register!vars)
    OBVIOUS
  <2>1. UNCHANGED MappedVars => UNCHANGED Register!vars
    BY DEF MappedVars, Values, AskedBy, Asked, Register!vars
  <2>2. CASE UNCHANGED configVars
    BY <2>1, <2>2 DEF configVars, MappedVars, Values, AskedBy
  <2>3. CASE ConfigNext
    <3>1. PICK c \in Callers :
            \/ \E o \in Options :
                 \/ GetValue(c, o) \/ List(c, o)
                 \/ \E v \in Arguments : SetValue(c, o, v) \/ Scan(c, o, v)
            \/ Convert(c) \/ DriverSet(c)
      BY <2>3 DEF ConfigNext
    <3>2. ASSUME NEW o \in Options, GetValue(c, o) PROVE [Register!Next]_(Register!vars)
      BY <2>1, <3>2, GetIsRegister DEF Register!Next
    <3>3. ASSUME NEW o \in Options, List(c, o) \/ \E v \in Arguments : Scan(c, o, v)
          PROVE  [Register!Next]_(Register!vars)
      BY <2>1, <3>3, LookIsRegister DEF Register!Next
    <3>4. ASSUME NEW o \in Options, NEW v \in Arguments, SetValue(c, o, v)
          PROVE  [Register!Next]_(Register!vars)
      BY <3>4, SetValueAsks DEF Register!Next
    <3>5. CASE Convert(c) \/ DriverSet(c)
      BY <2>1, <3>5, ConvertIsRegister, DriverSetIsRegister DEF Register!Next
    <3> QED BY <3>1, <3>2, <3>3, <3>4, <3>5
  <2> QED BY <2>2, <2>3
<1> QED BY <1>1, <1>2, RegisterInvariant, PTL DEF ConfigSpec, RegisterSpec, Register!Spec

=============================================================================
