------------------------------ MODULE SrpConfig ------------------------------
(***************************************************************************)
(* srp::SrpConfig: the options of drivers, devices and channel groups.     *)
(* Python threads get, set and list them.  The objects keep no value: it   *)
(* is in the driver (stored).                                              *)
(*   - get_value, list and scan hold the GIL throughout: one step.         *)
(*   - set_value is called without the GIL, takes it to convert the        *)
(*     argument, and gives it up again for sr_config_set: other calls come *)
(*     in between.                                                         *)
(* An uninitialised value is any value; an uninitialised pointer ends the  *)
(* process, as a null one does, and fault keeps the call that followed it. *)
(***************************************************************************)
EXTENDS SrpValues

CONSTANTS
  Callers, Options,
  Arguments,     \* bound: what callers pass to set_value
  Capabilities,  \* bound: what drivers can do with an option
  Initially,     \* bound: the values options start with
  Lists,         \* bound: what sr_config_list returns, of values get_value can convert
  OtherLists     \* bound: and of datatype "OTHER"

ASSUME ConfigAssumption ==
  /\ Options # {}
  /\ \A v \in Arguments : v.n \in Number
  /\ \A v \in Arguments :
       IsStr(v) => v = PyText(v.n, v.word) /\ [word |-> v.word, n |-> v.n] \in Texts
  /\ \A v \in Arguments : IsPair(v) => v.kids[1].n \in Number /\ v.kids[2].n \in Number
  /\ Capabilities \subseteq SUBSET {"GET", "SET", "LIST"}
  /\ Lists \subseteq Gvars /\ \A g \in Lists : ~HasHole[g]
  /\ OtherLists \subseteq Gvars
  /\ \A t \in Datatypes : Holds(t) \subseteq Gvars

VARIABLES
  info,           \* SrpConfig.info_ and the capabilities of each option
  stored,         \* the value of each option, in the driver
  call,           \* each caller's set_value in progress, with its locals
  res,            \* how the last call to return ended
  fault

configVars == <<info, stored, call, res, fault>>

NoOption == CHOOSE o \in Options : TRUE

\* err: a Python error is set.
Frame(pc, o, v, g, err) == [pc |-> pc, opt |-> o, arg |-> v, gvar |-> g, err |-> err]

Idle == Frame("idle", NoOption, PyNull, NoGvar, FALSE)

NoFault == [op |-> "none", opt |-> NoOption, arg |-> PyNull]

Fault(op, o, v) == fault' = [op |-> op, opt |-> o, arg |-> v]

(***************************************************************************)
(* SrpDevice's and SrpChGroup's constructors and SrpDriver::config make an *)
(* SrpConfig of each key.  libsigrok knows no capability of a driver's own *)
(* option: there is no device to ask.                                      *)
(***************************************************************************)
ConfigInit ==
  /\ info \in [Options -> [type : Datatypes, can : Capabilities]]
  /\ stored \in [Options -> Initially]
  /\ \A o \in Options : stored[o] \in Holds(info[o].type)
  /\ call = [c \in Callers |-> Idle]
  /\ res = Done
  /\ fault = NoFault

-----------------------------------------------------------------------------
(* The conversions of set_value, as sets of what they may come to.  Raise  *)
(* is an exception; Garbage is what an uninitialised local holds.          *)

Raise == Gvar("RAISE", 0)

Garbage(type, values) == {Gvar(type, n) : n \in values}

\* pybind11's cast to a C integer.
Cast(type, n, range) == IF n \in range THEN Gvar(type, n) ELSE Raise

ToUInt64(v) ==
  IF IsInt(v) THEN {Cast("UINT64", v.n, UInt64)}
  ELSE IF IsStr(v) THEN {IF SizeString(v) = Err THEN Raise ELSE SizeString(v)}
  ELSE Garbage("UINT64", UInt64)

\* atoi: 0 for a word, undefined out of range.
ToInt32(v) ==
  IF IsInt(v) THEN {Cast("INT32", v.n, Int32)}
  ELSE IF IsStr(v) /\ v.word THEN {Gvar("INT32", 0)}
  ELSE IF IsStr(v) /\ v.n \in Int32 THEN {Gvar("INT32", v.n)}
  ELSE Garbage("INT32", Int32)

\* A std::string starts empty.
ToText(v) ==
  IF IsInt(v) THEN {IF v.n \in Int32 THEN GText(v.n, FALSE) ELSE Raise}
  ELSE IF IsStr(v) THEN {GText(v.n, v.word)}
  ELSE {GText(WordEmpty, TRUE)}

\* Mutant: the int itself goes into the gboolean.
ToBoolUnchecked(v) ==
  IF IsInt(v) THEN {Cast("BOOL", v.n, Int32)}
  ELSE IF IsStr(v) /\ ~(v.word /\ v.n = WordEmpty)
  THEN {Gvar("BOOL", IF v.word /\ v.n = WordTrue THEN 1 ELSE 0)}
  ELSE Garbage("BOOL", {0, 1})

\* boolalpha reads "true"; any other text gives false, but an empty one nothing.
ToBool(v) ==
  IF IsInt(v) THEN {IF v.n \in Int32 THEN Gvar("BOOL", IF v.n = 0 THEN 0 ELSE 1) ELSE Raise}
  ELSE IF IsStr(v) /\ ~(v.word /\ v.n = WordEmpty)
  THEN {Gvar("BOOL", IF v.word /\ v.n = WordTrue THEN 1 ELSE 0)}
  ELSE Garbage("BOOL", {0, 1})

\* stod
ToFloat(v) ==
  IF IsInt(v) \/ v.cls = "float" THEN {Gvar("FLOAT", v.n)}
  ELSE IF IsStr(v) THEN {IF v.word THEN Raise ELSE Gvar("FLOAT", v.n)}
  ELSE Garbage("FLOAT", Number)

\* guint64 q = PyLong_AsLong(...), which is -1 with a Python error set out of range.
AsLong(n) == (IF n \in Long THEN n ELSE -1) % ULongMod

PairOfInts(v) == IsPair(v) /\ IsInt(v.kids[1]) /\ IsInt(v.kids[2])

\* Mutant: numerator and denominator swapped.
ToRationalSwapped(v) ==
  {IF PairOfInts(v) THEN GTuple(AsLong(v.kids[2].n), AsLong(v.kids[1].n)) ELSE Wild}

\* gvar stays uninitialised when the argument is no pair of ints.
ToRational(v) ==
  {IF PairOfInts(v) THEN GTuple(AsLong(v.kids[1].n), AsLong(v.kids[2].n)) ELSE Wild}

Converted(t, v) ==
  CASE t = "UINT64" -> ToUInt64(v)
    [] t = "INT32" -> ToInt32(v)
    [] t = "STRING" -> ToText(v)
    [] t = "BOOL" -> ToBool(v)
    [] t = "FLOAT" -> ToFloat(v)
    [] t = "RATIONAL" -> ToRational(v)
    [] OTHER -> {Wild}

LeavesError(t, v) ==
  t = "RATIONAL" /\ PairOfInts(v) /\ (v.kids[1].n \notin Long \/ v.kids[2].n \notin Long)

-----------------------------------------------------------------------------
(* The calls.                                                              *)

Calling(c) == fault = NoFault /\ call[c] = Idle

Returns(c, r) == call' = [call EXCEPT ![c] = Idle] /\ res' = r

\* set_value, up to the capabilities, which it asks for without the GIL.
SetValue(c, o, v) ==
  /\ Calling(c)
  /\ IF "SET" \in info[o].can
     THEN call' = [call EXCEPT ![c] = Frame("convert", o, v, NoGvar, FALSE)] /\ UNCHANGED res
     ELSE Returns(c, Done)
  /\ UNCHANGED <<info, stored, fault>>

\* Under the GIL.
Convert(c) ==
  LET f == call[c]
      t == info[f.opt].type
  IN
  /\ fault = NoFault /\ f.pc = "convert"
  /\ \E g \in Converted(t, f.arg) :
        IF g = Raise
        THEN Returns(c, Raised)
        ELSE /\ call' = [call EXCEPT ![c] = Frame("set", f.opt, f.arg, g, LeavesError(t, f.arg))]
             /\ UNCHANGED res
  /\ UNCHANGED <<info, stored, fault>>

(***************************************************************************)
(* sr_config_set, without the GIL.  The driver takes the value or refuses  *)
(* it.  With a Python error set, Python makes an exception of the return.  *)
(***************************************************************************)
DriverSet(c) ==
  LET f == call[c] IN
  /\ fault = NoFault /\ f.pc = "set"
  /\ IF f.gvar = Wild
     THEN Fault("set", f.opt, f.arg) /\ UNCHANGED <<stored, call, res>>
     ELSE /\ \/ /\ stored' = [stored EXCEPT ![f.opt] = f.gvar]
                /\ Returns(c, IF f.err THEN Raised ELSE Done)
             \/ Returns(c, Raised) /\ UNCHANGED stored
          /\ UNCHANGED fault
  /\ UNCHANGED info

\* A null handle is a TypeError.
Handed(c, g, r) == Returns(c, IF GvarToPy[g] = PyNull THEN Raised ELSE r)

\* g goes to Python as the object r; a hole in it ends the process.
HandOver(c, op, o, g, r) ==
  IF HasHole[g]
  THEN Fault(op, o, PyNull) /\ UNCHANGED <<call, res>>
  ELSE Handed(c, g, r) /\ UNCHANGED fault

DriverRefuses(c) == Returns(c, Raised) /\ UNCHANGED fault

\* Without the capability get_value and list return an uninitialised pointer.
GetValue(c, o) ==
  /\ Calling(c)
  /\ IF "GET" \in info[o].can
     THEN HandOver(c, "get", o, stored[o], GvarToPy[stored[o]]) \/ DriverRefuses(c)
     ELSE Fault("get", o, PyNull) /\ UNCHANGED <<call, res>>
  /\ UNCHANGED <<info, stored>>

\* The result of list keeps the GVariant it was made from.
Listed(g) == PyBox("listed", <<g, GvarToPy[g]>>)

\* What drivers offer for an option of type t.
Offers(t) == IF t = "OTHER" THEN Lists \cup OtherLists ELSE Lists

List(c, o) ==
  /\ Calling(c)
  /\ IF "LIST" \in info[o].can
     THEN (\E g \in Offers(info[o].type) : HandOver(c, "list", o, g, Listed(g))) \/ DriverRefuses(c)
     ELSE Fault("list", o, PyNull) /\ UNCHANGED <<call, res>>
  /\ UNCHANGED <<info, stored>>

(***************************************************************************)
(* SrpDriver::scan with a text for one of the driver's scan options.  A    *)
(* nullptr goes into the list of options as well.                          *)
(***************************************************************************)
Scan(c, o, v) ==
  /\ Calling(c) /\ IsStr(v)
  /\ IF ParseScanOpt(info[o].type, v) \in {Wild, NoGvar}
     THEN Fault("scan", o, v) /\ UNCHANGED <<call, res>>
     ELSE Returns(c, Done) /\ UNCHANGED fault
  /\ UNCHANGED <<info, stored>>

ConfigNext ==
  \E c \in Callers :
     \/ \E o \in Options :
           \/ GetValue(c, o) \/ List(c, o)
           \/ \E v \in Arguments : SetValue(c, o, v) \/ Scan(c, o, v)
     \/ Convert(c) \/ DriverSet(c)

ConfigSpec == ConfigInit /\ [][ConfigNext]_configVars

-----------------------------------------------------------------------------
(* Properties.                                                             *)

Calls ==
  {Idle}
  \cup [pc : {"convert"}, opt : Options, arg : Arguments, gvar : {NoGvar}, err : {FALSE}]
  \cup [pc : {"set"}, opt : Options, arg : Arguments, gvar : Gvars \cup {Wild}, err : BOOLEAN]

ConfigTypeOK ==
  /\ info \in [Options -> [type : Datatypes, can : Capabilities]]
  /\ stored \in [Options -> Gvars] /\ \A o \in Options : stored[o] \in Holds(info[o].type)
  /\ call \in [Callers -> Calls]
  /\ \A c \in Callers : LET f == call[c] IN
       f.pc = "set" => f.gvar \in Holds(info[f.opt].type) \cup {Wild}
  /\ fault \in [op : {"none", "get", "set", "list", "scan"}, opt : Options,
                arg : Arguments \cup {PyNull}]

(***************************************************************************)
(* A call that ends the process was a misuse that caps() or the datatype   *)
(* would have told: a get or list without the capability, an option of a   *)
(* datatype without conversion, a rational that is no pair of ints, or an  *)
(* empty or unreadable text for a scan.  A null item in a container counts *)
(* as the end of the process, and comes of those datatypes alone.          *)
(***************************************************************************)
FaultsAreMisuse ==
  LET t == info[fault.opt].type
      v == fault.arg
      empty == v.word /\ v.n = WordEmpty
  IN  CASE fault.op = "none" -> TRUE
        [] fault.op = "get" -> "GET" \notin info[fault.opt].can \/ t = "OTHER"
        [] fault.op = "list" -> "LIST" \notin info[fault.opt].can \/ t = "OTHER"
        [] fault.op = "set" -> t = "OTHER" \/ (t = "RATIONAL" /\ ~PairOfInts(v))
        [] OTHER -> \/ t = "OTHER"
                    \/ empty /\ t # "BOOL"
                    \/ t \in {"UINT64", "INT32", "RATIONAL"} /\ (v.word \/ v.n < 0)

(***************************************************************************)
(* The options are registers: whatever calls come between the steps of a   *)
(* set_value, get_value returns the meaning of the last argument that was  *)
(* taken, and a set_value that raises has changed nothing, if its argument *)
(* is one the datatype holds or refuses.                                   *)
(***************************************************************************)
Register == INSTANCE OptionRegister WITH
  value <- [o \in Options |-> GvarToPy[stored[o]]],
  asked <- [c \in Callers |-> IF call[c] = Idle THEN {} ELSE {<<call[c].opt, call[c].arg>>}]

RegisterSpec == Register!Spec

(***************************************************************************)
(* A numeral that set_value reads means the same to scan: scan's detour    *)
(* through an unsigned long keeps an INT32, and its detour through a float *)
(* moves a FLOAT only to the nearest float, if the numeral is none itself. *)
(***************************************************************************)
ScanAgrees ==
  \A o \in Options, n \in Number :
     LET t == info[o].type
         v == PyText(n, FALSE)
         scanned == ParseScanOpt(t, v)
     IN  (t \notin {"BOOL", "RATIONAL", "OTHER"} /\ Means(t, v) # {}) =>
             \/ scanned \in Converted(t, v)
             \/ /\ t = "FLOAT" /\ n \notin Singles
                /\ \A k \in Singles : Distance(scanned.n, n) <= Distance(k, n)
=============================================================================
