------------------------------ MODULE SrpValues ------------------------------
(***************************************************************************)
(* What crosses the border between Python and libsigrok: Python objects,   *)
(* GVariants, and the conversions of utils.hpp between them.  A text is    *)
(* the decimal numeral of a number or one of a few words; numbers keep     *)
(* their C width, with bounds small enough to be passed.                   *)
(***************************************************************************)
EXTENDS Integers, Sequences

CONSTANTS
  IntMax, LongMax,  \* INT_MAX and LONG_MAX
  Singles,          \* bound: the doubles that are floats as well
  Words,            \* bound: the texts that are no numerals
  Gvars             \* bound: the GVariants that exist, with all their children

ULongMod == 2 * (LongMax + 1)
Int32  == -(IntMax + 1) .. IntMax
Long   == -(LongMax + 1) .. LongMax
UInt64 == 0 .. ULongMod - 1
Number == -ULongMod .. ULongMod    \* bound: of Python's integers, each a double here

\* The words that matter.
WordFalse == 0
WordTrue  == 1
WordEmpty == 2

ASSUME WidthAssumption ==
  /\ IntMax \in Nat /\ LongMax \in Nat /\ IntMax <= LongMax
  /\ (LongMax + 1) % (IntMax + 1) = 0    \* both are powers of two
  /\ {WordFalse, WordTrue, WordEmpty} \subseteq Words /\ Words \subseteq Nat
  /\ Singles \subseteq Number /\ 0 \in Singles

\* Mutant: the number is passed on as it is.
NoWrap(n) == n

\* (int32_t) n
WrapInt32(n) == ((n + IntMax + 1) % (2 * (IntMax + 1))) - (IntMax + 1)

Distance(m, n) == IF m < n THEN n - m ELSE m - n

\* strtof: the float that is nearest.
Strtof ==
  [n \in Number |-> CHOOSE m \in Singles : \A k \in Singles : Distance(m, n) <= Distance(k, n)]

(***************************************************************************)
(* A GVariant: its type, its number (a BOOL is 0 or 1), whether its text   *)
(* is a word, its children.  "OTHER" stands for the types gvar_to_py has   *)
(* no branch for, such as UINT32.                                          *)
(***************************************************************************)
Gvar(type, n) == [type |-> type, n |-> n, word |-> FALSE, kids |-> <<>>]
GText(n, word) == [type |-> "STRING", n |-> n, word |-> word, kids |-> <<>>]
GBox(type, kids) == [type |-> type, n |-> 0, word |-> FALSE, kids |-> kids]
GTuple(p, q) == GBox("TUPLE", <<Gvar("UINT64", p), Gvar("UINT64", q)>>)

\* A Python object; cls "null" is a NULL PyObject*.  A bool is an int too, as in Python.
Py(cls, n) == [cls |-> cls, n |-> n, word |-> FALSE, kids |-> <<>>]
PyText(n, word) == [cls |-> "str", n |-> n, word |-> word, kids |-> <<>>]
PyBox(cls, kids) == [cls |-> cls, n |-> 0, word |-> FALSE, kids |-> kids]
PyNull == Py("null", 0)

Texts == [word : {FALSE}, n : Number] \cup [word : {TRUE}, n : Words]

IsInt(v) == v.cls \in {"int", "bool"}
IsStr(v) == v.cls = "str"
IsPair(v) == v.cls = "tuple" /\ Len(v.kids) = 2

(***************************************************************************)
(* sr_key_info.datatype, and what an option of each holds in the driver.   *)
(* "OTHER" are the datatypes set_value and scan do not convert; they come  *)
(* as a UINT32, as the (ut) tuple of a measured quantity, as a range.      *)
(***************************************************************************)
Datatypes == {"UINT64", "INT32", "STRING", "BOOL", "FLOAT", "RATIONAL", "OTHER"}

Holds(t) ==
  CASE t = "UINT64" -> {Gvar("UINT64", n) : n \in UInt64}
    [] t = "INT32" -> {Gvar("INT32", n) : n \in Int32}
    [] t = "STRING" -> {GText(x.n, x.word) : x \in Texts}
    [] t = "BOOL" -> {Gvar("BOOL", n) : n \in {0, 1}}
    [] t = "FLOAT" -> {Gvar("FLOAT", n) : n \in Number}
    [] t = "RATIONAL" -> {GTuple(p, q) : p, q \in UInt64}
    [] OTHER -> {Gvar("OTHER", 0), GTuple(0, 1),
                 GBox("TUPLE", <<Gvar("OTHER", 0), Gvar("UINT64", 0)>>)}

-----------------------------------------------------------------------------
(* gvar_to_py.  LeafToPy is its last part, the types that are no containers.*)

LeafClasses ==
  [STRING |-> "str", UINT64 |-> "int", INT32 |-> "int", BOOL |-> "bool", FLOAT |-> "float"]

\* Mutant: a UINT64 goes through a long.
LeafSigned(g) ==
  CASE g.type = "UINT64" -> Py("int", IF g.n > LongMax THEN g.n - ULongMod ELSE g.n)
    [] g.type \in DOMAIN LeafClasses \ {"UINT64"} ->
         [cls |-> LeafClasses[g.type], n |-> g.n, word |-> g.word, kids |-> <<>>]
    [] OTHER -> PyNull

LeafToPy(g) ==
  IF g.type \in DOMAIN LeafClasses
  THEN [cls |-> LeafClasses[g.type], n |-> g.n, word |-> g.word, kids |-> <<>>]
  ELSE PyNull

\* An ENTRY outside a DICT has no branch.
ContainerClasses ==
  [VARIANT |-> "unboxed", TUPLE |-> "tuple", DICT |-> "dict", ARRAY |-> "list", ENTRY |-> "null"]

(***************************************************************************)
(* What gvar_to_py makes of g when conv is what it makes of g's children.  *)
(* The kids of a DICT are its entries; a Python dict is kept as the pairs  *)
(* of its keys and values.                                                 *)
(***************************************************************************)
ToPy(g, conv) ==
  LET class == ContainerClasses[g.type]
      items == [i \in DOMAIN g.kids |-> conv[g.kids[i]]]
      pair(e) == PyBox("tuple", <<conv[e.kids[1]], conv[e.kids[2]]>>)
  IN  IF g.type \notin DOMAIN ContainerClasses THEN LeafToPy(g)
      ELSE CASE class = "unboxed" -> items[1]
             [] class \in {"tuple", "list"} -> PyBox(class, items)
             [] class = "dict" -> PyBox("dict", [i \in DOMAIN g.kids |-> pair(g.kids[i])])
             [] class = "null" -> PyNull

GvarToPy[g \in Gvars] == ToPy(g, GvarToPy)

(***************************************************************************)
(* An item that comes out null is put into its container all the same: a   *)
(* hole, at whatever depth.  PyDict_SetItem follows it at once, Python as  *)
(* soon as it reads the item of a tuple or list.  hole tells it of g's     *)
(* children.                                                               *)
(***************************************************************************)
HoleIn(g, hole) ==
  LET bad(kid) == GvarToPy[kid] = PyNull \/ hole[kid]
  IN  CASE g.type = "VARIANT" -> hole[g.kids[1]]
        [] g.type \in {"TUPLE", "ARRAY"} -> \E i \in DOMAIN g.kids : bad(g.kids[i])
        [] g.type = "DICT" ->
             \E i \in DOMAIN g.kids : bad(g.kids[i].kids[1]) \/ bad(g.kids[i].kids[2])
        [] OTHER -> FALSE

HasHole[g \in Gvars] == HoleIn(g, HasHole)

\* A GVariant is a finite tree: gvar_to_py returns, and the equations hold.
ASSUME TreeAssumption ==
  \A g \in Gvars : GvarToPy[g] = ToPy(g, GvarToPy) /\ HasHole[g] = HoleIn(g, HasHole)

-----------------------------------------------------------------------------
(* What libsigrok's parsers make of a text (external).                     *)

Err == Gvar("ERR", 0)

\* sr_parse_sizestring is strtoull: it wraps, saturates, and takes no text for 0.
SizeString(x) ==
  CASE x.word /\ x.n = WordEmpty -> Gvar("UINT64", 0)
    [] x.word /\ x.n # WordEmpty -> Err
    [] ~x.word /\ x.n < ULongMod -> Gvar("UINT64", x.n % ULongMod)
    [] OTHER -> Gvar("UINT64", ULongMod - 1)

\* sr_parse_boolstring: true, yes, on, 1.
BoolString(x) ==
  Gvar("BOOL", IF x.n = 1 THEN 1 ELSE 0)

\* sr_parse_period and sr_parse_voltage.
RationalString(x) == IF x.word \/ x.n < 0 THEN Err ELSE GTuple(x.n % ULongMod, 1)

-----------------------------------------------------------------------------
(* parse_scan_opts: the GVariant of a scan option, Wild when the struct is *)
(* handed over with its data uninitialised, NoGvar for a nullptr.          *)

Wild   == Gvar("WILD", 0)
NoGvar == Gvar("NONE", 0)

OrWild(g) == IF g = Err THEN Wild ELSE g

\* Mutant: an empty text is nothing for a BOOL either.
ParseNonEmpty(t, x) ==
  LET empty == x.word /\ x.n = WordEmpty
  IN  CASE t = "OTHER" \/ empty -> NoGvar
        [] t = "UINT64" -> OrWild(SizeString(x))
        [] t = "BOOL" -> BoolString(x)
        [] OTHER -> GText(x.n, x.word)

ParseScanOpt(t, x) ==
  LET empty == x.word /\ x.n = WordEmpty
  IN  CASE t = "OTHER" \/ (empty /\ t # "BOOL") -> NoGvar
        [] t = "UINT64" -> OrWild(SizeString(x))
        [] t = "INT32" -> LET g == SizeString(x) IN
                          IF g = Err THEN Wild ELSE Gvar("INT32", WrapInt32(g.n))
        [] t = "STRING" -> GText(x.n, x.word)
        [] t = "BOOL" -> IF empty THEN Gvar("BOOL", 1) ELSE BoolString(x)
        [] t = "FLOAT" -> Gvar("FLOAT", IF x.word THEN 0 ELSE Strtof[x.n])
        [] t = "RATIONAL" -> OrWild(RationalString(x))
-----------------------------------------------------------------------------
(* What set_value's arguments mean.                                        *)

\* How a call ended that returns no object.
Done   == Py("done", 0)
Raised == Py("raised", 0)

Numeric(v) == IsInt(v) \/ (IsStr(v) /\ ~v.word)

IsRational(v) == IsPair(v) /\ \A i \in {1, 2} : IsInt(v.kids[i]) /\ v.kids[i].n \in 0 .. LongMax

\* What v means for an option of type t.
Means(t, v) ==
  CASE t = "UINT64" /\ Numeric(v) /\ v.n \in UInt64 -> {Py("int", v.n)}
    [] t = "INT32" /\ Numeric(v) /\ v.n \in Int32 -> {Py("int", v.n)}
    [] t = "STRING" /\ IsStr(v) -> {v}
    [] t = "STRING" /\ IsInt(v) /\ v.n \in Int32 -> {PyText(v.n, FALSE)}
    [] t = "BOOL" /\ IsInt(v) /\ v.n \in Int32 -> {Py("bool", IF v.n = 0 THEN 0 ELSE 1)}
    [] t = "BOOL" /\ IsStr(v) /\ v.word /\ v.n \in {WordFalse, WordTrue} -> {Py("bool", v.n)}
    [] t = "FLOAT" /\ (Numeric(v) \/ v.cls = "float") -> {Py("float", v.n)}
    [] t = "RATIONAL" /\ IsRational(v) ->
         {PyBox("tuple", <<Py("int", v.kids[1].n), Py("int", v.kids[2].n)>>)}
    [] OTHER -> {}

\* What an option of type t cannot hold, and says so.
Refuses(t, v) ==
  \/ t = "UINT64" /\ IsInt(v) /\ v.n \notin UInt64
  \/ t = "UINT64" /\ IsStr(v) /\ v.word /\ v.n # WordEmpty
  \/ t \in {"INT32", "STRING", "BOOL"} /\ IsInt(v) /\ v.n \notin Int32
  \/ t = "FLOAT" /\ IsStr(v) /\ v.word
=============================================================================
