------------------------------- MODULE MCConfig -------------------------------
(* Values for the run of SrpConfig: numbers around each C type's limits, a   *)
(* few texts and tuples, and lists of the shapes libsigrok's drivers return. *)
EXTENDS SrpConfig, SequencesExt

MCInts == {-LongMax - 2, -1, IntMax + 1, ULongMod}

MCArguments ==
  {Py("int", n) : n \in MCInts} \cup {Py("bool", 0), Py("float", IntMax), Py("other", 0)}
  \cup {PyText(n, FALSE) : n \in {-1, 1}} \cup {PyText(w, TRUE) : w \in Words}
  \cup {PyBox("tuple", <<Py("int", 1), Py("int", q)>>) : q \in {2, LongMax + 1}}

MCScalars == UNION {Holds(t) : t \in Datatypes}

MCLists ==
  LET entry(k, v) == GBox("ENTRY", <<GText(k, TRUE), GBox("VARIANT", <<v>>)>>)
  IN  {GBox("DICT", <<entry(1, GBox("ARRAY", <<GTuple(1, 2), GTuple(2, 1)>>)),
                     entry(0, GTuple(3, 2))>>),
       GBox("TUPLE", <<Gvar("FLOAT", 0),
                       GBox("ARRAY", <<Gvar("UINT64", ULongMod - 1), Gvar("UINT64", 1)>>),
                       GBox("ARRAY", <<Gvar("BOOL", 1), Gvar("INT32", -1)>>)>>)}

\* The measured quantities a meter can be set to, and their flags; and a lone UINT32.
MCOtherLists ==
  {GBox("ARRAY", <<GBox("TUPLE", <<Gvar("OTHER", 0), Gvar("UINT64", 0)>>)>>), Gvar("OTHER", 0)}

RECURSIVE Below(_)
Below(g) == {g} \cup UNION {Below(g.kids[i]) : i \in DOMAIN g.kids}

MCGvars == MCScalars \cup UNION {Below(g) : g \in MCLists \cup MCOtherLists}

\* Floats have a significand of two bits: 5 and 7 are none.
MCSingles == {n \in Number : n \in -4 .. 4 \/ n % 2 = 0}

\* Drivers start with a value near the start of the range, or with the empty text.
MCInitially ==
  {g \in MCScalars : g.type \notin {"STRING", "TUPLE"} /\ g.n = 0}
  \cup {GText(WordEmpty, TRUE), GTuple(1, 2)} \cup Holds("OTHER")

\* An option of a device that can do everything, and one of a driver, which can nothing.
MCCapabilities == {{"GET", "SET", "LIST"}, {}}

MCSymmetry == Permutations(Callers)

RECURSIVE Leaves(_)
Leaves(x) ==
  IF x.kids = <<>> THEN <<x>> ELSE FlattenSeq([i \in DOMAIN x.kids |-> Leaves(x.kids[i])])

\* What Python knows each of C's types as.
KnownAs == [str |-> {"STRING"}, int |-> {"UINT64", "INT32"}, bool |-> {"BOOL"}, float |-> {"FLOAT"}]

(***************************************************************************)
(* list() loses nothing of what the driver offers and changes nothing: the *)
(* leaves of the Python object are as many as the GVariant's and in their  *)
(* order, whatever containers they came in, and each has the number or the *)
(* text of its GVariant in the Python class for its type.                  *)
(***************************************************************************)
ListsComplete ==
  res.cls = "listed" =>
     LET offered == Leaves(res.kids[1])
         listed == Leaves(res.kids[2])
     IN  /\ Len(listed) = Len(offered)
         /\ \A i \in DOMAIN offered :
              /\ listed[i].cls \in DOMAIN KnownAs /\ offered[i].type \in KnownAs[listed[i].cls]
              /\ listed[i].n = offered[i].n /\ listed[i].word = offered[i].word
=============================================================================
