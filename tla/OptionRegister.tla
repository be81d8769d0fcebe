--------------------------- MODULE OptionRegister ---------------------------
(***************************************************************************)
(* What the options of a device promise to Python: each is a register that *)
(* takes its value between the call of set_value and its return, once, and *)
(* get_value returns the value it has.  The value is the Python object     *)
(* that the argument means for the option's datatype; an argument outside  *)
(* it is refused and changes nothing.  Of arguments that are neither (the  *)
(* wrong class, a text or tuple out of range) nothing is promised but that *)
(* they touch no other option.                                             *)
(***************************************************************************)
EXTENDS SrpValues

CONSTANTS
  Callers, Options,
  Arguments  \* bound: what callers pass to set_value

VARIABLES
  info,   \* datatype and capabilities of each option
  value,  \* what get_value returns
  asked,  \* the option and argument of each set_value in progress
  res     \* how the last call to return ended

Init ==
  /\ value \in [Options -> {GvarToPy[g] : g \in Gvars}]
  /\ asked = [c \in Callers |-> {}]
  /\ res = Done

\* A set_value of an option that cannot be set does nothing.
Ask(c, o, v) ==
  /\ asked[c] = {}
  /\ IF "SET" \in info[o].can
     THEN asked' = [asked EXCEPT ![c] = {<<o, v>>}] /\ UNCHANGED res
     ELSE res' = Done /\ UNCHANGED asked
  /\ UNCHANGED <<info, value>>

Answers(c, r) == res' = r /\ asked' = [asked EXCEPT ![c] = {}] /\ UNCHANGED info

Take(c) ==
  \E a \in asked[c] : \E w \in Means(info[a[1]].type, a[2]) :
     Answers(c, Done) /\ value' = [value EXCEPT ![a[1]] = w]

Refuse(c) == asked[c] # {} /\ Answers(c, Raised) /\ UNCHANGED value

Unpromised(c) ==
  \E a \in asked[c] :
     LET t == info[a[1]].type IN
     /\ Means(t, a[2]) = {} /\ ~Refuses(t, a[2])
     /\ \E r \in {Done, Raised} : Answers(c, r)
     /\ \E g \in Holds(t) : value' = [value EXCEPT ![a[1]] = GvarToPy[g]]

Get(c, o) ==
  /\ asked[c] = {} /\ "GET" \in info[o].can
  /\ res' \in ({value[o]} \ {PyNull}) \cup {Raised}
  /\ UNCHANGED <<info, value, asked>>

\* list and scan leave the options alone; a list is not a value.
Look(c) ==
  /\ asked[c] = {} /\ res'.cls \in {"done", "raised", "listed"}
  /\ UNCHANGED <<info, value, asked>>

vars == <<info, value, asked, res>>

Next ==
  \E c \in Callers :
     \/ Look(c) \/ Take(c) \/ Refuse(c) \/ Unpromised(c)
     \/ \E o \in Options : Get(c, o) \/ \E v \in Arguments : Ask(c, o, v)

Spec == Init /\ [][Next]_vars
=============================================================================
