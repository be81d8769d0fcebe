------------------------------- MODULE MCSizes -------------------------------
(* Values for the run of SrpSizes: options of 64 bits, scaled down.          *)
EXTENDS SrpSizes

MCArguments == {Py("int", n) : n \in {6, 30}}

MCGvars == UNION {Holds(t) : t \in Datatypes}

MCInitially == {Gvar("UINT64", n) : n \in {11}}

MCCapabilities == {{"GET", "SET"}, {"SET"}}
=============================================================================
