------------------------------ MODULE MCLifetime ------------------------------
(***************************************************************************)
(* Root module of the run on SrpLifetime.  Sessions, drivers and devices   *)
(* are interchangeable, and the run checks invariants only.                *)
(***************************************************************************)
EXTENDS SrpLifetime, TLC

Symmetry == Permutations(Sessions) \cup Permutations(Drivers) \cup Permutations(Devices)
=============================================================================
