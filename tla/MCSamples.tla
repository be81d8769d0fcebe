----------------------------- MODULE MCSamples ------------------------------
(***************************************************************************)
(* SrpSamplesSegmented for TLC: channels 1 .. NumChannels.                 *)
(***************************************************************************)
EXTENDS SrpSamplesProps

CONSTANTS NumChannels

MCAnalog == [i \in 1 .. NumChannels |-> i]
=============================================================================
