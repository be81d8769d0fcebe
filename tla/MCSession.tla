----------------------------- MODULE MCSession ------------------------------
(***************************************************************************)
(* SrpSession for TLC: the calls that the callers of a run make.           *)
(***************************************************************************)
EXTENDS SrpSessionProps

CaptureCalls == {"start_capture", "stop_capture", "add_device", "reset_device"}
SharedCalls == CaptureCalls \cup {"remove_storage", "destroy"}
AllCalls == SharedCalls \cup {"set_enabled"}
=============================================================================
