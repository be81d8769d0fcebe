--------------------------- MODULE SrpSessionProps ---------------------------
(***************************************************************************)
(* Properties of SrpSession.                                               *)
(***************************************************************************)
EXTENDS SrpSession

(***************************************************************************)
(* Type invariant.                                                         *)
(***************************************************************************)
TypeOK ==
  /\ device_ \in Devices \cup {NoDevice}
  /\ opened \in [Devices -> BOOLEAN] /\ gone \in SUBSET Devices
  /\ srOpen \in [Devices -> BOOLEAN]
  /\ srDevs \in SUBSET Devices
  /\ srCallbacks \in Nat
  /\ storage_ \in [{NoStor} \cup StorId -> {NoStor} \cup StorId]
  /\ cur_storid_ \in {NoStor} \cup StorId
  /\ made \in 0 .. MaxStor
  /\ stor \in [StorId -> Storage]
  /\ capture_state_ \in {"Stopped", "Running"}
  /\ sampl_th_ \in {NoStor} \cup StorId
  /\ spc \in [StorId -> SamplingPoints]
  /\ acq \in [Devices -> {"off", "header", "data", "left"}]
  /\ acqEnabled \in BOOLEAN /\ stopAsked \in BOOLEAN /\ enabled \in BOOLEAN
  /\ failed \in SUBSET StorId
  /\ pc \in [Callers -> CallPoints]
  /\ ret \in [Callers -> {"idle", "add_assign", "destroy_session"}]
  /\ arg \in [Callers -> Devices \cup {NoDevice, NoStor} \cup StorId]
  /\ picked \in [Callers -> {"none", "with", "without", "many"}]
  /\ orderly \in BOOLEAN /\ captured \in BOOLEAN /\ added \in BOOLEAN
  /\ fault \in Faults

-----------------------------------------------------------------------------
\* A start_capture has a running thread that sampl_th_ does not hold yet (srpsession.cpp:181).
InHand == \E p \in Callers : pc[p] = "start_assign"

(***************************************************************************)
(* When sampl_th_ holds no thread and no start_capture has one to give it, *)
(* every capture is over, whoever joined it and whatever calls ran         *)
(* meanwhile: all sampling threads have ended, the state is back to        *)
(* Stopped, and no driver sends packets.  ("left" is what an error of      *)
(* sr_session_run leaves.)  While InHand, a stop_capture finds nothing to  *)
(* join and returns with that capture going on.                            *)
(***************************************************************************)
JoinedIsOver ==
  sampl_th_ = NoStor /\ ~InHand =>
     /\ capture_state_ = "Stopped"
     /\ \A t \in StorId : spc[t] \in {"none", "ended"}
     /\ \A d \in Devices : acq[d] \in {"off", "left"}

(***************************************************************************)
(* Calls in order never end the process, but for one thing: no thread is   *)
(* overwritten, no null storage, channel, segment or device is followed,   *)
(* no storage sees two headers, wherever the sampling thread stands when a *)
(* call comes.  What they cannot prevent is a device that libsigrok could  *)
(* not open: add_device swallows the error, and ~SrpDevice ends the        *)
(* process for it (srpdevice.cpp:51, 74).                                  *)
(***************************************************************************)
OrderlyIsSafe ==
  orderly =>
     \/ fault = "none"
     \/ fault = "close_throws" /\ \E d \in Devices : opened[d] /\ ~srOpen[d]

(***************************************************************************)
(* After calls in order every storage that was fed has got its feed_end    *)
(* between captures, so its data thread ends and it can be destroyed.  A   *)
(* capture that libsigrok gave up with an error sends none.                *)
(***************************************************************************)
StoragesComplete ==
  orderly /\ sampl_th_ = NoStor /\ ~InHand =>
     \A s \in StorId \ failed : stor[s].thread = "alive" => stor[s].acqDone

(***************************************************************************)
(* "create new storage every new acquisition" (srpsession.cpp:178): a      *)
(* storage never holds samples of two acquisitions, after calls in order.  *)
(***************************************************************************)
StoragePerAcquisition ==
  orderly => \A s \in StorId : stor[s].fedBy \subseteq {s}

-----------------------------------------------------------------------------
(***************************************************************************)
(* A stop_capture that found a capture running comes back, as long as the  *)
(* drivers stop when asked and no other thread has started the next        *)
(* capture before it joins.  (One that finds it Stopped, or joins the next *)
(* one, waits for the sampling thread without having asked.)               *)
(***************************************************************************)
StopReturns ==
  \A p \in Callers, t \in StorId :
     pc[p] = "stop_session" /\ capture_state_ = "Running" /\ sampl_th_ = t ~>
        \/ pc[p] \notin {"stop_session", "stop_join", "stop_wait"}
        \/ sampl_th_ # t \/ fault # "none"

(***************************************************************************)
(* Removing a storage and destroying the session, which wait for data      *)
(* threads under the GIL, come back after calls in order, unless libsigrok *)
(* gave up a capture with an error: its data thread is never told to end.  *)
(***************************************************************************)
JoinsReturn ==
  \A p \in Callers :
     /\ orderly /\ pc[p] = "drop_storage" /\ arg[p] \notin failed ~>
          pc[p] = "idle" \/ fault # "none"
     /\ orderly /\ pc[p] = "destroy_storages" /\ failed = {} ~>
          pc[p] = "destroyed" \/ fault # "none"
=============================================================================
