----------------------------- MODULE SrpSession -----------------------------
(***************************************************************************)
(* srp::SrpSession (srpsession.cpp): one capture session.                  *)
(*   - Python threads call it.  The bindings release the GIL during        *)
(*     start_capture, stop_capture and add_device (srpy.cpp:33-35), so     *)
(*     those calls interleave with every other one; the rest run under it. *)
(*   - start_capture makes a storage and a sampling thread, which runs     *)
(*     sr_session_start and sr_session_run and, inside them, the datafeed  *)
(*     callback for each packet a device's driver sends.  The storage and  *)
(*     the thread of a start_capture go by its number, `made`: two threads *)
(*     can be there while one is on its way to sampl_th_.                  *)
(*   - Each storage has a data thread of its own (SrpSamplesSegmented)     *)
(*     from feed_header until it has seen feed_end.                        *)
(* libsigrok's session is outside: its devices, its callbacks, and the     *)
(* acquisition of each device.  A step that ends the process sets `fault`. *)
(***************************************************************************)
EXTENDS Integers, FiniteSets

CONSTANTS
  Callers,       \* Python threads
  Devices,
  NoDevice,      \* the null device_
  Sized,         \* devices with a buffersize or a samplerate option
  FewChannels,   \* devices with no more analog channels than a storage's pool serves
  Calls,         \* bound: the calls that are made
  MaxStor,       \* bound: ids drawn in the life of the session; then nobody calls start_capture
  MaxCallbacks   \* bound: no disorderly add_device with more callbacks than that

ASSUME SessionAssumption ==
  /\ NoDevice \notin Devices
  /\ Sized \subseteq Devices /\ FewChannels \subseteq Devices
  /\ MaxStor \in Nat /\ MaxCallbacks \in Nat

StorId == 1 .. MaxStor
NoStor == 0                    \* the empty cur_storid_, the null storage, the empty sampl_th_

VARIABLES
  device_, capture_state_,
  storage_,      \* the map, from ids to the storages made by start_captures
  cur_storid_,
  made,          \* ids drawn so far
  enabled,       \* is the channel the drivers sample enabled?
  opened,        \* device_open_ of each device
  gone,          \* devices whose SrpDevice was destroyed while they were open
  sampl_th_,     \* the thread it holds
  spc,           \* sampling threads: point
  pc, ret, arg,  \* callers: point, where stop_capture returns to, device or storage at hand
  picked,        \* callers: the channels new_storage has found
  stor,          \* each storage: its channel, its data thread, who fed it
  srOpen, srDevs, srCallbacks, acq, acqEnabled, stopAsked,   \* libsigrok
  failed,        \* storages whose capture libsigrok gave up with an error once it had begun
  orderly,          \* do the callers keep to the order that Alone and Quiet state?
  captured, added,  \* what orderly callers remember: capture not stopped, device not reset
  fault

devVars  == <<device_, opened, gone, srOpen, srDevs, srCallbacks>>
storVars == <<storage_, cur_storid_, made, stor>>
sampVars == <<capture_state_, sampl_th_, spc>>
acqVars  == <<acq, acqEnabled, stopAsked, failed>>
argVars  == <<ret, arg, picked>>
useVars  == <<orderly, captured, added>>
vars == <<devVars, storVars, sampVars, acqVars, enabled, pc, argVars, useVars, fault>>

CallPoints ==
  {"idle", "start_device", "start_state", "start_channels", "start_storid", "start_bufsize",
   "start_emplace", "start_thread", "start_assign",
   "stop_state", "stop_session", "stop_join", "stop_wait",
   "add_assign", "add_open", "add_session", "add_callback", "drop_storage",
   "destroy_session", "destroy_storages", "destroy_device", "destroyed"}
SamplingPoints == {"none", "start", "header", "set_running", "run", "set_stopped", "ended"}
InLibsigrok == {"header", "set_running", "run"}
Faults == {"none", "thread_overwritten", "joined_twice", "null_device", "null_option",
           "null_segment", "null_storage", "null_channel", "header_twice", "close_throws"}

\* A storage: its channel, its data thread, the acquisitions that fed it.
Storage == [hasChannel : BOOLEAN, thread : {"none", "alive", "ended"},
            acqDone : BOOLEAN, fedBy : SUBSET StorId]
NewStorage(ch) == [hasChannel |-> ch, thread |-> "none", acqDone |-> TRUE, fedBy |-> {}]

Init ==
  /\ device_ = NoDevice
  /\ opened = [d \in Devices |-> FALSE] /\ gone = {}
  /\ srOpen = [d \in Devices |-> FALSE]
  /\ srDevs = {} /\ srCallbacks = 0
  /\ storage_ = [k \in {NoStor} \cup StorId |-> NoStor] /\ cur_storid_ = NoStor /\ made = 0
  /\ stor = [s \in StorId |-> NewStorage(FALSE)]
  /\ capture_state_ = "Stopped" /\ sampl_th_ = NoStor /\ spc = [t \in StorId |-> "none"]
  /\ acq = [d \in Devices |-> "off"] /\ acqEnabled = FALSE /\ stopAsked = FALSE /\ failed = {}
  /\ enabled = TRUE
  /\ pc = [p \in Callers |-> "idle"]
  /\ ret = [p \in Callers |-> "idle"]
  /\ arg = [p \in Callers |-> NoDevice]
  /\ picked = [p \in Callers |-> "none"]
  /\ orderly \in BOOLEAN /\ captured = FALSE /\ added = FALSE
  /\ fault = "none"

-----------------------------------------------------------------------------
(* Calls.                                                                  *)

CallAt(p, from, to) == fault = "none" /\ pc[p] = from /\ pc' = [pc EXCEPT ![p] = to]

(***************************************************************************)
(* A call starts under the GIL, which a caller destroying a storage or the *)
(* session keeps.  After the destructor nobody has the session.            *)
(***************************************************************************)
GilFree ==
  \A q \in Callers :
     /\ pc[q] \notin {"drop_storage", "destroy_session", "destroy_storages", "destroy_device",
                     "destroyed"}
     /\ pc[q] # "idle" => ret[q] # "destroy_session"

(***************************************************************************)
(* Orderly callers make one call at a time.  They stop a capture before    *)
(* they start another, reset a device, enable a channel or remove a        *)
(* storage; reset the device before they add another, and only when        *)
(* session.device is one; and add only devices with a buffersize or        *)
(* samplerate option and channels that a storage's pool can serve.         *)
(***************************************************************************)
Alone(p) == orderly => \A q \in Callers \ {p} : pc[q] = "idle"
Quiet == orderly => ~captured
Looks == orderly => device_ # NoDevice
Suits(d) == orderly => d \in Sized \cap FewChannels

Call(p, to) ==
  /\ GilFree
  /\ Alone(p)
  /\ CallAt(p, "idle", to)

\* start_capture.
StartCapture(p) ==
  /\ made < MaxStor
  /\ Quiet
  /\ Call(p, "start_device")
  /\ captured' = orderly
  /\ UNCHANGED <<devVars, storVars, sampVars, acqVars, enabled, argVars, orderly, added, fault>>

\* if (!device_) return
StartDevice(p) ==
  /\ CallAt(p, "start_device", IF device_ = NoDevice THEN "idle" ELSE "start_state")
  /\ UNCHANGED <<devVars, storVars, sampVars, acqVars, enabled, argVars, useVars, fault>>

\* if (get_capture_state() != Stopped) return
StartState(p) ==
  /\ CallAt(p, "start_state", IF capture_state_ = "Stopped" THEN "start_channels" ELSE "idle")
  /\ UNCHANGED <<devVars, storVars, sampVars, acqVars, enabled, argVars, useVars, fault>>

(***************************************************************************)
(* new_storage, without the GIL: the channels enabled now...               *)
(***************************************************************************)
StartChannels(p) ==
  /\ CallAt(p, "start_channels", "start_storid")
  /\ device_ # NoDevice
  /\ \/ picked' = [picked EXCEPT ![p] = IF enabled THEN "with" ELSE "without"]
     \/ device_ \notin FewChannels /\ picked' = [picked EXCEPT ![p] = "many"]
  /\ UNCHANGED <<devVars, storVars, sampVars, acqVars, enabled, ret, arg, useVars, fault>>

\* device_ has been reset since it was looked at, and is followed.
StartChannelsNull(p) ==
  /\ CallAt(p, "start_channels", "start_channels")
  /\ device_ = NoDevice
  /\ fault' = "null_device"
  /\ UNCHANGED <<devVars, storVars, sampVars, acqVars, enabled, argVars, useVars>>

\* Mutant: new_storage keeps the current id when there is one.
KeepStorId(p) ==
  /\ CallAt(p, "start_storid", "start_bufsize")
  /\ made < MaxStor
  /\ made' = made + 1
  /\ cur_storid_' = IF cur_storid_ = NoStor THEN made' ELSE cur_storid_
  /\ arg' = [arg EXCEPT ![p] = made']
  /\ UNCHANGED <<devVars, storage_, stor, sampVars, acqVars, enabled, ret, picked, useVars, fault>>

\* ...cur_storid_ = mcuuid(), for all callers...
StartStorId(p) ==
  /\ CallAt(p, "start_storid", "start_bufsize")
  /\ made < MaxStor
  /\ made' = made + 1
  /\ cur_storid_' = made'
  /\ arg' = [arg EXCEPT ![p] = made']
  /\ UNCHANGED <<devVars, storage_, stor, sampVars, acqVars, enabled, ret, picked, useVars, fault>>

\* ...device_->get_buf_size()...
StartBufsize(p) ==
  /\ CallAt(p, "start_bufsize", "start_emplace")
  /\ device_ \in Sized
  /\ UNCHANGED <<devVars, storVars, sampVars, acqVars, enabled, argVars, useVars, fault>>

\* (which throws out of start_capture when the driver has no value for the option: the new
\* id stays behind as the current one, without a storage)
StartBufsizeThrows(p) ==
  /\ CallAt(p, "start_bufsize", "idle")
  /\ device_ \in Sized
  /\ arg' = [arg EXCEPT ![p] = NoDevice]
  /\ picked' = [picked EXCEPT ![p] = "none"]
  /\ captured' = (captured /\ sampl_th_ # NoStor)
  /\ UNCHANGED <<devVars, storVars, sampVars, acqVars, enabled, ret, orderly, added, fault>>

\* (and follows device_, or the option of a device that has none, when it is null)
StartBufsizeNull(p) ==
  /\ CallAt(p, "start_bufsize", "start_bufsize")
  /\ device_ \notin Sized
  /\ fault' = IF device_ = NoDevice THEN "null_device" ELSE "null_option"
  /\ UNCHANGED <<devVars, storVars, sampVars, acqVars, enabled, argVars, useVars>>

\* ...and the storage, under the id that is current by now, unless the map has one there.
StartEmplace(p) ==
  /\ CallAt(p, "start_emplace", "start_thread")
  /\ picked[p] # "many"
  /\ storage_' = [storage_ EXCEPT ![cur_storid_] = IF @ = NoStor THEN arg[p] ELSE @]
  /\ stor' = [stor EXCEPT ![arg[p]] = NewStorage(picked[p] = "with")]
  /\ picked' = [picked EXCEPT ![p] = "none"]
  /\ UNCHANGED <<devVars, cur_storid_, made, sampVars, acqVars, enabled, ret, arg, useVars, fault>>

\* A pool with less nodes than channels gives its constructor a null segment (SrpSizes).
StartEmplaceNull(p) ==
  /\ CallAt(p, "start_emplace", "start_emplace")
  /\ picked[p] = "many"
  /\ fault' = "null_segment"
  /\ UNCHANGED <<devVars, storVars, sampVars, acqVars, enabled, argVars, useVars>>

\* std::thread(&SrpSession::sampl_proc_th, this) runs from here on...
StartThread(p) ==
  /\ CallAt(p, "start_thread", "start_assign")
  /\ spc' = [spc EXCEPT ![arg[p]] = "start"]
  /\ UNCHANGED <<devVars, storVars, capture_state_, sampl_th_, acqVars, enabled, argVars, useVars,
                 fault>>

\* ...and sampl_th_ holds it, so that it can be joined, from here on.
StartAssign(p) ==
  /\ CallAt(p, "start_assign", "idle")
  /\ sampl_th_ = NoStor
  /\ sampl_th_' = arg[p]
  /\ arg' = [arg EXCEPT ![p] = NoDevice]
  /\ UNCHANGED <<devVars, storVars, capture_state_, spc, acqVars, enabled, ret, picked, useVars,
                 fault>>

\* Assigning to a thread that has not been joined ends the process.
StartAssignAgain(p) ==
  /\ CallAt(p, "start_assign", "start_assign")
  /\ sampl_th_ # NoStor
  /\ fault' = "thread_overwritten"
  /\ UNCHANGED <<devVars, storVars, sampVars, acqVars, enabled, argVars, useVars>>

-----------------------------------------------------------------------------
\* stop_capture, called by Python, by add_device and by the destructor.
StopCapture(p) ==
  /\ Call(p, "stop_state")
  /\ ret' = [ret EXCEPT ![p] = "idle"]
  /\ UNCHANGED <<devVars, storVars, sampVars, acqVars, enabled, arg, picked, useVars, fault>>

StopState(p) ==
  /\ CallAt(p, "stop_state", IF capture_state_ = "Stopped" THEN "stop_join" ELSE "stop_session")
  /\ UNCHANGED <<devVars, storVars, sampVars, acqVars, enabled, argVars, useVars, fault>>

\* Mutant: the acquisitions are not asked to end.
StopUnasked(p) ==
  /\ CallAt(p, "stop_session", "stop_join")
  /\ UNCHANGED <<devVars, storVars, sampVars, acqVars, enabled, argVars, useVars, fault>>

\* sr_session_stop asks the acquisitions in progress to end.
StopSession(p) ==
  /\ CallAt(p, "stop_session", "stop_join")
  /\ stopAsked' = (stopAsked \/ \E d \in Devices : acq[d] \in {"header", "data"})
  /\ UNCHANGED <<devVars, storVars, sampVars, acq, acqEnabled, failed, enabled, argVars, useVars,
                 fault>>

\* Mutant: a capture found stopped is not waited for.
JoinIfRunning(p) ==
  /\ CallAt(p, "stop_join",
            IF sampl_th_ # NoStor /\ capture_state_ # "Stopped" THEN "stop_wait" ELSE ret[p])
  /\ ret' = [ret EXCEPT ![p] = IF pc'[p] = "stop_wait" THEN @ ELSE "idle"]
  /\ captured' = (captured /\ capture_state_ # "Stopped")
  /\ UNCHANGED <<devVars, storVars, sampVars, acqVars, enabled, arg, picked, orderly, added, fault>>

\* if (sampl_th_.joinable())
StopJoinable(p) ==
  /\ CallAt(p, "stop_join", IF sampl_th_ = NoStor THEN ret[p] ELSE "stop_wait")
  /\ ret' = [ret EXCEPT ![p] = IF sampl_th_ = NoStor THEN "idle" ELSE @]
  /\ captured' = (captured /\ sampl_th_ # NoStor)
  /\ UNCHANGED <<devVars, storVars, sampVars, acqVars, enabled, arg, picked, orderly, added, fault>>

\* Mutant: the thread is let go instead of joined.
StopDetach(p) ==
  /\ CallAt(p, "stop_wait", ret[p])
  /\ sampl_th_ # NoStor
  /\ sampl_th_' = NoStor
  /\ captured' = FALSE
  /\ ret' = [ret EXCEPT ![p] = "idle"]
  /\ UNCHANGED <<devVars, storVars, capture_state_, spc, acqVars, enabled, arg, picked, orderly,
                 added, fault>>

\* sampl_th_.join()
StopJoin(p) ==
  /\ CallAt(p, "stop_wait", ret[p])
  /\ sampl_th_ # NoStor /\ spc[sampl_th_] = "ended"
  /\ sampl_th_' = NoStor
  /\ captured' = FALSE
  /\ ret' = [ret EXCEPT ![p] = "idle"]
  /\ UNCHANGED <<devVars, storVars, capture_state_, spc, acqVars, enabled, arg, picked, orderly,
                 added, fault>>

\* Another caller has joined the thread since, which is undefined.
StopJoinAgain(p) ==
  /\ CallAt(p, "stop_wait", "stop_wait")
  /\ sampl_th_ = NoStor
  /\ fault' = "joined_twice"
  /\ UNCHANGED <<devVars, storVars, sampVars, acqVars, enabled, argVars, useVars>>

-----------------------------------------------------------------------------
\* add_device(d): stop_capture first.
AddDevice(p, d) ==
  /\ d \notin gone
  /\ Suits(d)
  /\ orderly => ~added
  /\ ~orderly => srCallbacks <= MaxCallbacks
  /\ Call(p, "stop_state")
  /\ ret' = [ret EXCEPT ![p] = "add_assign"]
  /\ arg' = [arg EXCEPT ![p] = d]
  /\ added' = orderly
  /\ UNCHANGED <<devVars, storVars, sampVars, acqVars, enabled, picked, orderly, captured, fault>>

\* device_ = std::move(device)
AddAssign(p) ==
  /\ CallAt(p, "add_assign", "add_open")
  /\ device_' = arg[p]
  /\ UNCHANGED <<opened, gone, srOpen, srDevs, srCallbacks, storVars, sampVars, acqVars, enabled,
                 argVars, useVars, fault>>

(***************************************************************************)
(* device_->open(), where an error of sr_dev_open is printed and           *)
(* device_open_ set all the same.                                          *)
(***************************************************************************)
AddOpen(p) ==
  /\ CallAt(p, "add_open", "add_session")
  /\ device_ # NoDevice
  /\ opened[device_] => srOpen[device_]
  /\ opened' = [opened EXCEPT ![device_] = TRUE]
  /\ \E ok \in BOOLEAN : srOpen' = [srOpen EXCEPT ![device_] = ok]
  /\ UNCHANGED <<device_, gone, srDevs, srCallbacks, storVars, sampVars, acqVars, enabled, argVars,
                 useVars, fault>>

\* open() first closes an open device; the error of closing a closed one resets device_.
AddOpenThrows(p) ==
  /\ CallAt(p, "add_open", "add_callback")
  /\ device_ # NoDevice
  /\ opened[device_] /\ ~srOpen[device_]
  /\ device_' = NoDevice
  /\ UNCHANGED <<opened, gone, srOpen, srDevs, srCallbacks, storVars, sampVars, acqVars, enabled,
                 argVars, useVars, fault>>

\* sr_session_dev_add refuses a device the session has; then device_ is reset.
AddToSession(p) ==
  /\ CallAt(p, "add_session", "add_callback")
  /\ device_ # NoDevice
  /\ device_' = IF device_ \in srDevs THEN NoDevice ELSE device_
  /\ srDevs' = srDevs \cup {device_}
  /\ UNCHANGED <<opened, gone, srOpen, srCallbacks, storVars, sampVars, acqVars, enabled, argVars,
                 useVars, fault>>

\* device_ has been reset since it was set.
AddNull(p) ==
  /\ \/ CallAt(p, "add_open", "add_open")
     \/ CallAt(p, "add_session", "add_session")
  /\ device_ = NoDevice
  /\ fault' = "null_device"
  /\ UNCHANGED <<devVars, storVars, sampVars, acqVars, enabled, argVars, useVars>>

\* The callback is added whether or not the device was.
AddCallback(p) ==
  /\ CallAt(p, "add_callback", "idle")
  /\ srCallbacks' = srCallbacks + 1
  /\ arg' = [arg EXCEPT ![p] = NoDevice]
  /\ UNCHANGED <<device_, opened, gone, srOpen, srDevs, storVars, sampVars, acqVars, enabled, ret,
                 picked, useVars, fault>>

(***************************************************************************)
(* reset_device, one step under the GIL.  When device_open_ is set for a   *)
(* device that is not open, close() throws and the rest is not done.       *)
(***************************************************************************)
ResetDevice(p) ==
  /\ Quiet /\ Looks
  /\ Call(p, "idle")
  /\ device_ # NoDevice
  /\ opened[device_] => srOpen[device_]
  /\ opened' = [opened EXCEPT ![device_] = FALSE]
  /\ srOpen' = [srOpen EXCEPT ![device_] = FALSE]
  /\ device_' = NoDevice
  /\ srDevs' = {}
  /\ srCallbacks' = 0
  /\ added' = FALSE
  /\ UNCHANGED <<gone, storVars, sampVars, acqVars, enabled, argVars, orderly, captured, fault>>

\* reset_device looks into device_ without asking whether there is one.
ResetNoDevice(p) ==
  /\ Quiet /\ Looks
  /\ Call(p, "idle")
  /\ device_ = NoDevice
  /\ fault' = "null_device"
  /\ UNCHANGED <<devVars, storVars, sampVars, acqVars, enabled, argVars, useVars>>

\* SrpChannel::set_enabled on the channel the drivers sample.
SetEnabled(p) ==
  /\ Quiet
  /\ Call(p, "idle")
  /\ enabled' = ~enabled
  /\ UNCHANGED <<devVars, storVars, sampVars, acqVars, argVars, useVars, fault>>

\* ~SrpSamplesSegmented joins the storage's data thread.
CanDestroy(s) == s # NoStor => stor[s].thread # "alive"

Destroyed(ss) ==
  /\ stor' = [s \in StorId |-> IF s \in ss THEN NewStorage(FALSE) ELSE stor[s]]
  /\ failed' = failed \ ss

\* remove_storage(): the current storage, if any, goes.
RemoveStorage(p) ==
  /\ Quiet
  /\ Call(p, "drop_storage")
  /\ storage_' = [storage_ EXCEPT ![cur_storid_] = NoStor]
  /\ cur_storid_' = NoStor
  /\ arg' = [arg EXCEPT ![p] = storage_[cur_storid_]]
  /\ UNCHANGED <<devVars, made, stor, sampVars, acqVars, enabled, ret, picked, useVars, fault>>

DropStorage(p) ==
  /\ CallAt(p, "drop_storage", "idle")
  /\ CanDestroy(arg[p])
  /\ Destroyed({arg[p]})
  /\ arg' = [arg EXCEPT ![p] = NoDevice]
  /\ UNCHANGED <<devVars, storage_, cur_storid_, made, sampVars, acq, acqEnabled, stopAsked,
                 enabled, ret, picked, useVars, fault>>

-----------------------------------------------------------------------------
\* ~SrpSession, once no call is in progress: stop_capture...
Destroy(p) ==
  /\ \A q \in Callers : pc[q] = "idle"
  /\ Call(p, "stop_state")
  /\ ret' = [ret EXCEPT ![p] = "destroy_session"]
  /\ UNCHANGED <<devVars, storVars, sampVars, acqVars, enabled, arg, picked, useVars, fault>>

\* Mutant: sr_session_destroy takes one callback off the list.
DestroyOneCallback(p) ==
  /\ CallAt(p, "destroy_session", "destroy_storages")
  /\ srDevs' = {} /\ srCallbacks' = srCallbacks - 1
  /\ UNCHANGED <<device_, opened, gone, srOpen, storVars, sampVars, acqVars, enabled, argVars,
                 useVars, fault>>

\* ...sr_session_destroy...
DestroySession(p) ==
  /\ CallAt(p, "destroy_session", "destroy_storages")
  /\ srDevs' = {} /\ srCallbacks' = 0
  /\ UNCHANGED <<device_, opened, gone, srOpen, storVars, sampVars, acqVars, enabled, argVars,
                 useVars, fault>>

\* ...and the members: each storage joins its data thread.
DestroyStorages(p) ==
  /\ CallAt(p, "destroy_storages", "destroy_device")
  /\ \A k \in DOMAIN storage_ : CanDestroy(storage_[k])
  /\ Destroyed(StorId)
  /\ storage_' = [k \in DOMAIN storage_ |-> NoStor]
  /\ UNCHANGED <<devVars, cur_storid_, made, sampVars, acq, acqEnabled, stopAsked, enabled, argVars,
                 useVars, fault>>

\* ...device_ being the last of them.
DestroyDevice(p) ==
  /\ CallAt(p, "destroy_device", "destroyed")
  /\ device_' = NoDevice
  /\ UNCHANGED <<opened, gone, srOpen, srDevs, srCallbacks, storVars, sampVars, acqVars, enabled,
                 argVars, useVars, fault>>

(***************************************************************************)
(* ~SrpDevice: the last to hold a device, Python or device_, lets it go.   *)
(* It is closed; if libsigrok never had it open, close() throws out of the *)
(* destructor, which ends the process.  (Of a device that is not open      *)
(* there is nothing to be seen.)                                           *)
(***************************************************************************)
Held(d) == device_ = d \/ \E q \in Callers : arg[q] = d

DropDevice(d) ==
  /\ fault = "none"
  /\ ~Held(d)
  /\ opened[d] /\ srOpen[d]
  /\ gone' = gone \cup {d}
  /\ opened' = [opened EXCEPT ![d] = FALSE]
  /\ srOpen' = [srOpen EXCEPT ![d] = FALSE]
  /\ UNCHANGED <<device_, srDevs, srCallbacks, storVars, sampVars, acqVars, enabled, pc, argVars,
                 useVars, fault>>

DropDeviceThrows(d) ==
  /\ fault = "none"
  /\ ~Held(d)
  /\ opened[d] /\ ~srOpen[d]
  /\ fault' = "close_throws"
  /\ UNCHANGED <<devVars, storVars, sampVars, acqVars, enabled, pc, argVars, useVars>>

-----------------------------------------------------------------------------
(* The sampling threads, sampl_proc_th, and the packets that arrive on them. *)

SampAt(t, from, to) == fault = "none" /\ spc[t] = from /\ spc' = [spc EXCEPT ![t] = to]
offSamp == <<devVars, sampl_th_, enabled, pc, argVars, useVars>>

(***************************************************************************)
(* sr_session_start: each device's driver starts an acquisition on the     *)
(* channels enabled now, unless one is in progress.                        *)
(***************************************************************************)
SampStart(t) ==
  /\ SampAt(t, "start", "header")
  /\ \A u \in StorId : spc[u] \notin InLibsigrok
  /\ \A d \in Devices : acq[d] = "off"
  /\ srDevs # {} /\ \A d \in srDevs : srOpen[d]
  /\ acq' = [d \in Devices |-> IF d \in srDevs THEN "header" ELSE "off"]
  /\ acqEnabled' = enabled
  /\ UNCHANGED <<storVars, capture_state_, stopAsked, failed, offSamp, fault>>

\* What libsigrok knows of an acquisition goes with it.
AcquisitionOver == acqEnabled' = FALSE /\ stopAsked' = FALSE

\* It fails without an open device, and whenever a driver cannot start.
SampStartRefused(t) ==
  /\ SampAt(t, "start", "ended")
  /\ UNCHANGED <<storVars, capture_state_, acqVars, offSamp, fault>>

\* The same with several devices, once the drivers of some have sent their header.
SampStartFails(t) ==
  /\ SampAt(t, "header", "ended")
  /\ acq' = [d \in Devices |-> "off"]
  /\ failed' = failed \cup {t}
  /\ AcquisitionOver
  /\ UNCHANGED <<storVars, capture_state_, offSamp, fault>>

Arrives(t, at, d, from, to) ==
  /\ fault = "none" /\ spc[t] = at
  /\ acq[d] = from
  /\ acq' = [acq EXCEPT ![d] = to]
  /\ UNCHANGED <<acqEnabled, stopAsked, failed, capture_state_, spc, offSamp>>

\* data_feed_in is called srCallbacks times, and feeds the current storage.
Current == storage_[cur_storid_]
Feeds(f) == stor' = [stor EXCEPT ![Current] = f]
NoStorage == srCallbacks > 0 /\ Current = NoStor

\* SR_DF_HEADER: feed_header starts the storage's data thread.
HeaderIn(t, d) ==
  /\ Arrives(t, "header", d, "header", "data")
  /\ ~NoStorage
  /\ IF srCallbacks = 0 THEN UNCHANGED <<stor, fault>>
     ELSE LET s == stor[Current]
          IN  /\ fault' = IF s.thread = "none" /\ srCallbacks = 1 THEN "none" ELSE "header_twice"
              /\ Feeds([s EXCEPT !.thread = "alive", !.acqDone = FALSE,
                               !.fedBy = @ \cup {t}])
  /\ UNCHANGED <<storage_, cur_storid_, made>>

\* SR_DF_ANALOG: append_analog looks the channel up in the storage.
AnalogIn(t, d) ==
  /\ Arrives(t, "run", d, "data", "data")
  /\ acqEnabled
  /\ srCallbacks > 0 /\ ~NoStorage
  /\ LET s == stor[Current]
     IN  /\ fault' = IF s.hasChannel THEN "none" ELSE "null_channel"
         /\ Feeds([s EXCEPT !.fedBy = @ \cup {t}])
  /\ UNCHANGED <<storage_, cur_storid_, made>>

\* Mutant: SR_DF_END falls through to default.
EndIgnored(t, d) ==
  /\ Arrives(t, "run", d, "data", "off")
  /\ ~NoStorage
  /\ UNCHANGED <<stor, storage_, cur_storid_, made, fault>>

\* SR_DF_END: feed_end lets the data thread end.
EndIn(t, d) ==
  /\ Arrives(t, "run", d, "data", "off")
  /\ ~NoStorage
  /\ IF srCallbacks = 0 THEN UNCHANGED stor
     ELSE Feeds([stor[Current] EXCEPT !.acqDone = TRUE])
  /\ UNCHANGED <<storage_, cur_storid_, made, fault>>

\* The current storage is gone: any packet dereferences null.
PacketNoStorage(t, d) ==
  /\ \/ Arrives(t, "header", d, "header", "header")
     \/ Arrives(t, "run", d, "data", "data")
  /\ NoStorage
  /\ fault' = "null_storage"
  /\ UNCHANGED storVars

SampStarted(t) ==
  /\ SampAt(t, "header", "set_running")
  /\ \A d \in Devices : acq[d] # "header"
  /\ UNCHANGED <<storVars, capture_state_, acqVars, offSamp, fault>>

SampRunning(t) ==
  /\ SampAt(t, "set_running", "run")
  /\ capture_state_' = "Running"
  /\ UNCHANGED <<storVars, acqVars, offSamp, fault>>

\* sr_session_run returns once every acquisition has ended...
SampRunReturns(t) ==
  /\ SampAt(t, "run", "set_stopped")
  /\ \A d \in Devices : acq[d] # "data"
  /\ AcquisitionOver
  /\ UNCHANGED <<storVars, capture_state_, acq, failed, offSamp, fault>>

\* ...or with an error, and leaves acquisitions behind for which nobody runs the loop.
SampRunFails(t) ==
  /\ SampAt(t, "run", "set_stopped")
  /\ acq' = [d \in Devices |-> IF acq[d] = "data" THEN "left" ELSE acq[d]]
  /\ failed' = failed \cup {t}
  /\ AcquisitionOver
  /\ UNCHANGED <<storVars, capture_state_, offSamp, fault>>

\* Mutant: the state is only reset when sr_session_run has failed.
StaysRunning(t) ==
  /\ SampAt(t, "set_stopped", "ended")
  /\ capture_state_' = IF t \in failed THEN "Stopped" ELSE capture_state_
  /\ UNCHANGED <<storVars, acqVars, offSamp, fault>>

\* set_capture_state(Stopped), in either case.
SampStopped(t) ==
  /\ SampAt(t, "set_stopped", "ended")
  /\ capture_state_' = "Stopped"
  /\ UNCHANGED <<storVars, acqVars, offSamp, fault>>

\* A storage's data thread ends after feed_end (SrpSamplesSegmented).
DataThreadEnds(s) ==
  /\ fault = "none"
  /\ stor[s].thread = "alive" /\ stor[s].acqDone
  /\ stor' = [stor EXCEPT ![s].thread = "ended"]
  /\ UNCHANGED <<storage_, cur_storid_, made, sampVars, acqVars, devVars, enabled, pc, argVars,
                 useVars, fault>>

-----------------------------------------------------------------------------
\* The steps a call takes by itself.
CallStep(p) ==
  \/ StartDevice(p) \/ StartState(p) \/ StartChannels(p) \/ StartChannelsNull(p)
  \/ StartStorId(p) \/ StartBufsize(p) \/ StartBufsizeThrows(p) \/ StartBufsizeNull(p)
  \/ StartEmplace(p) \/ StartEmplaceNull(p) \/ StartThread(p) \/ StartAssign(p)
  \/ StartAssignAgain(p)
  \/ StopState(p) \/ StopSession(p) \/ StopJoinable(p) \/ StopJoin(p) \/ StopJoinAgain(p)
  \/ AddAssign(p) \/ AddOpen(p) \/ AddOpenThrows(p) \/ AddToSession(p) \/ AddNull(p)
  \/ AddCallback(p)
  \/ DropStorage(p) \/ DestroySession(p) \/ DestroyStorages(p) \/ DestroyDevice(p)

NewCall(p) ==
  \/ "start_capture" \in Calls /\ StartCapture(p)
  \/ "stop_capture" \in Calls /\ StopCapture(p)
  \/ "add_device" \in Calls /\ \E d \in Devices : AddDevice(p, d)
  \/ "reset_device" \in Calls /\ (ResetDevice(p) \/ ResetNoDevice(p))
  \/ "set_enabled" \in Calls /\ SetEnabled(p)
  \/ "remove_storage" \in Calls /\ RemoveStorage(p)
  \/ "destroy" \in Calls /\ Destroy(p)

\* What a sampling thread does whether or not the drivers send data.
SampStep(t) ==
  \/ SampStart(t) \/ SampStartRefused(t) \/ SampStarted(t) \/ SampRunning(t)
  \/ SampRunReturns(t) \/ SampStopped(t)
  \/ \E d \in Devices : HeaderIn(t, d) \/ PacketNoStorage(t, d)

\* What libsigrok and the drivers may or may not do.
SampMay(t) ==
  \/ SampStartFails(t) \/ SampRunFails(t)
  \/ \E d \in Devices : AnalogIn(t, d) \/ EndIn(t, d)

Next ==
  \/ \E p \in Callers : CallStep(p) \/ NewCall(p)
  \/ \E t \in StorId : SampStep(t) \/ SampMay(t)
  \/ \E s \in StorId : DataThreadEnds(s)
  \/ \E d \in Devices : DropDevice(d) \/ DropDeviceThrows(d)

Spec == Init /\ [][Next]_vars

(***************************************************************************)
(* Threads keep being scheduled.  A driver ends its acquisition once asked *)
(* to, and otherwise when it likes, perhaps never.                         *)
(***************************************************************************)
EndAsked == stopAsked /\ \E t \in StorId, d \in Devices : EndIn(t, d)

FairSpec ==
  /\ Spec
  /\ \A p \in Callers : WF_vars(CallStep(p))
  /\ \A t \in StorId : WF_vars(SampStep(t))
  /\ WF_vars(EndAsked)
  /\ \A s \in StorId : WF_vars(DataThreadEnds(s))
=============================================================================
