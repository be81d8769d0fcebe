----------------------------- MODULE SrpLifetime -----------------------------
(***************************************************************************)
(* Who keeps whom alive: SrpManager, SrpDriver, SrpDevice and SrpSession,  *)
(* what Python holds of them, and what libsigrok frees in sr_exit.         *)
(*   - The manager holds its sessions, a session its devices, a device its *)
(*     driver, and a driver that is shared holds the manager.              *)
(*   - An object nobody holds is destroyed, one step per destructor, and   *)
(*     what it held may follow.  Destructors run inside the call that let  *)
(*     go, under the GIL but for add_device, which has released it.        *)
(* A capture in progress is in SrpSession; here a call is one step, but    *)
(* for reset_device, in the middle of which destructors run.  A step that  *)
(* ends the process sets `fault`.                                          *)
(***************************************************************************)
EXTENDS FiniteSets

CONSTANTS
  Ids,       \* session ids
  Sessions,  \* bound: the sessions that can be made
  Drivers,
  Devices,   \* bound: the devices that scans can find
  Manager,   \* Python's reference to the manager
  None       \* a null pointer, an absent key

ASSUME LifetimeAssumption ==
  /\ None \notin Ids \cup Sessions \cup Drivers \cup Devices
  /\ Manager \notin Sessions \cup Drivers \cup Devices
  /\ Sessions \cap Drivers = {} /\ Sessions \cap Devices = {} /\ Drivers \cap Devices = {}

Objects == {Manager} \cup Sessions \cup Drivers \cup Devices

VARIABLES
  mgr,           \* "alive", "exited" (after sr_exit), "gone"
  sessions_,     \* the manager's map
  shared,        \* drivers with a shared_ptr to them
  parent,        \* drivers whose _parent is the manager
  resetting,     \* drivers whose last shared_ptr is going: _parent is about to be reset
  initialized_,  \* drivers
  found, srp_driver_,             \* devices so far; each one's driver, None when it is gone
  device_open_,                   \* devices
  made, live, device_, scanned_,  \* sessions so far, those that are; their devices
  srDevs,        \* the devices in each libsigrok session
  py,            \* the objects Python holds
  unlocked,      \* destructors run inside an add_device, without the GIL
  inReset,       \* the session in the middle of reset_device
  fault,
  raced, twice   \* record: a driver shared again too early, sessions with devices added twice

mgrVars  == <<mgr, sessions_>>
drvVars  == <<shared, parent, resetting, initialized_>>
devVars  == <<found, srp_driver_, device_open_>>
sesVars  == <<made, live, device_, scanned_, srDevs>>
callVars == <<unlocked, inReset, fault>>
vars == <<mgrVars, drvVars, devVars, sesVars, py, callVars, raced, twice>>

Init ==
  /\ mgr = "alive" /\ sessions_ = [i \in Ids |-> None]
  /\ shared = {} /\ parent = {} /\ resetting = {} /\ initialized_ = {}
  /\ found = {} /\ srp_driver_ = [d \in Devices |-> None] /\ device_open_ = {}
  /\ made = {} /\ live = {}
  /\ device_ = [s \in Sessions |-> None]
  /\ scanned_ = [s \in Sessions |-> {}]
  /\ srDevs = [s \in Sessions |-> {}]
  /\ py = {Manager}
  /\ unlocked = FALSE /\ inReset = None /\ fault = "none" /\ raced = FALSE /\ twice = {}

-----------------------------------------------------------------------------
(* What nobody holds.                                                      *)

SessionUnheld(s) == s \in live /\ s \notin py /\ \A i \in Ids : sessions_[i] # s

DeviceUnheld(d) ==
  /\ srp_driver_[d] # None /\ d \notin py
  /\ \A s \in Sessions : device_[s] # d /\ d \notin scanned_[s]

\* Mutant: a device keeps a bare pointer to its driver.
DriverUnheldByPython(v) == v \in shared /\ v \notin py

DriverUnheld(v) == v \in shared /\ v \notin py /\ \A d \in Devices : srp_driver_[d] # v

ManagerUnheld == mgr = "alive" /\ Manager \notin py /\ parent = {}

Garbage ==
  \/ \E s \in Sessions : SessionUnheld(s)
  \/ \E d \in Devices : DeviceUnheld(d)
  \/ \E v \in Drivers : DriverUnheld(v)
  \/ resetting # {} \/ ManagerUnheld \/ mgr = "exited"

\* ~SrpSession, sr_session_destroy in it, then the members.
DestroySession(s) ==
  /\ SessionUnheld(s)
  /\ live' = live \ {s}
  /\ srDevs' = [srDevs EXCEPT ![s] = {}]
  /\ device_' = [device_ EXCEPT ![s] = None]
  /\ scanned_' = [scanned_ EXCEPT ![s] = {}]
  /\ UNCHANGED <<mgrVars, drvVars, devVars, made, py, callVars, raced, twice>>

\* ~SrpDevice closes the device if it is open and lets go of the driver.
DestroyDevice(d) ==
  /\ DeviceUnheld(d)
  /\ device_open_' = device_open_ \ {d}
  /\ srp_driver_' = [srp_driver_ EXCEPT ![d] = None]
  /\ UNCHANGED <<mgrVars, drvVars, found, sesVars, py, callVars, raced, twice>>

\* close() throws out of the destructor when libsigrok cannot close the device, such as one
\* whose open() has failed.
DestroyDeviceThrows(d) ==
  /\ DeviceUnheld(d)
  /\ d \in device_open_
  /\ fault' = "close_throws"
  /\ UNCHANGED <<mgrVars, drvVars, devVars, sesVars, py, unlocked, inReset, raced, twice>>

\* The last shared_ptr to a driver goes, and then runs its deleter, reset_parent.
ReleaseDriver(v) ==
  /\ DriverUnheld(v)
  /\ shared' = shared \ {v}
  /\ resetting' = resetting \cup {v}
  /\ UNCHANGED <<mgrVars, parent, initialized_, devVars, sesVars, py, callVars, raced, twice>>

ResetParent(v) ==
  /\ v \in resetting
  /\ resetting' = resetting \ {v}
  /\ parent' = parent \ {v}
  /\ UNCHANGED <<mgrVars, shared, initialized_, devVars, sesVars, py, callVars, raced, twice>>

\* ~SrpManager: sr_exit, in which each driver frees its devices, and then the sessions.
ExitContext ==
  /\ ManagerUnheld
  /\ mgr' = "exited"
  /\ UNCHANGED <<sessions_, drvVars, devVars, sesVars, py, callVars, raced, twice>>

\* Mutant: the map holds bare pointers.
ManagerMembersOnly ==
  /\ mgr = "exited"
  /\ mgr' = "gone"
  /\ UNCHANGED <<sessions_, drvVars, devVars, sesVars, py, callVars, raced, twice>>

ManagerMembers ==
  /\ mgr = "exited"
  /\ mgr' = "gone"
  /\ sessions_' = [i \in Ids |-> None]
  /\ UNCHANGED <<drvVars, devVars, sesVars, py, callVars, raced, twice>>

Destruct ==
  \/ \E s \in Sessions : DestroySession(s)
  \/ \E d \in Devices : DestroyDevice(d) \/ DestroyDeviceThrows(d)
  \/ \E v \in Drivers : ReleaseDriver(v) \/ ResetParent(v)
  \/ ExitContext \/ ManagerMembers

-----------------------------------------------------------------------------
(* Calls that hand objects to Python.  They need the GIL: another thread   *)
(* makes them while an add_device is destroying, not while anything else   *)
(* is.                                                                     *)

Takes(O) == inReset = None /\ (~Garbage \/ unlocked) /\ py' = py \cup O

\* A new session, which the map refuses when the id is in use.
AddSession(i, s) ==
  /\ Manager \in py /\ s \notin made
  /\ Takes({s})
  /\ made' = made \cup {s} /\ live' = live \cup {s}
  /\ sessions_' = IF sessions_[i] = None THEN [sessions_ EXCEPT ![i] = s] ELSE sessions_
  /\ UNCHANGED <<mgr, drvVars, devVars, device_, scanned_, srDevs, callVars, raced, twice>>

GetSessions ==
  /\ Manager \in py
  /\ Takes({sessions_[i] : i \in Ids} \ {None})
  /\ UNCHANGED <<mgrVars, drvVars, devVars, sesVars, callVars, raced, twice>>

\* Mutant: every driver is told its parent, and those in use are returned.
GetDriversInUse ==
  /\ Manager \in py
  /\ Takes(initialized_)
  /\ shared' = shared \cup initialized_ /\ parent' = Drivers
  /\ raced' = (raced \/ resetting # {})
  /\ UNCHANGED <<mgrVars, resetting, initialized_, devVars, sesVars, callVars, twice>>

(***************************************************************************)
(* drivers(): share_owned_by sets _parent and shares the driver.  When the *)
(* deleter of an earlier share is yet to run, it will reset the new        *)
(* _parent.                                                                *)
(***************************************************************************)
GetDrivers ==
  /\ Manager \in py
  /\ Takes(Drivers)
  /\ shared' = Drivers /\ parent' = Drivers
  /\ raced' = (raced \/ resetting # {})
  /\ UNCHANGED <<mgrVars, resetting, initialized_, devVars, sesVars, callVars, twice>>

\* config, scan_options and scan initialise the driver in its parent's context.
UseDriver(v, D) ==
  /\ v \in py
  /\ v \in initialized_ \/ v \in parent
  /\ initialized_' = initialized_ \cup {v}
  /\ Takes(D)
  /\ found' = found \cup D
  /\ srp_driver_' = [d \in Devices |-> IF d \in D THEN v ELSE srp_driver_[d]]
  /\ UNCHANGED <<mgrVars, shared, parent, resetting, device_open_, sesVars, callVars, raced, twice>>

\* A driver whose parent the deleter of an earlier share has reset follows a null _parent.
UseOrphan(v) ==
  /\ v \in py
  /\ v \notin initialized_ \cup parent
  /\ Takes({})
  /\ fault' = "null_parent"
  /\ UNCHANGED <<mgrVars, drvVars, devVars, sesVars, unlocked, inReset, raced, twice>>

\* The devices a scan returns are new ones.
Scan(v) == \E D \in SUBSET (Devices \ found) : UseDriver(v, D)

\* SrpDevice::driver, SrpSession::device and getScan.
GetDriver(d) ==
  /\ d \in py
  /\ Takes({srp_driver_[d]})
  /\ UNCHANGED <<mgrVars, drvVars, devVars, sesVars, callVars, raced, twice>>

\* Mutant: a null device_ is handed out too.
GetNullDevice(s) ==
  /\ s \in py
  /\ Takes({device_[s]}) \/ Takes(scanned_[s])
  /\ UNCHANGED <<mgrVars, drvVars, devVars, sesVars, callVars, raced, twice>>

GetDevices(s) ==
  /\ s \in py
  /\ Takes({device_[s]} \ {None}) \/ Takes(scanned_[s])
  /\ UNCHANGED <<mgrVars, drvVars, devVars, sesVars, callVars, raced, twice>>

-----------------------------------------------------------------------------
(* Calls that let objects go.  The next call waits for the destructors.    *)

Drops == inReset = None /\ ~Garbage /\ unlocked' = FALSE

RemoveSession(i) ==
  /\ Manager \in py
  /\ Drops
  /\ sessions_' = [sessions_ EXCEPT ![i] = None]
  /\ UNCHANGED <<mgr, drvVars, devVars, sesVars, py, raced, twice, inReset, fault>>

RemoveAll ==
  /\ Manager \in py
  /\ Drops
  /\ sessions_' = [i \in Ids |-> None]
  /\ UNCHANGED <<mgr, drvVars, devVars, sesVars, py, raced, twice, inReset, fault>>

SetScan(s, D) ==
  /\ s \in py /\ D \subseteq py
  /\ Drops
  /\ scanned_' = [scanned_ EXCEPT ![s] = D]
  /\ UNCHANGED <<mgrVars, drvVars, devVars, made, live, device_, srDevs, py, raced, twice, inReset,
                 fault>>

(***************************************************************************)
(* add_device replaces the device without removing the old one from the    *)
(* libsigrok session; on an error, such as a device that is in a libsigrok *)
(* session already, it keeps none.  open() sets device_open_ on an error,  *)
(* too.                                                                    *)
(***************************************************************************)
AddDevice(s, d) ==
  /\ s \in py /\ d \in py
  /\ inReset = None /\ ~Garbage /\ unlocked' = TRUE
  /\ \/ /\ \A t \in Sessions : d \notin srDevs[t]
        /\ device_' = [device_ EXCEPT ![s] = d]
        /\ srDevs' = [srDevs EXCEPT ![s] = @ \cup {d}]
     \/ /\ device_' = [device_ EXCEPT ![s] = None]
        /\ UNCHANGED srDevs
  /\ device_open_' = device_open_ \cup {d}
  /\ scanned_' = [scanned_ EXCEPT ![s] = {}]
  /\ twice' = IF srDevs[s] = {} THEN twice ELSE twice \cup {s}
  /\ UNCHANGED <<mgrVars, drvVars, found, srp_driver_, made, live, py, raced, inReset, fault>>

\* reset_device closes the device, or throws having done nothing, and lets it go...
ResetDevice(s) ==
  /\ s \in py /\ device_[s] # None
  /\ Drops
  /\ inReset' = s
  /\ device_open_' = device_open_ \ {device_[s]}
  /\ device_' = [device_ EXCEPT ![s] = None]
  /\ UNCHANGED <<mgrVars, drvVars, found, srp_driver_, made, live, scanned_, srDevs, py, raced,
                 twice, fault>>

\* Mutant: the devices stay in the libsigrok session.
ResetKeepsList(s) ==
  /\ inReset = s
  /\ ~Garbage
  /\ inReset' = None
  /\ scanned_' = [scanned_ EXCEPT ![s] = {}]
  /\ twice' = twice \ {s}
  /\ UNCHANGED <<mgrVars, drvVars, devVars, made, live, device_, srDevs, py, unlocked, raced,
                 fault>>

\* ...and then empties the libsigrok session.
ResetSession(s) ==
  /\ inReset = s
  /\ ~Garbage
  /\ inReset' = None
  /\ srDevs' = [srDevs EXCEPT ![s] = {}]
  /\ scanned_' = [scanned_ EXCEPT ![s] = {}]
  /\ twice' = twice \ {s}
  /\ UNCHANGED <<mgrVars, drvVars, devVars, made, live, device_, py, unlocked, raced, fault>>

\* Python lets go of an object.
Release(o) ==
  /\ o \in py
  /\ Drops
  /\ py' = py \ {o}
  /\ UNCHANGED <<mgrVars, drvVars, devVars, sesVars, raced, twice, inReset, fault>>

Running ==
  \/ Destruct
  \/ \E i \in Ids, s \in Sessions : AddSession(i, s)
  \/ GetSessions \/ GetDrivers \/ RemoveAll
  \/ \E v \in Drivers : Scan(v) \/ UseOrphan(v)
  \/ \E d \in Devices : GetDriver(d)
  \/ \E i \in Ids : RemoveSession(i)
  \/ \E s \in Sessions :
        \/ GetDevices(s) \/ ResetDevice(s) \/ ResetSession(s)
        \/ \E D \in SUBSET Devices : SetScan(s, D)
        \/ \E d \in Devices : AddDevice(s, d)
  \/ \E o \in Objects : Release(o)

Next == fault = "none" /\ Running

Spec == Init /\ [][Next]_vars

-----------------------------------------------------------------------------
(* Properties.                                                             *)

TypeOK ==
  /\ mgr \in {"alive", "exited", "gone"}
  /\ sessions_ \in [Ids -> Sessions \cup {None}]
  /\ shared \subseteq Drivers /\ parent \subseteq Drivers
  /\ resetting \subseteq Drivers /\ initialized_ \subseteq Drivers
  /\ found \subseteq Devices
  /\ srp_driver_ \in [Devices -> Drivers \cup {None}] /\ device_open_ \subseteq found
  /\ made \subseteq Sessions /\ live \subseteq made
  /\ device_ \in [Sessions -> Devices \cup {None}]
  /\ scanned_ \in [Sessions -> SUBSET Devices]
  /\ srDevs \in [Sessions -> SUBSET Devices]
  /\ py \subseteq Objects
  /\ inReset \in Sessions \cup {None}
  /\ fault \in {"none", "close_throws", "null_parent"}
  /\ unlocked \in BOOLEAN /\ raced \in BOOLEAN
  /\ twice \subseteq Sessions

(***************************************************************************)
(* Whatever order Python lets go in, sr_exit comes after the last device   *)
(* has been closed, and no driver is used whose _parent, the context, is   *)
(* gone.  The one exception is a driver asked for while add_device is      *)
(* letting go of its last share.                                           *)
(***************************************************************************)
ContextGoesLast ==
  ~raced =>
     /\ mgr # "alive" => shared = {} /\ \A d \in Devices : srp_driver_[d] = None
     /\ fault # "null_parent"

(***************************************************************************)
(* A libsigrok session lists only devices that their SrpDevice keeps, so   *)
(* neither a capture nor sr_session_destroy meets one that was closed or   *)
(* freed: unless devices were added without a reset_device in between, and *)
(* but for the end of reset_device itself.                                 *)
(***************************************************************************)
ListedDevicesLive ==
  \A s \in Sessions \ twice :
     s # inReset => \A d \in srDevs[s] : srp_driver_[d] # None

\* A registered session with a device holds, through device and driver, its own manager.
Cycle ==
  \E i \in Ids : /\ sessions_[i] # None
                 /\ device_[sessions_[i]] # None \/ scanned_[sessions_[i]] # {}

Everything ==
  mgr = "gone" /\ live = {} /\ \A d \in Devices : srp_driver_[d] = None

(***************************************************************************)
(* Once Python holds nothing and the destructors have run, the manager,    *)
(* its context, every session and every device are gone, unless a          *)
(* registered session was left with a device.                              *)
(***************************************************************************)
OnlyCyclesStay == py = {} /\ ~Garbage => Everything \/ Cycle
=============================================================================
