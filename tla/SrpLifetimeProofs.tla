-------------------------- MODULE SrpLifetimeProofs --------------------------
(***************************************************************************)
(* Theorems about SrpLifetime, for any number of sessions, drivers and     *)
(* devices, and any calls.                                                 *)
(***************************************************************************)
EXTENDS SrpLifetime, TLAPS

-----------------------------------------------------------------------------
(* Types and references: whoever is referred to is there.                  *)

\* What Python holds is there, the manager included.
PyHoldsLive ==
  /\ Manager \in py => mgr = "alive"
  /\ \A s \in Sessions : s \in py => s \in live
  /\ \A v \in Drivers : v \in py => v \in shared
  /\ \A d \in Devices : d \in py => srp_driver_[d] # None

\* So is what the manager, the sessions and the devices hold.
FieldsHoldLive ==
  /\ \A i \in Ids : sessions_[i] # None => sessions_[i] \in live
  /\ mgr = "gone" => \A i \in Ids : sessions_[i] = None
  /\ \A s \in Sessions : /\ device_[s] # None => srp_driver_[device_[s]] # None
                         /\ \A d \in scanned_[s] : srp_driver_[d] # None
  /\ \A d \in Devices : srp_driver_[d] # None => srp_driver_[d] \in shared /\ d \in found

\* A session that is gone, or not made yet, has no devices.
DeadSessionsEmpty ==
  \A s \in Sessions : s \notin live => device_[s] = None /\ scanned_[s] = {} /\ srDevs[s] = {}

\* Only a shared driver, or one whose deleter is still to run, has its parent.
ParentIsShared == parent \subseteq shared \cup resetting

\* A parent keeps the manager.
ParentKeepsManager == parent # {} => mgr = "alive"

RefInv ==
  /\ TypeOK /\ PyHoldsLive /\ FieldsHoldLive /\ DeadSessionsEmpty
  /\ ParentIsShared /\ ParentKeepsManager

\* Without the race a shared driver has its parent, and no deleter threatens it.
SharedHasParent == ~raced => shared \subseteq parent /\ shared \cap resetting = {}

\* Devices added after a reset_device: the libsigrok session lists the device_ only.
ListsItsDevice ==
  \A s \in Sessions \ twice : s # inReset => srDevs[s] \subseteq {device_[s]} \ {None}

-----------------------------------------------------------------------------
\* At the start Python holds the manager, and nothing else is there.
LEMMA RefInit == Init => RefInv
BY LifetimeAssumption
   DEF Init, RefInv, TypeOK, PyHoldsLive, FieldsHoldLive, DeadSessionsEmpty, ParentIsShared,
       ParentKeepsManager, Objects

\* A destructor takes away what nobody refers to.
LEMMA RefDestruct == ASSUME RefInv, Destruct PROVE RefInv'
<1> USE LifetimeAssumption
    DEF RefInv, TypeOK, PyHoldsLive, FieldsHoldLive, DeadSessionsEmpty, ParentIsShared,
        ParentKeepsManager, Objects, mgrVars, drvVars, devVars, sesVars, callVars
<1>1. ASSUME NEW s \in Sessions, DestroySession(s) PROVE RefInv'
  BY <1>1 DEF DestroySession, SessionUnheld
<1>2. ASSUME NEW d \in Devices, DestroyDevice(d) PROVE RefInv'
  BY <1>2 DEF DestroyDevice, DeviceUnheld
<1>3. ASSUME NEW v \in Drivers, ReleaseDriver(v) PROVE RefInv'
  BY <1>3 DEF ReleaseDriver, DriverUnheld
<1>4. ASSUME NEW v \in Drivers, ResetParent(v) PROVE RefInv'
  BY <1>4 DEF ResetParent
<1>5. CASE ExitContext
  BY <1>5 DEF ExitContext, ManagerUnheld
<1>6. CASE ManagerMembers
  BY <1>6 DEF ManagerMembers
<1>7. ASSUME NEW d \in Devices, DestroyDeviceThrows(d) PROVE RefInv'
  BY <1>7 DEF DestroyDeviceThrows
<1> HIDE DEF RefInv
<1> QED
  BY <1>1, <1>2, <1>3, <1>4, <1>5, <1>6, <1>7 DEF Destruct

\* A call hands out what is there.
Taking ==
  \/ \E i \in Ids, s \in Sessions : AddSession(i, s)
  \/ GetSessions \/ GetDrivers
  \/ \E v \in Drivers : Scan(v) \/ UseOrphan(v)
  \/ \E d \in Devices : GetDriver(d)
  \/ \E s \in Sessions : GetDevices(s)

\* ...and the references still hold.
LEMMA RefTaking == ASSUME RefInv, Taking PROVE RefInv'
<1> USE LifetimeAssumption
    DEF RefInv, TypeOK, PyHoldsLive, FieldsHoldLive, DeadSessionsEmpty, ParentIsShared,
        ParentKeepsManager, Objects, mgrVars, drvVars, devVars, sesVars, callVars, Takes
<1>1. ASSUME NEW i \in Ids, NEW s \in Sessions, AddSession(i, s) PROVE RefInv'
  BY <1>1 DEF AddSession
<1>2. CASE GetSessions
  BY <1>2 DEF GetSessions
<1>3. CASE GetDrivers
  BY <1>3 DEF GetDrivers
<1>4. ASSUME NEW v \in Drivers, Scan(v) PROVE RefInv'
  BY <1>4 DEF Scan, UseDriver
<1>5. ASSUME NEW d \in Devices, GetDriver(d) PROVE RefInv'
  BY <1>5 DEF GetDriver
<1>6. ASSUME NEW s \in Sessions, GetDevices(s) PROVE RefInv'
  BY <1>6 DEF GetDevices
<1>7. ASSUME NEW v \in Drivers, UseOrphan(v) PROVE RefInv'
  BY <1>7 DEF UseOrphan
<1> HIDE DEF RefInv
<1> QED
  BY <1>1, <1>2, <1>3, <1>4, <1>5, <1>6, <1>7 DEF Taking

\* A call lets go without taking anything away.
Dropping ==
  \/ RemoveAll
  \/ \E i \in Ids : RemoveSession(i)
  \/ \E s \in Sessions :
        \/ ResetDevice(s) \/ ResetSession(s)
        \/ \E D \in SUBSET Devices : SetScan(s, D)
        \/ \E d \in Devices : AddDevice(s, d)
  \/ \E o \in Objects : Release(o)

\* ...and the references still hold.
LEMMA RefDropping == ASSUME RefInv, Dropping PROVE RefInv'
<1> USE LifetimeAssumption
    DEF RefInv, TypeOK, PyHoldsLive, FieldsHoldLive, DeadSessionsEmpty, ParentIsShared,
        ParentKeepsManager, Objects, mgrVars, drvVars, devVars, sesVars, callVars, Drops
<1>1. CASE RemoveAll
  BY <1>1 DEF RemoveAll
<1>2. ASSUME NEW i \in Ids, RemoveSession(i) PROVE RefInv'
  <2>1. TypeOK'
    BY <1>2 DEF RemoveSession
  <2>2. PyHoldsLive' /\ DeadSessionsEmpty'
    BY <1>2 DEF RemoveSession
  <2>3. FieldsHoldLive'
    BY <1>2 DEF RemoveSession
  <2>4. ParentIsShared' /\ ParentKeepsManager'
    BY <1>2 DEF RemoveSession
  <2> HIDE DEF TypeOK, PyHoldsLive, DeadSessionsEmpty, FieldsHoldLive, ParentIsShared,
               ParentKeepsManager
  <2> QED BY <2>1, <2>2, <2>3, <2>4
<1>3. ASSUME NEW s \in Sessions, ResetDevice(s) PROVE RefInv'
  <2>1. TypeOK'
    BY <1>3 DEF ResetDevice
  <2>2. PyHoldsLive' /\ DeadSessionsEmpty'
    BY <1>3 DEF ResetDevice
  <2>3. FieldsHoldLive'
    BY <1>3 DEF ResetDevice
  <2>4. ParentIsShared' /\ ParentKeepsManager'
    BY <1>3 DEF ResetDevice
  <2> HIDE DEF TypeOK, PyHoldsLive, DeadSessionsEmpty, FieldsHoldLive, ParentIsShared,
               ParentKeepsManager
  <2> QED BY <2>1, <2>2, <2>3, <2>4
<1>4. ASSUME NEW s \in Sessions, ResetSession(s) PROVE RefInv'
  BY <1>4 DEF ResetSession
<1>5. ASSUME NEW s \in Sessions, NEW D \in SUBSET Devices, SetScan(s, D) PROVE RefInv'
  <2>1. TypeOK'
    BY <1>5 DEF SetScan
  <2>2. PyHoldsLive' /\ DeadSessionsEmpty'
    BY <1>5 DEF SetScan
  <2>3. FieldsHoldLive'
    BY <1>5 DEF SetScan
  <2>4. ParentIsShared' /\ ParentKeepsManager'
    BY <1>5 DEF SetScan
  <2> HIDE DEF TypeOK, PyHoldsLive, DeadSessionsEmpty, FieldsHoldLive, ParentIsShared,
               ParentKeepsManager
  <2> QED BY <2>1, <2>2, <2>3, <2>4
<1>6. ASSUME NEW s \in Sessions, NEW d \in Devices, AddDevice(s, d) PROVE RefInv'
  BY <1>6 DEF AddDevice
<1>7. ASSUME NEW o \in Objects, Release(o) PROVE RefInv'
  BY <1>7 DEF Release
<1> HIDE DEF RefInv
<1> QED
  BY <1>1, <1>2, <1>3, <1>4, <1>5, <1>6, <1>7 DEF Dropping

\* Every step keeps every reference to something that is there.
LEMMA RefStep == RefInv /\ [Next]_vars => RefInv'
<1> SUFFICES ASSUME RefInv, [Next]_vars PROVE RefInv'
  OBVIOUS
<1>1. CASE UNCHANGED vars
  BY <1>1 DEF vars, mgrVars, drvVars, devVars, sesVars, callVars, RefInv, TypeOK, PyHoldsLive,
              FieldsHoldLive, DeadSessionsEmpty, ParentIsShared, ParentKeepsManager
<1>2. CASE Next
  <2>1. Destruct \/ Taking \/ Dropping
    BY <1>2 DEF Next, Running, Taking, Dropping
  <2> QED BY <2>1, RefDestruct, RefTaking, RefDropping
<1> QED BY <1>1, <1>2

(***************************************************************************)
(* Type correctness of who holds whom.                                     *)
(***************************************************************************)
THEOREM LifetimeTypeCorrect == Spec => []TypeOK
<1>1. RefInv => TypeOK
  BY DEF RefInv
<1> QED BY <1>1, RefInit, RefStep, PTL DEF Spec

-----------------------------------------------------------------------------
(* The context goes last.                                                  *)

\* Without the race nobody resets the parent of a driver that is shared.
LEMMA ParentStep ==
  ASSUME RefInv, SharedHasParent, [Next]_vars
  PROVE  SharedHasParent'
<1> USE DEF SharedHasParent, mgrVars, drvVars, devVars, sesVars, callVars
<1>1. ASSUME UNCHANGED <<shared, parent, resetting, raced>> PROVE SharedHasParent'
  BY <1>1
<1>2. ASSUME NEW v \in Drivers, ReleaseDriver(v) PROVE SharedHasParent'
  BY <1>2 DEF ReleaseDriver
<1>3. ASSUME NEW v \in Drivers, ResetParent(v) PROVE SharedHasParent'
  BY <1>3 DEF ResetParent
<1>4. CASE GetDrivers
  BY <1>4 DEF GetDrivers, RefInv, TypeOK
<1>5. CASE \/ UNCHANGED vars
           \/ \E s \in Sessions : DestroySession(s)
           \/ \E d \in Devices : DestroyDevice(d) \/ DestroyDeviceThrows(d)
           \/ ExitContext \/ ManagerMembers
  BY <1>1, <1>5 DEF vars, DestroySession, DestroyDevice, DestroyDeviceThrows, ExitContext,
                    ManagerMembers
<1>6. CASE \/ \E i \in Ids, s \in Sessions : AddSession(i, s)
           \/ GetSessions
           \/ \E v \in Drivers : Scan(v) \/ UseOrphan(v)
           \/ \E d \in Devices : GetDriver(d)
           \/ \E s \in Sessions : GetDevices(s)
  BY <1>1, <1>6 DEF AddSession, GetSessions, Scan, UseDriver, UseOrphan, GetDriver, GetDevices
<1>7. CASE Dropping
  BY <1>1, <1>7 DEF Dropping, RemoveAll, RemoveSession, ResetDevice, ResetSession, SetScan,
                    AddDevice, Release
<1> HIDE DEF SharedHasParent
<1> QED
  BY <1>2, <1>3, <1>4, <1>5, <1>6, <1>7 DEF Next, Running, Destruct, Dropping

\* A driver whose _parent is missed has been raced for.
OrphansAreRaced == ~raced => fault # "null_parent"

LEMMA OrphanStep ==
  ASSUME RefInv, SharedHasParent, OrphansAreRaced, [Next]_vars
  PROVE  OrphansAreRaced'
<1> USE DEF OrphansAreRaced, mgrVars, drvVars, devVars, sesVars, callVars
<1>1. ASSUME UNCHANGED fault, raced => raced' PROVE OrphansAreRaced'
  BY <1>1
<1>2. ASSUME NEW v \in Drivers, UseOrphan(v) PROVE OrphansAreRaced'
  BY <1>2 DEF UseOrphan, SharedHasParent, RefInv, PyHoldsLive
<1>3. ASSUME NEW d \in Devices, DestroyDeviceThrows(d) PROVE OrphansAreRaced'
  BY <1>3 DEF DestroyDeviceThrows
<1>4. CASE UNCHANGED vars
  BY <1>4 DEF vars
<1>5. CASE Destruct
  BY <1>1, <1>3, <1>5 DEF Destruct, DestroySession, DestroyDevice, ReleaseDriver, ResetParent,
                          ExitContext, ManagerMembers
<1>6. CASE Taking
  BY <1>1, <1>2, <1>6 DEF Taking, AddSession, GetSessions, GetDrivers, Scan, UseDriver, GetDriver,
                          GetDevices
<1>7. CASE Dropping
  BY <1>1, <1>7 DEF Dropping, RemoveAll, RemoveSession, ResetDevice, ResetSession, SetScan,
                    AddDevice, Release
<1> HIDE DEF OrphansAreRaced
<1> QED BY <1>4, <1>5, <1>6, <1>7 DEF Next, Running, Taking, Dropping

(***************************************************************************)
(* sr_exit comes after every device and every shared driver, and no driver *)
(* is used without its _parent, unless the race of GetDrivers with a       *)
(* deleter has happened.                                                   *)
(***************************************************************************)
THEOREM ContextIsLast == Spec => []ContextGoesLast
<1>1. Init => SharedHasParent /\ OrphansAreRaced
  BY DEF Init, SharedHasParent, OrphansAreRaced
<1>2. RefInv /\ SharedHasParent /\ OrphansAreRaced => ContextGoesLast
  <2> SUFFICES ASSUME RefInv, SharedHasParent, ~raced, mgr # "alive"
               PROVE  shared = {} /\ \A d \in Devices : srp_driver_[d] = None
    BY DEF ContextGoesLast, OrphansAreRaced
  <2>1. parent = {}
    BY DEF RefInv, ParentKeepsManager
  <2>2. shared = {}
    BY <2>1 DEF SharedHasParent
  <2> QED BY <2>2 DEF RefInv, FieldsHoldLive
<1> QED BY <1>1, <1>2, RefInit, RefStep, ParentStep, OrphanStep, PTL DEF Spec

-----------------------------------------------------------------------------
(* What a libsigrok session lists.                                         *)

\* Only add_device and reset_device change what is listed.
LEMMA ListsStep ==
  ASSUME RefInv, ListsItsDevice, [Next]_vars
  PROVE  ListsItsDevice'
<1> USE LifetimeAssumption
    DEF ListsItsDevice, RefInv, TypeOK, mgrVars, drvVars, devVars, sesVars, callVars, Drops
<1>1. ASSUME UNCHANGED <<device_, srDevs, inReset, twice>> PROVE ListsItsDevice'
  BY <1>1
<1>2. ASSUME NEW s \in Sessions, DestroySession(s) PROVE ListsItsDevice'
  BY <1>2 DEF DestroySession
<1>3. ASSUME NEW s \in Sessions, ResetDevice(s) PROVE ListsItsDevice'
  BY <1>3 DEF ResetDevice
<1>4. ASSUME NEW s \in Sessions, ResetSession(s) PROVE ListsItsDevice'
  BY <1>4 DEF ResetSession
<1>5. ASSUME NEW s \in Sessions, NEW d \in Devices, AddDevice(s, d) PROVE ListsItsDevice'
  BY <1>5 DEF AddDevice
<1> HIDE DEF ListsItsDevice, RefInv
<1>6. CASE UNCHANGED vars
  BY <1>1, <1>6 DEF vars
<1>7. CASE Destruct
  BY <1>1, <1>2, <1>7
     DEF Destruct, DestroyDevice, DestroyDeviceThrows, ReleaseDriver, ResetParent, ExitContext,
         ManagerMembers
<1>8. CASE Taking
  BY <1>1, <1>8 DEF Taking, AddSession, GetSessions, GetDrivers, Scan, UseDriver, UseOrphan,
                    GetDriver, GetDevices
<1>9. CASE Dropping
  BY <1>1, <1>3, <1>4, <1>5, <1>9 DEF Dropping, RemoveAll, RemoveSession, SetScan, Release
<1> QED
  BY <1>6, <1>7, <1>8, <1>9 DEF Next, Running, Taking, Dropping

(***************************************************************************)
(* Neither a capture nor sr_session_destroy meets a device that is gone,   *)
(* as long as every add_device follows a reset_device.                     *)
(***************************************************************************)
THEOREM ListedAreLive == Spec => []ListedDevicesLive
<1>1. Init => ListsItsDevice
  BY DEF Init, ListsItsDevice
<1>2. RefInv /\ ListsItsDevice => ListedDevicesLive
  <2> SUFFICES ASSUME RefInv, ListsItsDevice, NEW s \in Sessions \ twice, s # inReset,
                      NEW d \in srDevs[s]
               PROVE  srp_driver_[d] # None
    BY DEF ListedDevicesLive
  <2>1. d = device_[s] /\ d # None
    BY DEF ListsItsDevice
  <2> QED BY <2>1 DEF RefInv, FieldsHoldLive
<1> QED BY <1>1, <1>2, RefInit, RefStep, ListsStep, PTL DEF Spec

-----------------------------------------------------------------------------
(* What stays when Python lets go of everything.                           *)

(***************************************************************************)
(* Nothing outlives Python's last reference but what hangs on a registered *)
(* session that still has a device: following the holders from the manager *)
(* or from any object comes back to such a session.                        *)
(***************************************************************************)
THEOREM NothingElseStays == Spec => []OnlyCyclesStay
<1>1. RefInv => OnlyCyclesStay
  <2> SUFFICES ASSUME RefInv, py = {}, ~Garbage, ~Cycle
               PROVE  Everything
    BY DEF OnlyCyclesStay
  <2> USE DEF RefInv, TypeOK
  \* A live session is registered, and then it has no device.
  <2>1. \A s \in live : \E i \in Ids : sessions_[i] = s
    BY DEF Garbage, SessionUnheld
  <2>2. \A s \in Sessions : device_[s] = None /\ scanned_[s] = {}
    BY <2>1, LifetimeAssumption DEF Cycle, DeadSessionsEmpty
  \* So no device is held, no driver is shared and nothing keeps the manager.
  <2>3. \A d \in Devices : srp_driver_[d] = None
    BY <2>2, LifetimeAssumption DEF Garbage, DeviceUnheld
  <2>4. shared = {}
    BY <2>3, LifetimeAssumption DEF Garbage, DriverUnheld
  <2>5. mgr = "gone"
    BY <2>4 DEF Garbage, ManagerUnheld, ParentIsShared
  <2>6. live = {}
    BY <2>1, <2>5, LifetimeAssumption DEF FieldsHoldLive
  <2> QED BY <2>3, <2>5, <2>6 DEF Everything
<1> QED BY <1>1, RefInit, RefStep, PTL DEF Spec
=============================================================================
