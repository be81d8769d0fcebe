-------------------------- MODULE SrpSessionProofs ---------------------------
(***************************************************************************)
(* Theorems about SrpSession, for any number of callers, devices, storages *)
(* and callbacks, and whether or not the callers keep to the order.        *)
(***************************************************************************)
EXTENDS SrpSessionProps, TLAPS

(* Types.                                                                  *)

\* What a caller has at hand: the device of an add_device, the storage of a start_capture.
ArgFits ==
  \A p \in Callers :
     /\ pc[p] \in {"stop_state", "stop_session", "stop_join", "stop_wait"} /\ ret[p] = "add_assign"
           => arg[p] \in Devices
     /\ pc[p] \in {"add_assign", "add_open"} => arg[p] \in Devices
     /\ pc[p] \in {"start_bufsize", "start_emplace", "start_thread", "start_assign"}
           => arg[p] \in StorId

TypeInv == TypeOK /\ ArgFits

\* A new storage is a storage.
LEMMA NewStorageType == \A ch \in BOOLEAN : NewStorage(ch) \in Storage
BY DEF NewStorage, Storage

\* A call's step changes the types only through the caller's own entries.
LEMMA SessionTypeCalls ==
  ASSUME TypeInv, NEW p \in Callers, CallStep(p) \/ NewCall(p)
  PROVE  TypeInv'
<1> USE SessionAssumption
    DEF TypeInv, TypeOK, ArgFits, CallAt, Call, devVars, storVars, sampVars,
        acqVars, argVars, useVars, CallPoints, SamplingPoints, Faults, StorId, NoStor
<1>1. CASE StartDevice(p)
  BY <1>1 DEF StartDevice
<1>2. CASE StartState(p)
  BY <1>2 DEF StartState
<1>3. CASE StartChannels(p)
  BY <1>3 DEF StartChannels
<1>4. CASE StartChannelsNull(p)
  BY <1>4 DEF StartChannelsNull
<1>5. CASE StartStorId(p)
  BY <1>5 DEF StartStorId
<1>6. CASE StartBufsize(p)
  BY <1>6 DEF StartBufsize
<1>7. CASE StartBufsizeThrows(p)
  BY <1>7 DEF StartBufsizeThrows
<1>8. CASE StartBufsizeNull(p)
  BY <1>8 DEF StartBufsizeNull
<1>9. CASE StartEmplace(p)
  <2>1. arg[p] \in StorId /\ stor' \in [StorId -> Storage]
    BY <1>9, NewStorageType DEF StartEmplace
  <2>2. storage_' \in [{NoStor} \cup StorId -> {NoStor} \cup StorId]
    BY <1>9, <2>1 DEF StartEmplace
  <2> QED BY <1>9, <2>1, <2>2 DEF StartEmplace
<1>10. CASE StartEmplaceNull(p)
  BY <1>10 DEF StartEmplaceNull
<1>11. CASE StartThread(p)
  BY <1>11 DEF StartThread
<1>12. CASE StartAssign(p)
  BY <1>12 DEF StartAssign
<1>13. CASE StartAssignAgain(p)
  BY <1>13 DEF StartAssignAgain
<1>14. CASE StopState(p)
  BY <1>14 DEF StopState
<1>15. CASE StopSession(p)
  BY <1>15 DEF StopSession
<1>16. CASE StopJoinable(p)
  BY <1>16 DEF StopJoinable
<1>17. CASE StopJoin(p)
  <2>1. captured' \in BOOLEAN
    BY <1>17 DEF StopJoin
  <2>2. /\ pc' \in [Callers -> CallPoints]
        /\ ret' \in [Callers -> {"idle", "add_assign", "destroy_session"}]
        /\ sampl_th_' \in {NoStor} \cup StorId
    BY <1>17 DEF StopJoin
  <2>3. UNCHANGED <<devVars, storVars, capture_state_, spc, acqVars, enabled, arg, picked,
                    orderly, added, fault>>
    BY <1>17 DEF StopJoin
  <2>4. TypeOK'
    BY <2>1, <2>2, <2>3
  <2>5. ArgFits'
    BY <1>17, <2>3 DEF StopJoin
  <2> HIDE DEF TypeInv
  <2> QED BY <2>4, <2>5 DEF TypeInv
<1>18. CASE StopJoinAgain(p)
  BY <1>18 DEF StopJoinAgain
<1>19. CASE AddAssign(p)
  BY <1>19 DEF AddAssign
<1>20. CASE AddOpen(p)
  BY <1>20 DEF AddOpen
<1>21. CASE AddOpenThrows(p)
  BY <1>21 DEF AddOpenThrows
<1>22. CASE AddToSession(p)
  BY <1>22 DEF AddToSession
<1>23. CASE AddNull(p)
  BY <1>23 DEF AddNull
<1>24. CASE AddCallback(p)
  BY <1>24 DEF AddCallback
<1>25. CASE DropStorage(p)
  <2>1. stor' \in [StorId -> Storage]
    BY <1>25, NewStorageType DEF DropStorage, Destroyed
  <2>2. failed' \in SUBSET StorId
    BY <1>25 DEF DropStorage, Destroyed
  <2>3. /\ pc' = [pc EXCEPT ![p] = "idle"] /\ arg' = [arg EXCEPT ![p] = NoDevice]
        /\ UNCHANGED <<devVars, storage_, cur_storid_, made, sampVars, acq, acqEnabled, stopAsked,
                       enabled, ret, picked, useVars, fault>>
    BY <1>25 DEF DropStorage
  <2>4. /\ pc' \in [Callers -> CallPoints]
        /\ arg' \in [Callers -> Devices \cup {NoDevice, NoStor} \cup StorId]
    BY <2>3
  <2>5. ArgFits'
    BY <2>3
  <2>6. TypeOK'
    BY <2>1, <2>2, <2>3, <2>4
  <2> HIDE DEF TypeInv
  <2> QED BY <2>5, <2>6 DEF TypeInv
<1>26. CASE DestroySession(p)
  BY <1>26 DEF DestroySession
<1>27. CASE DestroyStorages(p)
  <2>1. stor' \in [StorId -> Storage]
    BY <1>27, NewStorageType DEF DestroyStorages, Destroyed
  <2>2. failed' \in SUBSET StorId /\ storage_' \in [{NoStor} \cup StorId -> {NoStor} \cup StorId]
    BY <1>27 DEF DestroyStorages, Destroyed
  <2>3. /\ pc' = [pc EXCEPT ![p] = "destroy_device"]
        /\ UNCHANGED <<devVars, cur_storid_, made, sampVars, acq, acqEnabled, stopAsked, enabled,
                       argVars, useVars, fault>>
    BY <1>27 DEF DestroyStorages
  <2>4. pc' \in [Callers -> CallPoints]
    BY <2>3
  <2>5. ArgFits'
    BY <2>3
  <2>6. TypeOK'
    BY <2>1, <2>2, <2>3, <2>4
  <2> HIDE DEF TypeInv
  <2> QED BY <2>5, <2>6 DEF TypeInv
<1>28. CASE DestroyDevice(p)
  BY <1>28 DEF DestroyDevice
<1>29. CASE StartCapture(p)
  BY <1>29 DEF StartCapture
<1>30. CASE StopCapture(p)
  BY <1>30 DEF StopCapture
<1>31. CASE ResetDevice(p)
  <2>1. device_ \in Devices /\ pc' = [pc EXCEPT ![p] = "idle"]
    BY <1>31 DEF ResetDevice
  <2>2. opened' \in [Devices -> BOOLEAN] /\ srOpen' \in [Devices -> BOOLEAN]
    <3>1. /\ opened' = [opened EXCEPT ![device_] = FALSE]
          /\ srOpen' = [srOpen EXCEPT ![device_] = FALSE]
      BY <1>31 DEF ResetDevice
    <3>2. opened \in [Devices -> BOOLEAN] /\ srOpen \in [Devices -> BOOLEAN]
      OBVIOUS
    <3> QED BY ONLY <3>1, <3>2, <2>1
  <2>3. device_' = NoDevice /\ srDevs' = {} /\ srCallbacks' = 0 /\ added' = FALSE
    BY <1>31 DEF ResetDevice
  <2>4. UNCHANGED <<gone, storVars, sampVars, acqVars, enabled, argVars, orderly, captured, fault>>
    BY <1>31 DEF ResetDevice
  <2>5. device_' \in Devices \cup {NoDevice} /\ srDevs' \in SUBSET Devices /\ srCallbacks' \in Nat
    BY <2>3
  <2>6. pc' \in [Callers -> CallPoints]
    BY <2>1
  <2>7. orderly' \in BOOLEAN /\ captured' \in BOOLEAN /\ added' \in BOOLEAN
    BY <2>3, <2>4
  <2>8. TypeOK'
    BY <2>2, <2>4, <2>5, <2>6, <2>7
  <2>9. ArgFits'
    BY <2>1, <2>4
  <2> HIDE DEF TypeInv
  <2> QED BY <2>8, <2>9 DEF TypeInv
<1>32. CASE ResetNoDevice(p)
  BY <1>32 DEF ResetNoDevice
<1>33. CASE SetEnabled(p)
  BY <1>33 DEF SetEnabled
<1>34. CASE RemoveStorage(p)
  BY <1>34 DEF RemoveStorage
<1>35. CASE Destroy(p)
  BY <1>35 DEF Destroy
<1>36. ASSUME NEW d \in Devices, AddDevice(p, d) PROVE TypeInv'
  BY <1>36 DEF AddDevice
<1> HIDE DEF TypeInv
<1>37. CASE CallStep(p)
  BY <1>37, <1>1, <1>2, <1>3, <1>4, <1>5, <1>6, <1>7, <1>8, <1>9, <1>10, <1>11, <1>12, <1>13,
     <1>14, <1>15, <1>16, <1>17, <1>18, <1>19, <1>20, <1>21, <1>22, <1>23, <1>24, <1>25, <1>26,
     <1>27, <1>28 DEF CallStep
<1>38. CASE NewCall(p)
  BY <1>38, <1>29, <1>30, <1>31, <1>32, <1>33, <1>34, <1>35, <1>36 DEF NewCall
<1> QED BY <1>37, <1>38

\* Feeding the current storage leaves storages behind.
LEMMA FeedTypes ==
  ASSUME stor \in [StorId -> Storage], Current \in StorId,
         NEW f \in Storage, Feeds(f)
  PROVE  stor' \in [StorId -> Storage]
BY DEF Feeds

\* What a packet makes of a storage is a storage.
LEMMA StorageTypes ==
  ASSUME NEW s \in Storage, NEW a \in StorId
  PROVE  /\ [s EXCEPT !.thread = "alive", !.acqDone = FALSE, !.fedBy = @ \cup {a}] \in Storage
         /\ [s EXCEPT !.fedBy = @ \cup {a}] \in Storage
         /\ [s EXCEPT !.acqDone = TRUE] \in Storage
         /\ [s EXCEPT !.thread = "ended"] \in Storage
<1>1. s.fedBy \cup {a} \in SUBSET StorId
  BY DEF Storage
<1>2. [s EXCEPT !.fedBy = @ \cup {a}] \in Storage
  BY <1>1 DEF Storage
<1> QED BY <1>1, <1>2 DEF Storage

\* A packet that is fed finds a storage.
LEMMA CurrentType ==
  ASSUME TypeInv, ~NoStorage, srCallbacks # 0
  PROVE  Current \in StorId /\ stor[Current] \in Storage
BY DEF TypeInv, TypeOK, NoStorage, Current

\* The current storage, when there is one, keeps its shape whatever is fed to it.
LEMMA SessionTypeSampling ==
  ASSUME TypeInv, NEW t \in StorId, SampStep(t) \/ SampMay(t)
  PROVE  TypeInv'
<1> USE DEF TypeInv, TypeOK, ArgFits, SampAt, offSamp, devVars, storVars,
        acqVars, argVars, useVars, CallPoints, SamplingPoints, Faults, NoStor, AcquisitionOver
<1>1. CASE SampStart(t)
  BY <1>1 DEF SampStart
<1>2. CASE SampStartRefused(t)
  BY <1>2 DEF SampStartRefused
<1>3. CASE SampStarted(t)
  BY <1>3 DEF SampStarted
<1>4. CASE SampRunning(t)
  BY <1>4 DEF SampRunning
<1>5. CASE SampRunReturns(t)
  <2>1. acqEnabled' \in BOOLEAN /\ stopAsked' \in BOOLEAN
    BY <1>5 DEF SampRunReturns
  <2>2. /\ spc' \in [StorId -> SamplingPoints]
        /\ UNCHANGED <<storVars, capture_state_, acq, failed, offSamp, fault>>
    BY <1>5 DEF SampRunReturns
  <2>3. TypeOK' /\ ArgFits'
    BY <2>1, <2>2
  <2> HIDE DEF TypeInv
  <2> QED BY <2>3 DEF TypeInv
<1>6. CASE SampStopped(t)
  BY <1>6 DEF SampStopped
<1>7. CASE SampStartFails(t)
  <2>1. acqEnabled' \in BOOLEAN /\ stopAsked' \in BOOLEAN
    BY <1>7 DEF SampStartFails
  <2>2. /\ spc' \in [StorId -> SamplingPoints]
        /\ acq' \in [Devices -> {"off", "header", "data", "left"}]
        /\ failed' \in SUBSET StorId
        /\ UNCHANGED <<storVars, capture_state_, offSamp, fault>>
    BY <1>7 DEF SampStartFails
  <2>3. TypeOK' /\ ArgFits'
    BY <2>1, <2>2
  <2> HIDE DEF TypeInv
  <2> QED BY <2>3 DEF TypeInv
<1>8. CASE SampRunFails(t)
  <2>1. acqEnabled' \in BOOLEAN /\ stopAsked' \in BOOLEAN
    BY <1>8 DEF SampRunFails
  <2>2. /\ spc' \in [StorId -> SamplingPoints]
        /\ acq' \in [Devices -> {"off", "header", "data", "left"}]
        /\ failed' \in SUBSET StorId
        /\ UNCHANGED <<storVars, capture_state_, offSamp, fault>>
    BY <1>8 DEF SampRunFails
  <2>3. TypeOK' /\ ArgFits'
    BY <2>1, <2>2
  <2> HIDE DEF TypeInv
  <2> QED BY <2>3 DEF TypeInv
<1>9. ASSUME NEW d \in Devices, PacketNoStorage(t, d) PROVE TypeInv'
  BY <1>9 DEF PacketNoStorage, Arrives
<1>10. ASSUME NEW d \in Devices, HeaderIn(t, d) PROVE TypeInv'
  <2>1. fault' \in Faults
    BY <1>10 DEF HeaderIn, Arrives
  <2>2. stor' \in [StorId -> Storage]
    <3>1. CASE srCallbacks = 0
      BY <1>10, <3>1 DEF HeaderIn
    <3>2. CASE srCallbacks # 0
      <4>1. Current \in StorId /\ stor[Current] \in Storage
        BY <1>10, <3>2, CurrentType DEF HeaderIn
      <4>2. Feeds([stor[Current] EXCEPT !.thread = "alive", !.acqDone = FALSE,
                                        !.fedBy = @ \cup {t}])
        BY <1>10, <3>2 DEF HeaderIn
      <4> QED BY <4>1, <4>2, FeedTypes, StorageTypes
    <3> QED BY <3>1, <3>2
  <2> QED BY <1>10, <2>1, <2>2 DEF HeaderIn, Arrives
<1>11. ASSUME NEW d \in Devices, AnalogIn(t, d) PROVE TypeInv'
  <2>1. fault' \in Faults
    BY <1>11 DEF AnalogIn, Arrives
  <2>2. Current \in StorId /\ stor[Current] \in Storage
    BY <1>11, CurrentType DEF AnalogIn
  <2>3. Feeds([stor[Current] EXCEPT !.fedBy = @ \cup {t}])
    BY <1>11 DEF AnalogIn
  <2>4. stor' \in [StorId -> Storage]
    BY <2>2, <2>3, FeedTypes, StorageTypes
  <2> QED BY <1>11, <2>1, <2>4 DEF AnalogIn, Arrives
<1>12. ASSUME NEW d \in Devices, EndIn(t, d) PROVE TypeInv'
  <2>1. fault' = fault
    BY <1>12 DEF EndIn, Arrives
  <2>2. stor' \in [StorId -> Storage]
    <3>1. CASE srCallbacks = 0
      BY <1>12, <3>1 DEF EndIn
    <3>2. CASE srCallbacks # 0
      <4>1. Current \in StorId /\ stor[Current] \in Storage
        BY <1>12, <3>2, CurrentType DEF EndIn
      <4>2. Feeds([stor[Current] EXCEPT !.acqDone = TRUE])
        BY <1>12, <3>2 DEF EndIn
      <4> QED BY <4>1, <4>2, FeedTypes, StorageTypes
    <3> QED BY <3>1, <3>2
  <2> QED BY <1>12, <2>1, <2>2 DEF EndIn, Arrives
<1> HIDE DEF TypeInv
<1> QED
  BY <1>1, <1>2, <1>3, <1>4, <1>5, <1>6, <1>7, <1>8, <1>9, <1>10, <1>11, <1>12
     DEF SampStep, SampMay

\* Data threads that end and devices that go keep them too.
LEMMA SessionTypeOthers ==
  ASSUME TypeInv, \/ \E s \in StorId : DataThreadEnds(s)
                  \/ \E d \in Devices : DropDevice(d) \/ DropDeviceThrows(d)
  PROVE  TypeInv'
<1> USE DEF TypeInv, TypeOK, ArgFits, devVars, storVars, sampVars, acqVars, argVars, useVars, Faults
<1>1. ASSUME NEW s \in StorId, DataThreadEnds(s) PROVE TypeInv'
  <2>1. stor' \in [StorId -> Storage]
    BY <1>1, StorageTypes DEF DataThreadEnds
  <2> QED BY <1>1, <2>1 DEF DataThreadEnds
<1>2. ASSUME NEW d \in Devices, DropDevice(d) PROVE TypeInv'
  BY <1>2 DEF DropDevice
<1>3. ASSUME NEW d \in Devices, DropDeviceThrows(d) PROVE TypeInv'
  BY <1>3 DEF DropDeviceThrows
<1> QED BY <1>1, <1>2, <1>3

\* The session a constructor leaves has the right types.
LEMMA SessionTypeInit == Init => TypeInv
<1> SUFFICES ASSUME Init PROVE TypeInv
  OBVIOUS
<1>1. stor \in [StorId -> Storage]
  BY NewStorageType DEF Init
<1>2. TypeOK
  <2>1. /\ device_ \in Devices \cup {NoDevice}
        /\ srDevs \in SUBSET Devices /\ srCallbacks \in Nat /\ gone \in SUBSET Devices
        /\ storage_ \in [{NoStor} \cup StorId -> {NoStor} \cup StorId]
        /\ cur_storid_ \in {NoStor} \cup StorId /\ sampl_th_ \in {NoStor} \cup StorId
        /\ made \in 0 .. MaxStor /\ failed \in SUBSET StorId
    BY SessionAssumption DEF Init, NoStor
  <2>2. opened \in [Devices -> BOOLEAN] /\ srOpen \in [Devices -> BOOLEAN]
    BY DEF Init
  <2>3. /\ acq \in [Devices -> {"off", "header", "data", "left"}]
        /\ spc \in [StorId -> SamplingPoints]
        /\ pc \in [Callers -> CallPoints]
        /\ ret \in [Callers -> {"idle", "add_assign", "destroy_session"}]
        /\ arg \in [Callers -> Devices \cup {NoDevice, NoStor} \cup StorId]
        /\ picked \in [Callers -> {"none", "with", "without", "many"}]
    BY DEF Init, CallPoints, SamplingPoints
  <2>4. capture_state_ \in {"Stopped", "Running"} /\ fault \in Faults
    BY DEF Init, Faults
  <2>5. /\ acqEnabled \in BOOLEAN /\ stopAsked \in BOOLEAN
        /\ enabled \in BOOLEAN /\ orderly \in BOOLEAN /\ captured \in BOOLEAN /\ added \in BOOLEAN
    BY DEF Init
  <2> QED BY <1>1, <2>1, <2>2, <2>3, <2>4, <2>5 DEF TypeOK
<1>3. ArgFits
  BY DEF Init, ArgFits
<1> QED BY <1>2, <1>3 DEF TypeInv

\* TypeInv is inductive.
LEMMA SessionTypeStep == TypeInv /\ [Next]_vars => TypeInv'
<1> SUFFICES ASSUME TypeInv, [Next]_vars PROVE TypeInv'
  OBVIOUS
<1>1. CASE UNCHANGED vars
  BY <1>1 DEF vars, devVars, storVars, sampVars, acqVars, argVars, useVars, TypeInv, TypeOK,
              ArgFits
<1> QED BY <1>1, SessionTypeCalls, SessionTypeSampling, SessionTypeOthers DEF Next

(***************************************************************************)
(* Type correctness: what a session's variables hold after any calls, in   *)
(* whatever order and from however many threads.                           *)
(***************************************************************************)
THEOREM SessionTypeCorrect == Spec => []TypeOK
<1>1. TypeInv => TypeOK
  BY DEF TypeInv
<1> QED BY <1>1, SessionTypeInit, SessionTypeStep, PTL DEF Spec

-----------------------------------------------------------------------------
(* The numbers of start_captures.                                          *)

\* The points between a start_capture's number and its thread.
Numbered == {"start_bufsize", "start_emplace", "start_thread"}

\* No thread goes by a number nobody has drawn, or by one whose start_capture has made none yet,
\* and no two of these have the same.
FreshNumbers ==
  /\ \A t \in StorId : spc[t] # "none" => t <= made
  /\ \A p \in Callers : pc[p] \in Numbered => arg[p] <= made /\ spc[arg[p]] = "none"
  /\ \A p, q \in Callers :
        pc[p] \in Numbered /\ pc[q] \in Numbered /\ arg[p] = arg[q] => p = q

\* A step that draws no number and makes no thread.
LEMMA FreshElsewhere ==
  ASSUME TypeInv, FreshNumbers, made' = made,
         \A t \in StorId : spc'[t] # "none" => spc[t] # "none",
         \A q \in Callers : pc'[q] \in Numbered => pc[q] \in Numbered /\ arg'[q] = arg[q]
  PROVE  FreshNumbers'
<1>1. \A q \in Callers : pc[q] \in Numbered => arg[q] \in StorId
  BY DEF TypeInv, ArgFits, Numbered
<1>2. \A q \in Callers :
         pc'[q] \in Numbered => arg'[q] <= made' /\ spc'[arg'[q]] = "none"
  BY <1>1 DEF FreshNumbers
<1> QED BY <1>2 DEF FreshNumbers

\* A number is drawn above all others; a thread takes its start_capture's.
LEMMA FreshCalls ==
  ASSUME TypeInv, FreshNumbers, NEW p \in Callers, CallStep(p) \/ NewCall(p)
  PROVE  FreshNumbers'
<1> USE DEF CallAt, Numbered, sampVars, storVars, argVars
<1>0. pc \in [Callers -> CallPoints] /\ DOMAIN arg = Callers /\ DOMAIN spc = StorId /\ made \in Nat
  BY DEF TypeInv, TypeOK
<1>1. CASE StartStorId(p)
  <2>1. /\ made' = made + 1 /\ arg' = [arg EXCEPT ![p] = made'] /\ spc' = spc
        /\ pc' = [pc EXCEPT ![p] = "start_bufsize"] /\ made' \in StorId
    BY <1>1, <1>0, SessionAssumption DEF StartStorId, StorId
  <2>2. \A q \in Callers : pc[q] \in Numbered => arg[q] \in StorId
    BY DEF TypeInv, ArgFits
  <2>3. spc[made'] = "none"
    BY <2>1, <1>0 DEF FreshNumbers, StorId
  <2>4. \A q \in Callers \ {p} : pc'[q] \in Numbered => arg'[q] = arg[q] /\ arg[q] < made'
    BY <2>1, <2>2, <1>0 DEF FreshNumbers, StorId
  <2>5. \A q \in Callers : pc'[q] \in Numbered => arg'[q] <= made' /\ spc'[arg'[q]] = "none"
    BY <2>1, <2>2, <2>3, <2>4, <1>0 DEF FreshNumbers, StorId
  <2>6. \A q, r \in Callers :
           pc'[q] \in Numbered /\ pc'[r] \in Numbered /\ arg'[q] = arg'[r] => q = r
    BY <2>1, <2>2, <2>4, <1>0 DEF FreshNumbers, StorId
  <2>7. \A t \in StorId : spc'[t] # "none" => t <= made'
    BY <2>1, <1>0 DEF FreshNumbers, StorId
  <2> QED BY <2>5, <2>6, <2>7 DEF FreshNumbers
<1>2. CASE StartThread(p)
  <2>1. /\ made' = made /\ arg' = arg /\ pc' = [pc EXCEPT ![p] = "start_assign"]
        /\ spc' = [spc EXCEPT ![arg[p]] = "start"] /\ pc[p] \in Numbered
    BY <1>2 DEF StartThread
  <2>2. \A q \in Callers \ {p} : pc[q] \in Numbered => arg[q] # arg[p]
    BY <2>1 DEF FreshNumbers
  <2>3. \A q \in Callers : pc'[q] \in Numbered => q # p /\ pc[q] \in Numbered
    BY <2>1, <1>0
  <2>4. \A t \in StorId : spc'[t] # "none" => t <= made'
    BY <2>1, <1>0 DEF FreshNumbers
  <2>5. \A q \in Callers : pc[q] \in Numbered => arg[q] \in StorId
    BY DEF TypeInv, ArgFits
  <2>6. \A q \in Callers : pc'[q] \in Numbered => arg'[q] <= made' /\ spc'[arg'[q]] = "none"
    BY <2>1, <2>2, <2>3, <2>5, <1>0 DEF FreshNumbers
  <2> QED BY <2>1, <2>3, <2>4, <2>6 DEF FreshNumbers
<1>3. CASE StartBufsize(p) \/ StartBufsizeThrows(p) \/ StartBufsizeNull(p)
  BY <1>0, <1>3, FreshElsewhere DEF StartBufsize, StartBufsizeThrows, StartBufsizeNull
<1>4. CASE StartEmplace(p) \/ StartEmplaceNull(p)
  BY <1>0, <1>4, FreshElsewhere DEF StartEmplace, StartEmplaceNull
<1>5. ASSUME \E from : \E to : CallAt(p, from, to) /\ from \notin Numbered /\ to \notin Numbered,
             UNCHANGED <<spc, made>>,
             UNCHANGED arg \/ \E a : arg' = [arg EXCEPT ![p] = a]
      PROVE  FreshNumbers'
  BY <1>5, <1>0, FreshElsewhere
<1>6. CASE StartDevice(p) \/ StartState(p) \/ StartChannels(p) \/ StartChannelsNull(p)
  BY <1>5, <1>6 DEF StartDevice, StartState, StartChannels, StartChannelsNull
<1>7. CASE StartAssign(p) \/ StartAssignAgain(p)
  BY <1>5, <1>7 DEF StartAssign, StartAssignAgain
<1>8. ASSUME /\ pc[p] \in {"stop_join", "stop_wait"}
             /\ pc' \in {[pc EXCEPT ![p] = ret[p]], [pc EXCEPT ![p] = "stop_wait"]},
             UNCHANGED <<spc, made, arg>>
      PROVE  FreshNumbers'
  <2>1. ret[p] \notin Numbered
    BY DEF TypeInv, TypeOK
  <2> QED BY <1>8, <1>0, <2>1, FreshElsewhere
<1>9. CASE StopState(p) \/ StopSession(p)
  BY <1>5, <1>9 DEF StopState, StopSession
<1>10. CASE StopJoinable(p) \/ StopJoin(p) \/ StopJoinAgain(p)
  BY <1>8, <1>10 DEF StopJoinable, StopJoin, StopJoinAgain
<1>11. CASE \/ AddAssign(p) \/ AddOpen(p) \/ AddOpenThrows(p) \/ AddToSession(p) \/ AddNull(p)
            \/ AddCallback(p)
  BY <1>5, <1>11 DEF AddAssign, AddOpen, AddOpenThrows, AddToSession, AddNull, AddCallback
<1>12. CASE \/ DropStorage(p) \/ DestroySession(p) \/ DestroyStorages(p) \/ DestroyDevice(p)
  BY <1>5, <1>12 DEF DropStorage, DestroySession, DestroyStorages, DestroyDevice
<1>13. CASE NewCall(p)
  BY <1>5, <1>13 DEF NewCall, Call, StartCapture, StopCapture, ResetDevice, ResetNoDevice,
     SetEnabled, RemoveStorage, Destroy, AddDevice
<1> QED BY <1>1, <1>2, <1>3, <1>4, <1>6, <1>7, <1>9, <1>10, <1>11, <1>12, <1>13 DEF CallStep

\* FreshNumbers is inductive.
LEMMA FreshStep == TypeInv /\ FreshNumbers /\ [Next]_vars => FreshNumbers'
<1> SUFFICES ASSUME TypeInv, FreshNumbers, [Next]_vars PROVE FreshNumbers'
  OBVIOUS
<1>1. DOMAIN spc = StorId
  BY DEF TypeInv, TypeOK
<1>2. ASSUME NEW t \in StorId, SampStep(t) \/ SampMay(t) PROVE FreshNumbers'
  <2>1. UNCHANGED <<made, pc, arg>> /\ \A u \in StorId : spc'[u] # "none" => spc[u] # "none"
    BY <1>1, <1>2 DEF SampStep, SampMay, SampAt, Arrives, offSamp, argVars, storVars, SampStart,
       SampStartRefused, SampStartFails, SampStarted, SampRunning, SampRunReturns, SampRunFails,
       SampStopped, HeaderIn, AnalogIn, EndIn, PacketNoStorage
  <2> QED BY <2>1, FreshElsewhere
<1>3. CASE UNCHANGED vars
  BY <1>3, FreshElsewhere DEF vars, sampVars, storVars, argVars
<1>4. ASSUME NEW s \in StorId, DataThreadEnds(s) PROVE FreshNumbers'
  BY <1>4, FreshElsewhere DEF DataThreadEnds, sampVars, argVars
<1>5. ASSUME NEW d \in Devices, DropDevice(d) \/ DropDeviceThrows(d) PROVE FreshNumbers'
  BY <1>5, FreshElsewhere DEF DropDevice, DropDeviceThrows, sampVars, storVars, argVars
<1> QED BY <1>2, <1>3, <1>4, <1>5, FreshCalls DEF Next

LEMMA FreshInit == Init => FreshNumbers
BY DEF Init, FreshNumbers, Numbered

-----------------------------------------------------------------------------
(* Joining.                                                                *)

\* A thread that has not ended is in sampl_th_, or in the hands of the start_capture that made it.
HeldThread ==
  \A t \in StorId : spc[t] \notin {"none", "ended"} =>
     sampl_th_ = t \/ \E p \in Callers : pc[p] = "start_assign" /\ arg[p] = t

\* The state is Running only for a thread between its two stores.
StateFollows ==
  capture_state_ = "Running" => \E t \in StorId : spc[t] \in {"run", "set_stopped"}

\* The drivers acquire only inside sr_session_start and sr_session_run...
AcquireInside ==
  \A d \in Devices : acq[d] \in {"header", "data"} => \E t \in StorId : spc[t] \in InLibsigrok

\* ...and every header has come when the former returns.
HeadersFirst ==
  \A t \in StorId : spc[t] \in {"set_running", "run"} => \A d \in Devices : acq[d] # "header"

JoinInv == HeldThread /\ StateFollows /\ AcquireInside /\ HeadersFirst

\* Before the first capture there is no thread.
LEMMA JoinInit == Init => JoinInv
BY DEF Init, JoinInv, HeldThread, StateFollows, AcquireInside, HeadersFirst

\* The steps of a call that has no thread in its hands, and leaves libsigrok's acquisitions alone.
LEMMA JoinElsewhere ==
  ASSUME TypeInv, JoinInv, UNCHANGED <<sampVars, acq>>,
         \A q \in Callers : pc[q] = "start_assign" =>
            pc'[q] = "start_assign" /\ arg'[q] = arg[q]
  PROVE  JoinInv'
BY DEF JoinInv, HeldThread, StateFollows, AcquireInside, HeadersFirst, sampVars

\* Callers touch threads only to start, keep and join them.
LEMMA JoinCalls ==
  ASSUME TypeInv, FreshNumbers, JoinInv, NEW p \in Callers, CallStep(p) \/ NewCall(p)
  PROVE  JoinInv'
<1> USE DEF CallAt
<1>1. CASE StartThread(p)
  <2>1. arg[p] \in StorId /\ spc[arg[p]] = "none"
    BY <1>1 DEF StartThread, TypeInv, ArgFits, FreshNumbers, Numbered
  <2>2. /\ spc' = [spc EXCEPT ![arg[p]] = "start"] /\ pc' = [pc EXCEPT ![p] = "start_assign"]
        /\ UNCHANGED <<sampl_th_, capture_state_, acq, arg>>
    BY <1>1 DEF StartThread, acqVars, argVars
  <2> QED BY <1>1, <2>1, <2>2 DEF StartThread, TypeInv, TypeOK, JoinInv, HeldThread, StateFollows,
                                  AcquireInside, HeadersFirst, InLibsigrok
<1>2. CASE StartAssign(p)
  BY <1>2 DEF StartAssign, TypeInv, TypeOK, JoinInv, HeldThread, StateFollows, AcquireInside,
              HeadersFirst, acqVars, StorId, NoStor
<1>3. CASE StopJoin(p)
  BY <1>3 DEF StopJoin, TypeInv, TypeOK, JoinInv, HeldThread, StateFollows, AcquireInside,
              HeadersFirst, acqVars
<1>4. ASSUME UNCHANGED <<sampVars, acq>>,
             \/ UNCHANGED <<pc, arg>>
             \/ \E from, to : /\ CallAt(p, from, to) /\ from # "start_assign"
                              /\ \/ UNCHANGED arg
                                 \/ \E a : arg' = [arg EXCEPT ![p] = a]
      PROVE  JoinInv'
  BY <1>4, JoinElsewhere DEF TypeInv, TypeOK
<1> USE DEF acqVars, argVars
<1>5. CASE StartAssignAgain(p)
  BY <1>5, JoinElsewhere DEF StartAssignAgain, TypeInv, TypeOK
<1>6. CASE \/ StartDevice(p) \/ StartState(p) \/ StartChannels(p) \/ StartChannelsNull(p)
           \/ StartStorId(p) \/ StartBufsize(p) \/ StartBufsizeThrows(p) \/ StartBufsizeNull(p)
           \/ StartEmplace(p) \/ StartEmplaceNull(p)
  BY <1>4, <1>6 DEF StartDevice, StartState, StartChannels, StartChannelsNull, StartStorId,
     StartBufsize, StartBufsizeThrows, StartBufsizeNull, StartEmplace, StartEmplaceNull
<1>7. CASE \/ StopState(p) \/ StopSession(p) \/ StopJoinable(p) \/ StopJoinAgain(p)
  BY <1>4, <1>7 DEF StopState, StopSession, StopJoinable, StopJoinAgain
<1>8. CASE \/ AddAssign(p) \/ AddOpen(p) \/ AddOpenThrows(p) \/ AddToSession(p) \/ AddNull(p)
           \/ AddCallback(p)
  BY <1>4, <1>8 DEF AddAssign, AddOpen, AddOpenThrows, AddToSession, AddNull, AddCallback
<1>9. CASE \/ DropStorage(p) \/ DestroySession(p) \/ DestroyStorages(p) \/ DestroyDevice(p)
  BY <1>4, <1>9 DEF DropStorage, DestroySession, DestroyStorages, DestroyDevice
<1>10. CASE NewCall(p)
  BY <1>4, <1>10 DEF NewCall, Call, StartCapture, StopCapture, ResetDevice, ResetNoDevice,
     SetEnabled, RemoveStorage, Destroy, AddDevice
<1> QED BY <1>1, <1>2, <1>3, <1>5, <1>6, <1>7, <1>8, <1>9, <1>10 DEF CallStep

\* The thread passes its points in order, and packets come where they may.
LEMMA JoinSampling ==
  ASSUME TypeInv, JoinInv, NEW t \in StorId, SampStep(t) \/ SampMay(t)
  PROVE  JoinInv'
<1> USE DEF TypeInv, TypeOK, JoinInv, HeldThread, StateFollows, AcquireInside, HeadersFirst,
            InLibsigrok, SampAt, offSamp, acqVars, argVars
<1>1. CASE SampStart(t)
  BY <1>1 DEF SampStart
<1>2. CASE SampStartRefused(t)
  BY <1>2 DEF SampStartRefused
<1>3. CASE SampStarted(t)
  BY <1>3 DEF SampStarted
<1>4. CASE SampRunning(t)
  BY <1>4 DEF SampRunning
<1>5. CASE SampRunReturns(t)
  BY <1>5 DEF SampRunReturns
<1>6. CASE SampStopped(t)
  BY <1>6 DEF SampStopped
<1>7. CASE SampStartFails(t)
  BY <1>7 DEF SampStartFails
<1>8. CASE SampRunFails(t)
  BY <1>8 DEF SampRunFails
<1>9. ASSUME NEW d \in Devices, HeaderIn(t, d) PROVE JoinInv'
  BY <1>9 DEF HeaderIn, Arrives
<1>10. ASSUME NEW d \in Devices, AnalogIn(t, d) \/ EndIn(t, d) PROVE JoinInv'
  BY <1>10 DEF AnalogIn, EndIn, Arrives
<1>11. ASSUME NEW d \in Devices, PacketNoStorage(t, d) PROVE JoinInv'
  BY <1>11 DEF PacketNoStorage, Arrives
<1> HIDE DEF JoinInv
<1> QED
  BY <1>1, <1>2, <1>3, <1>4, <1>5, <1>6, <1>7, <1>8, <1>9, <1>10, <1>11 DEF SampStep, SampMay

\* JoinInv is inductive.
LEMMA JoinStep == TypeInv /\ FreshNumbers /\ JoinInv /\ [Next]_vars => JoinInv'
<1> SUFFICES ASSUME TypeInv, FreshNumbers, JoinInv, [Next]_vars PROVE JoinInv'
  OBVIOUS
<1>1. CASE UNCHANGED vars
  BY <1>1, JoinElsewhere DEF vars, sampVars, acqVars, argVars
<1>2. ASSUME NEW s \in StorId, DataThreadEnds(s) PROVE JoinInv'
  BY <1>2, JoinElsewhere DEF DataThreadEnds, acqVars, argVars
<1>3. ASSUME NEW d \in Devices, DropDevice(d) \/ DropDeviceThrows(d) PROVE JoinInv'
  BY <1>3, JoinElsewhere DEF DropDevice, DropDeviceThrows, acqVars, argVars
<1> QED BY <1>1, <1>2, <1>3, JoinCalls, JoinSampling DEF Next

(***************************************************************************)
(* Whoever joins the sampling threads, and whatever calls run meanwhile:   *)
(* with none in sampl_th_ and none in a start_capture's hands              *)
(* (srpsession.cpp:181, 189), every capture is over.                       *)
(***************************************************************************)
THEOREM JoinEndsCapture == Spec => []JoinedIsOver
<1>1. TypeInv /\ JoinInv => JoinedIsOver
  <2> SUFFICES ASSUME TypeInv, JoinInv, sampl_th_ = NoStor, ~InHand
               PROVE  /\ capture_state_ = "Stopped"
                      /\ \A t \in StorId : spc[t] \in {"none", "ended"}
                      /\ \A d \in Devices : acq[d] \in {"off", "left"}
    BY DEF JoinedIsOver
  <2>1. \A t \in StorId : spc[t] \in {"none", "ended"}
    BY DEF JoinInv, HeldThread, InHand, StorId, NoStor
  <2>2. capture_state_ = "Stopped"
    BY <2>1 DEF TypeInv, TypeOK, JoinInv, StateFollows
  <2>3. \A d \in Devices : acq[d] \in {"off", "left"}
    BY <2>1 DEF TypeInv, TypeOK, JoinInv, AcquireInside, InLibsigrok
  <2> QED BY <2>1, <2>2, <2>3
<1>2. Init => TypeInv /\ FreshNumbers /\ JoinInv
  BY SessionTypeInit, FreshInit, JoinInit
<1>3. (TypeInv /\ FreshNumbers /\ JoinInv) /\ [Next]_vars
         => (TypeInv /\ FreshNumbers /\ JoinInv)'
  BY SessionTypeStep, FreshStep, JoinStep
<1> QED BY <1>1, <1>2, <1>3, PTL DEF Spec
=============================================================================
