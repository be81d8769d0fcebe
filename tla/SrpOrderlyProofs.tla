-------------------------- MODULE SrpOrderlyProofs ---------------------------
(***************************************************************************)
(* What SrpSession guarantees to callers that keep to the order, for any   *)
(* number of callers, devices and storages, whatever the devices and       *)
(* libsigrok do: no call ends the process but for a device that was never  *)
(* open, each acquisition has its own storage, and every data thread is    *)
(* let go unless libsigrok gave up its capture.                            *)
(***************************************************************************)
EXTENDS SrpSessionProofs

StartPoints ==
  {"start_device", "start_state", "start_channels", "start_storid", "start_bufsize",
   "start_emplace", "start_thread", "start_assign"}
StopPoints == {"stop_state", "stop_session", "stop_join", "stop_wait"}
AddPoints == {"add_assign", "add_open", "add_session", "add_callback"}
EndPoints == {"destroy_session", "destroy_storages", "destroy_device", "destroyed"}
Suited == Sized \cap FewChannels

\* One call at a time, and a capture that may be running is one to stop.
OneCall ==
  /\ \A p, q \in Callers : pc[p] # "idle" /\ pc[q] # "idle" => p = q
  /\ sampl_th_ # NoStor => captured

Adding(p) == pc[p] \in AddPoints \/ (pc[p] \in StopPoints /\ ret[p] = "add_assign")

\* Where a call stands tells whether sampl_th_ holds a thread, and what device_ is.
CallKnows ==
  /\ device_ \in Suited \cup {NoDevice}
  /\ \A p \in Callers :
     /\ picked[p] # "many"
     /\ pc[p] \in StartPoints => captured /\ sampl_th_ = NoStor
     /\ pc[p] \in (StartPoints \ {"start_device"}) \cup {"add_open", "add_session"}
          => device_ # NoDevice
     /\ Adding(p) /\ pc[p] \notin {"add_open", "add_session", "add_callback"}
          => arg[p] \in Suited
     /\ pc[p] = "stop_wait" => sampl_th_ # NoStor
     /\ pc[p] \in AddPoints \cup EndPoints \cup {"drop_storage"} => sampl_th_ = NoStor

\* The libsigrok session has one device and one callback, which an add_device finds gone.
OneDevice ==
  /\ \A d, e \in srDevs : d = e
  /\ srCallbacks \in {0, 1}
  /\ ~added => srDevs = {} /\ srCallbacks = 0
  /\ \A p \in Callers :
       Adding(p) => added /\ srCallbacks = 0 /\ (pc[p] # "add_callback" => srDevs = {})

-----------------------------------------------------------------------------
\* The threads somebody has: sampl_th_, or the start_capture that is about to make it or has.
AtHand(t) ==
  sampl_th_ = t \/ \E p \in Callers : pc[p] \in {"start_thread", "start_assign"} /\ arg[p] = t

\* The map has a storage under its own number, or none, and none under numbers to come.
Keys ==
  /\ \A k \in {NoStor} \cup StorId : storage_[k] \in {NoStor, k}
  /\ \A k \in StorId : k > made => storage_[k] = NoStor

\* What new_storage has drawn and found is still current.
Drawn ==
  \A p \in Callers :
     /\ pc[p] \in {"start_storid", "start_bufsize", "start_emplace"}
          => (picked[p] = "with") = enabled
     /\ pc[p] \in {"start_bufsize", "start_emplace"}
          => arg[p] = cur_storid_ /\ storage_[arg[p]] = NoStor

\* The storage of a thread: current, in the map, with the channels enabled now.
HasStorage ==
  /\ \A t \in StorId :
       AtHand(t) => t = cur_storid_ /\ storage_[t] = t /\ stor[t].hasChannel = enabled
  /\ \A t \in StorId : spc[t] \in InLibsigrok => acqEnabled = enabled

\* It has no data thread until its one header comes.
BeforeHeader ==
  \A t \in StorId :
     /\ spc[t] = "start" \/ (AtHand(t) /\ spc[t] = "none") => stor[t].thread = "none"
     /\ spc[t] = "header" =>
          \A d \in Devices : acq[d] = "header" => d \in srDevs /\ stor[t].thread = "none"

\* A data thread still waiting for feed_end is that of the capture, whose device owes an end,
\* or of one that libsigrok gave up.
OwesEnd ==
  \A s \in StorId :
     stor[s].thread = "alive" /\ ~stor[s].acqDone =>
        \/ s \in failed
        \/ spc[s] \in InLibsigrok /\ srCallbacks # 0 /\ \E d \in Devices : acq[d] = "data"

FedByOne == \A s \in StorId : stor[s].fedBy \subseteq {s}

\* What the calls know, and what is known of the storages.
InOrder == OneCall /\ CallKnows /\ OneDevice
Stores == Keys /\ Drawn /\ HasStorage /\ BeforeHeader /\ OwesEnd /\ FedByOne

\* Only what libsigrok never opened is left to go wrong.
Harmless ==
  fault = "none" \/ (fault = "close_throws" /\ \E d \in Devices : opened[d] /\ ~srOpen[d])

OrderlyInv ==
  TypeInv /\ FreshNumbers /\ JoinInv /\ (orderly => Harmless /\ InOrder /\ Stores)

-----------------------------------------------------------------------------
(* What the calls know.                                                    *)

\* An orderly call begins when all callers are idle.
LEMMA OrderlyCall ==
  ASSUME orderly, NEW p \in Callers, NewCall(p)
  PROVE  fault = "none" /\ \A q \in Callers : pc[q] = "idle"
BY DEF NewCall, Call, Alone, CallAt, StartCapture, StopCapture, ResetDevice, ResetNoDevice,
       SetEnabled, RemoveStorage, Destroy, AddDevice

\* The steps of a call that end the process need a thread, many channels, or another device.
LEMMA OrderlyNoFault ==
  ASSUME OrderlyInv, orderly, NEW p \in Callers
  PROVE  ~(\/ StartChannelsNull(p) \/ StartBufsizeNull(p) \/ StartEmplaceNull(p)
           \/ StartAssignAgain(p) \/ StopJoinAgain(p) \/ AddNull(p) \/ ResetNoDevice(p))
BY DEF OrderlyInv, InOrder, CallKnows, StartPoints, StartChannelsNull, StartBufsizeNull,
       StartEmplaceNull, StartAssignAgain, StopJoinAgain, AddNull, ResetNoDevice, Looks, CallAt,
       Suited

\* While a call is in progress nobody else's is.
LEMMA InOrderKept ==
  ASSUME OrderlyInv, orderly, NEW p \in Callers, CallStep(p)
  PROVE  InOrder'
<1> USE SessionAssumption
        DEF CallAt, InOrder, OneCall, CallKnows, OneDevice, Adding, StartPoints, StopPoints,
            AddPoints, EndPoints, OrderlyInv, TypeInv, TypeOK, CallPoints, devVars, sampVars,
            argVars, useVars
<1>1. CASE StartDevice(p)
  BY <1>1 DEF StartDevice
<1>2. CASE StartState(p)
  BY <1>2 DEF StartState
<1>3. CASE StartChannels(p)
  BY <1>3 DEF StartChannels, Suited
<1>4. CASE StartStorId(p)
  BY <1>4 DEF StartStorId
<1>5. CASE StartBufsize(p)
  BY <1>5 DEF StartBufsize
<1>6. CASE StartBufsizeThrows(p)
  BY <1>6 DEF StartBufsizeThrows
<1>7. CASE StartEmplace(p)
  BY <1>7 DEF StartEmplace
<1>8. CASE StartThread(p)
  BY <1>8 DEF StartThread
<1>9. CASE StartAssign(p)
  BY <1>9 DEF StartAssign
<1>10. CASE StopState(p)
  BY <1>10 DEF StopState
<1>11. CASE StopSession(p)
  BY <1>11 DEF StopSession
<1>12. CASE StopJoinable(p)
  BY <1>12 DEF StopJoinable
<1>13. CASE StopJoin(p)
  BY <1>13 DEF StopJoin
<1>14. CASE AddAssign(p)
  BY <1>14 DEF AddAssign, ArgFits, Suited
<1>15. CASE AddOpen(p)
  BY <1>15 DEF AddOpen
<1>16. CASE AddOpenThrows(p)
  BY <1>16 DEF AddOpenThrows
<1>17. CASE AddToSession(p)
  BY <1>17 DEF AddToSession
<1>18. CASE AddCallback(p)
  BY <1>18 DEF AddCallback
<1>19. CASE DropStorage(p)
  BY <1>19 DEF DropStorage
<1>20. CASE DestroySession(p)
  BY <1>20 DEF DestroySession
<1>21. CASE DestroyStorages(p)
  BY <1>21 DEF DestroyStorages
<1>22. CASE DestroyDevice(p)
  BY <1>22 DEF DestroyDevice
<1> QED
  BY OrderlyNoFault, <1>1, <1>2, <1>3, <1>4, <1>5, <1>6, <1>7, <1>8, <1>9, <1>10, <1>11, <1>12,
     <1>13, <1>14, <1>15, <1>16, <1>17, <1>18, <1>19, <1>20, <1>21, <1>22 DEF CallStep

\* A new call finds what the guards of an orderly caller ask for.
LEMMA InOrderBegun ==
  ASSUME OrderlyInv, orderly, NEW p \in Callers, NewCall(p)
  PROVE  InOrder'
<1>0. fault = "none" /\ \A q \in Callers : pc[q] = "idle"
  BY OrderlyCall
<1> USE <1>0
    DEF CallAt, Call, InOrder, OneCall, CallKnows, OneDevice, Adding, StartPoints, StopPoints,
        AddPoints, EndPoints, OrderlyInv, TypeInv, TypeOK, CallPoints, devVars, sampVars,
        argVars, useVars, Quiet
<1>1. CASE StartCapture(p)
  BY <1>1 DEF StartCapture
<1>2. CASE StopCapture(p)
  BY <1>2 DEF StopCapture
<1>3. CASE ResetDevice(p)
  BY <1>3 DEF ResetDevice
<1>4. CASE SetEnabled(p)
  BY <1>4 DEF SetEnabled
<1>5. CASE RemoveStorage(p)
  BY <1>5 DEF RemoveStorage
<1>6. CASE Destroy(p)
  BY <1>6 DEF Destroy
<1>7. ASSUME NEW d \in Devices, AddDevice(p, d) PROVE InOrder'
  BY <1>7 DEF AddDevice, Suits, Suited
<1> QED BY OrderlyNoFault, <1>1, <1>2, <1>3, <1>4, <1>5, <1>6, <1>7 DEF NewCall

\* Sampling threads, packets, data threads and dying devices leave the calls alone.
LEMMA InOrderElsewhere ==
  ASSUME InOrder,
         UNCHANGED <<pc, ret, arg, picked, sampl_th_, captured, added, device_, srDevs, srCallbacks>>
  PROVE  InOrder'
BY DEF InOrder, OneCall, CallKnows, OneDevice, Adding

-----------------------------------------------------------------------------
(* What is known of the storages.                                          *)

\* A thread that runs is the one at hand, and feeds its own storage.
LEMMA LiveThread ==
  ASSUME OrderlyInv, orderly, NEW t \in StorId, spc[t] \notin {"none", "ended"}
  PROVE  /\ AtHand(t) /\ captured
         /\ t = cur_storid_ /\ Current = t /\ stor[t].hasChannel = enabled
<1>1. AtHand(t)
  BY DEF OrderlyInv, JoinInv, HeldThread, AtHand
<1>2. captured
  BY <1>1 DEF OrderlyInv, InOrder, OneCall, CallKnows, AtHand, StartPoints, StorId, NoStor
<1> QED BY <1>1, <1>2 DEF OrderlyInv, Stores, HasStorage, Current

\* While a call stands where no thread is in sampl_th_, only its own can be at hand.
LEMMA NoneAtHand ==
  ASSUME OrderlyInv, orderly, NEW p \in Callers, sampl_th_ = NoStor,
         \/ pc[p] \notin {"idle", "start_thread", "start_assign"}
         \/ \A q \in Callers : pc[q] = "idle"
  PROVE  /\ \A t \in StorId : ~AtHand(t) /\ spc[t] \in {"none", "ended"}
         /\ \A q \in Callers \ {p} : pc[q] = "idle"
<1>1. \A q \in Callers : pc[q] \notin {"start_thread", "start_assign"}
  BY DEF OrderlyInv, InOrder, OneCall
<1>2. \A t \in StorId : ~AtHand(t)
  BY <1>1 DEF AtHand, StorId, NoStor
<1>3. \A t \in StorId : spc[t] \in {"none", "ended"}
  BY <1>2, LiveThread
<1> QED BY <1>2, <1>3 DEF OrderlyInv, InOrder, OneCall

\* A step that leaves storages, threads and acquisitions alone.
LEMMA StoresElsewhere ==
  ASSUME TypeInv, Stores,
         UNCHANGED <<storVars, sampl_th_, spc, enabled, acq, acqEnabled, failed>>,
         \/ srDevs \subseteq srDevs' /\ (srCallbacks # 0 => srCallbacks' # 0)
         \/ \A t \in StorId : spc[t] \notin InLibsigrok,
         \A q \in Callers :
            \/ /\ UNCHANGED <<arg[q], picked[q]>>
               /\ \/ pc'[q] = pc[q]
                  \/ pc[q] = "start_bufsize" /\ pc'[q] = "start_emplace"
            \/ pc'[q] \notin {"start_storid", "start_bufsize", "start_emplace", "start_thread",
                              "start_assign"}
  PROVE  Stores'
<1>1. Keys'
  BY DEF Stores, Keys, storVars
<1>2. Drawn'
  BY DEF Stores, Drawn, storVars
<1>3. \A t \in StorId : AtHand(t)' => AtHand(t)
  BY DEF AtHand
<1>4. HasStorage'
  BY <1>3 DEF Stores, HasStorage, storVars
<1>5. BeforeHeader'
  BY <1>3 DEF Stores, BeforeHeader, InLibsigrok, storVars
<1>6. OwesEnd'
  BY DEF Stores, OwesEnd, storVars
<1>7. FedByOne'
  BY DEF Stores, FedByOne, storVars
<1> QED BY <1>1, <1>2, <1>4, <1>5, <1>6, <1>7 DEF Stores

\* Calls make, hand over and drop storages only while no thread feeds one.
LEMMA StoresKept ==
  ASSUME OrderlyInv, orderly, NEW p \in Callers, CallStep(p)
  PROVE  Stores'
<1>0. /\ TypeInv /\ Stores /\ FreshNumbers
      /\ DOMAIN pc = Callers /\ DOMAIN arg = Callers /\ DOMAIN picked = Callers
      /\ pc[p] # "idle" => \A q \in Callers \ {p} : pc[q] = "idle"
      /\ pc[p] \in StartPoints \cup AddPoints \cup EndPoints \cup {"drop_storage"}
           => sampl_th_ = NoStor
  BY DEF OrderlyInv, TypeInv, TypeOK, InOrder, OneCall, CallKnows
<1> USE DEF CallAt, devVars, sampVars, argVars, useVars, acqVars
<1>1. CASE StartDevice(p) \/ StartState(p)
  BY <1>0, <1>1, StoresElsewhere DEF StartDevice, StartState
<1>2. CASE StartChannels(p)
  <2>1. \A t \in StorId : AtHand(t)' = AtHand(t)
    BY <1>0, <1>2 DEF StartChannels, AtHand
  <2>2. Drawn'
    BY <1>0, <1>2 DEF StartChannels, Stores, Drawn, OrderlyInv, InOrder, CallKnows, StartPoints,
       Suited, TypeInv, TypeOK
  <2> QED BY <1>0, <1>2, <2>1, <2>2 DEF StartChannels, Stores, Keys, HasStorage, BeforeHeader,
                                        OwesEnd, FedByOne, storVars
<1>3. CASE StartStorId(p)
  <2>1. \A t \in StorId : ~AtHand(t) /\ spc[t] \in {"none", "ended"}
    BY <1>0, <1>3, NoneAtHand DEF StartStorId, StartPoints
  <2>2. /\ cur_storid_' = made' /\ arg' = [arg EXCEPT ![p] = made'] /\ made' = made + 1
        /\ pc' = [pc EXCEPT ![p] = "start_bufsize"]
        /\ UNCHANGED <<storage_, stor, sampl_th_, spc, picked, enabled, acq, acqEnabled, failed,
                       srDevs, srCallbacks>>
    BY <1>3 DEF StartStorId
  <2>3. made \in Nat /\ made < MaxStor /\ made' \in StorId
    BY <1>3, SessionAssumption DEF StartStorId, OrderlyInv, TypeInv, TypeOK, StorId
  <2>4. \A t \in StorId : ~AtHand(t)'
    BY <1>0, <2>1, <2>2 DEF AtHand
  <2>5. Keys' /\ storage_[made'] = NoStor
    BY <1>0, <2>2, <2>3 DEF Stores, Keys, StorId
  <2>6. \A q \in Callers : pc'[q] \in {"start_storid", "start_bufsize", "start_emplace"} =>
           q = p /\ arg'[q] = made' /\ (picked[q] = "with") = enabled
    BY <1>0, <1>3, <2>2 DEF Stores, Drawn, StartStorId
  <2>7. Drawn'
    BY <2>2, <2>5, <2>6 DEF Drawn
  <2>8. HasStorage' /\ BeforeHeader' /\ OwesEnd' /\ FedByOne'
    BY <1>0, <2>1, <2>2, <2>4 DEF Stores, HasStorage, BeforeHeader, OwesEnd, FedByOne, InLibsigrok
  <2> QED BY <2>5, <2>7, <2>8 DEF Stores
<1>4. CASE StartBufsize(p) \/ StartBufsizeThrows(p)
  BY <1>0, <1>4, StoresElsewhere DEF StartBufsize, StartBufsizeThrows
<1>5. CASE StartEmplace(p)
  <2> DEFINE s == arg[p]
  <2>1. \A t \in StorId : ~AtHand(t) /\ spc[t] \in {"none", "ended"}
    BY <1>0, <1>5, NoneAtHand DEF StartEmplace, StartPoints
  <2>2. /\ s \in StorId /\ s = cur_storid_ /\ storage_[s] = NoStor /\ s <= made
        /\ (picked[p] = "with") = enabled
    BY <1>0, <1>5 DEF StartEmplace, TypeInv, ArgFits, FreshNumbers, Numbered, Stores, Drawn
  <2>3. /\ pc' = [pc EXCEPT ![p] = "start_thread"]
        /\ storage_' = [storage_ EXCEPT ![s] = s]
        /\ stor' = [stor EXCEPT ![s] = NewStorage(enabled)]
        /\ UNCHANGED <<cur_storid_, made, arg, sampl_th_, spc, enabled, acq, acqEnabled, failed,
                       srDevs, srCallbacks>>
    BY <1>5, <2>2 DEF StartEmplace
  <2>4. /\ storage_'[s] = s /\ \A k \in ({NoStor} \cup StorId) \ {s} : storage_'[k] = storage_[k]
        /\ stor'[s] = NewStorage(enabled) /\ \A k \in StorId \ {s} : stor'[k] = stor[k]
    BY <1>0, <2>2, <2>3 DEF TypeInv, TypeOK
  <2>5. \A t \in StorId : AtHand(t)' => t = s
    BY <1>0, <2>1, <2>3 DEF AtHand
  <2>6. \A q \in Callers :
          pc'[q] \notin {"start_storid", "start_bufsize", "start_emplace"}
    BY <1>0, <1>5, <2>3 DEF StartEmplace
  <2>7. made \in Nat
    BY DEF OrderlyInv, TypeInv, TypeOK
  <2>8. Keys'
    BY <1>0, <2>2, <2>3, <2>4, <2>7 DEF Stores, Keys, StorId
  <2>9. Drawn' /\ HasStorage' /\ BeforeHeader'
    BY <2>1, <2>2, <2>3, <2>4, <2>5, <2>6
       DEF Drawn, HasStorage, BeforeHeader, NewStorage, InLibsigrok
  <2>10. OwesEnd' /\ FedByOne'
    BY <1>0, <2>1, <2>3, <2>4 DEF Stores, OwesEnd, FedByOne, NewStorage
  <2> QED BY <2>8, <2>9, <2>10 DEF Stores
<1>6. CASE StartThread(p)
  <2> DEFINE s == arg[p]
  <2>1. s \in StorId /\ spc[s] = "none" /\ AtHand(s)
    BY <1>6 DEF StartThread, OrderlyInv, TypeInv, ArgFits, FreshNumbers, Numbered, AtHand
  <2>2. /\ pc' = [pc EXCEPT ![p] = "start_assign"] /\ spc' = [spc EXCEPT ![s] = "start"]
        /\ UNCHANGED <<storVars, sampl_th_, arg, picked, enabled, acq, acqEnabled, failed, srDevs,
                       srCallbacks>>
    BY <1>6 DEF StartThread
  <2>3. /\ spc'[s] = "start" /\ \A t \in StorId \ {s} : spc'[t] = spc[t]
    BY <2>1, <2>2 DEF OrderlyInv, TypeInv, TypeOK
  <2>4. \A t \in StorId : AtHand(t)' => AtHand(t)
    BY <1>0, <1>6, <2>2 DEF AtHand, StartThread
  <2>5. stor[s].thread = "none"
    BY <1>0, <2>1 DEF Stores, BeforeHeader
  <2>6. Keys' /\ Drawn'
    BY <1>0, <2>2 DEF Stores, Keys, Drawn, storVars
  <2>7. HasStorage' /\ BeforeHeader' /\ OwesEnd' /\ FedByOne'
    BY <1>0, <2>1, <2>2, <2>3, <2>4, <2>5
       DEF Stores, HasStorage, BeforeHeader, OwesEnd, FedByOne, InLibsigrok, storVars
  <2> QED BY <2>6, <2>7 DEF Stores
<1>7. CASE StartAssign(p)
  <2>1. /\ pc' = [pc EXCEPT ![p] = "idle"] /\ sampl_th_' = arg[p] /\ pc[p] = "start_assign"
        /\ arg' = [arg EXCEPT ![p] = NoDevice]
        /\ UNCHANGED <<storVars, spc, picked, enabled, acq, acqEnabled, failed, srDevs, srCallbacks>>
    BY <1>7 DEF StartAssign
  <2>2. \A t \in StorId : AtHand(t)' => AtHand(t)
    BY <1>0, <2>1 DEF AtHand
  <2>3. Keys' /\ Drawn'
    BY <1>0, <2>1 DEF Stores, Keys, Drawn, storVars
  <2>4. HasStorage' /\ BeforeHeader' /\ OwesEnd' /\ FedByOne'
    BY <1>0, <2>1, <2>2 DEF Stores, HasStorage, BeforeHeader, OwesEnd, FedByOne, storVars
  <2> QED BY <2>3, <2>4 DEF Stores
<1>8. CASE StopJoin(p)
  <2>1. /\ pc' = [pc EXCEPT ![p] = ret[p]] /\ sampl_th_' = NoStor
        /\ ret[p] \in {"idle", "add_assign", "destroy_session"}
        /\ UNCHANGED <<storVars, spc, arg, picked, enabled, acq, acqEnabled, failed, srDevs,
                       srCallbacks>>
    BY <1>8 DEF StopJoin, OrderlyInv, TypeInv, TypeOK
  <2>2. \A t \in StorId : AtHand(t)' => AtHand(t)
    BY <1>0, <2>1 DEF AtHand, StorId, NoStor
  <2>3. Keys' /\ Drawn'
    BY <1>0, <2>1 DEF Stores, Keys, Drawn, storVars
  <2>4. HasStorage' /\ BeforeHeader' /\ OwesEnd' /\ FedByOne'
    BY <1>0, <2>1, <2>2 DEF Stores, HasStorage, BeforeHeader, OwesEnd, FedByOne, storVars
  <2> QED BY <2>3, <2>4 DEF Stores
<1>9. CASE StopState(p) \/ StopSession(p)
  BY <1>0, <1>9, StoresElsewhere DEF StopState, StopSession
<1>10. CASE StopJoinable(p)
  <2>1. ret[p] \in {"idle", "add_assign", "destroy_session"}
    BY DEF OrderlyInv, TypeInv, TypeOK
  <2> QED BY <1>0, <1>10, <2>1, StoresElsewhere DEF StopJoinable
<1>11. CASE AddAssign(p) \/ AddOpen(p) \/ AddOpenThrows(p)
  BY <1>0, <1>11, StoresElsewhere DEF AddAssign, AddOpen, AddOpenThrows
<1>12. CASE AddToSession(p)
  BY <1>0, <1>12, StoresElsewhere DEF AddToSession
<1>13. CASE AddCallback(p)
  <2>1. srCallbacks \in Nat
    BY DEF OrderlyInv, TypeInv, TypeOK
  <2> QED BY <1>0, <1>13, <2>1, StoresElsewhere DEF AddCallback
<1>14. CASE DropStorage(p)
  <2>1. \A t \in StorId : ~AtHand(t) /\ spc[t] \in {"none", "ended"}
    BY <1>0, <1>14, NoneAtHand DEF DropStorage
  <2>2. /\ pc' = [pc EXCEPT ![p] = "idle"] /\ arg' = [arg EXCEPT ![p] = NoDevice]
        /\ stor' = [s \in StorId |-> IF s \in {arg[p]} THEN NewStorage(FALSE) ELSE stor[s]]
        /\ failed' = failed \ {arg[p]}
        /\ UNCHANGED <<storage_, cur_storid_, made, sampl_th_, spc, picked, enabled, acq, acqEnabled,
                       srDevs, srCallbacks>>
    BY <1>14 DEF DropStorage, Destroyed
  <2>3. \A t \in StorId : ~AtHand(t)'
    BY <1>0, <2>1, <2>2 DEF AtHand
  <2>4. \A s \in StorId : \/ stor'[s].thread = "none" /\ stor'[s].fedBy = {}
                          \/ stor'[s] = stor[s] /\ (s \in failed => s \in failed')
    BY <2>2 DEF NewStorage
  <2>5. Keys' /\ Drawn'
    BY <1>0, <2>2 DEF Stores, Keys, Drawn
  <2>6. HasStorage' /\ BeforeHeader'
    BY <2>1, <2>2, <2>3 DEF HasStorage, BeforeHeader, InLibsigrok
  <2>7. OwesEnd' /\ FedByOne'
    BY <1>0, <2>2, <2>4 DEF Stores, OwesEnd, FedByOne
  <2> QED BY <2>5, <2>6, <2>7 DEF Stores
<1>15. CASE DestroySession(p)
  <2>1. \A t \in StorId : ~AtHand(t) /\ spc[t] \in {"none", "ended"}
    BY <1>0, <1>15, NoneAtHand DEF DestroySession, EndPoints
  <2> QED BY <1>0, <1>15, <2>1, StoresElsewhere DEF DestroySession, InLibsigrok
<1>16. CASE DestroyStorages(p)
  <2>1. \A t \in StorId : ~AtHand(t) /\ spc[t] \in {"none", "ended"}
    BY <1>0, <1>16, NoneAtHand DEF DestroyStorages, EndPoints
  <2>2. /\ pc' = [pc EXCEPT ![p] = "destroy_device"]
        /\ stor' = [s \in StorId |-> IF s \in StorId THEN NewStorage(FALSE) ELSE stor[s]]
        /\ storage_' = [k \in {NoStor} \cup StorId |-> NoStor]
        /\ UNCHANGED <<cur_storid_, made, sampl_th_, spc, arg, picked, enabled, acq, acqEnabled,
                       srDevs, srCallbacks>>
    BY <1>16 DEF DestroyStorages, Destroyed, OrderlyInv, TypeInv, TypeOK
  <2>3. \A t \in StorId : ~AtHand(t)'
    BY <1>0, <2>1, <2>2 DEF AtHand
  <2>4. \A s \in StorId : stor'[s].thread = "none" /\ stor'[s].fedBy = {}
    BY <2>2 DEF NewStorage
  <2>5. \A q \in Callers : pc'[q] \notin {"start_storid", "start_bufsize", "start_emplace"}
    BY <1>0, <1>16, <2>2 DEF DestroyStorages
  <2>6. Keys' /\ Drawn'
    BY <2>2, <2>5 DEF Keys, Drawn
  <2>7. HasStorage' /\ BeforeHeader' /\ OwesEnd' /\ FedByOne'
    BY <2>1, <2>2, <2>3, <2>4 DEF HasStorage, BeforeHeader, InLibsigrok, OwesEnd, FedByOne
  <2> QED BY <2>6, <2>7 DEF Stores
<1>17. CASE DestroyDevice(p)
  BY <1>0, <1>17, StoresElsewhere DEF DestroyDevice
<1> QED
  BY OrderlyNoFault, <1>1, <1>2, <1>3, <1>4, <1>5, <1>6, <1>7, <1>8, <1>9, <1>10, <1>11, <1>12,
     <1>13, <1>14, <1>15, <1>16, <1>17 DEF CallStep

\* New calls come without a thread, or leave the storages alone.
LEMMA StoresBegun ==
  ASSUME OrderlyInv, orderly, NEW p \in Callers, NewCall(p)
  PROVE  Stores'
<1>0. /\ TypeInv /\ Stores
      /\ DOMAIN pc = Callers /\ DOMAIN arg = Callers
      /\ \A q \in Callers : pc[q] = "idle"
      /\ ~captured => sampl_th_ = NoStor
  BY OrderlyCall DEF OrderlyInv, TypeInv, TypeOK, InOrder, OneCall
<1> USE DEF CallAt, Call, devVars, sampVars, argVars, useVars, acqVars, Quiet
<1>1. CASE StartCapture(p) \/ StopCapture(p)
  BY <1>0, <1>1, StoresElsewhere DEF StartCapture, StopCapture
<1>2. CASE ResetDevice(p)
  <2>1. \A t \in StorId : spc[t] \notin InLibsigrok
    BY <1>0, <1>2, NoneAtHand DEF ResetDevice, InLibsigrok
  <2> QED BY <1>0, <1>2, <2>1, StoresElsewhere DEF ResetDevice
<1>3. CASE SetEnabled(p)
  <2>1. \A t \in StorId : ~AtHand(t) /\ spc[t] \in {"none", "ended"}
    BY <1>0, <1>3, NoneAtHand DEF SetEnabled
  <2>2. UNCHANGED <<storVars, sampl_th_, spc, arg, picked, acq, failed, srDevs, srCallbacks>>
    BY <1>3 DEF SetEnabled
  <2>3. pc' = pc
    BY <1>0, <1>3 DEF SetEnabled, OrderlyInv, TypeInv, TypeOK
  <2>4. Keys' /\ Drawn'
    BY <1>0, <2>2, <2>3 DEF Stores, Keys, Drawn, storVars
  <2>5. HasStorage' /\ BeforeHeader' /\ OwesEnd' /\ FedByOne'
    BY <1>0, <2>1, <2>2, <2>3
       DEF Stores, HasStorage, BeforeHeader, OwesEnd, FedByOne, InLibsigrok, AtHand, storVars
  <2> QED BY <2>4, <2>5 DEF Stores
<1>4. CASE RemoveStorage(p)
  <2>1. \A t \in StorId : ~AtHand(t) /\ spc[t] \in {"none", "ended"}
    BY <1>0, <1>4, NoneAtHand DEF RemoveStorage
  <2>2. /\ pc' = [pc EXCEPT ![p] = "drop_storage"]
        /\ storage_' = [storage_ EXCEPT ![cur_storid_] = NoStor]
        /\ UNCHANGED <<made, stor, sampl_th_, spc, picked, enabled, acq, acqEnabled, failed, srDevs,
                       srCallbacks>>
    BY <1>4 DEF RemoveStorage
  <2>3. \A k \in {NoStor} \cup StorId : storage_'[k] \in {NoStor, storage_[k]}
    BY <1>0, <2>2 DEF TypeInv, TypeOK
  <2>4. Keys'
    BY <1>0, <2>2, <2>3 DEF Stores, Keys
  <2>5. \A q \in Callers : pc'[q] \in {"idle", "drop_storage"}
    BY <1>0, <2>2
  <2>6. Drawn' /\ HasStorage' /\ BeforeHeader'
    BY <2>1, <2>2, <2>5 DEF Drawn, HasStorage, BeforeHeader, AtHand, InLibsigrok
  <2>7. OwesEnd' /\ FedByOne'
    BY <1>0, <2>2 DEF Stores, OwesEnd, FedByOne
  <2> QED BY <2>4, <2>6, <2>7 DEF Stores
<1>5. CASE Destroy(p)
  BY <1>0, <1>5, StoresElsewhere DEF Destroy
<1>6. ASSUME NEW d \in Devices, AddDevice(p, d) PROVE Stores'
  BY <1>0, <1>6, StoresElsewhere DEF AddDevice
<1> QED BY OrderlyNoFault, <1>1, <1>2, <1>3, <1>4, <1>5, <1>6 DEF NewCall

\* The sampling thread passes its points, with the storage in place.
LEMMA StoresDuringSampling ==
  ASSUME OrderlyInv, orderly, NEW t \in StorId,
         \/ SampStart(t) \/ SampStartRefused(t) \/ SampStarted(t) \/ SampRunning(t)
         \/ SampRunReturns(t) \/ SampStopped(t) \/ SampStartFails(t) \/ SampRunFails(t)
  PROVE  Stores'
<1>1. /\ spc[t] \notin {"none", "ended"} /\ fault = "none"
      /\ UNCHANGED <<storVars, sampl_th_, enabled, pc, arg, picked, srDevs, srCallbacks>>
      /\ \A u \in StorId \ {t} : spc'[u] = spc[u]
      /\ spc'[t] \notin {"none", "start"}
  BY DEF SampStart, SampStartRefused, SampStarted, SampRunning, SampRunReturns, SampStopped,
         SampStartFails, SampRunFails, SampAt, offSamp, devVars, argVars, sampVars, OrderlyInv,
         TypeInv, TypeOK
<1>2. \A u \in StorId \ {t} : spc[u] \in {"none", "ended"}
  BY <1>1, LiveThread
<1>3. Stores
  BY DEF OrderlyInv
<1>4. \A u \in StorId : AtHand(u)' = AtHand(u)
  BY <1>1 DEF AtHand
<1>5. Keys' /\ Drawn' /\ FedByOne'
  BY <1>1, <1>3 DEF Stores, Keys, Drawn, FedByOne, storVars
<1>6. \A u \in StorId \ {t} : stor[u].thread = "alive" /\ ~stor[u].acqDone => u \in failed
  BY <1>2, <1>3 DEF Stores, OwesEnd, InLibsigrok
<1>7. ASSUME (spc'[t] \in InLibsigrok => acqEnabled' = enabled),
             spc'[t] = "header" =>
                \A d \in Devices : acq'[d] = "header" => d \in srDevs /\ stor[t].thread = "none",
             \A s \in failed : s \in failed',
             stor[t].thread = "alive" /\ ~stor[t].acqDone =>
                \/ t \in failed'
                \/ spc'[t] \in InLibsigrok /\ srCallbacks # 0 /\ \E d \in Devices : acq'[d] = "data"
      PROVE  Stores'
  <2>1. HasStorage' /\ BeforeHeader'
    BY <1>1, <1>2, <1>3, <1>4, <1>7 DEF Stores, HasStorage, BeforeHeader, InLibsigrok, storVars
  <2>2. OwesEnd'
    BY <1>1, <1>6, <1>7 DEF OwesEnd, storVars
  <2> QED BY <1>5, <2>1, <2>2 DEF Stores
<1>8. stor[t].thread = "alive" /\ ~stor[t].acqDone =>
        \/ t \in failed
        \/ spc[t] \in InLibsigrok /\ srCallbacks # 0 /\ \E d \in Devices : acq[d] = "data"
  BY <1>3 DEF Stores, OwesEnd
<1>9. spc[t] = "header" =>
        \A d \in Devices : acq[d] = "header" => d \in srDevs /\ stor[t].thread = "none"
  BY <1>3 DEF Stores, BeforeHeader
<1>10. DOMAIN spc = StorId /\ DOMAIN acq = Devices
       /\ (spc[t] \in InLibsigrok => acqEnabled = enabled)
  BY <1>3 DEF OrderlyInv, TypeInv, TypeOK, Stores, HasStorage
<1> USE DEF SampAt, acqVars, InLibsigrok
<1>11. CASE SampStart(t)
  <2>1. stor[t].thread = "none"
    BY <1>3, <1>11 DEF SampStart, Stores, BeforeHeader
  <2> QED BY <1>7, <1>10, <1>11, <2>1 DEF SampStart
<1>12. CASE SampStartRefused(t)
  BY <1>7, <1>8, <1>10, <1>12 DEF SampStartRefused
<1>13. CASE SampStarted(t)
  BY <1>7, <1>8, <1>10, <1>13 DEF SampStarted
<1>14. CASE SampRunning(t)
  BY <1>7, <1>8, <1>10, <1>14 DEF SampRunning
<1>15. CASE SampRunReturns(t)
  BY <1>7, <1>8, <1>10, <1>15 DEF SampRunReturns
<1>16. CASE SampStopped(t)
  BY <1>7, <1>8, <1>10, <1>16 DEF SampStopped
<1>17. CASE SampStartFails(t)
  BY <1>7, <1>8, <1>10, <1>17 DEF SampStartFails
<1>18. CASE SampRunFails(t)
  BY <1>7, <1>8, <1>10, <1>18 DEF SampRunFails
<1> QED BY <1>11, <1>12, <1>13, <1>14, <1>15, <1>16, <1>17, <1>18

\* A packet finds the storage of its acquisition, with its channel and the header it needs.
LEMMA StoresFed ==
  ASSUME OrderlyInv, orderly, NEW t \in StorId, NEW d \in Devices,
         HeaderIn(t, d) \/ AnalogIn(t, d) \/ EndIn(t, d)
  PROVE  fault' = "none" /\ Stores'
<1>1. /\ spc[t] \in {"header", "run"} /\ fault = "none"
      /\ UNCHANGED <<storage_, cur_storid_, made, spc, failed, sampl_th_, enabled, acqEnabled, pc, arg,
                     picked, srDevs, srCallbacks>>
  BY DEF HeaderIn, AnalogIn, EndIn, Arrives, offSamp, devVars, argVars
<1>2. /\ t = cur_storid_ /\ Current = t /\ stor[t].hasChannel = enabled
  BY <1>1, LiveThread
<1>3. \A u \in StorId \ {t} : spc[u] \in {"none", "ended"}
  BY <1>1, <1>2, LiveThread
<1>4. /\ Stores /\ stor \in [StorId -> Storage] /\ stor[t] \in Storage /\ DOMAIN acq = Devices
      /\ \A e, f \in srDevs : e = f
      /\ srCallbacks \in {0, 1} /\ stor[t].fedBy \subseteq {t}
  BY DEF OrderlyInv, TypeInv, TypeOK, InOrder, OneDevice, Stores, FedByOne
<1>5. \A u \in StorId : AtHand(u)' = AtHand(u)
  BY <1>1 DEF AtHand
<1>6. Keys' /\ Drawn'
  BY <1>1, <1>4 DEF Stores, Keys, Drawn
\* What is left to show when the storage becomes f.
<1>7. ASSUME NEW f, stor' = [stor EXCEPT ![t] = f], f.hasChannel = stor[t].hasChannel,
             f.fedBy \subseteq {t},
             spc[t] = "header" => \A e \in Devices : acq'[e] # "header",
             f.thread = "alive" /\ ~f.acqDone =>
               t \in failed \/ (srCallbacks # 0 /\ \E e \in Devices : acq'[e] = "data")
      PROVE  Stores'
  <2>1. stor'[t] = f /\ \A u \in StorId \ {t} : stor'[u] = stor[u]
    BY <1>4, <1>7
  <2>2. HasStorage'
    BY <1>1, <1>4, <1>5, <1>7, <2>1 DEF Stores, HasStorage
  <2>3. BeforeHeader'
    <3>1. \A u \in StorId \ {t} : spc[u] \notin {"start", "header"}
      BY <1>3
    <3> QED BY <1>1, <1>4, <1>5, <1>7, <2>1, <3>1 DEF Stores, BeforeHeader
  <2>4. OwesEnd'
    BY <1>1, <1>3, <1>4, <1>7, <2>1 DEF Stores, OwesEnd, InLibsigrok
  <2>5. FedByOne'
    BY <1>4, <1>7, <2>1 DEF Stores, FedByOne
  <2> QED BY <1>6, <2>2, <2>3, <2>4, <2>5 DEF Stores
<1>8. CASE HeaderIn(t, d)
  <2>1. acq[d] = "header" /\ acq' = [acq EXCEPT ![d] = "data"] /\ spc[t] = "header"
    BY <1>8 DEF HeaderIn, Arrives
  <2>2. d \in srDevs /\ stor[t].thread = "none" /\ \A e \in Devices : acq'[e] # "header"
    BY <1>4, <2>1 DEF Stores, BeforeHeader
  <2>3. CASE srCallbacks = 0
    <3>1. stor' = [stor EXCEPT ![t] = stor[t]] /\ fault' = fault
      BY <1>4, <1>8, <2>3 DEF HeaderIn
    <3> QED BY <1>1, <1>4, <1>7, <2>2, <3>1
  <2>4. CASE srCallbacks # 0
    <3> DEFINE f == [stor[t] EXCEPT !.thread = "alive", !.acqDone = FALSE, !.fedBy = @ \cup {t}]
    <3>1. fault' = "none" /\ stor' = [stor EXCEPT ![t] = f]
      BY <1>2, <1>4, <1>8, <2>2, <2>4 DEF HeaderIn, Feeds
    <3>2. f.hasChannel = stor[t].hasChannel /\ f.fedBy = stor[t].fedBy \cup {t}
      BY <1>4 DEF Storage
    <3>3. acq'[d] = "data"
      BY <1>4, <2>1
    <3> HIDE DEF f
    <3> QED BY <1>4, <1>7, <2>2, <2>4, <3>1, <3>2, <3>3
  <2> QED BY <2>3, <2>4
<1>9. CASE AnalogIn(t, d)
  <2> DEFINE f == [stor[t] EXCEPT !.fedBy = @ \cup {t}]
  <2>1. acq[d] = "data" /\ acq' = [acq EXCEPT ![d] = "data"] /\ spc[t] = "run" /\ srCallbacks > 0
    BY <1>9 DEF AnalogIn, Arrives
  <2>2. stor[t].hasChannel
    BY <1>2, <1>4, <1>9, <2>1 DEF AnalogIn, Stores, HasStorage, InLibsigrok
  <2>3. fault' = "none" /\ stor' = [stor EXCEPT ![t] = f]
    BY <1>2, <1>9, <2>2 DEF AnalogIn, Feeds
  <2>4. f.hasChannel = stor[t].hasChannel /\ f.fedBy = stor[t].fedBy \cup {t}
    BY <1>4 DEF Storage
  <2>5. acq'[d] = "data" /\ srCallbacks # 0
    BY <1>4, <2>1
  <2> HIDE DEF f
  <2> QED BY <1>4, <1>7, <2>1, <2>3, <2>4, <2>5
<1>10. CASE EndIn(t, d)
  <2>1. acq[d] = "data" /\ acq' = [acq EXCEPT ![d] = "off"] /\ spc[t] = "run" /\ fault' = "none"
    BY <1>1, <1>10 DEF EndIn, Arrives
  <2>2. CASE srCallbacks = 0
    <3>1. stor' = [stor EXCEPT ![t] = stor[t]]
      BY <1>4, <1>10, <2>2 DEF EndIn
    <3>2. ~(stor[t].thread = "alive" /\ ~stor[t].acqDone) \/ t \in failed
      BY <1>4, <2>2 DEF Stores, OwesEnd
    <3> QED BY <1>4, <1>7, <2>1, <3>1, <3>2
  <2>3. CASE srCallbacks # 0
    <3> DEFINE f == [stor[t] EXCEPT !.acqDone = TRUE]
    <3>1. stor' = [stor EXCEPT ![t] = f]
      BY <1>2, <1>10, <2>3 DEF EndIn, Feeds
    <3>2. f.hasChannel = stor[t].hasChannel /\ f.fedBy = stor[t].fedBy /\ f.acqDone
      BY <1>4 DEF Storage
    <3> HIDE DEF f
    <3> QED BY <1>4, <1>7, <2>1, <3>1, <3>2
  <2> QED BY <2>2, <2>3
<1> QED BY <1>8, <1>9, <1>10

\* A packet never finds its storage gone.
LEMMA PacketFindsStorage ==
  ASSUME OrderlyInv, orderly, NEW t \in StorId, NEW d \in Devices
  PROVE  ~PacketNoStorage(t, d)
<1> SUFFICES ASSUME PacketNoStorage(t, d) PROVE FALSE
  OBVIOUS
<1>1. spc[t] \in {"header", "run"} /\ Current = NoStor
  BY DEF PacketNoStorage, NoStorage, Arrives
<1>2. Current = t
  BY <1>1, LiveThread
<1> QED BY <1>1, <1>2 DEF StorId, NoStor

\* A data thread that ends waits for nothing.
LEMMA StoresDrained ==
  ASSUME OrderlyInv, NEW s \in StorId, Stores, DataThreadEnds(s)
  PROVE  Stores'
<1>1. /\ stor[s].thread = "alive" /\ stor[s].acqDone
      /\ stor' = [stor EXCEPT ![s].thread = "ended"]
      /\ UNCHANGED <<storage_, cur_storid_, made, sampVars, acqVars, devVars, enabled, pc, argVars>>
  BY DEF DataThreadEnds
<1>2. \A u \in StorId : /\ stor'[u].hasChannel = stor[u].hasChannel
                        /\ stor'[u].fedBy = stor[u].fedBy
                        /\ stor'[u].acqDone = stor[u].acqDone
                        /\ stor'[u].thread = stor[u].thread \/ (u = s /\ stor'[u].thread = "ended")
  BY <1>1 DEF OrderlyInv, TypeInv, TypeOK, Storage
<1>3. \A u \in StorId : AtHand(u)' = AtHand(u)
  BY <1>1 DEF AtHand, sampVars, argVars
<1>4. Keys' /\ Drawn' /\ FedByOne'
  BY <1>1, <1>2 DEF Stores, Keys, Drawn, FedByOne, sampVars, argVars
<1>5. HasStorage' /\ BeforeHeader' /\ OwesEnd'
  BY <1>1, <1>2, <1>3
     DEF Stores, HasStorage, BeforeHeader, OwesEnd, sampVars, argVars, acqVars, devVars
<1> QED BY <1>4, <1>5 DEF Stores

-----------------------------------------------------------------------------
(* The invariant.                                                          *)

\* Nothing changes the callers' discipline, and only those steps of a call end the process.
LEMMA CallFrame ==
  ASSUME NEW p \in Callers, CallStep(p) \/ NewCall(p)
  PROVE  /\ orderly' = orderly
         /\ fault = "none"
         /\ \/ fault' = fault
            \/ StartChannelsNull(p) \/ StartBufsizeNull(p) \/ StartEmplaceNull(p)
            \/ StartAssignAgain(p) \/ StopJoinAgain(p) \/ AddNull(p) \/ ResetNoDevice(p)
<1> USE DEF useVars, CallAt, Call
<1>1. CASE \/ StartDevice(p) \/ StartState(p) \/ StartChannels(p) \/ StartChannelsNull(p)
           \/ StartStorId(p) \/ StartBufsize(p) \/ StartBufsizeThrows(p) \/ StartBufsizeNull(p)
           \/ StartEmplace(p) \/ StartEmplaceNull(p) \/ StartThread(p) \/ StartAssign(p)
           \/ StartAssignAgain(p)
  BY <1>1 DEF StartDevice, StartState, StartChannels, StartChannelsNull, StartStorId,
     StartBufsize, StartBufsizeThrows, StartBufsizeNull, StartEmplace, StartEmplaceNull,
     StartThread, StartAssign, StartAssignAgain
<1>2. CASE \/ StopState(p) \/ StopSession(p) \/ StopJoinable(p) \/ StopJoin(p) \/ StopJoinAgain(p)
           \/ AddAssign(p) \/ AddOpen(p) \/ AddOpenThrows(p) \/ AddToSession(p) \/ AddNull(p)
           \/ AddCallback(p)
           \/ DropStorage(p) \/ DestroySession(p) \/ DestroyStorages(p) \/ DestroyDevice(p)
  BY <1>2 DEF StopState, StopSession, StopJoinable, StopJoin, StopJoinAgain, AddAssign, AddOpen,
     AddOpenThrows, AddToSession, AddNull, AddCallback, DropStorage, DestroySession,
     DestroyStorages, DestroyDevice
<1>3. CASE NewCall(p)
  BY <1>3 DEF NewCall, StartCapture, StopCapture, ResetDevice, ResetNoDevice, SetEnabled,
              RemoveStorage, Destroy, AddDevice
<1> QED BY <1>1, <1>2, <1>3 DEF CallStep

\* Sampling threads and packets leave the calls and the device alone.
LEMMA SamplingFrame ==
  ASSUME NEW t \in StorId, SampStep(t) \/ SampMay(t)
  PROVE  /\ UNCHANGED <<pc, ret, arg, picked, sampl_th_, captured, added, orderly, devVars>>
         /\ fault = "none"
BY DEF SampStep, SampMay, SampStart, SampStartRefused, SampStarted, SampRunning, SampRunReturns,
       SampStopped, SampStartFails, SampRunFails, HeaderIn, AnalogIn, EndIn, PacketNoStorage,
       Arrives, SampAt, offSamp, argVars, useVars

\* Their own steps end no process.
LEMMA SamplingHarmless ==
  ASSUME NEW t \in StorId,
         \/ SampStart(t) \/ SampStartRefused(t) \/ SampStarted(t) \/ SampRunning(t)
         \/ SampRunReturns(t) \/ SampStopped(t) \/ SampStartFails(t) \/ SampRunFails(t)
  PROVE  fault' = fault
BY DEF SampStart, SampStartRefused, SampStarted, SampRunning, SampRunReturns, SampStopped,
       SampStartFails, SampRunFails

\* The session a constructor leaves is in order.
LEMMA OrderlyInit == Init => OrderlyInv
<1> SUFFICES ASSUME Init PROVE Harmless /\ InOrder /\ Stores
  BY SessionTypeInit, FreshInit, JoinInit DEF OrderlyInv
<1>1. Harmless /\ InOrder
  BY DEF Init, Harmless, InOrder, OneCall, CallKnows, OneDevice, Adding, StartPoints, StopPoints,
         AddPoints, EndPoints
<1>2. \A t \in StorId : ~AtHand(t)
  BY DEF Init, AtHand, StorId, NoStor
<1>3. Stores
  BY <1>2 DEF Init, Stores, Keys, Drawn, HasStorage, BeforeHeader, OwesEnd, FedByOne, NewStorage,
              InLibsigrok
<1> QED BY <1>1, <1>3

\* The invariant is inductive.
LEMMA OrderlyStep == OrderlyInv /\ [Next]_vars => OrderlyInv'
<1> SUFFICES ASSUME OrderlyInv, [Next]_vars PROVE OrderlyInv'
  OBVIOUS
<1>1. TypeInv' /\ FreshNumbers' /\ JoinInv'
  BY SessionTypeStep, FreshStep, JoinStep DEF OrderlyInv
<1>2. orderly' = orderly
  BY CallFrame, SamplingFrame
     DEF Next, vars, useVars, DataThreadEnds, DropDevice, DropDeviceThrows
<1> SUFFICES ASSUME orderly PROVE Harmless' /\ InOrder' /\ Stores'
  BY <1>1, <1>2 DEF OrderlyInv
<1>3. TypeInv /\ InOrder /\ Stores /\ Harmless
  BY DEF OrderlyInv
<1>4. CASE UNCHANGED vars
  BY <1>3, <1>4, InOrderElsewhere, StoresElsewhere
     DEF vars, devVars, sampVars, acqVars, argVars, useVars, Harmless
<1>5. ASSUME NEW p \in Callers, CallStep(p) \/ NewCall(p)
      PROVE  Harmless' /\ InOrder' /\ Stores'
  <2>1. fault' = "none"
    BY <1>5, CallFrame, OrderlyNoFault
  <2> QED BY <1>5, <2>1, InOrderKept, InOrderBegun, StoresKept, StoresBegun DEF Harmless
<1>6. ASSUME NEW t \in StorId, SampStep(t) \/ SampMay(t)
      PROVE  Harmless' /\ InOrder' /\ Stores'
  <2>1. InOrder' /\ fault = "none"
    BY <1>3, <1>6, SamplingFrame, InOrderElsewhere DEF devVars
  <2>2. fault' = "none" /\ Stores'
    BY <1>6, <2>1, StoresDuringSampling, SamplingHarmless, StoresFed, PacketFindsStorage
       DEF SampStep, SampMay
  <2> QED BY <2>1, <2>2 DEF Harmless
<1>7. ASSUME NEW s \in StorId, DataThreadEnds(s) PROVE Harmless' /\ InOrder' /\ Stores'
  BY <1>3, <1>7, InOrderElsewhere, StoresDrained
     DEF DataThreadEnds, sampVars, devVars, argVars, useVars, Harmless
<1>8. ASSUME NEW d \in Devices, DropDevice(d) \/ DropDeviceThrows(d)
      PROVE  Harmless' /\ InOrder' /\ Stores'
  <2>1. /\ UNCHANGED <<storVars, sampVars, acqVars, enabled, pc, argVars, useVars, device_, srDevs,
                       srCallbacks>>
        /\ \/ fault' = "none"
           \/ fault' = "close_throws" /\ opened[d] /\ ~srOpen[d] /\ UNCHANGED <<opened, srOpen>>
    BY <1>8 DEF DropDevice, DropDeviceThrows, devVars
  <2>2. Harmless'
    BY <2>1 DEF Harmless
  <2> QED BY <1>3, <2>1, <2>2, InOrderElsewhere, StoresElsewhere
          DEF sampVars, acqVars, argVars, useVars
<1> QED BY <1>4, <1>5, <1>6, <1>7, <1>8 DEF Next

-----------------------------------------------------------------------------
(***************************************************************************)
(* Callers that keep to the order end the process only by a device whose   *)
(* open() failed without being told (srpdevice.cpp:51, 74).                *)
(***************************************************************************)
THEOREM OrderlyCallsAreSafe == Spec => []OrderlyIsSafe
<1>1. OrderlyInv => OrderlyIsSafe
  BY DEF OrderlyInv, Harmless, OrderlyIsSafe
<1> QED BY <1>1, OrderlyInit, OrderlyStep, PTL DEF Spec

(***************************************************************************)
(* Between their captures no data thread waits for a feed_end, so that the *)
(* joins in ~SrpSamplesSegmented return, but for the captures that         *)
(* libsigrok gave up with an error (srpsession.cpp:155).                   *)
(***************************************************************************)
THEOREM OrderlyStoragesComplete == Spec => []StoragesComplete
<1>1. OrderlyInv => StoragesComplete
  <2> SUFFICES ASSUME OrderlyInv, orderly, sampl_th_ = NoStor, ~InHand,
                      NEW s \in StorId \ failed, stor[s].thread = "alive"
               PROVE  stor[s].acqDone
    BY DEF StoragesComplete
  <2>1. spc[s] \in {"none", "ended"}
    BY DEF OrderlyInv, JoinInv, HeldThread, InHand, StorId, NoStor
  <2> QED BY <2>1 DEF OrderlyInv, Stores, OwesEnd, InLibsigrok
<1> QED BY <1>1, OrderlyInit, OrderlyStep, PTL DEF Spec

(***************************************************************************)
(* Every acquisition of theirs has a storage of its own.                   *)
(***************************************************************************)
THEOREM OrderlyStoragesSingle == Spec => []StoragePerAcquisition
<1>1. OrderlyInv => StoragePerAcquisition
  BY DEF OrderlyInv, StoragePerAcquisition, Stores, FedByOne
<1> QED BY <1>1, OrderlyInit, OrderlyStep, PTL DEF Spec
=============================================================================
