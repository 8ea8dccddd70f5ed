--------------------------- MODULE PairingProofs ----------------------------
(***************************************************************************)
(* For any machines, devices and keys, and any number of crashes, failed   *)
(* saves and lost connections: what the two trust stores hold was accepted,*)
(* and what a good save left is what a restart finds.                      *)
(***************************************************************************)
EXTENDS Pairing, TLAPS

store == <<mem, file, doing, leaving, word, intact>>

Shape ==
  /\ DOMAIN mem = Machines /\ DOMAIN file = Machines /\ DOMAIN word = Machines
  /\ DOMAIN doing = Machines /\ DOMAIN leaving = Machines /\ DOMAIN intact = Machines
  /\ \A m \in Machines : /\ DOMAIN mem[m] = Devices /\ DOMAIN file[m] = Devices
                         /\ DOMAIN word[m] = Devices

(* While forget() saves, the device is out of the map and stays out: the   *)
(* mutex keeps everybody else from it.                                     *)
LeavingOut == \A m \in Machines : leaving[m] # NoDevice =>
                /\ doing[m] \in {"changed", "open"}
                /\ leaving[m] \in Devices /\ mem[m][leaving[m]] = NoKey

(* What a restart would trust was accepted too.                            *)
FileTrusted == \A m \in Machines, d \in Devices :
                 file[m][d] # NoKey => file[m][d] \in word[m][d]

IInv == Shape /\ LeavingOut /\ OnlyTrusted /\ FileTrusted /\ OnDisk

-----------------------------------------------------------------------------
(* One operation of one store.                                             *)

LEMMA RememberKeeps ==
  ASSUME IInv, NEW m \in Machines, NEW d \in Devices, NEW k, Remember(m, d, k)
  PROVE  IInv'
<1> USE DEF IInv, Shape
<1>1. leaving[m] = NoDevice
  BY DEF LeavingOut, Remember, Unlocked
<1>2. Shape' /\ LeavingOut'
  BY <1>1 DEF LeavingOut, Remember
<1>3. OnlyTrusted'
  BY DEF OnlyTrusted, Remember
<1>4. FileTrusted' /\ OnDisk'
  BY DEF FileTrusted, OnDisk, Loaded, Remember
<1> QED
  BY <1>2, <1>3, <1>4

LEMMA ForgetKeeps ==
  ASSUME IInv, NEW m \in Machines, NEW d \in Devices, Forget(m, d)
  PROVE  IInv'
<1> USE DEF IInv, Shape
<1>1. Shape' /\ LeavingOut'
  BY DeviceAssumption DEF LeavingOut, Forget, AfterErase, Known
<1>2. OnlyTrusted' /\ FileTrusted'
  BY DEF OnlyTrusted, FileTrusted, Forget
<1>3. OnDisk'
  BY DEF OnDisk, Loaded, Forget, AfterErase
<1> QED
  BY <1>1, <1>2, <1>3

LEMMA OpenStoreKeeps ==
  ASSUME IInv, NEW m \in Machines, OpenStore(m)
  PROVE  IInv'
<1> USE DEF IInv, Shape, OpenStore
<1>1. Shape' /\ LeavingOut'
  BY DEF LeavingOut, Empty
<1>2. OnlyTrusted' /\ FileTrusted'
  BY DEF OnlyTrusted, FileTrusted, Empty
<1>3. OnDisk'
  BY DEF OnDisk, Loaded
<1> QED
  BY <1>1, <1>2, <1>3

LEMMA OpenRefusedKeeps ==
  ASSUME IInv, NEW m \in Machines, OpenRefused(m)
  PROVE  IInv'
<1> USE DEF IInv, Shape, OpenRefused, Returns
<1>1. Shape' /\ LeavingOut'
  BY DEF LeavingOut
<1>2. OnlyTrusted' /\ FileTrusted'
  BY DEF OnlyTrusted, FileTrusted
<1>3. OnDisk'
  BY DEF OnDisk, Loaded
<1> QED
  BY <1>1, <1>2, <1>3

(* A save that opened the file: what is written is what the map holds, or  *)
(* less, and the device that leaves is in neither.                         *)
LEMMA WriteKeeps ==
  ASSUME IInv, NEW m \in Machines, NEW whole \in BOOLEAN, NEW lines,
         DOMAIN lines = Devices,
         \A d \in Devices : lines[d] # NoKey => lines[d] = mem[m][d],
         whole => lines = mem[m],
         file' = [file EXCEPT ![m] = lines], doing[m] = "open",
         Returns(m, whole), word' = Forgotten(m), mem' = mem
  PROVE  IInv'
<1> USE DEF IInv, Shape
<1>1. leaving[m] # NoDevice => leaving[m] \in Devices /\ mem[m][leaving[m]] = NoKey
  BY DEF LeavingOut
<1>2. /\ DOMAIN word' = Machines /\ \A n \in Machines : DOMAIN word'[n] = Devices
      /\ \A n \in Machines, d \in Devices : mem[n][d] # NoKey => word'[n][d] = word[n][d]
      /\ \A n \in Machines, d \in Devices : n # m => word'[n][d] = word[n][d]
  BY <1>1 DEF Forgotten
<1>3. Shape' /\ LeavingOut'
  BY <1>2 DEF Returns, LeavingOut
<1>4. OnlyTrusted'
  BY <1>2 DEF OnlyTrusted
<1>5. FileTrusted'
  BY <1>2 DEF OnlyTrusted, FileTrusted
<1>6. OnDisk'
  BY DEF OnDisk, Loaded, Returns
<1> QED
  BY <1>3, <1>4, <1>5, <1>6

LEMMA WriteStoreKeeps ==
  ASSUME IInv, NEW m \in Machines, WriteStore(m)
  PROVE  IInv'
BY WriteKeeps DEF WriteStore, IInv, Shape

LEMMA WriteShortKeeps ==
  ASSUME IInv, NEW m \in Machines, WriteShort(m)
  PROVE  IInv'
<1>1. PICK kept \in SUBSET Known(mem[m]) :
        file' = [file EXCEPT ![m] = [d \in Devices |-> IF d \in kept THEN mem[m][d] ELSE NoKey]]
  BY DEF WriteShort
<1> DEFINE lines == [d \in Devices |-> IF d \in kept THEN mem[m][d] ELSE NoKey]
<1>2. DOMAIN lines = Devices /\ \A d \in Devices : lines[d] # NoKey => lines[d] = mem[m][d]
  OBVIOUS
<1>3. file' = [file EXCEPT ![m] = lines]
  BY <1>1
<1> HIDE DEF lines
<1> QED
  BY <1>2, <1>3, WriteKeeps DEF WriteShort

LEMMA CrashKeeps ==
  ASSUME IInv, NEW m \in Machines, Crash(m)
  PROVE  IInv'
<1> USE DEF IInv, Shape, Crash
<1>1. Shape' /\ LeavingOut'
  BY DEF LeavingOut, Empty
<1>2. OnlyTrusted' /\ FileTrusted'
  BY DEF OnlyTrusted, FileTrusted, Empty
<1>3. OnDisk'
  BY DEF OnDisk, Loaded
<1> QED
  BY <1>1, <1>2, <1>3

LEMMA StartKeeps ==
  ASSUME IInv, NEW m \in Machines, Start(m)
  PROVE  IInv'
<1> USE DEF IInv, Shape, Start, Loaded, Up
<1>1. Shape' /\ LeavingOut'
  BY DEF LeavingOut
<1>2. OnlyTrusted' /\ FileTrusted'
  BY DEF OnlyTrusted, FileTrusted
<1>3. OnDisk'
  BY DEF OnDisk
<1> QED
  BY <1>1, <1>2, <1>3

LEMMA StillKeeps == IInv /\ UNCHANGED store => IInv'
BY DEF IInv, Shape, LeavingOut, OnlyTrusted, FileTrusted, OnDisk, Loaded, store

-----------------------------------------------------------------------------
(* The two machines.                                                       *)

LEMMA PairInitEstablishes == PairInit => IInv
<1> SUFFICES ASSUME PairInit PROVE IInv
  OBVIOUS
<1>1. Shape /\ LeavingOut /\ OnlyTrusted /\ FileTrusted /\ OnDisk
  BY DEF PairInit, StoreInit, Empty, Shape, LeavingOut, OnlyTrusted, FileTrusted, OnDisk, Loaded
<1> QED
  BY <1>1 DEF IInv

LEMMA HandshakeKeeps == ASSUME IInv, NEW h \in handshake, Handshake(h) PROVE IInv'
<1>0. Master \in Machines /\ Slave \in Machines /\ Master \in Devices /\ Slave \in Devices
  BY EndAssumption
<1>1. CASE MasterApproves(h)
  BY <1>0, <1>1, RememberKeeps DEF MasterApproves
<1>2. CASE SlaveRemembers(h)
  BY <1>0, <1>2, RememberKeeps DEF SlaveRemembers
<1>3. CASE UNCHANGED storeVars
  BY <1>3, StillKeeps DEF storeVars, store
<1>4. MasterApproves(h) \/ SlaveRemembers(h) \/ UNCHANGED storeVars
  BY DEF Handshake, MasterLooks, SlaveLooks, FlagsMeet, PromptEnds, DecisionArrives,
         SlaveStored, IkEnds, Abandoned, SessionEnds
<1> QED
  BY <1>1, <1>2, <1>3, <1>4

LEMMA PairStepKeeps == IInv /\ [PairNext]_pairVars => IInv'
<1> SUFFICES ASSUME IInv, [PairNext]_pairVars PROVE IInv'
  OBVIOUS
<1>0. Master \in Machines /\ Other \in Devices
  BY EndAssumption
<1>1. CASE Dial \/ NotReached \/ GivesUp \/ PressConnect \/ AutoConnect
  BY <1>1, StillKeeps DEF Dial, NotReached, GivesUp, PressConnect, AutoConnect, storeVars, store
<1>2. CASE PairOther
  BY <1>0, <1>2, RememberKeeps DEF PairOther
<1>3. CASE \E h \in handshake : Handshake(h)
  BY <1>3, HandshakeKeeps
<1>4. ASSUME NEW m \in Machines, EndLost(m) \/ Replaced(m) PROVE IInv'
  BY <1>4, StillKeeps DEF EndLost, Replaced, store
<1>5. ASSUME NEW m \in Machines, Dies(m) PROVE IInv'
  BY <1>5, CrashKeeps DEF Dies
<1>6. ASSUME NEW m \in Machines, Restarts(m) PROVE IInv'
  BY <1>6, StartKeeps DEF Restarts
<1>7. ASSUME NEW m \in Machines, Stores(m) PROVE IInv'
  BY <1>7, OpenStoreKeeps, WriteStoreKeeps DEF Stores, Save
<1>8. ASSUME NEW m \in Machines, StoreFails(m) PROVE IInv'
  BY <1>8, OpenRefusedKeeps, WriteShortKeeps DEF StoreFails
<1>9. ASSUME NEW m \in Machines, NEW d \in Devices, PressForget(m, d) PROVE IInv'
  BY <1>9, ForgetKeeps DEF PressForget
<1>10. CASE UNCHANGED pairVars
  BY <1>10, StillKeeps DEF pairVars, storeVars, store
<1> QED
  BY <1>1, <1>2, <1>3, <1>4, <1>5, <1>6, <1>7, <1>8, <1>9, <1>10 DEF PairNext

(* No step of a store, a handshake or a fault breaks the invariant         *)
(* (known_peers.cpp, static_keys.cpp).                                     *)
THEOREM Inductive == PairSpec => []IInv
BY PairInitEstablishes, PairStepKeeps, PTL DEF PairSpec

(* Whatever happens to the processes, the disks and the connections, a     *)
(* machine trusts only keys that were accepted for their device and not    *)
(* taken off the disk since (known_peers.cpp:32-68).                       *)
THEOREM TrustIsEarned == PairSpec => []OnlyTrusted
<1>1. IInv => OnlyTrusted
  BY DEF IInv
<1> QED
  BY <1>1, Inductive, PTL

(* After a save that opened and wrote the file a restart finds everything, *)
(* whatever the saves before it did (known_peers.cpp:77-82).               *)
THEOREM GoodSavesLast == PairSpec => []OnDisk
<1>1. IInv => OnDisk
  BY DEF IInv
<1> QED
  BY <1>1, Inductive, PTL
=============================================================================
