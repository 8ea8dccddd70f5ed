----------------------------- MODULE TrustStore -----------------------------
(***************************************************************************)
(* discovery::KnownPeers on each machine: the map peers_ in memory, changed *)
(* under mutex_, and the file that every change rewrites in place and the   *)
(* next start of the program reads back.  The process may die between any   *)
(* two steps, the disk may be full, and the file may refuse to open.        *)
(***************************************************************************)
EXTENDS Naturals

CONSTANTS Machines,   \* the machines whose store is modelled
          Devices,    \* device ids a store may hold
          Keys,       \* static public keys
          NoKey,      \* no entry
          NoDevice,   \* no line, no peer
          BadKey,     \* what the part of a key on a torn line would read as
          Mishaps,    \* bound: the faults that may happen
          MaxMishaps  \* bound: how many of them in one behaviour

AllMishaps == {"crash", "short", "refused", "forget", "lost", "replaced"}

ASSUME DeviceAssumption == Machines \subseteq Devices /\ NoDevice \notin Devices
ASSUME KeyAssumption    == NoKey \notin Keys /\ BadKey \notin Keys \cup {NoKey}
ASSUME MishapAssumption == Mishaps \subseteq AllMishaps /\ MaxMishaps \in Nat

VARIABLES
  mem,      \* peers_ of a machine
  file,     \* the complete lines of its known_peers file
  torn,     \* the device on a last line that was cut short
  doing,    \* "down"; "idle"; in save(): "changed" before the file opens, then "open"
  leaving,  \* the device forget() was called with, until it returns
  mishaps,  \* how many faults there were
  (* history *)
  word,     \* the keys accepted for a device and not taken off the disk since
  intact    \* the last save() opened the file and wrote all of it

storeVars == <<mem, file, torn, doing, leaving, mishaps, word, intact>>

Maps  == [Devices -> Keys \cup {NoKey}]
Empty == [d \in Devices |-> NoKey]
Known(map) == {d \in Devices : map[d] # NoKey}
Up(m) == doing[m] # "down"

(* A lookup takes mutex_: it waits for a save() that is under way.         *)
Unlocked(m) == doing[m] = "idle"

Mishap(kind) == /\ kind \in Mishaps /\ mishaps < MaxMishaps
                /\ mishaps' = mishaps + 1

StoreInit ==
  /\ mem = [m \in Machines |-> Empty] /\ file = mem
  /\ word = [m \in Machines |-> [d \in Devices |-> {}]]
  /\ torn = [m \in Machines |-> NoDevice]
  /\ doing = [m \in Machines |-> "idle"]
  /\ leaving = torn
  /\ mishaps = 0
  /\ intact = [m \in Machines |-> TRUE]

-----------------------------------------------------------------------------
(* remember and forget change the map, then save it, mutex_ held.          *)
Remember(m, d, k) ==
  /\ Unlocked(m)
  /\ mem' = [mem EXCEPT ![m][d] = k]
  /\ word' = [word EXCEPT ![m][d] = @ \cup {k}]
  /\ doing' = [doing EXCEPT ![m] = "changed"]
  /\ UNCHANGED <<file, torn, leaving, mishaps, intact>>

AfterErase_NotSaved == "idle"
AfterErase == "changed"

Forget(m, d) ==
  /\ Unlocked(m) /\ d \in Known(mem[m])
  /\ Mishap("forget")
  /\ mem' = [mem EXCEPT ![m][d] = NoKey]
  /\ leaving' = [leaving EXCEPT ![m] = d]
  /\ doing' = [doing EXCEPT ![m] = AfterErase]
  /\ UNCHANGED <<file, torn, word, intact>>

(* ofstream's constructor: the old contents are gone.                      *)
OpenStore(m) ==
  /\ doing[m] = "changed"
  /\ file' = [file EXCEPT ![m] = Empty]
  /\ torn' = [torn EXCEPT ![m] = NoDevice]
  /\ doing' = [doing EXCEPT ![m] = "open"]
  /\ UNCHANGED <<mem, leaving, mishaps, word, intact>>

Returns(m, whole) ==
  /\ doing' = [doing EXCEPT ![m] = "idle"]
  /\ leaving' = [leaving EXCEPT ![m] = NoDevice]
  /\ intact' = [intact EXCEPT ![m] = whole]

(* What forget() was called with is forgotten once its save has written.   *)
Forgotten(m) == IF leaving[m] = NoDevice THEN word
                ELSE [word EXCEPT ![m][leaving[m]] = {}]

(* The file cannot be opened: nothing is written, nobody is told.          *)
OpenRefused(m) ==
  /\ doing[m] = "changed"
  /\ Mishap("refused")
  /\ Returns(m, FALSE)
  /\ UNCHANGED <<mem, file, torn, word>>

WriteStore(m) ==
  /\ doing[m] = "open"
  /\ file' = [file EXCEPT ![m] = mem[m]]
  /\ Returns(m, TRUE)
  /\ word' = Forgotten(m)
  /\ UNCHANGED <<mem, torn, mishaps>>

(* A full disk keeps some of the lines, in the map's own order, and maybe  *)
(* the beginning of one more.                                              *)
WriteShort(m) ==
  /\ doing[m] = "open"
  /\ Mishap("short")
  /\ \E kept \in SUBSET Known(mem[m]) :
       /\ file' = [file EXCEPT ![m] = [d \in Devices |->
                     IF d \in kept THEN mem[m][d] ELSE NoKey]]
       /\ \E d \in (Known(mem[m]) \ kept) \cup {NoDevice} :
            torn' = [torn EXCEPT ![m] = d]
  /\ Returns(m, FALSE)
  /\ word' = Forgotten(m)
  /\ UNCHANGED mem

Save(m) == OpenStore(m) \/ WriteStore(m)

-----------------------------------------------------------------------------
(* The process dies; what ran in it is gone.                               *)
Crash(m) ==
  /\ Up(m)
  /\ Mishap("crash")
  /\ mem' = [mem EXCEPT ![m] = Empty]
  /\ doing' = [doing EXCEPT ![m] = "down"]
  /\ leaving' = [leaving EXCEPT ![m] = NoDevice]
  /\ intact' = [intact EXCEPT ![m] = @ /\ doing[m] = "idle"]
  /\ UNCHANGED <<file, torn, word>>

(* The constructor: a line without a whole key is skipped.                 *)
Loaded_ShortKey(m) ==
  [d \in Devices |-> IF d = torn[m] THEN BadKey ELSE file[m][d]]
Loaded(m) == file[m]

Start(m) ==
  /\ ~Up(m)
  /\ mem' = [mem EXCEPT ![m] = Loaded(m)]
  /\ doing' = [doing EXCEPT ![m] = "idle"]
  /\ UNCHANGED <<file, torn, leaving, mishaps, word, intact>>

StoreTypeOK ==
  /\ mem \in [Machines -> Maps] /\ file \in [Machines -> Maps]
  /\ word \in [Machines -> [Devices -> SUBSET Keys]]
  /\ torn \in [Machines -> Devices \cup {NoDevice}]
  /\ leaving \in [Machines -> Devices \cup {NoDevice}]
  /\ doing \in [Machines -> {"down", "idle", "changed", "open"}]
  /\ mishaps \in 0 .. MaxMishaps
  /\ intact \in [Machines -> BOOLEAN]

(* Whatever was interrupted, cut short or lost, the only keys a machine    *)
(* trusts are ones accepted for their devices, and none that a save since   *)
(* then has taken off the disk: a restart may lose trust, it never makes   *)
(* any up or brings it back (known_peers.cpp:32-43).                       *)
OnlyTrusted == \A m \in Machines, d \in Devices :
                 mem[m][d] # NoKey => mem[m][d] \in word[m][d]

(* Once a save went well a restart finds all of it, the other devices'     *)
(* entries included, also after a save that did not (known_peers.cpp:      *)
(* 78-83).                                                                 *)
OnDisk == \A m \in Machines : doing[m] = "idle" /\ intact[m] => Loaded(m) = mem[m]

(* "Forgetting must also persist: a fresh instance should not see it       *)
(* either." (test_crypto.cpp:294).                                         *)
ForgetPersists == \A m \in Machines : doing[m] = "idle" => Known(file[m]) \subseteq Known(mem[m])
=============================================================================
