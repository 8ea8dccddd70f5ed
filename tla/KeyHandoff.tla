---------------------------- MODULE KeyHandoff ----------------------------
(***************************************************************************)
(* Keys and buttons held while the input changes hands: what the keyboard  *)
(* is doing, what the Master's OS believes, what the pump remembers, and   *)
(* what a Linux Slave has injected.  Where the cursor is (Pointer) decides *)
(* when hands change; here that may be any frame.                          *)
(***************************************************************************)
EXTENDS Naturals, FiniteSets, SequencesExt

CONSTANTS Plain,     \* keys that are not modifiers
          Mods,      \* modifiers as the sync mask names them: the left keys
          RightMods, \* [key -> the modifier whose bit it shares]
          Buttons,   \* mouse buttons
          Combo,     \* the keys of the escape combination
          MaxPending, MaxWire, MaxSessions  \* bounds

Rights == DOMAIN RightMods
Keys   == Plain \cup Mods \cup Rights
Inputs == Keys \cup Buttons

ASSUME InputAssumption ==
  /\ Plain \cap (Mods \cup Rights) = {} /\ Mods \cap Rights = {}
  /\ Buttons \cap Keys = {} /\ RightMods \in [Rights -> Mods] /\ IsFiniteSet(Keys)
ASSUME BoundAssumption == MaxPending \in Nat /\ MaxWire \in Nat /\ MaxSessions \in Nat

VARIABLES
  phys,     \* what is physically down
  osDown,   \* what the Master's OS believes to be down
  pendingKeys, pendingButtons, \* pending_.keys and pending_.buttons of the hook
  held,     \* input_held_keys
  hooked, mine,
  linked,   \* the server shows Connected
  wire,     \* input messages on their way to the Slave
  injected, \* what is down on the Slave's virtual devices
  shadow,   \* g_modifier_state of the Slave's injector
  (* history *)
  sessions,
  early,    \* keys that were down when a hook was installed
  stale,    \* keys that were down on the Slave when a session was lost
  swallowed, \* keys let go in the frame of an escape
  escaped   \* the escape combination was used in this session

pending == <<pendingKeys, pendingButtons>>
hands   == <<hooked, mine>>
far     == <<injected, shadow>>
history == <<sessions, early, stale, swallowed, escaped>>
vars    == <<phys, osDown, pending, held, hands, linked, wire, far, history>>

Init ==
  /\ phys = {} /\ osDown = {} /\ pendingKeys = <<>> /\ pendingButtons = <<>> /\ held = {}
  /\ hooked = FALSE /\ mine = TRUE /\ linked = FALSE /\ wire = <<>>
  /\ injected = {} /\ shadow = {}
  /\ sessions = 0 /\ early = {} /\ stale = {} /\ swallowed = {} /\ escaped = FALSE

-----------------------------------------------------------------------------
(* The user and the hook procedures: an event is queued for the pump, and  *)
(* passed on to the OS unless a Slave owns the input.                      *)
Suppressed == hooked /\ ~mine

Queue(k, down) ==
  LET e == [key |-> k, down |-> down]
  IN  \/ ~hooked /\ UNCHANGED pending
      \/ /\ hooked /\ Len(pendingKeys) + Len(pendingButtons) < MaxPending
         /\ IF k \in Keys
            THEN pendingKeys' = Append(pendingKeys, e) /\ UNCHANGED pendingButtons
            ELSE pendingButtons' = Append(pendingButtons, e) /\ UNCHANGED pendingKeys

(* Also the repeat of a key that is held down.                             *)
Press(k) ==
  /\ k \notin phys \/ k \in Keys
  /\ phys' = phys \cup {k}
  /\ Queue(k, TRUE)
  /\ osDown' = IF Suppressed THEN osDown ELSE osDown \cup {k}
  /\ UNCHANGED <<held, hands, linked, wire, far, history>>

Release(k) ==
  /\ k \in phys /\ phys' = phys \ {k}
  /\ Queue(k, FALSE)
  /\ osDown' = IF Suppressed THEN osDown ELSE osDown \ {k}
  /\ UNCHANGED <<held, hands, linked, wire, far, history>>

-----------------------------------------------------------------------------
(* The session, and the Slave's injector.                                  *)
LinkUp ==
  /\ ~linked /\ sessions < MaxSessions
  /\ linked' = TRUE /\ sessions' = sessions + 1 /\ escaped' = FALSE
  /\ UNCHANGED <<phys, osDown, pending, held, hands, wire, far, early, stale, swallowed>>

LinkDrops ==
  /\ linked /\ linked' = FALSE /\ wire' = <<>>
  /\ stale' = stale \cup injected
  /\ UNCHANGED <<phys, osDown, pending, held, hands, far, sessions, early, swallowed, escaped>>

(* A left and a right modifier share one bit of the shadow.                *)
BitOf(k) == IF k \in Rights THEN {RightMods[k]} ELSE {k} \cap Mods

InjectKey(k, down) ==
  /\ injected' = IF down THEN injected \cup {k} ELSE injected \ {k}
  /\ shadow'   = IF down THEN shadow \cup BitOf(k) ELSE shadow \ BitOf(k)

(* The injector presses and releases left keys where the shadow differs.   *)
SetModifiers(mask) ==
  /\ injected' = (injected \ (shadow \ mask)) \cup (mask \ shadow)
  /\ shadow' = mask

SlaveReads ==
  /\ wire # <<>> /\ wire' = Tail(wire)
  /\ LET m == Head(wire)
     IN  IF m.t = "sync" THEN SetModifiers(m.mask) ELSE InjectKey(m.key, m.down)
  /\ UNCHANGED <<phys, osDown, pending, held, hands, linked, history>>

-----------------------------------------------------------------------------
(* pump_input.                                                             *)
KeyMessage(k, down) == [t |-> "key", key |-> k, down |-> down]
Sync(mask) == [t |-> "sync", mask |-> mask]

(* held after the frame's keys: the last event of a key decides.           *)
Untouched(k) == \A i \in DOMAIN pendingKeys : pendingKeys[i].key # k
LastOf(i) ==
  \A j \in DOMAIN pendingKeys : j > i => pendingKeys[j].key # pendingKeys[i].key

HeldAfter ==
  {k \in held : Untouched(k)} \cup
  {pendingKeys[i].key : i \in {j \in DOMAIN pendingKeys : pendingKeys[j].down /\ LastOf(j)}}

(* release_held_keys_on_slave, its own sync included.                      *)
Ups(keys) == [i \in 1 .. Len(SetToSeq(keys)) |-> KeyMessage(SetToSeq(keys)[i], FALSE)]
ReleasesOnSlave_KeysOnly(keys) == Ups(keys)
ReleasesOnSlave(keys) == Ups(keys) \o <<Sync({})>>

(* current_modifier_mask asks the OS, which may differ from the keyboard.  *)
Mask == {m \in Mods : m \in osDown \/ \E r \in Rights : r \in osDown /\ RightMods[r] = m}

(* handle_slave_owned forwards a frame's buttons, then its keys.           *)
Forwarded ==
  [i \in DOMAIN pendingButtons |-> KeyMessage(pendingButtons[i].key, pendingButtons[i].down)] \o
  [i \in DOMAIN pendingKeys |-> KeyMessage(pendingKeys[i].key, pendingKeys[i].down)]

(* A send without a session is lost.                                       *)
Send(messages) == wire' = IF linked THEN wire \o messages ELSE wire

Deactivate ==
  /\ ~linked /\ hooked
  /\ hooked' = FALSE /\ mine' = TRUE /\ held' = {}
  /\ UNCHANGED <<phys, osDown, pending, linked, wire, far, history>>

Install ==
  /\ linked /\ ~hooked
  /\ hooked' = TRUE /\ mine' = TRUE
  /\ early' = early \cup (phys \cap Keys)
  /\ UNCHANGED <<phys, osDown, pending, held, linked, wire, far, sessions, stale, swallowed, escaped>>

Running == linked /\ hooked /\ Len(wire) <= MaxWire

(* The Slave has no display left: control returns before the hook is read. *)
ReturnInTheDark ==
  /\ Running /\ ~mine
  /\ mine' = TRUE
  /\ Send(ReleasesOnSlave(held))
  /\ UNCHANGED <<phys, osDown, pending, held, hooked, linked, far, history>>

(* InputHook::poll, and the loop over the frame's keys.                    *)
PollKeys == held' = HeldAfter /\ pendingKeys' = <<>> /\ pendingButtons' = <<>>

ComboHeld == Combo \subseteq HeldAfter

(* The frame's own events are not forwarded any more.                      *)
Escape ==
  /\ Running /\ ~mine /\ ComboHeld
  /\ mine' = TRUE /\ escaped' = TRUE
  /\ swallowed' = swallowed \cup (held \ HeldAfter)
  /\ PollKeys
  /\ Send(ReleasesOnSlave(HeldAfter))
  /\ UNCHANGED <<phys, osDown, hooked, linked, far, sessions, early, stale>>

StayHome ==
  /\ Running /\ mine
  /\ PollKeys
  /\ UNCHANGED <<phys, osDown, hands, linked, wire, far, history>>

(* The mask is read before the OS is told to forget what is held.          *)
ForgottenLocally_None(keys) == {}
ForgottenLocally(keys) == keys

CrossOut ==
  /\ Running /\ mine
  /\ mine' = FALSE
  /\ PollKeys
  /\ Send(<<Sync(Mask)>>)
  /\ osDown' = osDown \ ForgottenLocally(HeldAfter)
  /\ UNCHANGED <<phys, hooked, linked, far, history>>

StayAway ==
  /\ Running /\ ~mine /\ ~ComboHeld
  /\ PollKeys
  /\ Send(Forwarded)
  /\ UNCHANGED <<phys, osDown, hands, linked, far, history>>

CrossBack ==
  /\ Running /\ ~mine /\ ~ComboHeld
  /\ mine' = TRUE
  /\ PollKeys
  /\ Send(Forwarded \o ReleasesOnSlave(HeldAfter))
  /\ UNCHANGED <<phys, osDown, hooked, linked, far, history>>

Next ==
  \/ \E k \in Inputs : Press(k) \/ Release(k)
  \/ LinkUp \/ LinkDrops \/ SlaveReads
  \/ Deactivate \/ Install \/ ReturnInTheDark \/ Escape
  \/ StayHome \/ CrossOut \/ StayAway \/ CrossBack

Spec == Init /\ [][Next]_vars
-----------------------------------------------------------------------------
(* Properties.                                                             *)

Messages == [t : {"key"}, key : Inputs, down : BOOLEAN] \cup [t : {"sync"}, mask : SUBSET Mods]

(* What the pump, the hook and the injector keep has its type.             *)
TypeOK ==
  /\ phys \subseteq Inputs /\ osDown \subseteq Inputs
  /\ pendingKeys \in Seq([key : Keys, down : BOOLEAN])
  /\ pendingButtons \in Seq([key : Buttons, down : BOOLEAN])
  /\ Len(pendingKeys) + Len(pendingButtons) <= MaxPending
  /\ held \subseteq Keys /\ injected \subseteq Inputs /\ shadow \subseteq Mods
  /\ hooked \in BOOLEAN /\ mine \in BOOLEAN /\ linked \in BOOLEAN
  /\ wire \in Seq(Messages)
  /\ sessions \in 0 .. MaxSessions /\ early \subseteq Keys
  /\ stale \subseteq Inputs /\ swallowed \subseteq Keys /\ escaped \in BOOLEAN

Settled == linked /\ wire = <<>> /\ pendingKeys = <<>> /\ pendingButtons = <<>>

(* A left modifier whose bit a right one shares (ModifiersFreed).          *)
Twins == {RightMods[r] : r \in Rights}

(* Once everything sent has been read, no key of this session is down on   *)
(* the Slave without being held on the keyboard, and none at all once the  *)
(* input is back: no autorepeat of the last letter (input_pump.cpp:61-80). *)
(* Left out is what the code is known to leave down: the left twin of a    *)
(* right modifier, and a key let go in the frame of an escape.             *)
NothingStuckOnSlave ==
  Settled => injected \cap (Keys \ Twins)
               \subseteq (IF mine THEN {} ELSE phys \cup early) \cup stale \cup swallowed

(* The Master's OS never believes in a key that has been let go, whoever   *)
(* owned the input when it was: no Ctrl that turns scrolling into zooming  *)
(* (input_pump.cpp:61-69,84-90).                                           *)
NoGhostKeys == osDown \cap Keys \subseteq phys \cup early

(* "Whichever side is losing control at a handoff will never see the keyup *)
(* for anything held right now [...] Both handoffs therefore release       *)
(* explicitly" (input_pump.cpp:61-69): a mouse button, too.                *)
ButtonsReleased == osDown \cap Buttons \subseteq phys

(* The same sentence, of a key that was held before the hook was there.    *)
EarlyKeysReleased == osDown \cap Keys \subseteq phys

(* "so a modifier can't survive as "held" there after its key event        *)
(* released it" (input_pump.cpp:76-79).                                    *)
ModifiersFreed == Settled /\ mine => injected \cap (Mods \cup Rights) \subseteq stale

(* "sending "currently held" here would leave every one of those keys      *)
(* stuck down on Slave instead of freed" (input_pump.cpp:317-323).         *)
EscapeFrees == Settled /\ mine /\ escaped => injected \cap Keys \subseteq stale
=============================================================================
