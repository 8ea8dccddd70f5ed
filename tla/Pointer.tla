------------------------------ MODULE Pointer ------------------------------
(***************************************************************************)
(* Who owns the Master's mouse: pump_input, once per frame, over the       *)
(* motion the hook gathered since the frame before, while the session      *)
(* comes and goes, the Slave's displays change and the user rearranges     *)
(* the screens.  Coordinates are those of the machine that owns the input. *)
(***************************************************************************)
EXTENDS Crossing

CONSTANTS Slaves,        \* devices that connect
          LocalMonitors, \* the Master's monitors
          PeerLayouts,   \* sets of monitors a Slave may report; {} is headless
          Saved,         \* the screen arrangement that was loaded
          NoEntry,       \* a Slave that has not been arranged
          Drops,         \* bound: where the Slave's block may be dropped
          Moves,         \* bound: what the mouse may move between two frames
          ReturnMargin   \* kReturnMargin

Entries == [dir : Directions, offset : Int]
MasterBounds == ComputeBounds(LocalMonitors)

ASSUME MarginAssumption == ReturnMargin \in Nat \ {0}
ASSUME MoveAssumption   == Moves \subseteq Int \X Int
ASSUME EntryAssumption  ==
  /\ NoEntry \notin Entries /\ Saved \in [Slaves -> Entries \cup {NoEntry}]
  /\ Drops \subseteq Int \X Int
(* A Master has a screen.                                                  *)
ASSUME ScreenAssumption ==
  /\ Layout(LocalMonitors) /\ LocalMonitors # {}
  /\ {} \in PeerLayouts
  /\ \A p \in PeerLayouts : Layout(p)

VARIABLES
  connected, \* the server's status is Connected
  slave,     \* peer_device_id of that status
  peer,      \* peer_monitors of that status
  arranged,  \* screen_arrangement
  hooked,    \* input_hook_active
  suppress,  \* suppress_ of the hook: the local OS gets no input
  mine,      \* input_owned_by_master
  x, y,      \* input_logical_x, input_logical_y
  landed,    \* input_just_handed_off
  moved      \* pending_.dx and dy of the hook

vars == <<connected, slave, peer, arranged, hooked, suppress, mine, x, y, landed, moved>>
place == <<x, y>>

entry == arranged[slave]
PeerBounds   == ComputeBounds(peer)
Still  == <<0, 0>>

(* Half of n, rounded towards zero as an integer division is in C++.       *)
Half(n) == IF n < 0 THEN -((-n) \div 2) ELSE n \div 2
Middle(b) == <<Half(b.minX + b.maxX), Half(b.minY + b.maxY)>>

Init == /\ connected = FALSE /\ slave \in Slaves /\ peer = {} /\ arranged = Saved
        /\ hooked = FALSE /\ suppress = FALSE /\ mine = TRUE
        /\ x = 0 /\ y = 0 /\ landed = FALSE /\ moved = Still

-----------------------------------------------------------------------------
(* The environment: session, displays, user.                               *)
SessionStarts(s) ==
  /\ ~connected /\ connected' = TRUE /\ slave' = s /\ peer' = {}
  /\ UNCHANGED <<arranged, hooked, suppress, mine, x, y, landed, moved>>

SessionEnds ==
  /\ connected /\ connected' = FALSE /\ peer' = {}
  /\ UNCHANGED <<slave, arranged, hooked, suppress, mine, x, y, landed, moved>>

MonitorsReported(p) ==
  /\ connected /\ p # peer /\ peer' = p
  /\ UNCHANGED <<connected, slave, arranged, hooked, suppress, mine, x, y, landed, moved>>

(* The Slave's block is dragged, which takes the Master's own mouse, and   *)
(* dropped with its top left corner at drop.                               *)
Rearrange(drop) ==
  /\ connected /\ peer # {} /\ mine
  /\ arranged' = [arranged EXCEPT ![slave] =
       DecidePlacement(MasterBounds, PeerBounds.maxX - PeerBounds.minX,
                       PeerBounds.maxY - PeerBounds.minY, drop[1], drop[2])]
  /\ UNCHANGED <<connected, slave, peer, hooked, suppress, mine, x, y, landed, moved>>

(* The hook procedure, or a raw delta while suppressed.                    *)
MouseMoves(d) ==
  /\ hooked /\ moved = Still /\ moved' = d
  /\ UNCHANGED <<connected, slave, peer, arranged, hooked, suppress, mine, x, y, landed>>

-----------------------------------------------------------------------------
(* pump_input without a session, and the first frame with one.             *)
Resumed_Forgotten == UNCHANGED suppress
Resumed == suppress' = FALSE

Deactivate ==
  /\ ~connected /\ hooked
  /\ Resumed /\ hooked' = FALSE /\ mine' = TRUE
  /\ UNCHANGED <<connected, slave, peer, arranged, x, y, landed, moved>>

(* Start from the real cursor, which is somewhere on the Master's screens. *)
Install(cx, cy) ==
  /\ connected /\ ~hooked
  /\ hooked' = TRUE /\ mine' = TRUE
  /\ Inside(MasterBounds, cx, cy)
  /\ x' = cx /\ y' = cy
  /\ UNCHANGED <<connected, slave, peer, arranged, suppress, landed, moved>>

Running == connected /\ hooked

(* Control comes back to the middle of the Master's screens.               *)
ForceHome ==
  /\ Resumed /\ mine' = TRUE
  /\ x' = Middle(MasterBounds)[1] /\ y' = Middle(MasterBounds)[2]
  /\ landed' = TRUE
  /\ UNCHANGED <<connected, slave, peer, arranged, hooked>>

(* The Slave lost its last display while it owned the input.               *)
PeerWentDark ==
  /\ Running /\ ~mine /\ peer = {}
  /\ ForceHome
  /\ UNCHANGED moved

SlaveOwns == Running /\ ~mine /\ peer # {}

(* Ctrl+Alt+Shift+Esc; the session is ended later, by the server's thread. *)
Escape ==
  /\ SlaveOwns
  /\ ForceHome
  /\ moved' = Still

-----------------------------------------------------------------------------
(* handle_master_owned.                                                    *)
Ahead(b) == CheckBoundary(b, x + moved[1], y + moved[2])
OverX(b) == x + moved[1] - Ahead(b).x
OverY(b) == y + moved[2] - Ahead(b).y

(* The overshoot goes along on the axis that is crossed.                   *)
Land(to, dir, overX, overY) ==
  /\ x' = IF Horizontal(dir) THEN to.x + overX ELSE to.x
  /\ y' = IF Horizontal(dir) THEN to.y ELSE to.y + overY

MayLeave ==
  LET at == Ahead(MasterBounds)
  IN  ~landed /\ at.crossed /\ entry # NoEntry /\ entry.dir = at.dir /\ peer # {}

CrossOut ==
  /\ Running /\ mine /\ MayLeave
  /\ LET at == Ahead(MasterBounds)
     IN  Land(ComputeCrossing(PeerBounds, entry.dir, entry.offset, at.perp), at.dir,
              OverX(MasterBounds), OverY(MasterBounds))
  /\ mine' = FALSE /\ suppress' = TRUE /\ landed' = TRUE /\ moved' = Still
  /\ UNCHANGED <<connected, slave, peer, arranged, hooked>>

StayHome_Unclamped ==
  /\ Running /\ mine /\ ~MayLeave
  /\ x' = x + moved[1] /\ y' = y + moved[2]
  /\ landed' = FALSE /\ moved' = Still
  /\ UNCHANGED <<connected, slave, peer, arranged, hooked, suppress, mine>>
StayHome ==
  /\ Running /\ mine /\ ~MayLeave
  /\ x' = Ahead(MasterBounds).x /\ y' = Ahead(MasterBounds).y
  /\ landed' = FALSE /\ moved' = Still
  /\ UNCHANGED <<connected, slave, peer, arranged, hooked, suppress, mine>>

-----------------------------------------------------------------------------
(* handle_slave_owned.                                                     *)
WayBack == InvertEntry(entry, MasterBounds, PeerBounds)

OnReturnEdge ==
  LET at == Ahead(PeerBounds)
  IN  at.crossed /\ entry # NoEntry /\ at.dir = WayBack.dir

PastMargin == /\ Ahead(PeerBounds).crossed
              /\ \/ Magnitude(OverX(PeerBounds)) >= ReturnMargin
                 \/ Magnitude(OverY(PeerBounds)) >= ReturnMargin

MayReturn_AtTouch == ~landed /\ OnReturnEdge
MayReturn == ~landed /\ PastMargin /\ OnReturnEdge

CrossBack ==
  /\ SlaveOwns /\ MayReturn
  /\ LET at == Ahead(PeerBounds)
     IN  Land(ComputeCrossing(MasterBounds, WayBack.dir, WayBack.offset, at.perp), at.dir,
              OverX(PeerBounds), OverY(PeerBounds))
  /\ mine' = TRUE /\ Resumed /\ landed' = TRUE /\ moved' = Still
  /\ UNCHANGED <<connected, slave, peer, arranged, hooked>>

(* Overshoot is kept, and may add up, only on the edge towards the Master. *)
KeepsX_AnyEdge(at) == at.crossed /\ Horizontal(at.dir)
KeepsX(at) == OnReturnEdge /\ Horizontal(at.dir)
KeepsY(at) == OnReturnEdge /\ ~Horizontal(at.dir)

StayAway ==
  /\ SlaveOwns /\ ~MayReturn
  /\ LET at == Ahead(PeerBounds)
     IN  /\ x' = IF KeepsX(at) THEN x + moved[1] ELSE at.x
         /\ y' = IF KeepsY(at) THEN y + moved[2] ELSE at.y
  /\ landed' = FALSE /\ moved' = Still
  /\ UNCHANGED <<connected, slave, peer, arranged, hooked, suppress, mine>>

-----------------------------------------------------------------------------
Frame == \/ Deactivate \/ PeerWentDark \/ Escape
         \/ CrossOut \/ StayHome \/ CrossBack \/ StayAway

Next == \/ SessionEnds \/ Frame
        \/ \E s \in Slaves : SessionStarts(s)
        \/ \E p \in PeerLayouts : MonitorsReported(p)
        \/ \E drop \in Drops : Rearrange(drop)
        \/ \E d \in Moves : MouseMoves(d)
        \/ \E cx \in MasterBounds.minX .. MasterBounds.maxX,
              cy \in MasterBounds.minY .. MasterBounds.maxY : Install(cx, cy)

Spec == Init /\ [][Next]_vars
-----------------------------------------------------------------------------
(* Properties.                                                             *)

(* The input_* fields of AppState keep their types.                        *)
TypeOK ==
  /\ connected \in BOOLEAN /\ slave \in Slaves /\ peer \in PeerLayouts
  /\ arranged \in [Slaves -> Entries \cup {NoEntry}]
  /\ hooked \in BOOLEAN /\ suppress \in BOOLEAN /\ mine \in BOOLEAN
  /\ x \in Int /\ y \in Int /\ landed \in BOOLEAN /\ moved \in Moves \cup {Still}

(* The Master's own keyboard and mouse are dead exactly while a Slave owns *)
(* the input, whichever way the session, the displays or the ownership     *)
(* changed (input_pump.cpp:243-247: "a Slave-owned suppression could be    *)
(* left stuck on").                                                        *)
SuppressedForSlave == suppress <=> hooked /\ ~mine

(* After the frame it landed in, the cursor of the Slave is outside its    *)
(* bounds only beyond the edge that leads home; the other three never      *)
(* accumulate an overshoot that later motion would have to undo            *)
(* (input_pump.cpp:174-177,209-216).                                       *)
PinnedElsewhere ==
  [][StayAway =>
       LET b == PeerBounds
       IN  /\ ~Inside(b, x', y') => entry # NoEntry
           /\ x' < b.minX => WayBack.dir = "Left"
           /\ x' > b.maxX => WayBack.dir = "Right"
           /\ y' < b.minY => WayBack.dir = "Up"
           /\ y' > b.maxY => WayBack.dir = "Down"]_vars

(* A Slave's cursor that rests on its screens, the very edges included,    *)
(* leaves only by motion or by force: no frame without motion moves it,    *)
(* hands it over or makes it jump (input_pump.cpp:163-166).                *)
RestStays ==
  [][Frame /\ SlaveOwns /\ moved = Still /\ Inside(PeerBounds, x, y)
       => Escape \/ (~mine' /\ place' = place)]_vars

(* Once the frame after a landing is over, the tracked position of the     *)
(* Master lies on the Master's screens, however far the mouse was flung    *)
(* and whatever ended the Slave's turn (input_pump.cpp:147-148,277-316).   *)
HomeInside == Running /\ mine /\ ~landed => Inside(MasterBounds, x, y)

(* "Require a deliberate push past it, not just reaching it, before        *)
(* honoring a crossing back the other way" (input_pump.cpp:163-166).       *)
ReturnNeedsPush ==
  [][CrossBack =>
       LET over == IF Horizontal(Ahead(PeerBounds).dir) THEN OverX(PeerBounds)
                                                        ELSE OverY(PeerBounds)
       IN  Magnitude(over) >= ReturnMargin]_vars

(* "reports the exceeded edge (X takes priority over Y if both did)"       *)
(* (crossing.h:55-57): where only Y is exceeded, Y is what is reported.    *)
ReportsExceededEdge ==
  Running /\ mine /\ y + moved[2] < MasterBounds.minY
    /\ x + moved[1] \in MasterBounds.minX .. MasterBounds.maxX
  => Ahead(MasterBounds).dir = "Up"

(* "Start logical tracking from the cursor's actual position"              *)
(* (input_pump.cpp:265): the hook starts with nothing gathered.            *)
StartsFromCursor == [][hooked' /\ ~hooked => moved = Still]_vars
=============================================================================
