---------------------------- MODULE AudioControl ----------------------------
(***************************************************************************)
(* Who decides what a Slave's audio sounds like: pump_audio on both sides, *)
(* once per frame, the settings messages between them, and the users who   *)
(* may change the settings on either side.  Each session's threads publish *)
(* Connected before they publish the channel, and the frames of the two    *)
(* main loops fall anywhere in between.                                    *)
(***************************************************************************)
EXTENDS Naturals, Sequences

CONSTANTS AudioFormats,     \* sample rate and bit depth a user can choose
          NoFormat,    \* sample rate 0: nothing was reported
          MaxEdits,    \* bound: changes the users make
          MaxSessions  \* bound: connections one after the other

ASSUME FormatAssumption == NoFormat \notin AudioFormats /\ AudioFormats # {}
ASSUME EditsAssumption  == MaxEdits \in Nat /\ MaxSessions \in Nat

VARIABLES
  session,  \* number of the current TCP session; stands for its audio key
  wired,     \* its stream is open
  mpc, spc, \* the threads: "off", "hs" handshake done, "up" status Connected,
            \*              "open" active_channel_ published
  toSlave, toMaster,  \* settings messages under way
  mView,    \* peer_audio_*: what the Master's status says of the Slave
  sPort,    \* peer_audio_port is known to the Slave
  sReq,     \* master_requested_*, with master_audio_control_seq
  master,   \* AppState on the Master, audio_* and audio_master_*
  slave,    \* AppState on the Slave, audio_*
  edits,    \* changes made so far
  pending,  \* history: a request arrived since the Slave's last frame
  accepted, \* history: a report was accepted by this session's channel
  asked     \* history: the Master's user has chosen settings

connection == <<session, wired>>
status     == <<mView, sPort, sReq>>
history    == <<edits, pending, accepted, asked>>
controlVars ==
  <<connection, mpc, spc, toSlave, toMaster, status, master, slave, history>>

Settings(on, fmt) == [on |-> on, fmt |-> fmt]
Unreported == Settings(FALSE, NoFormat)
AnySettings == [on : BOOLEAN, fmt : AudioFormats \cup {NoFormat}]

ControlInit ==
  /\ session = 0 /\ wired = FALSE /\ mpc = "off" /\ spc = "off"
  /\ toSlave = <<>> /\ toMaster = <<>>
  /\ mView = Unreported /\ sPort = FALSE /\ sReq = [seq |-> 0, want |-> Unreported]
  /\ \E f \in AudioFormats :
       /\ master = [active |-> FALSE, play |-> NoFormat, key |-> 0, fmt |-> f,
                    desired |-> Settings(TRUE, f), over |-> FALSE,
                    sent |-> FALSE, last |-> Settings(TRUE, f)]
       /\ slave = [active |-> FALSE, fmt |-> f, key |-> 0, armed |-> FALSE,
                   desired |-> Settings(TRUE, f), applied |-> 0,
                   reported |-> FALSE, last |-> Settings(TRUE, f)]
  /\ edits = 0 /\ pending = FALSE /\ accepted = FALSE /\ asked = FALSE

-----------------------------------------------------------------------------
(* The sessions.                                                           *)
Handshake ==
  /\ mpc = "off" /\ spc = "off" /\ session < MaxSessions
  /\ session' = session + 1 /\ wired' = TRUE
  /\ mpc' = "hs" /\ spc' = "hs"
  /\ accepted' = FALSE
  /\ UNCHANGED <<toSlave, toMaster, status, master, slave, edits, pending, asked>>

LinkDrops ==
  /\ wired /\ wired' = FALSE
  /\ UNCHANGED <<session, mpc, spc, toSlave, toMaster, status, master, slave, history>>

(* status_ is replaced by a fresh one: Connected, nothing known.           *)
MasterUp ==
  /\ mpc = "hs" /\ mpc' = "up"
  /\ mView' = Unreported
  /\ UNCHANGED <<connection, spc, toSlave, toMaster, sPort, sReq, master, slave, history>>

SlaveUp ==
  /\ spc = "hs" /\ spc' = "up"
  /\ sPort' = FALSE /\ sReq' = [seq |-> 0, want |-> Unreported]
  /\ UNCHANGED <<connection, mpc, toSlave, toMaster, mView, master, slave, history>>

MasterOpen ==
  /\ mpc = "up" /\ mpc' = "open"
  /\ toSlave' = IF wired THEN Append(toSlave, [t |-> "port", want |-> Unreported]) ELSE toSlave
  /\ UNCHANGED <<connection, spc, toMaster, status, master, slave, history>>

SlaveOpen ==
  /\ spc = "up" /\ spc' = "open"
  /\ UNCHANGED <<connection, mpc, toSlave, toMaster, status, master, slave, history>>

MasterReads ==
  /\ mpc = "open" /\ toMaster # <<>>
  /\ toMaster' = Tail(toMaster)
  /\ mView' = Head(toMaster).want
  /\ UNCHANGED <<connection, mpc, spc, toSlave, sPort, sReq, master, slave, history>>

SlaveReads ==
  /\ spc = "open" /\ toSlave # <<>>
  /\ toSlave' = Tail(toSlave)
  /\ IF Head(toSlave).t = "port"
     THEN sPort' = TRUE /\ UNCHANGED <<sReq, pending>>
     ELSE /\ sReq' = [seq |-> sReq.seq + 1, want |-> Head(toSlave).want]
          /\ pending' = TRUE
          /\ UNCHANGED sPort
  /\ UNCHANGED <<connection, mpc, spc, toMaster, mView, master, slave, edits, accepted, asked>>

(* The end of a session; what had not been read is gone.                   *)
MasterDown ==
  /\ mpc = "open" /\ ~wired
  /\ mpc' = "off" /\ toMaster' = <<>> /\ mView' = Unreported
  /\ UNCHANGED <<connection, spc, toSlave, sPort, sReq, master, slave, history>>

SlaveDown ==
  /\ spc = "open" /\ ~wired
  /\ spc' = "off" /\ toSlave' = <<>> /\ pending' = FALSE
  /\ UNCHANGED <<connection, mpc, toMaster, status, master, slave, edits, accepted, asked>>

Threads == \/ MasterUp \/ SlaveUp \/ MasterOpen \/ SlaveOpen
           \/ MasterReads \/ SlaveReads \/ MasterDown \/ SlaveDown

-----------------------------------------------------------------------------
(* What is new about the settings now, compared with those last told.      *)
Differs(now, last) == now.on # last.on \/ (now.on /\ now.fmt # last.fmt)

(* pump_master.                                                            *)
Silenced(m) == [m EXCEPT !.active = FALSE, !.play = NoFormat, !.key = 0]

MasterWants == IF master.over THEN master.desired ELSE mView
Pushes == master.over /\ (~master.sent \/ Differs(MasterWants, master.last))

Pushed(m) ==
  IF Pushes THEN [m EXCEPT !.desired = MasterWants, !.sent = TRUE, !.last = MasterWants]
            ELSE [m EXCEPT !.desired = MasterWants]

(* The playback device may fail to open; the channel outlives a restart.   *)
Playing(m, fmt) ==
  [m EXCEPT !.active = TRUE, !.fmt = mView.fmt, !.play = fmt,
            !.key = IF @ = 0 THEN session ELSE @]

MasterFrameIdle ==
  /\ mpc \in {"off", "hs"}
  /\ master' = [Silenced(master) EXCEPT !.sent = FALSE, !.over = FALSE]
  /\ UNCHANGED toSlave

MasterFrameConnected ==
  /\ mpc \in {"up", "open"}
  /\ toSlave' = IF Pushes /\ mpc = "open" /\ wired
                THEN Append(toSlave, [t |-> "control", want |-> MasterWants])
                ELSE toSlave
  /\ IF ~mView.on THEN master' = Silenced(Pushed(master))
     ELSE IF master.active /\ master.fmt = mView.fmt THEN master' = Pushed(master)
     ELSE \E fmt \in {mView.fmt, NoFormat} : master' = Playing(Pushed(master), fmt)

MasterFrame ==
  /\ MasterFrameIdle \/ MasterFrameConnected
  /\ UNCHANGED <<connection, mpc, spc, toMaster, status, slave, history>>

-----------------------------------------------------------------------------
(* pump_slave.                                                             *)
Muted(s) == [s EXCEPT !.active = FALSE, !.key = 0]

NewRequest_Level == sReq.seq # 0
NewRequest == sReq.seq # 0 /\ sReq.seq # slave.applied
SlaveWants == IF NewRequest THEN sReq.want ELSE slave.desired

Reports_OnToggle == ~slave.reported \/ SlaveWants.on # slave.last.on
Reports == ~slave.reported \/ Differs(SlaveWants, slave.last)

(* Applying a request and reporting, on the way to the capture device.     *)
Told_LastKept ==
  [slave EXCEPT !.desired = SlaveWants,
                !.applied = IF NewRequest THEN sReq.seq ELSE @,
                !.reported = TRUE]
Told ==
  [slave EXCEPT !.desired = SlaveWants,
                !.applied = IF NewRequest THEN sReq.seq ELSE @,
                !.reported = TRUE,
                !.last = IF Reports THEN SlaveWants ELSE @]

(* RetryBackoff: a failed start arms it, a successful one disarms it.      *)
Started_StaysArmed(s) == [s EXCEPT !.active = TRUE, !.fmt = s.desired.fmt, !.armed = TRUE,
                                   !.key = IF @ = 0 THEN session ELSE @]
Started(s) == [s EXCEPT !.active = TRUE, !.fmt = s.desired.fmt, !.armed = FALSE,
                        !.key = IF @ = 0 THEN session ELSE @]

SlaveFrameIdle ==
  /\ spc \in {"off", "hs"}
  /\ slave' = [Muted(slave) EXCEPT !.reported = FALSE, !.armed = FALSE]
  /\ UNCHANGED <<toMaster, accepted>>

SlaveFrameConnected ==
  /\ spc \in {"up", "open"}
  /\ LET heard == Reports /\ spc = "open" /\ wired
     IN  /\ toMaster' = IF heard THEN Append(toMaster, [t |-> "status", want |-> SlaveWants])
                                 ELSE toMaster
         /\ accepted' = (accepted \/ heard)
  /\ IF ~SlaveWants.on \/ ~sPort THEN slave' = [Muted(Told) EXCEPT !.armed = FALSE]
     ELSE IF slave.active /\ slave.fmt = SlaveWants.fmt THEN slave' = Told
     ELSE IF slave.armed THEN slave' = Told
     ELSE slave' \in {Started(Told), [Muted(Told) EXCEPT !.armed = TRUE]}

SlaveFrame ==
  /\ SlaveFrameIdle \/ SlaveFrameConnected
  /\ pending' = FALSE
  /\ UNCHANGED <<connection, mpc, spc, toSlave, status, master, edits, asked>>

RetryDue ==
  /\ slave.armed /\ slave' = [slave EXCEPT !.armed = FALSE]
  /\ UNCHANGED <<connection, mpc, spc, toSlave, toMaster, status, master, history>>

-----------------------------------------------------------------------------
(* The audio tabs: one control at a time.                                  *)
OneChange(old) ==
  {[old EXCEPT !.on = ~@]} \cup {[old EXCEPT !.fmt = f] : f \in AudioFormats \ {old.fmt}}

SlaveEdit ==
  /\ edits < MaxEdits /\ edits' = edits + 1
  /\ \E d \in OneChange(slave.desired) : slave' = [slave EXCEPT !.desired = d]
  /\ UNCHANGED <<connection, mpc, spc, toSlave, toMaster, status, master, pending, accepted, asked>>

MasterEdit ==
  /\ edits < MaxEdits /\ edits' = edits + 1
  /\ \E d \in OneChange(master.desired) :
       master' = [master EXCEPT !.desired = d, !.over = TRUE]
  /\ asked' = TRUE
  /\ UNCHANGED <<connection, mpc, spc, toSlave, toMaster, status, slave, pending, accepted>>

ControlNext == \/ Handshake \/ LinkDrops \/ Threads \/ MasterFrame \/ SlaveFrame
               \/ RetryDue \/ SlaveEdit \/ MasterEdit

ControlSpec == ControlInit /\ [][ControlNext]_controlVars

(* Both main loops and both session threads go on.                         *)
FairControlSpec ==
  /\ ControlSpec
  /\ WF_controlVars(MasterFrame) /\ WF_controlVars(SlaveFrame)
  /\ WF_controlVars(Threads) /\ WF_controlVars(MasterReads) /\ WF_controlVars(SlaveReads)
-----------------------------------------------------------------------------
(* Properties.                                                             *)

(* The audio fields of AppState and ConnectionInfo keep their types.       *)
ControlTypeOK ==
  /\ session \in 0 .. MaxSessions /\ wired \in BOOLEAN
  /\ mpc \in {"off", "hs", "up", "open"} /\ spc \in {"off", "hs", "up", "open"}
  /\ toSlave \in Seq([t : {"port", "control"}, want : AnySettings])
  /\ toMaster \in Seq([t : {"status"}, want : AnySettings])
  /\ mView \in AnySettings /\ sPort \in BOOLEAN
  /\ sReq \in [seq : Nat, want : AnySettings]
  /\ master \in [active : BOOLEAN, play : AudioFormats \cup {NoFormat}, key : 0 .. MaxSessions,
                 fmt : AudioFormats \cup {NoFormat}, desired : AnySettings, over : BOOLEAN,
                 sent : BOOLEAN, last : AnySettings]
  /\ slave \in [active : BOOLEAN, fmt : AudioFormats \cup {NoFormat}, key : 0 .. MaxSessions,
                armed : BOOLEAN, desired : AnySettings, applied : Nat,
                reported : BOOLEAN, last : AnySettings]
  /\ edits \in 0 .. MaxEdits
  /\ pending \in BOOLEAN /\ accepted \in BOOLEAN /\ asked \in BOOLEAN

(* What the Master believes once every report under way has been read.     *)
Believed == IF toMaster = <<>> THEN mView ELSE toMaster[Len(toMaster)].want

(* After the first report that got through, the Master's view follows the  *)
(* Slave's settings through every later change, from either side, that a   *)
(* frame of the Slave has seen (audio_pump.cpp:213-226).                   *)
ReportsArrive ==
  [][SlaveFrame /\ accepted' /\ wired /\ spc = "open" /\ mpc # "off"
       => /\ Believed'.on = slave'.desired.on
          /\ slave'.desired.on => Believed'.fmt = slave'.desired.fmt]_controlVars

(* The capture device never goes on in a format the settings have left:    *)
(* the retry backoff only ever holds back a device that is not running     *)
(* (audio_pump.cpp:236-241).                                               *)
CaptureFollows ==
  [][SlaveFrame /\ slave'.active
       => slave'.desired.on /\ slave'.fmt = slave'.desired.fmt]_controlVars

(* A frame only changes the Slave's own settings for a request that came   *)
(* since the last one: an old one never fights a local edit, in no later   *)
(* session either (connection_types.h:34-37).                              *)
EditsStick == [][SlaveFrame /\ slave'.desired # slave.desired => pending]_controlVars

(* Two sides that each tell the other about changes stop telling when the  *)
(* users stop changing: no request is answered by a report that causes     *)
(* another request (audio_pump.cpp:64-89,216-226).                         *)
Settles == <>[](toSlave = <<>> /\ toMaster = <<>>)

(* "Report the current actual settings to Master whenever they change [...]*)
(* so Master's UI never gets stuck showing a stale format"                 *)
(* (audio_pump.cpp:213-215): with frames on both sides of a session that   *)
(* stands, the Master comes to see what the Slave does.                    *)
NeverStuck ==
  []([](wired /\ spc = "open" /\ mpc = "open") => <>(~Differs(slave.desired, mView)))

(* "edge-triggered [...] the app layer can apply a new request exactly     *)
(* once" (connection_types.h:34-37).                                       *)
RequestsApplied ==
  [][SlaveFrame /\ pending /\ spc = "open" => slave'.desired = sReq.want]_controlVars

(* "both sides end up holding the identical value and can independently    *)
(* derive the same audio::derive_audio_key() from it"                      *)
(* (connection_types.h:20-24).                                             *)
SameAudioKey ==
  [][MasterFrame /\ mpc = "open" /\ master'.active /\ slave.active /\ spc = "open" /\ wired
       => slave.key # session \/ master'.key = session]_controlVars

(* "User choices that apply independently of the current connection."      *)
(* (user_settings.h:8): a Master's choice, once made and saved, holds.     *)
ChoiceHolds == asked => master.over

(* Before the user touches a control they "mirror whatever Slave is        *)
(* actually doing", so that the tab "shows the real current state"         *)
(* (ui.cpp:383-387): a request never carries a format nobody chose.        *)
FormatsChosen == slave.desired.fmt \in AudioFormats
=============================================================================
