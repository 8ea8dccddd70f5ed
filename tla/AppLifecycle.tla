---------------------------- MODULE AppLifecycle ----------------------------
(***************************************************************************)
(* The program around its parts: the screens and what each button creates   *)
(* and drops, the main loop that runs the pumps in a fixed order before it  *)
(* draws, the audio objects pump_audio builds and tears down, the capture   *)
(* device's own thread, and the end of main().  The sessions run beside it: *)
(* their status may change between any two steps of a frame.                *)
(***************************************************************************)
EXTENDS Naturals

CONSTANTS Formats,     \* audio formats
          Sockets,     \* audio sockets; a new TcpServer opens another one
          Generations  \* bound: playback generations told apart

ASSUME BoundAssumption == Generations \in Nat \ {0, 1} /\ Formats # {} /\ Sockets # {}

VARIABLES
  (* AppState and the window *)
  screen, previous, \* screen, previous_screen
  role,
  discovering,      \* announcer and listener exist
  server,           \* tcp_server: {} or [socket, linked, sending, format]
  client,           \* tcp_client: {} or [linked, sending, format]
  visible,          \* the window is shown
  drawing,          \* window_visible: it was, when the frame began
  tray,             \* a panel shows the tray icon
  quit,             \* quit_requested()
  at,               \* where main() is
  (* audio *)
  active,           \* audio_active
  playback,         \* audio_playback: {} or its generation
  generation,       \* audio_playback_generation
  playFormat,       \* audio_master_active_format
  recv,             \* audio_recv_channel: {} or the socket it wraps
  window,           \* generations sampled into the loss and depth windows
  capture,          \* audio_capture: {} or the format it runs with
  sendChannel,      \* audio_send_channel exists
  inCallback        \* the capture device's thread is in its callback

navigation == <<screen, previous, role, discovering>>
masterAudio == <<playback, generation, playFormat, recv, window>>
slaveAudio == <<capture, sendChannel>>
audio == <<active, masterAudio, slaveAudio, inCallback>>
shell == <<visible, drawing, tray, quit>>
vars == <<navigation, server, client, shell, at, audio>>

Screens == {"RoleSelect", "Discovery", "ManageDevices", "Arrangement"}
LoopSteps == <<"events", "audio", "auto", "tray", "draw">>
ExitSteps == <<"announcer", "listener", "server", "client", "channel", "capture", "ended">>
Running == at \in {LoopSteps[i] : i \in DOMAIN LoopSteps}

NewServer == {[socket |-> s, linked |-> FALSE, sending |-> FALSE, format |-> f] :
                s \in Sockets \ recv, f \in Formats}
NewClient == {[linked |-> FALSE, sending |-> b, format |-> f] :
                b \in BOOLEAN, f \in Formats}

(* start_discovery.                                                        *)
Discovers(r) ==
  /\ role' = r /\ discovering' = TRUE /\ screen' = "Discovery"
  /\ IF r = "Master" THEN \E s \in NewServer : server' = {s} ELSE UNCHANGED server

Init ==
  /\ recv = {} /\ active = FALSE
  /\ playback = {} /\ generation = 0 /\ playFormat \in Formats /\ window = {}
  /\ capture = {} /\ sendChannel = FALSE /\ inCallback = FALSE
  /\ client = {} /\ previous = "RoleSelect"
  /\ visible = TRUE /\ drawing = TRUE /\ tray \in BOOLEAN /\ quit = FALSE /\ at = "events"
  /\ \/ /\ screen = "RoleSelect" /\ role = "Master" /\ discovering = FALSE /\ server = {}
     \/ /\ screen = "Discovery" /\ role \in {"Master", "Slave"} /\ discovering = TRUE
        /\ IF role = "Master" THEN \E s \in NewServer : server = {s} ELSE server = {}

-----------------------------------------------------------------------------
(* The sessions, on their own threads.                                     *)
(* A session begins or ends: status_ is made anew.                         *)
ServerLinks(s) == server' = {[s EXCEPT !.linked = ~@, !.sending = FALSE]}

(* The Slave reports what it sends.                                        *)
ServerHears(s) == s.linked /\ \E b \in BOOLEAN, f \in Formats :
                    server' = {[s EXCEPT !.sending = b, !.format = f]}

ServerChanges(s) == /\ ServerLinks(s) \/ ServerHears(s)
                    /\ UNCHANGED <<navigation, client, shell, at, audio>>

ClientChanges(c) ==
  /\ \/ client' = {[c EXCEPT !.linked = ~@]}
     \/ c.linked /\ \E b \in BOOLEAN, f \in Formats :
                      client' = {[c EXCEPT !.sending = b, !.format = f]}
  /\ UNCHANGED <<navigation, server, shell, at, audio>>

(* The capture device calls back as long as it is open.                    *)
BeginCallback ==
  /\ capture # {} /\ ~inCallback
  /\ inCallback' = TRUE
  /\ UNCHANGED <<navigation, server, client, shell, at,
                 active, masterAudio, slaveAudio>>

EndCallback ==
  /\ inCallback
  /\ inCallback' = FALSE
  /\ UNCHANGED <<navigation, server, client, shell, at,
                 active, masterAudio, slaveAudio>>

-----------------------------------------------------------------------------
(* The main loop.  A window closed by the user is only hidden.             *)
Events ==
  /\ at = "events"
  /\ IF quit THEN at' = "announcer" /\ UNCHANGED <<visible, drawing>>
     ELSE /\ at' = "audio"
          /\ drawing' = visible
          /\ visible' \in {visible, FALSE}
  /\ UNCHANGED <<navigation, server, client, tray, quit, audio>>

(* stop_master_audio and audio_active = false.                             *)
StopPlayback_KeepChannel ==
  /\ active' = FALSE /\ playback' = {} /\ window' = {}
  /\ UNCHANGED <<generation, playFormat, recv>>
StopPlayback ==
  /\ active' = FALSE /\ playback' = {} /\ recv' = {} /\ window' = {}
  /\ UNCHANGED <<generation, playFormat>>

(* One sample per second, of what plays now.                               *)
Sampled(play, win) == {win, win \cup play}

(* Playback is built anew, with windows that start empty; the device may   *)
(* fail to open.                                                           *)
WindowKept == window
FreshWindow == {}

StartPlayback(s) ==
  /\ active' = TRUE
  /\ generation' = (generation + 1) % Generations
  /\ playFormat' = s.format
  /\ recv' = IF recv = {} THEN {s.socket} ELSE recv
  /\ \/ playback' = {generation'} /\ window' \in Sampled(playback', FreshWindow)
     \/ playback' = {} /\ window' = FreshWindow

PlayOn == /\ window' \in Sampled(playback, window)
          /\ UNCHANGED <<active, playback, generation, playFormat, recv>>

Streaming == {s \in server : s.linked /\ s.sending}

PumpMaster ==
  \/ /\ Streaming = {} /\ active /\ StopPlayback
  \/ /\ Streaming = {} /\ ~active /\ UNCHANGED <<active, masterAudio>>
  \/ \E s \in Streaming :
       IF active /\ playFormat = s.format THEN PlayOn ELSE StartPlayback(s)

StopCapture_NoWait == active' = FALSE /\ capture' = {} /\ sendChannel' = FALSE

(* stop_slave_audio: closing the device waits for a callback to end.       *)
StopCapture ==
  /\ ~inCallback
  /\ active' = FALSE /\ capture' = {} /\ sendChannel' = FALSE

StartCapture(c) ==
  /\ ~inCallback
  /\ \/ active' = TRUE /\ capture' = {c.format} /\ sendChannel' = TRUE
     \/ active' = FALSE /\ capture' = {} /\ sendChannel' = FALSE   \* it failed to open

Capturing == {c \in client : c.linked /\ c.sending}

(* The last disjunct is a retry that waits for its backoff.                *)
PumpSlave ==
  \/ /\ Capturing = {} /\ active /\ StopCapture
  \/ /\ Capturing = {} /\ ~active /\ UNCHANGED <<active, slaveAudio>>
  \/ \E c \in Capturing :
       \/ ~(active /\ capture = {c.format}) /\ StartCapture(c)
       \/ (active => capture = {c.format}) /\ UNCHANGED <<active, slaveAudio>>

PumpAudio ==
  /\ at = "audio" /\ at' = "auto"
  /\ IF role = "Master" THEN PumpMaster /\ UNCHANGED slaveAudio
     ELSE PumpSlave /\ UNCHANGED masterAudio
  /\ UNCHANGED <<navigation, server, client, shell, inCallback>>

(* pump_auto_connect may put a new client in the place of one that failed. *)
PumpAutoConnect ==
  /\ at = "auto" /\ at' = "tray"
  /\ \/ UNCHANGED client
     \/ /\ role = "Slave" /\ discovering
        /\ \A c \in client : ~c.linked
        /\ \E c \in NewClient : client' = {c}
  /\ UNCHANGED <<navigation, server, shell, audio>>

(* The tray icon restores the window; its menu has Quit.                   *)
PumpTray ==
  /\ at = "tray" /\ at' = IF drawing THEN "draw" ELSE "events"
  /\ \/ UNCHANGED <<visible, quit>>
     \/ tray /\ visible' = TRUE /\ UNCHANGED quit
     \/ tray /\ quit' = TRUE /\ UNCHANGED visible
  /\ UNCHANGED <<navigation, server, client, drawing, tray, audio>>

-----------------------------------------------------------------------------
(* Drawing: the screen's buttons, of which the user presses at most one.   *)
Press == at = "draw" /\ at' = "events" /\ UNCHANGED <<visible, drawing, tray, audio>>

PressNothing == /\ Press
                /\ UNCHANGED <<navigation, server, client, quit>>

PressExit == /\ Press
             /\ quit' = TRUE
             /\ UNCHANGED <<navigation, server, client>>

PressRole(r) ==
  /\ Press /\ screen = "RoleSelect"
  /\ Discovers(r)
  /\ UNCHANGED <<previous, client, quit>>

Remembered_OnlyDiscovery == IF screen = "Discovery" THEN screen ELSE previous
Remembered == screen

PressManage ==
  /\ Press /\ screen \in {"RoleSelect", "Discovery"}
  /\ previous' = Remembered /\ screen' = "ManageDevices"
  /\ UNCHANGED <<role, discovering, server, client, quit>>

PressArrange ==
  /\ Press /\ screen = "Discovery" /\ role = "Master"
  /\ previous' = "Discovery" /\ screen' = "Arrangement"
  /\ UNCHANGED <<role, discovering, server, client, quit>>

PressBack ==
  /\ Press /\ screen \in {"ManageDevices", "Arrangement"}
  /\ screen' = previous
  /\ UNCHANGED <<previous, role, discovering, server, client, quit>>

(* Back on the Discovery screen drops everything start_discovery made.     *)
PressLeave ==
  /\ Press /\ screen = "Discovery"
  /\ discovering' = FALSE /\ server' = {} /\ client' = {}
  /\ screen' = "RoleSelect"
  /\ UNCHANGED <<previous, role, quit>>

PressConnect ==
  /\ Press /\ screen = "Discovery" /\ role = "Slave"
  /\ \E c \in NewClient : client' = {c}
  /\ UNCHANGED <<navigation, server, quit>>

(* Disconnect on the Slave, or Forget of the Master it is connected to.    *)
PressDrop ==
  /\ Press /\ screen \in {"Discovery", "ManageDevices"}
  /\ \E c \in client : c.linked
  /\ client' = {}
  /\ UNCHANGED <<navigation, server, quit>>

Draw == \/ PressNothing \/ PressExit \/ PressManage \/ PressArrange \/ PressBack
        \/ PressLeave \/ PressConnect \/ PressDrop
        \/ \E r \in {"Master", "Slave"} : PressRole(r)

-----------------------------------------------------------------------------
(* The end of main(), and then the members of AppState in the reverse of   *)
(* their declaration: audio_send_channel goes before audio_capture.        *)
ExitStep(step) ==
  /\ at = ExitSteps[step] /\ at' = ExitSteps[step + 1]
  /\ UNCHANGED <<screen, previous, role, shell, active, masterAudio, inCallback>>

ExitAnnouncer == ExitStep(1) /\ discovering' = FALSE /\ UNCHANGED <<server, client, slaveAudio>>
ExitListener == ExitStep(2) /\ UNCHANGED <<discovering, server, client, slaveAudio>>
ExitServer == ExitStep(3) /\ server' = {} /\ UNCHANGED <<discovering, client, slaveAudio>>
ExitClient == ExitStep(4) /\ client' = {} /\ UNCHANGED <<discovering, server, slaveAudio>>
ExitChannel == ExitStep(5) /\ sendChannel' = FALSE
               /\ UNCHANGED <<discovering, server, client, capture>>
ExitCapture == ExitStep(6) /\ ~inCallback /\ capture' = {}
               /\ UNCHANGED <<discovering, server, client, sendChannel>>

Exit == ExitAnnouncer \/ ExitListener \/ ExitServer \/ ExitClient \/ ExitChannel \/ ExitCapture

Main == Events \/ PumpAudio \/ PumpAutoConnect \/ PumpTray \/ Draw \/ Exit

Next == \/ Main \/ BeginCallback \/ EndCallback
        \/ \E s \in server : ServerChanges(s)
        \/ \E c \in client : ClientChanges(c)

Spec == Init /\ [][Next]_vars
-----------------------------------------------------------------------------
(* Properties.                                                             *)

TypeOK ==
  /\ screen \in Screens /\ previous \in {"RoleSelect", "Discovery"}
  /\ role \in {"Master", "Slave"} /\ discovering \in BOOLEAN
  /\ server \subseteq [socket : Sockets, linked : BOOLEAN, sending : BOOLEAN, format : Formats]
  /\ client \subseteq [linked : BOOLEAN, sending : BOOLEAN, format : Formats]
  /\ visible \in BOOLEAN /\ drawing \in BOOLEAN /\ tray \in BOOLEAN /\ quit \in BOOLEAN
  /\ at \in {LoopSteps[i] : i \in DOMAIN LoopSteps} \cup {ExitSteps[i] : i \in DOMAIN ExitSteps}
  /\ active \in BOOLEAN /\ sendChannel \in BOOLEAN /\ inCallback \in BOOLEAN
  /\ generation \in 0 .. Generations - 1 /\ playFormat \in Formats
  /\ playback \subseteq 0 .. Generations - 1 /\ window \subseteq 0 .. Generations - 1
  /\ recv \subseteq Sockets /\ capture \subseteq Formats

(* The Discovery screen and what it draws from exist together, whatever    *)
(* screens the user came through: it dereferences the listener and the     *)
(* announced server without a test (ui.cpp:109,254,494-499).               *)
DiscoveryServed ==
  Running => /\ screen = "RoleSelect" => ~discovering /\ server = {} /\ client = {}
             /\ screen \in {"Discovery", "Arrangement"} => discovering
             /\ discovering => (role = "Master" <=> server # {})

(* The audio objects are of the role the machine has, and nothing is ever  *)
(* received through a socket that its TcpServer has closed, as long as a   *)
(* frame falls between dropping a server and making the next               *)
(* (audio_pump.cpp:40-49,134-152, tcp_server.cpp:97-100).                  *)
AudioBelongs ==
  /\ playback # {} \/ recv # {} => role = "Master"
  /\ capture # {} => role = "Slave"
  /\ \A s \in server, k \in recv : k = s.socket

(* The rolling windows shown to the user hold samples of one playback      *)
(* object, whose counters begin at zero (app_state.h:83-86).               *)
OneSource == window \subseteq playback

(* While the program runs, a capture callback always has its channel, also *)
(* when the format changes or the device fails to open (audio_pump.cpp:    *)
(* 158-176, 264-269).                                                      *)
CallbackSafe == Running /\ inCallback => sendChannel

(* "this guarantees the capture callback can never touch a channel that's  *)
(* already been destroyed" (audio_pump.cpp:160-162).                       *)
NeverDestroyed == inCallback => sendChannel

(* "Closing the window hides it; quitting is handled by the tray action."  *)
(* (main.cpp:42).                                                          *)
HiddenCanQuit == ~visible => tray
=============================================================================
