------------------------------- MODULE AppProofs -------------------------------
(***************************************************************************)
(* The program's main loop and the pumps it runs, for every value of their *)
(* constants: the screens and the audio objects of AppLifecycle first, and *)
(* then pump_auto_connect (AutoConnect), the settings pump_audio agrees on *)
(* (AudioControl) and pump_clipboard (ClipboardSync), each with a          *)
(* specification and an invariant of its own.                              *)
(***************************************************************************)
EXTENDS AppLifecycle, AutoConnect, AudioControl, ClipboardSync, SequenceTheorems, TLAPS

(* The screen Back leads to, or the one shown when it has no Back.         *)
Place == IF screen \in {"ManageDevices", "Arrangement"} THEN previous ELSE screen

(* What start_discovery made is there where the user can get back to the   *)
(* Discovery screen, and gone where only the role can be chosen.           *)
Served ==
  Running => /\ Place = "RoleSelect" => ~discovering /\ server = {} /\ client = {}
             /\ Place = "Discovery" => discovering
             /\ screen = "Arrangement" => previous = "Discovery"
             /\ discovering => (role = "Master" <=> server # {})

(* Every audio object is there under audio_active alone, and that is only  *)
(* left set without a role's discovery between Back and the next pump.     *)
Torn ==
  /\ playback # {} \/ recv # {} \/ capture # {} => active
  /\ Place = "RoleSelect" /\ at \in {"auto", "tray", "draw"} => ~active

(* The capture device and its channel come and go together, and a callback *)
(* runs only while the device is open.                                     *)
Paired ==
  /\ Running /\ capture # {} => sendChannel
  /\ inCallback => capture # {}

(* There is one TcpServer or none.                                         *)
OneServer == \A s, t \in server : s = t

AInv == TypeOK /\ Served /\ Torn /\ Paired /\ AudioBelongs /\ OneSource /\ OneServer

-----------------------------------------------------------------------------
(* Where main() is.                                                        *)
Loop == {"events", "audio", "auto", "tray", "draw"}
Leaving == {"announcer", "listener", "server", "client", "channel", "capture", "ended"}

LEMMA StepNames ==
  /\ {LoopSteps[i] : i \in DOMAIN LoopSteps} = Loop
  /\ {ExitSteps[i] : i \in DOMAIN ExitSteps} = Leaving
  /\ ExitSteps[1] = "announcer" /\ ExitSteps[2] = "listener" /\ ExitSteps[3] = "server"
  /\ ExitSteps[4] = "client" /\ ExitSteps[5] = "channel" /\ ExitSteps[6] = "capture"
  /\ ExitSteps[7] = "ended"
<1>1. DOMAIN LoopSteps = 1 .. 5 /\ DOMAIN ExitSteps = 1 .. 7
  BY DEF LoopSteps, ExitSteps
<1>2. DOMAIN LoopSteps = {1, 2, 3, 4, 5} /\ DOMAIN ExitSteps = {1, 2, 3, 4, 5, 6, 7}
  BY <1>1
<1> QED
  BY <1>2 DEF LoopSteps, ExitSteps, Loop, Leaving

LEMMA RunningMeans == Running <=> at \in Loop
BY StepNames DEF Running

LEMMA RunningMeansNext == Running' <=> at' \in Loop
BY StepNames DEF Running

LEMMA AtTyped == TypeOK => at \in Loop \cup Leaving
BY StepNames DEF TypeOK

LEMMA NewServerTyped ==
  ASSUME NEW s \in NewServer
  PROVE  /\ s \in [socket : Sockets, linked : BOOLEAN, sending : BOOLEAN, format : Formats]
         /\ s.socket \notin recv
<1>1. PICK k \in Sockets \ recv, f \in Formats :
        s = [socket |-> k, linked |-> FALSE, sending |-> FALSE, format |-> f]
  BY DEF NewServer
<1> QED
  BY <1>1

LEMMA NewClientTyped ==
  ASSUME NEW c \in NewClient
  PROVE  c \in [linked : BOOLEAN, sending : BOOLEAN, format : Formats]
<1>1. PICK b \in BOOLEAN, f \in Formats : c = [linked |-> FALSE, sending |-> b, format |-> f]
  BY DEF NewClient
<1> QED
  BY <1>1

-----------------------------------------------------------------------------
(* A step that touches neither the audio objects nor the place in the loop *)
(* keeps all that is said of them.                                         *)
Servers == [socket : Sockets, linked : BOOLEAN, sending : BOOLEAN, format : Formats]
ClientsShown == [linked : BOOLEAN, sending : BOOLEAN, format : Formats]

LEMMA InitHolds == Init => AInv
<1> SUFFICES ASSUME Init PROVE AInv
  OBVIOUS
<1>1. at \in Loop
  BY DEF Init, Loop
<1>2. server \subseteq Servers
  BY NewServerTyped DEF Init, Servers
<1>3. 0 \in 0 .. Generations - 1
  BY BoundAssumption
<1>4. TypeOK
  BY <1>1, <1>2, <1>3, StepNames DEF Init, TypeOK, Screens, Servers
<1>5. Served /\ Torn /\ Paired /\ AudioBelongs /\ OneSource /\ OneServer
  BY DEF Init, Served, Torn, Paired, AudioBelongs, OneSource, OneServer, Place
<1> QED
  BY <1>4, <1>5 DEF AInv

LEMMA SessionsKeep ==
  ASSUME AInv, (\E s \in server : ServerChanges(s)) \/ (\E c \in client : ClientChanges(c))
  PROVE  AInv'
<1> USE DEF AInv
<1>1. UNCHANGED <<navigation, shell, at, audio>>
  BY DEF ServerChanges, ClientChanges
<1>2. ASSUME NEW s \in server, ServerChanges(s)
      PROVE  /\ server' \subseteq Servers /\ server' # {} /\ client' = client
                    /\ OneServer' /\ \A t \in server' : t.socket = s.socket
  <2>1. s \in Servers
    BY DEF TypeOK, Servers
  <2> QED
    BY <1>2, <2>1 DEF ServerChanges, ServerLinks, ServerHears, Servers, OneServer
<1>3. ASSUME NEW c \in client, ClientChanges(c)
      PROVE  client' \subseteq ClientsShown /\ server' = server
  <2>1. c \in ClientsShown
    BY DEF TypeOK, ClientsShown
  <2> QED
    BY <1>3, <2>1 DEF ClientChanges, ClientsShown
<1>4. TypeOK'
  BY <1>1, <1>2, <1>3 DEF TypeOK, Servers, ClientsShown, navigation, shell, audio,
                          masterAudio, slaveAudio
<1>5. Served'
  BY <1>1, <1>2, <1>3, RunningMeans, RunningMeansNext DEF Served, Place, navigation
<1>6. AudioBelongs'
  BY <1>1, <1>2, <1>3 DEF AudioBelongs, navigation, audio, masterAudio, slaveAudio
<1>7. Torn' /\ Paired' /\ OneSource'
  BY <1>1, RunningMeans, RunningMeansNext
  DEF Torn, Paired, OneSource, Place, navigation, audio, masterAudio, slaveAudio
<1>8. OneServer'
  BY <1>2, <1>3 DEF OneServer
<1> QED
  BY <1>4, <1>5, <1>6, <1>7, <1>8

LEMMA CallbackKeeps == ASSUME AInv, BeginCallback \/ EndCallback PROVE AInv'
<1> USE DEF AInv
<1>1. /\ UNCHANGED <<navigation, server, client, shell, at, active, masterAudio, slaveAudio>>
      /\ inCallback' \in BOOLEAN
      /\ inCallback' => capture # {}
  BY DEF BeginCallback, EndCallback, Paired
<1>2. TypeOK'
  BY <1>1 DEF TypeOK, navigation, shell, masterAudio, slaveAudio
<1>3. Served' /\ Torn' /\ Paired' /\ AudioBelongs' /\ OneSource' /\ OneServer'
  BY <1>1, RunningMeans, RunningMeansNext
  DEF Served, Torn, Paired, AudioBelongs, OneSource, OneServer, Place, navigation, masterAudio,
      slaveAudio
<1> QED
  BY <1>2, <1>3

-----------------------------------------------------------------------------
(* The steps of the loop.                                                  *)
LEMMA EventsKeep == ASSUME AInv, Events PROVE AInv'
<1> USE DEF AInv
<1>1. /\ UNCHANGED <<navigation, server, client, tray, quit, audio>>
      /\ at = "events" /\ at' \in {"announcer", "audio"}
      /\ visible' \in BOOLEAN /\ drawing' \in BOOLEAN
  BY DEF Events, TypeOK
<1>2. at' \in Loop \cup Leaving
  BY <1>1 DEF Loop, Leaving
<1>3. TypeOK'
  BY <1>1, <1>2, StepNames DEF TypeOK, navigation, audio, masterAudio, slaveAudio
<1>4. Running
  BY <1>1, RunningMeans DEF Loop
<1>5. Served' /\ Torn' /\ Paired' /\ AudioBelongs' /\ OneSource' /\ OneServer'
  BY <1>1, <1>4
  DEF Served, Torn, Paired, AudioBelongs, OneSource, OneServer, Place, navigation, audio,
      masterAudio,
      slaveAudio
<1> QED
  BY <1>3, <1>5

(* pump_audio on a Master: a channel is made only for the server's socket, *)
(* and nothing is left of it when nobody sends.                            *)
LEMMA PumpMasterKeeps ==
  ASSUME AInv, role = "Master", PumpMaster
  PROVE  /\ active' \in BOOLEAN /\ generation' \in 0 .. Generations - 1
         /\ playFormat' \in Formats /\ playback' \subseteq 0 .. Generations - 1
         /\ recv' \subseteq Sockets
         /\ window' \subseteq playback'
         /\ playback' # {} \/ recv' # {} => active'
         /\ server = {} => ~active'
         /\ \A s \in server, k \in recv' : k = s.socket
<1> USE DEF AInv
<1>1. CASE Streaming = {} /\ active /\ StopPlayback
  BY <1>1 DEF StopPlayback, TypeOK
<1>2. CASE Streaming = {} /\ ~active /\ UNCHANGED <<active, masterAudio>>
  BY <1>2 DEF masterAudio, TypeOK, Torn, OneSource, AudioBelongs
<1>3. ASSUME NEW s \in Streaming, PlayOn
      PROVE  /\ window' \subseteq playback' /\ server # {}
             /\ UNCHANGED <<active, playback, generation, playFormat, recv>>
  BY <1>3 DEF PlayOn, Sampled, Streaming, OneSource
<1>4. ASSUME NEW s \in Streaming, StartPlayback(s)
      PROVE  /\ active' = TRUE /\ generation' \in 0 .. Generations - 1
             /\ playFormat' \in Formats /\ playback' \subseteq {generation'}
             /\ window' \subseteq playback'
             /\ recv' = (IF recv = {} THEN {s.socket} ELSE recv)
             /\ server # {} /\ s.socket \in Sockets
  <2>1. s \in server /\ s \in Servers
    BY DEF Streaming, TypeOK, Servers
  <2>2. s.format \in Formats /\ s.socket \in Sockets
    BY <2>1 DEF Servers
  <2>3. (generation + 1) % Generations \in 0 .. Generations - 1
    BY BoundAssumption DEF TypeOK
  <2> QED
    BY <1>4, <2>1, <2>2, <2>3 DEF StartPlayback, Sampled, FreshWindow
<1>5. CASE \E s \in Streaming : PlayOn
  BY <1>3, <1>5 DEF TypeOK, Torn, AudioBelongs
<1>6. CASE \E s \in Streaming : StartPlayback(s)
  <2>1. PICK s \in Streaming : StartPlayback(s)
    BY <1>6
  <2>2. \A t \in server : t.socket = s.socket
    BY DEF OneServer, Streaming
  <2>3. recv' \subseteq Sockets /\ \A t \in server, k \in recv' : k = t.socket
    BY <1>4, <2>1, <2>2 DEF TypeOK, AudioBelongs
  <2> QED
    BY <1>4, <2>1, <2>3
<1> QED
  BY <1>1, <1>2, <1>5, <1>6 DEF PumpMaster

(* pump_audio on a Slave: capture and channel are there with audio_active, *)
(* and not at all without a client.                                        *)
LEMMA PumpSlaveKeeps ==
  ASSUME AInv, role = "Slave", PumpSlave, Running
  PROVE  /\ active' \in BOOLEAN /\ sendChannel' \in BOOLEAN /\ capture' \subseteq Formats
         /\ capture' # {} => active' /\ sendChannel'
         /\ inCallback => capture' # {}
         /\ client = {} => ~active'
<1> USE DEF AInv
<1>1. ASSUME NEW c \in Capturing PROVE c.format \in Formats /\ client # {}
  BY DEF Capturing, TypeOK
<1>2. CASE StopCapture
  BY <1>2 DEF StopCapture
<1>3. CASE UNCHANGED <<active, slaveAudio>> /\ (client = {} => ~active)
  BY <1>3 DEF slaveAudio, TypeOK, Torn, Paired
<1>4. ASSUME NEW c \in Capturing, StartCapture(c)
      PROVE  /\ active' \in BOOLEAN /\ sendChannel' \in BOOLEAN /\ capture' \subseteq Formats
             /\ capture' # {} => active' /\ sendChannel'
             /\ ~inCallback /\ client # {}
  BY <1>1, <1>4 DEF StartCapture
<1> QED
  BY <1>1, <1>2, <1>3, <1>4 DEF PumpSlave

LEMMA PumpAudioKeeps == ASSUME AInv, PumpAudio PROVE AInv'
<1> USE DEF AInv
<1>1. /\ UNCHANGED <<navigation, server, client, shell, inCallback>>
      /\ at = "audio" /\ at' = "auto" /\ role \in {"Master", "Slave"}
  BY DEF PumpAudio, TypeOK
<1>2. Running /\ Running' /\ at' \in Loop \cup Leaving
  BY <1>1, RunningMeans, RunningMeansNext DEF Loop
<1>3. Served' /\ OneServer'
  BY <1>1, <1>2 DEF Served, OneServer, Place, navigation
<1>4. Place' = Place /\ (Place = "RoleSelect" => server = {} /\ client = {})
  BY <1>1, <1>2 DEF Served, Place, navigation
<1>5. CASE role = "Master"
  <2>1. PumpMaster /\ UNCHANGED slaveAudio
    BY <1>5 DEF PumpAudio
  <2>2. capture = {} /\ capture' = {} /\ sendChannel' = sendChannel
    BY <1>5, <2>1 DEF AudioBelongs, slaveAudio
  <2>3. TypeOK'
    BY <1>1, <1>2, <1>5, <2>1, <2>2, PumpMasterKeeps, StepNames DEF TypeOK, navigation, shell
  <2>4. Torn' /\ Paired' /\ AudioBelongs' /\ OneSource'
    BY <1>1, <1>4, <1>5, <2>1, <2>2, PumpMasterKeeps
    DEF Torn, Paired, AudioBelongs, OneSource, navigation
  <2> QED
    BY <1>3, <2>3, <2>4
<1>6. CASE role = "Slave"
  <2>1. PumpSlave /\ UNCHANGED masterAudio
    BY <1>6 DEF PumpAudio
  <2>2. /\ playback = {} /\ recv = {} /\ window = {}
        /\ UNCHANGED <<playback, generation, playFormat, recv, window>>
    BY <1>6, <2>1 DEF AudioBelongs, OneSource, masterAudio
  <2>3. TypeOK'
    BY <1>1, <1>2, <1>6, <2>1, <2>2, PumpSlaveKeeps, StepNames DEF TypeOK, navigation, shell
  <2>4. Torn' /\ Paired' /\ AudioBelongs' /\ OneSource'
    BY <1>1, <1>2, <1>4, <1>6, <2>1, <2>2, PumpSlaveKeeps
    DEF Torn, Paired, AudioBelongs, OneSource, navigation
  <2> QED
    BY <1>3, <2>3, <2>4
<1> QED
  BY <1>1, <1>5, <1>6

(* A client put in the place of another is not one where there was no      *)
(* discovery.                                                              *)
LEMMA PumpAutoConnectKeeps == ASSUME AInv, PumpAutoConnect PROVE AInv'
<1> USE DEF AInv
<1>1. /\ UNCHANGED <<navigation, server, shell, audio>>
      /\ at = "auto" /\ at' = "tray"
      /\ UNCHANGED client \/ (discovering /\ client' \subseteq ClientsShown)
  BY NewClientTyped DEF PumpAutoConnect, ClientsShown
<1>2. Running /\ Running' /\ at' \in Loop \cup Leaving
  BY <1>1, RunningMeans, RunningMeansNext DEF Loop
<1>3. TypeOK'
  BY <1>1, <1>2, StepNames
  DEF TypeOK, ClientsShown, navigation, shell, audio, masterAudio, slaveAudio
<1>4. Served' /\ OneServer'
  BY <1>1, <1>2 DEF Served, OneServer, Place, navigation
<1>5. Torn' /\ Paired' /\ AudioBelongs' /\ OneSource'
  BY <1>1, <1>2
  DEF Torn, Paired, AudioBelongs, OneSource, Place, navigation, audio, masterAudio, slaveAudio
<1> QED
  BY <1>3, <1>4, <1>5

LEMMA PumpTrayKeeps == ASSUME AInv, PumpTray PROVE AInv'
<1> USE DEF AInv
<1>1. /\ UNCHANGED <<navigation, server, client, drawing, tray, audio>>
      /\ at = "tray" /\ at' \in {"draw", "events"}
      /\ visible' \in BOOLEAN /\ quit' \in BOOLEAN
  BY DEF PumpTray, TypeOK
<1>2. Running /\ Running' /\ at' \in Loop \cup Leaving
  BY <1>1, RunningMeans, RunningMeansNext DEF Loop
<1>3. TypeOK'
  BY <1>1, <1>2, StepNames DEF TypeOK, navigation, audio, masterAudio, slaveAudio
<1>4. Served' /\ Torn' /\ Paired' /\ AudioBelongs' /\ OneSource' /\ OneServer'
  BY <1>1, <1>2
  DEF Served, Torn, Paired, AudioBelongs, OneSource, OneServer, Place, navigation, audio,
      masterAudio, slaveAudio
<1> QED
  BY <1>3, <1>4

-----------------------------------------------------------------------------
(* The buttons.  What a press needs to show is about the screens, and for  *)
(* a role's discovery also that no audio of another is left.               *)
LEMMA PressKeeps ==
  ASSUME AInv, Press, Served', OneServer',
         screen' \in Screens, previous' \in {"RoleSelect", "Discovery"},
         role' \in {"Master", "Slave"}, discovering' \in BOOLEAN, quit' \in BOOLEAN,
         server' \subseteq Servers, client' \subseteq ClientsShown,
         \A s \in server', k \in recv : k = s.socket,
         role' = role \/ (playback = {} /\ recv = {} /\ capture = {})
  PROVE  AInv'
<1> USE DEF AInv
<1>1. /\ UNCHANGED <<visible, drawing, tray, audio>>
      /\ at = "draw" /\ at' = "events"
  BY DEF Press
<1>2. Running /\ Running' /\ at' \in Loop \cup Leaving
  BY <1>1, RunningMeans, RunningMeansNext DEF Loop
<1>3. TypeOK'
  BY <1>1, <1>2, StepNames
  DEF TypeOK, Servers, ClientsShown, audio, masterAudio, slaveAudio
<1>4. Torn' /\ Paired' /\ AudioBelongs' /\ OneSource'
  BY <1>1, <1>2 DEF Torn, Paired, AudioBelongs, OneSource, audio, masterAudio, slaveAudio
<1> QED
  BY <1>3, <1>4

LEMMA DrawKeeps == ASSUME AInv, Draw PROVE AInv'
<1> USE DEF AInv
<1>1. Press
  BY DEF Draw, PressNothing, PressExit, PressManage, PressArrange, PressBack, PressLeave,
         PressConnect, PressDrop, PressRole
<1>2. at = "draw" /\ at' = "events" /\ Running /\ Running' /\ recv' = recv
  BY <1>1, RunningMeans, RunningMeansNext DEF Press, Loop, audio, masterAudio
<1>3. /\ screen \in Screens /\ previous \in {"RoleSelect", "Discovery"}
      /\ role \in {"Master", "Slave"} /\ discovering \in BOOLEAN /\ quit \in BOOLEAN
      /\ server \subseteq Servers /\ client \subseteq ClientsShown
      /\ \A s \in server, k \in recv : k = s.socket
  BY DEF TypeOK, Servers, ClientsShown, AudioBelongs
<1>4. /\ Place = "RoleSelect" => ~discovering /\ server = {} /\ client = {} /\ ~active
      /\ Place = "Discovery" => discovering
      /\ screen = "Arrangement" => previous = "Discovery"
      /\ discovering => (role = "Master" <=> server # {})
  BY <1>2 DEF Served, Torn
<1>5. CASE PressNothing \/ PressExit
  <2>1. /\ UNCHANGED <<navigation, server, client>> /\ quit' \in BOOLEAN
    BY <1>3, <1>5 DEF PressNothing, PressExit
  <2>2. Served' /\ OneServer'
    BY <1>2, <2>1 DEF Served, OneServer, Place, navigation
  <2> QED
    BY <1>1, <1>3, <2>1, <2>2, PressKeeps DEF navigation
<1>6. CASE PressManage
  <2>1. /\ screen \in {"RoleSelect", "Discovery"}
        /\ previous' = screen /\ screen' = "ManageDevices"
        /\ UNCHANGED <<role, discovering, server, client, quit>>
    BY <1>6 DEF PressManage, Remembered
  <2>2. Served' /\ OneServer'
    BY <1>4, <2>1 DEF Served, OneServer, Place
  <2> QED
    BY <1>1, <1>3, <2>1, <2>2, PressKeeps DEF Screens
<1>7. CASE PressArrange
  <2>1. /\ screen = "Discovery" /\ previous' = "Discovery" /\ screen' = "Arrangement"
        /\ UNCHANGED <<role, discovering, server, client, quit>>
    BY <1>7 DEF PressArrange
  <2>2. Served' /\ OneServer'
    BY <1>4, <2>1 DEF Served, OneServer, Place
  <2> QED
    BY <1>1, <1>3, <2>1, <2>2, PressKeeps DEF Screens
<1>8. CASE PressBack
  <2>1. /\ screen \in {"ManageDevices", "Arrangement"} /\ screen' = previous
        /\ UNCHANGED <<previous, role, discovering, server, client, quit>>
    BY <1>8 DEF PressBack
  <2>2. Served' /\ OneServer'
    BY <1>3, <1>4, <2>1 DEF Served, OneServer, Place
  <2>3. screen' \in Screens
    BY <1>3, <2>1 DEF Screens
  <2> QED
    BY <1>1, <1>3, <2>1, <2>2, <2>3, PressKeeps
<1>9. CASE PressLeave
  <2>1. /\ screen = "Discovery" /\ screen' = "RoleSelect"
        /\ discovering' = FALSE /\ server' = {} /\ client' = {}
        /\ UNCHANGED <<previous, role, quit>>
    BY <1>9 DEF PressLeave
  <2>2. Served' /\ OneServer'
    BY <2>1 DEF Served, OneServer, Place
  <2> QED
    BY <1>1, <1>3, <2>1, <2>2, PressKeeps DEF Screens
<1>10. CASE PressConnect \/ PressDrop
  <2>1. /\ UNCHANGED <<navigation, server, quit>> /\ client' \subseteq ClientsShown
        /\ Place # "RoleSelect" \/ client' = {}
    BY <1>10, NewClientTyped DEF PressConnect, PressDrop, ClientsShown, Place
  <2>2. Served' /\ OneServer'
    BY <1>4, <2>1 DEF Served, OneServer, Place, navigation
  <2> QED
    BY <1>1, <1>3, <2>1, <2>2, PressKeeps DEF navigation
<1>11. ASSUME NEW r \in {"Master", "Slave"}, PressRole(r) PROVE AInv'
  <2>1. /\ screen = "RoleSelect" /\ screen' = "Discovery"
        /\ role' = r /\ discovering' = TRUE
        /\ IF r = "Master" THEN \E s \in NewServer : server' = {s} ELSE UNCHANGED server
        /\ UNCHANGED <<previous, client, quit>>
    BY <1>11 DEF PressRole, Discovers
  <2>2. server = {} /\ client = {} /\ ~active
    BY <1>4, <2>1 DEF Place
  <2>3. playback = {} /\ recv = {} /\ capture = {}
    BY <2>2 DEF Torn
  <2>4. server' \subseteq Servers /\ (server' # {} <=> r = "Master") /\ OneServer'
    BY <2>1, <2>2, NewServerTyped DEF Servers, OneServer
  <2>5. Served'
    BY <2>1, <2>4 DEF Served, Place
  <2> QED
    BY <1>1, <1>3, <2>1, <2>3, <2>4, <2>5, PressKeeps DEF Screens
<1> QED
  BY <1>5, <1>6, <1>7, <1>8, <1>9, <1>10, <1>11 DEF Draw

-----------------------------------------------------------------------------
(* The end of main() takes things away and starts nothing.                 *)
LEMMA ExitKeeps == ASSUME AInv, Exit PROVE AInv'
<1> USE DEF AInv
<1>1. /\ UNCHANGED <<screen, previous, role, shell, active, masterAudio, inCallback>>
      /\ at \in Leaving /\ at' \in Leaving
  BY StepNames DEF Exit, ExitStep, ExitAnnouncer, ExitListener, ExitServer, ExitClient,
                   ExitChannel, ExitCapture, Leaving
<1>2. /\ discovering' \in {discovering, FALSE} /\ server' \in {server, {}}
      /\ client' \in {client, {}} /\ sendChannel' \in {sendChannel, FALSE}
      /\ capture' = capture \/ (capture' = {} /\ ~inCallback)
  BY DEF Exit, ExitAnnouncer, ExitListener, ExitServer, ExitClient, ExitChannel, ExitCapture,
         slaveAudio
<1>3. ~Running'
  BY <1>1, RunningMeansNext DEF Loop, Leaving
<1>4. TypeOK'
  <2>1. /\ discovering' \in BOOLEAN /\ server' \subseteq Servers
        /\ client' \subseteq ClientsShown /\ sendChannel' \in BOOLEAN
        /\ capture' \subseteq Formats
    BY <1>2 DEF TypeOK, Servers, ClientsShown
  <2> QED
    BY <1>1, <2>1, StepNames DEF TypeOK, Servers, ClientsShown, shell, masterAudio
<1>5. Served' /\ OneServer'
  BY <1>2, <1>3 DEF Served, OneServer
<1>6. at' \notin {"auto", "tray", "draw"}
  BY <1>1 DEF Leaving
<1>7. Torn' /\ Paired' /\ AudioBelongs' /\ OneSource'
  BY <1>1, <1>2, <1>3, <1>6 DEF Torn, Paired, AudioBelongs, OneSource, masterAudio
<1> QED
  BY <1>4, <1>5, <1>7

LEMMA AppStepKeeps == AInv /\ [Next]_vars => AInv'
<1> SUFFICES ASSUME AInv, [Next]_vars PROVE AInv'
  OBVIOUS
<1>1. CASE UNCHANGED vars
  BY <1>1
  DEF vars, navigation, shell, audio, masterAudio, slaveAudio, AInv, TypeOK, Served, Torn,
      Paired, AudioBelongs, OneSource, OneServer, Place, Running
<1>2. CASE Main
  BY <1>2, EventsKeep, PumpAudioKeeps, PumpAutoConnectKeeps, PumpTrayKeeps, DrawKeeps,
     ExitKeeps
  DEF Main
<1> QED
  BY <1>1, <1>2, CallbackKeeps, SessionsKeep DEF Next

LEMMA AppInductive == Spec => []AInv
BY InitHolds, AppStepKeeps, PTL DEF Spec

-----------------------------------------------------------------------------
(* Every variable of the program keeps its type, for any bound on the      *)
(* generations told apart.                                                 *)
THEOREM AppTyped == Spec => []TypeOK
<1>1. AInv => TypeOK
  BY DEF AInv
<1> QED
  BY <1>1, AppInductive, PTL

(* The Discovery screen and the Arrangement behind it are never shown      *)
(* without the listener, and on a Master without the server, that          *)
(* draw_discovery dereferences untested, whatever screens the user came    *)
(* through and whatever the pumps did in between (ui.cpp:109,254,494-499). *)
THEOREM DiscoveryIsServed == Spec => []DiscoveryServed
<1>1. AInv => DiscoveryServed
  BY DEF AInv, Served, DiscoveryServed, Place
<1> QED
  BY <1>1, AppInductive, PTL

(* Changing the role leaves no audio of the old one behind, and no channel *)
(* outlives the socket of its server into the next server's time, however  *)
(* many servers come and go (audio_pump.cpp:40-49,134-152).                *)
THEOREM AudioHasItsRole == Spec => []AudioBelongs
<1>1. AInv => AudioBelongs
  BY DEF AInv
<1> QED
  BY <1>1, AppInductive, PTL

(* The loss and depth windows never mix the counters of two playback       *)
(* objects, however often playback is rebuilt between two samples          *)
(* (app_state.h:83-86).                                                    *)
THEOREM WindowsHaveOneSource == Spec => []OneSource
<1>1. AInv => OneSource
  BY DEF AInv
<1> QED
  BY <1>1, AppInductive, PTL

(* While the program runs, the capture thread's callback has its channel,  *)
(* wherever in a frame it starts (audio_pump.cpp:158-176,264-269).         *)
THEOREM CallbackIsSafe == Spec => []CallbackSafe
<1>1. AInv => CallbackSafe
  BY DEF AInv, Paired, CallbackSafe
<1> QED
  BY <1>1, AppInductive, PTL

-----------------------------------------------------------------------------
(* pump_auto_connect with the client's own thread, for any number of       *)
(* Masters.                                                                *)
Dialled == [target : Masters, phase : Phases, state : States,
            peer : Masters \cup {Nobody}, goAway : BOOLEAN]

DialTyped == tcpClient \subseteq Dialled /\ listed \subseteq Masters

(* A client that shows Connected shows the Master it was made for: what it *)
(* lifts in a frame is the suppression of no other.                        *)
ShowsTarget == \A c \in tcpClient : c.state = "Connected" => c.peer = c.target

DialInv == DialTyped /\ ShowsTarget /\ LeaveIsFinal

-----------------------------------------------------------------------------
(* The client's thread goes on with the same Master.                       *)

LEMMA BecomesClient ==
  ASSUME NEW c \in Dialled, NEW phase \in Phases, NEW state \in States,
         NEW peer \in Masters \cup {Nobody}, Becomes(c, phase, state, peer)
  PROVE  /\ tcpClient' \subseteq Dialled
         /\ \A d \in tcpClient' : d.target = c.target /\ d.state = state /\ d.peer = peer
BY DEF Becomes, Dialled

LEMMA ThreadKeeps == ASSUME DialInv, NEW c \in tcpClient, ClientThread(c) PROVE DialInv'
<1> USE DEF DialInv
<1>1. c \in Dialled
  BY DEF DialTyped
<1>2. c.target \in Masters /\ c.peer \in Masters \cup {Nobody}
  BY <1>1 DEF Dialled
<1>3. /\ tcpClient' \subseteq Dialled
      /\ \A d \in tcpClient' : /\ d.target = c.target
                               /\ d.state = "Connected" => d.peer = c.target
  <2>1. CASE BeginAttempt(c)
    BY <1>1, <2>1 DEF BeginAttempt, Dialled, Phases, States
  <2>2. CASE FlagsExchanged(c)
    BY <1>1, <1>2, <2>2, BecomesClient DEF FlagsExchanged, Phases, States
  <2>3. CASE MasterApproves(c)
    BY <1>1, <1>2, <2>3, BecomesClient DEF MasterApproves, Phases, States
  <2>4. CASE MasterRejects(c)
    BY <1>1, <1>2, <2>4, BecomesClient DEF MasterRejects, Phases, States
  <2>5. CASE HandshakeDone(c)
    BY <1>1, <1>2, <2>5, BecomesClient DEF HandshakeDone, Phases, States
  <2>6. CASE GoAwayArrives(c)
    BY <1>1, <2>6 DEF GoAwayArrives, Dialled, ShowsTarget
  <2>7. CASE AttemptEnds(c)
    BY <1>1, <1>2, <2>7, BecomesClient DEF AttemptEnds, Phases, States
  <2>8. CASE GivesUp(c)
    BY <1>1, <1>2, <2>8, BecomesClient DEF GivesUp, Phases, States
  <2> QED
    BY <2>1, <2>2, <2>3, <2>4, <2>5, <2>6, <2>7, <2>8 DEF ClientThread
<1>4. UNCHANGED <<suppressed, listed, left>>
  BY DEF ClientThread, BeginAttempt, FlagsExchanged, MasterApproves,
     MasterRejects, HandshakeDone,
         GoAwayArrives, AttemptEnds, GivesUp, ownVars, connectHistory
<1> QED
  BY <1>3, <1>4 DEF DialTyped, ShowsTarget, LeaveIsFinal

(* A new client shows nothing yet.                                         *)
LEMMA NewClientKeeps ==
  ASSUME NEW m \in Masters, tcpClient' = FreshClient(m)
  PROVE  /\ tcpClient' \subseteq Dialled
         /\ \A d \in tcpClient' : d.target = m /\ d.state # "Connected"
BY DEF FreshClient, Dialled, Phases, States

(* A frame lifts no suppression of a Master the user left, and dials none  *)
(* that is suppressed.                                                     *)
LEMMA FrameKeeps == ASSUME DialInv, Frame PROVE DialInv'
<1> USE DEF DialInv
<1>1. left \subseteq SuppressedNow
  <2> SUFFICES ASSUME NEW m \in left PROVE m \in SuppressedNow
    OBVIOUS
  <2>1. \A c \in tcpClient : m \notin Lifted(c)
    BY DEF LeaveIsFinal, ShowsTarget, Lifted
  <2> QED
    BY <2>1 DEF SuppressedNow, LeaveIsFinal
<1>2. listed' = listed /\ left' = left /\ suppressed' = SuppressedNow
  BY DEF Frame, ownVars
<1>3. CASE UNCHANGED tcpClient
  BY <1>1, <1>2, <1>3 DEF DialTyped, ShowsTarget, LeaveIsFinal
<1>4. ASSUME NEW m \in Candidates(SuppressedNow), tcpClient' = FreshClient(m)
      PROVE  DialInv'
  <2>1. m \in Masters /\ m \notin SuppressedNow
    BY <1>4 DEF Candidates, DialTyped
  <2> QED
    BY <1>1, <1>2, <1>4, <2>1, NewClientKeeps DEF DialTyped, ShowsTarget, LeaveIsFinal
<1> QED
  BY <1>3, <1>4 DEF Frame

LEMMA UserKeeps == ASSUME DialInv, User PROVE DialInv'
<1> USE DEF DialInv
<1>1. ASSUME NEW m \in Masters, PressConnectTo(m) PROVE DialInv'
  BY <1>1, NewClientKeeps
  DEF PressConnectTo, ownVars, DialTyped, ShowsTarget, LeaveIsFinal
<1>2. ASSUME NEW m \in Masters, PressForget(m) PROVE DialInv'
  BY <1>2 DEF PressForget, connectHistory, DialTyped, ShowsTarget, LeaveIsFinal
<1>3. ASSUME NEW c \in tcpClient, PressDisconnect(c) PROVE DialInv'
  BY <1>3
  DEF PressDisconnect, Suppressing, ownVars, DialTyped, ShowsTarget,
      LeaveIsFinal
<1>4. CASE ToggleAutoConnect
  BY <1>4 DEF ToggleAutoConnect, connectHistory, DialTyped, ShowsTarget, LeaveIsFinal
<1>5. CASE BackDropsClient
  BY <1>5 DEF BackDropsClient, connectHistory, DialTyped, ShowsTarget, LeaveIsFinal
<1>6. CASE StartDiscovery
  BY <1>6 DEF StartDiscovery, connectHistory, DialTyped, ShowsTarget, LeaveIsFinal
<1> QED
  BY <1>1, <1>2, <1>3, <1>4, <1>5, <1>6 DEF User

LEMMA DialStepKeeps == DialInv /\ [ConnectNext]_connectVars => DialInv'
<1> SUFFICES ASSUME DialInv, [ConnectNext]_connectVars PROVE DialInv'
  OBVIOUS
<1>1. ASSUME NEW m \in Masters, Announced(m) PROVE DialInv'
  BY <1>1 DEF Announced, connectHistory, DialInv, DialTyped, ShowsTarget, LeaveIsFinal
<1>2. CASE UNCHANGED connectVars
  BY <1>2
  DEF connectVars, ownVars, connectHistory, DialInv, DialTyped, ShowsTarget, LeaveIsFinal
<1> QED
  BY <1>1, <1>2, ThreadKeeps, FrameKeeps, UserKeeps DEF ConnectNext

-----------------------------------------------------------------------------
(* Once the user disconnected from a Master, nothing dials it before the   *)
(* user does, for any number of Masters that come, go, reject, send away   *)
(* and are forgotten in any order (auto_connect_pump.cpp:7-43,             *)
(* ui.cpp:326-334).                                                        *)
THEOREM LeavingIsFinal == ConnectSpec => []LeaveIsFinal
<1>1. ConnectInit => DialInv
  BY DEF ConnectInit, DialInv, DialTyped, ShowsTarget, LeaveIsFinal
<1>2. DialInv => LeaveIsFinal
  BY DEF DialInv
<1> QED
  BY <1>1, <1>2, DialStepKeeps, PTL DEF ConnectSpec

-----------------------------------------------------------------------------
(* The queues between the threads of a session and its peer.               *)
(* A queue that is read loses its oldest message, never the latest.        *)
LEMMA ReadOldest ==
  ASSUME NEW S, NEW q \in Seq(S), q # <<>>
  PROVE  /\ Head(q) \in S /\ Tail(q) \in Seq(S)
         /\ Tail(q) # <<>> => Tail(q)[Len(Tail(q))] = q[Len(q)]
         /\ Tail(q) = <<>> => Head(q) = q[Len(q)]
<1>1. /\ Head(q) \in S /\ Tail(q) \in Seq(S) /\ Len(q) \in Nat /\ Len(q) >= 1
      /\ Len(Tail(q)) = Len(q) - 1 /\ Head(q) = q[1]
      /\ \A i \in 1 .. Len(Tail(q)) : Tail(q)[i] = q[i + 1]
  BY HeadTailProperties, EmptySeq
<1>2. ASSUME Tail(q) = <<>> PROVE Head(q) = q[Len(q)]
  <2>1. Len(Tail(q)) = 0
    BY <1>2, EmptySeq
  <2>2. Len(q) = 1
    BY <1>1, <2>1
  <2> QED
    BY <1>1, <2>2
<1>3. ASSUME Tail(q) # <<>> PROVE Tail(q)[Len(Tail(q))] = q[Len(q)]
  <2>1. Len(Tail(q)) \in Nat \ {0}
    BY <1>1, <1>3, EmptySeq
  <2>2. Len(Tail(q)) \in 1 .. Len(Tail(q)) /\ Len(Tail(q)) + 1 = Len(q)
    BY <1>1, <2>1
  <2> QED
    BY <1>1, <2>2
<1>4. Head(q) \in S /\ Tail(q) \in Seq(S)
  BY <1>1
<1> QED
  BY <1>2, <1>3, <1>4, Zenon

LEMMA SendLatest ==
  ASSUME NEW S, NEW q \in Seq(S), NEW e \in S
  PROVE  /\ Append(q, e) \in Seq(S) /\ Append(q, e) # <<>>
         /\ Append(q, e)[Len(Append(q, e))] = e
BY AppendProperties

-----------------------------------------------------------------------------
(* pump_audio's agreement on what a Slave sends: both machines' AppState   *)
(* and the messages between them, for any number of edits and sessions.    *)
SlaveState == [active : BOOLEAN, fmt : AudioFormats \cup {NoFormat}, key : Nat, armed : BOOLEAN,
               desired : AnySettings, applied : Nat, reported : BOOLEAN,
               last : AnySettings]
MasterState == [active : BOOLEAN, play : AudioFormats \cup {NoFormat}, key : Nat,
                fmt : AudioFormats \cup {NoFormat}, desired : AnySettings, over : BOOLEAN,
                sent : BOOLEAN, last : AnySettings]

SoundTyped ==
  /\ session \in Nat /\ mView \in AnySettings
  /\ toSlave \in Seq([t : {"port", "control"}, want : AnySettings])
  /\ toMaster \in Seq([t : {"status"}, want : AnySettings])
  /\ sReq \in [seq : Nat, want : AnySettings]
  /\ master \in MasterState /\ slave \in SlaveState
  /\ mpc \in {"off", "hs", "up", "open"} /\ spc \in {"off", "hs", "up", "open"}

(* The backoff is armed only while the capture device is closed.           *)
Backoff == slave.armed => ~slave.active

(* A request not yet applied has come since the last frame.                *)
Unapplied == spc \in {"up", "open"} /\ NewRequest => pending

(* Once a report got through, what the Master believes is the report the   *)
(* Slave remembers; a thread that is not yet reading has it still to read. *)
Reported ==
  accepted /\ wired => /\ spc = "open" /\ mpc # "off"
                       /\ mpc \in {"hs", "up"} => toMaster # <<>>
                       /\ Believed = slave.last

LinkUp == wired => mpc # "off" /\ spc # "off"

SoundInv == SoundTyped /\ Backoff /\ Unapplied /\ Reported /\ LinkUp

LEMMA SoundInitHolds == ControlInit => SoundInv
<1> SUFFICES ASSUME ControlInit PROVE SoundInv
  OBVIOUS
<1>1. PICK f \in AudioFormats :
        /\ master = [active |-> FALSE, play |-> NoFormat, key |-> 0, fmt |-> f,
                     desired |-> Settings(TRUE, f), over |-> FALSE,
                     sent |-> FALSE, last |-> Settings(TRUE, f)]
        /\ slave = [active |-> FALSE, fmt |-> f, key |-> 0, armed |-> FALSE,
                    desired |-> Settings(TRUE, f), applied |-> 0,
                    reported |-> FALSE, last |-> Settings(TRUE, f)]
  BY DEF ControlInit
<1>2. Settings(TRUE, f) \in AnySettings /\ Unreported \in AnySettings
  BY DEF Settings, AnySettings, Unreported
<1>3. slave \in SlaveState /\ master \in MasterState
  BY <1>1, <1>2 DEF SlaveState, MasterState
<1>4. SoundTyped
  BY <1>2, <1>3 DEF ControlInit, SoundTyped
<1>5. Backoff /\ Unapplied /\ Reported /\ LinkUp
  BY <1>1 DEF ControlInit, Backoff, Unapplied, Reported, LinkUp
<1> QED
  BY <1>4, <1>5 DEF SoundInv

-----------------------------------------------------------------------------
(* The sessions: a new status knows nothing, a thread that reads moves the *)
(* oldest message to what its side believes.                               *)
LEMMA SoundThreadsKeep ==
  ASSUME SoundInv, Handshake \/ LinkDrops \/ Threads
  PROVE  SoundInv'
<1> USE DEF SoundInv
<1>0. /\ Unreported \in AnySettings
      /\ slave \in SlaveState /\ UNCHANGED <<slave, master>>
  BY DEF Unreported, Settings, AnySettings, SoundTyped, Handshake,
         LinkDrops, Threads, MasterUp, SlaveUp, MasterOpen,
         SlaveOpen, MasterReads, SlaveReads, MasterDown,
         SlaveDown
<1>1. CASE Handshake
  <2> USE <1>1 DEF Handshake, status
  <2>1. SoundTyped'
    BY <1>0 DEF SoundTyped
  <2>2. Backoff' /\ Unapplied' /\ Reported' /\ LinkUp'
    BY <1>0 DEF Backoff, Unapplied, Reported, LinkUp
  <2> QED
    BY <2>1, <2>2
<1>2. CASE LinkDrops
  <2> USE <1>2 DEF LinkDrops, status, history
  <2>1. SoundTyped'
    BY <1>0 DEF SoundTyped
  <2>2. Backoff' /\ Unapplied' /\ Reported' /\ LinkUp'
    BY <1>0 DEF Backoff, Unapplied, Reported, LinkUp, NewRequest
  <2> QED
    BY <2>1, <2>2
<1>3. CASE MasterUp
  <2> USE <1>3 DEF MasterUp, connection, history
  <2>1. SoundTyped'
    BY <1>0 DEF SoundTyped
  <2>2. accepted /\ wired => toMaster # <<>>
    BY DEF Reported
  <2>3. Backoff' /\ Unapplied' /\ LinkUp'
    BY <1>0 DEF Backoff, Unapplied, LinkUp, NewRequest
  <2>4. Reported'
    BY <1>0, <2>2 DEF Reported, Believed
  <2> QED
    BY <2>1, <2>3, <2>4
<1>4. CASE SlaveUp
  <2> USE <1>4 DEF SlaveUp, connection, history
  <2>1. SoundTyped'
    BY <1>0 DEF SoundTyped
  <2>2. ~(accepted /\ wired)
    BY DEF Reported
  <2>3. Backoff' /\ Unapplied' /\ LinkUp' /\ Reported'
    BY <1>0, <2>2 DEF Backoff, Unapplied, LinkUp, NewRequest, Reported
  <2> QED
    BY <2>1, <2>3
<1>5. CASE MasterOpen
  <2> USE <1>5 DEF MasterOpen, connection, status, history
  <2>1. [t |-> "port", want |-> Unreported]
          \in [t : {"port", "control"}, want : AnySettings]
    BY <1>0
  <2>2. SoundTyped'
    <3>1. toSlave' \in Seq([t : {"port", "control"}, want : AnySettings])
      BY <2>1, SendLatest DEF SoundTyped
    <3> QED
      BY <1>0, <3>1 DEF SoundTyped
  <2>3. Backoff' /\ Unapplied' /\ LinkUp' /\ Reported'
    BY <1>0 DEF Backoff, Unapplied, LinkUp, NewRequest, Reported, Believed
  <2> QED
    BY <2>2, <2>3
<1>6. CASE SlaveOpen
  <2> USE <1>6 DEF SlaveOpen, connection, status, history
  <2>1. SoundTyped'
    BY <1>0 DEF SoundTyped
  <2>2. ~(accepted /\ wired)
    BY DEF Reported
  <2>3. Backoff' /\ Unapplied' /\ LinkUp' /\ Reported'
    BY <1>0, <2>2 DEF Backoff, Unapplied, LinkUp, NewRequest, Reported
  <2> QED
    BY <2>1, <2>3
<1>7. CASE MasterReads
  <2> USE <1>7 DEF MasterReads, connection, history
  <2>1. /\ Head(toMaster) \in [t : {"status"}, want : AnySettings]
        /\ Tail(toMaster) \in Seq([t : {"status"}, want : AnySettings])
        /\ Tail(toMaster) # <<>>
             => Tail(toMaster)[Len(Tail(toMaster))] = toMaster[Len(toMaster)]
        /\ Tail(toMaster) = <<>> => Head(toMaster) = toMaster[Len(toMaster)]
    BY ReadOldest DEF SoundTyped
  <2>2. SoundTyped'
    BY <1>0, <2>1 DEF SoundTyped
  <2>3. Believed' = Believed
    BY <2>1 DEF Believed
  <2>4. Backoff' /\ Unapplied' /\ LinkUp' /\ Reported'
    BY <1>0, <2>3 DEF Backoff, Unapplied, LinkUp, NewRequest, Reported
  <2> QED
    BY <2>2, <2>4
<1>8. CASE SlaveReads
  <2> USE <1>8 DEF SlaveReads, connection
  <2>1. /\ Head(toSlave) \in [t : {"port", "control"}, want : AnySettings]
        /\ Tail(toSlave) \in Seq([t : {"port", "control"}, want : AnySettings])
    BY ReadOldest DEF SoundTyped
  <2>2. sReq' \in [seq : Nat, want : AnySettings]
    BY <2>1 DEF SoundTyped
  <2>3. SoundTyped'
    BY <1>0, <2>1, <2>2 DEF SoundTyped
  <2>4. Backoff' /\ Unapplied' /\ LinkUp' /\ Reported'
    BY <1>0 DEF Backoff, Unapplied, LinkUp, NewRequest, Reported, Believed
  <2> QED
    BY <2>3, <2>4
<1>9. CASE MasterDown
  <2> USE <1>9 DEF MasterDown, connection, history
  <2>1. <<>> \in Seq([t : {"status"}, want : AnySettings])
    OBVIOUS
  <2>2. SoundTyped'
    BY <1>0, <2>1 DEF SoundTyped
  <2>3. Backoff' /\ Unapplied' /\ Reported' /\ LinkUp'
    BY <1>0 DEF Backoff, Unapplied, Reported, LinkUp, NewRequest
  <2> QED
    BY <2>2, <2>3
<1>10. CASE SlaveDown
  <2> USE <1>10 DEF SlaveDown, connection, status
  <2>1. <<>> \in Seq([t : {"port", "control"}, want : AnySettings])
    OBVIOUS
  <2>2. SoundTyped'
    BY <1>0, <2>1 DEF SoundTyped
  <2>3. Backoff' /\ Unapplied' /\ Reported' /\ LinkUp'
    BY <1>0 DEF Backoff, Unapplied, Reported, LinkUp
  <2> QED
    BY <2>2, <2>3
<1> QED
  BY <1>1, <1>2, <1>3, <1>4, <1>5, <1>6, <1>7, <1>8, <1>9, <1>10 DEF Threads

-----------------------------------------------------------------------------
(* The frames.                                                             *)
LEMMA SoundMasterFrameKeeps == ASSUME SoundInv, MasterFrame PROVE SoundInv'
<1> USE DEF SoundInv
<1>1. /\ UNCHANGED <<session, wired, mpc, spc, toMaster, mView, sPort, sReq, slave>>
      /\ UNCHANGED <<edits, pending, accepted, asked>>
  BY DEF MasterFrame, connection, status, history
<1>2. mView \in AnySettings /\ master \in MasterState
      /\ MasterWants \in AnySettings
      /\ mView.fmt \in AudioFormats \cup {NoFormat}
  BY DEF SoundTyped, MasterState, MasterWants, AnySettings
<1>3. ASSUME NEW m \in MasterState, NEW fmt \in AudioFormats \cup {NoFormat}
      PROVE  /\ Silenced(m) \in MasterState /\ Pushed(m) \in MasterState
             /\ Playing(m, fmt) \in MasterState
  BY <1>2 DEF Silenced, Pushed, Playing, MasterState, SoundTyped
<1>4. master' \in MasterState
  <2>1. CASE MasterFrameIdle
    BY <1>2, <1>3, <2>1 DEF MasterFrameIdle, MasterState
  <2>2. CASE MasterFrameConnected
    BY <1>2, <1>3, <2>2 DEF MasterFrameConnected
  <2> QED
    BY <2>1, <2>2 DEF MasterFrame
<1>5. toSlave' \in Seq([t : {"port", "control"}, want : AnySettings])
  <2>1. [t |-> "control", want |-> MasterWants]
          \in [t : {"port", "control"}, want : AnySettings]
    BY <1>2
  <2>2. \/ toSlave' = toSlave
        \/ toSlave' = Append(toSlave, [t |-> "control", want |-> MasterWants])
    BY DEF MasterFrame, MasterFrameIdle, MasterFrameConnected
  <2>3. Append(toSlave, [t |-> "control", want |-> MasterWants])
          \in Seq([t : {"port", "control"}, want : AnySettings])
    BY <2>1, SendLatest DEF SoundTyped
  <2> QED
    BY <2>2, <2>3 DEF SoundTyped
<1>6. SoundTyped'
  BY <1>1, <1>4, <1>5 DEF SoundTyped
<1>7. Backoff' /\ Unapplied' /\ Reported' /\ LinkUp'
  BY <1>1 DEF Backoff, Unapplied, Reported, LinkUp, NewRequest, Believed
<1> QED
  BY <1>6, <1>7

(* What a frame of a connected Slave leaves in its own state.              *)
LEMMA SoundSlaveFrameDoes ==
  ASSUME SoundInv, SlaveFrameConnected
  PROVE  /\ slave' \in SlaveState
         /\ slave'.desired = SlaveWants
         /\ slave'.applied = IF NewRequest THEN sReq.seq ELSE slave.applied
         /\ slave'.last = IF Reports THEN SlaveWants ELSE slave.last
         /\ slave'.armed => ~slave'.active
         /\ slave'.active => slave'.desired.on /\ slave'.fmt = slave'.desired.fmt
<1> USE DEF SoundInv
<1>1. slave \in SlaveState /\ SlaveWants \in AnySettings
      /\ sReq.seq \in Nat /\ session \in Nat /\ slave.applied \in Nat
      /\ SlaveWants.fmt \in AudioFormats \cup {NoFormat}
  BY DEF SoundTyped, SlaveState, SlaveWants, AnySettings
<1>2. /\ Told \in SlaveState
      /\ Told.desired = SlaveWants
      /\ Told.applied = IF NewRequest THEN sReq.seq ELSE slave.applied
      /\ Told.last = IF Reports THEN SlaveWants ELSE slave.last
      /\ Told.armed = slave.armed /\ Told.active = slave.active
      /\ Told.fmt = slave.fmt
  BY <1>1 DEF Told, SlaveState
<1> DEFINE heeded == Told
<1> HIDE DEF heeded
<1>3. heeded \in SlaveState /\ heeded.desired.fmt \in AudioFormats \cup {NoFormat}
  BY <1>1, <1>2 DEF heeded
<1>4. \/ /\ slave' = heeded /\ slave.active
         /\ SlaveWants.on /\ slave.fmt = SlaveWants.fmt
      \/ slave' = heeded /\ slave.armed
      \/ slave' = Started(heeded) /\ SlaveWants.on
      \/ \E b \in BOOLEAN : slave' = [Muted(heeded) EXCEPT !.armed = b]
  BY DEF SlaveFrameConnected, heeded
<1>5. ASSUME slave' = heeded,
             slave.armed \/ (SlaveWants.on /\ slave.fmt = SlaveWants.fmt)
      PROVE  /\ slave'.armed => ~slave'.active
             /\ slave'.active => slave'.desired.on /\ slave'.fmt = slave'.desired.fmt
  <2>1. heeded.armed => ~heeded.active
    BY <1>2 DEF heeded, Backoff
  <2>2. heeded.active => heeded.desired.on /\ heeded.fmt = heeded.desired.fmt
    BY <1>2, <1>5 DEF heeded, Backoff
  <2> QED
    BY <1>5, <2>1, <2>2
<1>6. CASE /\ slave' = heeded
           /\ slave.armed \/ (SlaveWants.on /\ slave.fmt = SlaveWants.fmt)
  BY <1>2, <1>3, <1>5, <1>6 DEF heeded
<1>7. CASE slave' = Started(heeded) /\ SlaveWants.on
  <2>1. /\ Started(heeded) \in SlaveState
        /\ Started(heeded).desired = heeded.desired
        /\ Started(heeded).applied = heeded.applied /\ Started(heeded).last = heeded.last
        /\ ~Started(heeded).armed /\ Started(heeded).fmt = heeded.desired.fmt
    BY <1>1, <1>3 DEF Started, SlaveState
  <2> QED
    BY <1>2, <1>7, <2>1 DEF heeded
<1>8. ASSUME NEW b \in BOOLEAN, slave' = [Muted(heeded) EXCEPT !.armed = b]
      PROVE  /\ slave' \in SlaveState /\ slave'.desired = heeded.desired
             /\ slave'.applied = heeded.applied /\ slave'.last = heeded.last
             /\ ~slave'.active
  BY <1>3, <1>8 DEF Muted, SlaveState
<1>9. CASE \E b \in BOOLEAN : slave' = [Muted(heeded) EXCEPT !.armed = b]
  BY <1>2, <1>8, <1>9 DEF heeded
<1> QED
  BY <1>4, <1>6, <1>7, <1>9

LEMMA SoundSlaveFrameKeeps == ASSUME SoundInv, SlaveFrame PROVE SoundInv'
<1> USE DEF SoundInv
<1>1. /\ UNCHANGED <<session, wired, mpc, spc, toSlave, mView, sPort, sReq, master>>
      /\ pending' = FALSE
  BY DEF SlaveFrame, connection, status
<1>2. CASE SlaveFrameIdle
  <2>1. /\ UNCHANGED <<toMaster, accepted>> /\ spc \in {"off", "hs"}
        /\ slave' = [Muted(slave) EXCEPT !.reported = FALSE, !.armed = FALSE]
    BY <1>2 DEF SlaveFrameIdle
  <2>2. slave' \in SlaveState /\ ~slave'.armed
    BY <2>1 DEF SoundTyped, SlaveState, Muted
  <2>3. SoundTyped'
    BY <1>1, <2>1, <2>2 DEF SoundTyped
  <2>4. Backoff' /\ Unapplied' /\ LinkUp' /\ Reported'
    BY <1>1, <2>1, <2>2 DEF Backoff, Unapplied, LinkUp, Reported
  <2> QED
    BY <2>3, <2>4
<1>3. CASE SlaveFrameConnected
  <2> DEFINE report == [t |-> "status", want |-> SlaveWants]
             heard == Reports /\ spc = "open" /\ wired
  <2>1. /\ toMaster' = IF heard THEN Append(toMaster, report) ELSE toMaster
        /\ accepted' = (accepted \/ heard)
    BY <1>3 DEF SlaveFrameConnected
  <2>2. report \in [t : {"status"}, want : AnySettings] /\ report.want = SlaveWants
    BY DEF SoundTyped, SlaveState, SlaveWants
  <2>3. /\ Append(toMaster, report) \in Seq([t : {"status"}, want : AnySettings])
        /\ Append(toMaster, report) # <<>>
        /\ Append(toMaster, report)[Len(Append(toMaster, report))] = report
    BY <2>2, SendLatest DEF SoundTyped
  <2> HIDE DEF report
  <2>4. SoundTyped'
    BY <1>1, <1>3, <2>1, <2>3, SoundSlaveFrameDoes DEF SoundTyped
  <2>5. Backoff' /\ LinkUp'
    BY <1>1, <1>3, SoundSlaveFrameDoes DEF Backoff, LinkUp
  <2>6. Unapplied'
    BY <1>1, <1>3, SoundSlaveFrameDoes DEF Unapplied, NewRequest
  <2>7. CASE heard
    <3>1. wired => spc = "open" /\ mpc # "off"
      BY <2>7 DEF LinkUp
    <3>2. toMaster' # <<>> /\ Believed' = slave'.last
      BY <1>3, <2>1, <2>2, <2>3, <2>7, SoundSlaveFrameDoes DEF Believed
    <3> QED
      BY <1>1, <2>4, <2>5, <2>6, <3>1, <3>2 DEF Reported
  <2>8. CASE ~heard
    <3>1. (accepted' => accepted) /\ toMaster' = toMaster
      BY <2>1, <2>8
    <3>2. accepted /\ wired => slave'.last = slave.last
      BY <1>3, <2>8, SoundSlaveFrameDoes DEF Reported
    <3>3. Reported'
      BY <1>1, <3>1, <3>2 DEF Reported, Believed
    <3> QED
      BY <2>4, <2>5, <2>6, <3>3
  <2> QED
    BY <2>7, <2>8
<1> QED
  BY <1>2, <1>3 DEF SlaveFrame

(* The audio tabs and the backoff change no settings already told.         *)
LEMMA SoundUserKeeps ==
  ASSUME SoundInv, RetryDue \/ SlaveEdit \/ MasterEdit
  PROVE  SoundInv'
<1> USE DEF SoundInv
<1>1. UNCHANGED <<session, wired, mpc, spc, toSlave, toMaster, mView, sPort, sReq, pending,
                  accepted>>
  BY DEF RetryDue, SlaveEdit, MasterEdit, connection, status,
     history
<1>2. ASSUME NEW old \in AnySettings, NEW d \in OneChange(old)
      PROVE  d \in AnySettings
  BY DEF OneChange, AnySettings
<1>3. /\ slave' \in SlaveState /\ slave'.last = slave.last /\ slave'.applied = slave.applied
      /\ slave'.armed => ~slave'.active
  <2>1. CASE RetryDue
    BY <2>1 DEF RetryDue, SoundTyped, SlaveState
  <2>2. CASE SlaveEdit
    <3>1. PICK d \in OneChange(slave.desired) : slave' = [slave EXCEPT !.desired = d]
      BY <2>2 DEF SlaveEdit
    <3>2. d \in AnySettings
      BY <1>2, <3>1 DEF SoundTyped, SlaveState
    <3> QED
      BY <3>1, <3>2 DEF SoundTyped, SlaveState, Backoff
  <2>3. CASE MasterEdit
    BY <2>3 DEF MasterEdit, SoundTyped, Backoff
  <2> QED
    BY <2>1, <2>2, <2>3
<1>4. master' \in MasterState
  <2>1. CASE MasterEdit
    <3>1. PICK d \in OneChange(master.desired) :
            master' = [master EXCEPT !.desired = d, !.over = TRUE]
      BY <2>1 DEF MasterEdit
    <3>2. d \in AnySettings
      BY <1>2, <3>1 DEF SoundTyped, MasterState
    <3> QED
      BY <3>1, <3>2 DEF SoundTyped, MasterState
  <2>2. CASE RetryDue \/ SlaveEdit
    BY <2>2 DEF RetryDue, SlaveEdit, SoundTyped
  <2> QED
    BY <2>1, <2>2
<1>5. SoundTyped'
  BY <1>1, <1>3, <1>4 DEF SoundTyped
<1>6. Backoff' /\ Unapplied' /\ Reported' /\ LinkUp'
  BY <1>1, <1>3 DEF Backoff, Unapplied, Reported, LinkUp, NewRequest, Believed
<1> QED
  BY <1>5, <1>6

LEMMA SoundStepKeeps == SoundInv /\ [ControlNext]_controlVars => SoundInv'
<1>1. ASSUME SoundInv, UNCHANGED controlVars PROVE SoundInv'
  BY <1>1
  DEF controlVars, connection, status, history, SoundInv, SoundTyped, Backoff,
      Unapplied, Reported, LinkUp, NewRequest, Believed
<1> QED
  BY <1>1, SoundThreadsKeep, SoundMasterFrameKeeps, SoundSlaveFrameKeeps, SoundUserKeeps
  DEF ControlNext

LEMMA SoundInductive == ControlSpec => []SoundInv
BY SoundInitHolds, SoundStepKeeps, PTL DEF ControlSpec

-----------------------------------------------------------------------------
(* No frame of the Slave leaves the capture device running in a format, or *)
(* at all, when its settings say otherwise: whatever requests arrive while *)
(* the backoff holds a restart back (audio_pump.cpp:236-270).              *)
THEOREM CaptureStaysCurrent == ControlSpec => CaptureFollows
<1>1. SoundInv /\ [ControlNext]_controlVars
        => [SlaveFrame /\ slave'.active
              => slave'.desired.on /\ slave'.fmt = slave'.desired.fmt]_controlVars
  <2> SUFFICES ASSUME SoundInv, SlaveFrame, slave'.active
               PROVE  slave'.desired.on /\ slave'.fmt = slave'.desired.fmt
    OBVIOUS
  <2>1. ~SlaveFrameIdle
    BY DEF SlaveFrameIdle, Muted, SoundInv, SoundTyped, SlaveState
  <2> QED
    BY <2>1, SoundSlaveFrameDoes DEF SlaveFrame
<1> QED
  BY <1>1, SoundInductive, PTL DEF CaptureFollows, ControlSpec

(* A request is applied in the first frame after it came and never again:  *)
(* what the Slave's user chose afterwards, or in any later session, stays  *)
(* (connection_types.h:34-37, audio_pump.cpp:196-204).                     *)
THEOREM LocalEditsStick == ControlSpec => EditsStick
<1>1. SoundInv /\ [ControlNext]_controlVars
        => [SlaveFrame /\ slave'.desired # slave.desired => pending]_controlVars
  <2> SUFFICES ASSUME SoundInv, SlaveFrame, slave'.desired # slave.desired
               PROVE  pending
    OBVIOUS
  <2>1. CASE SlaveFrameIdle
    BY <2>1 DEF SlaveFrameIdle, Muted, SoundInv, SoundTyped, SlaveState
  <2>2. CASE SlaveFrameConnected
    <3>1. NewRequest
      BY <2>2, SoundSlaveFrameDoes DEF SlaveWants
    <3> QED
      BY <2>2, <3>1 DEF SoundInv, Unapplied, SlaveFrameConnected
  <2> QED
    BY <2>1, <2>2 DEF SlaveFrame
<1> QED
  BY <1>1, SoundInductive, PTL DEF EditsStick, ControlSpec

(* Once one report got through, none that matters is ever held back: in    *)
(* each later frame what the Master will have read is what the Slave does, *)
(* whoever made the change (audio_pump.cpp:213-226).                       *)
THEOREM ReportsGetThrough == ControlSpec => ReportsArrive
<1>1. SoundInv /\ [ControlNext]_controlVars /\ SoundInv'
        => [SlaveFrame /\ accepted' /\ wired /\ spc = "open" /\ mpc # "off"
              => /\ Believed'.on = slave'.desired.on
                 /\ slave'.desired.on => Believed'.fmt = slave'.desired.fmt]_controlVars
  <2> SUFFICES ASSUME SoundInv, SoundInv', SlaveFrame, accepted', wired, spc = "open"
               PROVE  /\ Believed'.on = slave'.desired.on
                      /\ slave'.desired.on => Believed'.fmt = slave'.desired.fmt
    OBVIOUS
  <2>1. SlaveFrameConnected /\ wired' = wired
    BY DEF SlaveFrame, SlaveFrameIdle, connection
  <2>2. Believed' = slave'.last
    BY <2>1 DEF SoundInv, Reported
  <2>3. CASE Reports
    BY <2>1, <2>2, <2>3, SoundSlaveFrameDoes
  <2>4. CASE ~Reports
    <3>1. ~Differs(SlaveWants, slave.last)
      BY <2>4 DEF Reports
    <3>2. slave'.desired = SlaveWants /\ slave'.last = slave.last
      BY <2>1, <2>4, SoundSlaveFrameDoes
    <3> QED
      BY <2>2, <3>1, <3>2 DEF Differs
  <2> QED
    BY <2>3, <2>4
<1> QED
  BY <1>1, SoundInductive, PTL DEF ReportsArrive, ControlSpec

-----------------------------------------------------------------------------
(* pump_clipboard of both main loops over either kind of system, for any   *)
(* number of texts, images, sessions, copies and requests that time out.   *)
Both == {"master", "slave"}
Contents == [kind : {"text", "image"}, id : Texts \cup Images, gen : Nat]
Messages == Contents \ {None}
Replies == [form : {"utf8", "latin1", "png"}, id : Texts \cup Images]

ClipTyped ==
  /\ os \in [Both -> {"windows", "x11"}]
  /\ clip \in [Both -> Contents \cup {None}] /\ wire \in [Both -> Contents \cup {None}]
  /\ slot \in [Both -> Contents \cup {None}] /\ applied \in [Both -> Contents \cup {None}]
  /\ got \in [Both -> Contents \cup {None}]
  /\ own \in [Both -> BOOLEAN] /\ missed \in [Both -> BOOLEAN]
  /\ clipLink \in [Both -> {"down", "opening", "open"}]
  /\ pc \in [Both -> {"idle", "own", "read"}]
  /\ from \in [Both -> Nat] /\ sess \in Nat
  /\ late \in [Both -> Seq(Replies \cup {None})]
  /\ net \in [Both -> Seq(Messages)]

(* A message that waits in the slot is the last one received, and one that *)
(* no longer waits has been applied.                                       *)
Newest(m) ==
  /\ clipLink[m] = "opening" => got[m] = None
  /\ slot[m] # None /\ got[m] # None => slot[m] = got[m]
  /\ clipLink[m] = "open" /\ slot[m] = None /\ got[m] # None => applied[m] = got[m]

(* The content of this session that stands on a clipboard is what the pump *)
(* remembers it applied: as it was offered on X11, as Windows made it.     *)
Offering(m) == pc[m] = "own" => os[m] = "x11" /\ wire[m] = applied[m]
Owning(m) ==
  os[m] = "x11" /\ from[m] = sess /\ clipLink[m] # "down" => own[m] /\ wire[m] = applied[m]
Written(m) ==
  os[m] = "windows" /\ from[m] = sess /\ clipLink[m] # "down" /\ ~missed[m]
    => applied[m] \in Contents /\ clip[m] = ThroughWindows(applied[m])

Numbered(m) == from[m] <= sess /\ (clipLink[m] # "down" => sess >= 1)

InStep(m) == Newest(m) /\ Offering(m) /\ Owning(m) /\ Written(m) /\ Numbered(m)

ClipInv == ClipTyped /\ \A m \in Both : InStep(m)

-----------------------------------------------------------------------------
(* The conversions.                                                        *)
LEMMA WindowsKeepsContents ==
  ASSUME MaxGen \in Nat, NEW c \in Contents
  PROVE  /\ ThroughWindows(c) \in Contents
         /\ \/ ThroughWindows(c) = c
            \/ ThroughWindows(c).kind = "image"
            \/ ThroughWindows(c).gen = WrongText
BY DEF Contents, ThroughWindows, Reencoded, IllFormed, WrongText

LEMMA AnswerTyped ==
  ASSUME NEW c \in Contents \cup {None}, NEW target \in {"utf8", "string", "png"}
  PROVE  Answer(c, target) \in Replies \cup {None}
BY DEF Answer, Form, Contents, Replies

LEMMA UnderstoodTyped ==
  ASSUME NEW reply \in Replies, NEW target \in {"utf8", "string", "png"}
  PROVE  Understood(reply, target) \in Contents \cup {None}
BY DEF Understood, Form, AsCopied, IllFormed, WrongText, Contents,
   Replies

(* Whatever reply is taken for whatever answer, what is read is a content. *)
Readings == [queue : Seq(Replies \cup {None}), done : BOOLEAN, content : Contents \cup {None}]

LEMMA AskTyped ==
  ASSUME NEW reading \in Readings, NEW target \in {"utf8", "string", "png"}, NEW how,
         NEW c \in Contents \cup {None}
  PROVE  Ask(reading, target, how, c) \in Readings
<1> DEFINE answer == Answer(c, target)
           waiting == IF how = "never" THEN reading.queue ELSE Append(reading.queue, answer)
<1>1. answer \in Replies \cup {None}
  BY AnswerTyped
<1>2. reading.queue \in Seq(Replies \cup {None})
  BY DEF Readings
<1>3. waiting \in Seq(Replies \cup {None})
  BY <1>1, <1>2, SendLatest
<1>4. CASE reading.done
  BY <1>4 DEF Ask
<1>5. CASE ~reading.done /\ how # "in time"
  BY <1>3, <1>5 DEF Ask, Readings
<1>6. CASE ~reading.done /\ how = "in time"
  <2>1. waiting # <<>>
    BY <1>1, <1>2, <1>6, SendLatest
  <2>2. Head(waiting) \in Replies \cup {None} /\ Tail(waiting) \in Seq(Replies \cup {None})
    BY <1>3, <2>1, ReadOldest
  <2>3. Head(waiting) # None => Understood(Head(waiting), target) \in Contents \cup {None}
    BY <2>2, UnderstoodTyped
  <2>4. Ask(reading, target, how, c)
          = [queue   |-> Tail(waiting), done |-> Head(waiting) # None,
             content |-> IF Head(waiting) = None THEN None
                         ELSE Understood(Head(waiting), target)]
    BY <1>6 DEF Ask
  <2> HIDE DEF waiting
  <2> QED
    BY <2>2, <2>3, <2>4 DEF Readings
<1> QED
  BY <1>4, <1>5, <1>6

LEMMA ReadingTyped ==
  ASSUME NEW queue \in Seq(Replies \cup {None}), NEW hows, NEW c \in Contents \cup {None}
  PROVE  Reading(queue, hows, c) \in Readings
<1> DEFINE start == [queue |-> queue, done |-> FALSE, content |-> None]
           first == Ask(start, "utf8", hows["utf8"], c)
           second == Ask(first, "string", hows["string"], c)
           third == Ask(second, "png", hows["png"], c)
<1>1. start \in Readings
  BY DEF Readings
<1> HIDE DEF start
<1>2. first \in Readings
  BY <1>1, AskTyped
<1> HIDE DEF first
<1>3. second \in Readings
  BY <1>2, AskTyped
<1> HIDE DEF second
<1>4. third \in Readings
  BY <1>3, AskTyped
<1>5. Reading(queue, hows, c) = third
  BY DEF Reading, start, first, second
<1> QED
  BY <1>4, <1>5

-----------------------------------------------------------------------------
(* A poll that sends adds what it read to the peer's queue, and only that; *)
(* it never sends what was applied.                                        *)
Grown(q) == Len(net'[q]) > Len(net[q])

LEMMA PeerIsOther ==
  ASSUME NEW m \in Both
  PROVE  Peer(m) \in Both /\ Peer(m) # m /\ Peer(Peer(m)) = m
BY DEF Peer, Both

LEMMA SendGrows ==
  ASSUME ClipTyped, NEW m \in Both, NEW c \in Messages, Send(m, c)
  PROVE  /\ net' \in [Both -> Seq(Messages)]
         /\ \A q \in Both : Grown(q) => /\ q = Peer(m) /\ clipLink[m] = "open"
                                        /\ net'[q][Len(net'[q])] = c
<1> DEFINE p == Peer(m)
<1>1. p \in Both
  BY PeerIsOther
<1>2. net \in [Both -> Seq(Messages)] /\ net[p] \in Seq(Messages)
  BY <1>1 DEF ClipTyped
<1>3. /\ Append(net[p], c) \in Seq(Messages)
      /\ Append(net[p], c)[Len(Append(net[p], c))] = c
  BY <1>2, SendLatest
<1>4. CASE net' = net
  BY <1>2, <1>4 DEF Grown
<1>5. CASE clipLink[m] = "open" /\ net' = [net EXCEPT ![p] = Append(@, c)]
  <2>1. net'[p] = Append(net[p], c) /\ \A q \in Both \ {p} : net'[q] = net[q]
    BY <1>1, <1>2, <1>5
  <2>2. net' \in [Both -> Seq(Messages)]
    BY <1>1, <1>2, <1>3, <1>5
  <2> QED
    BY <1>2, <1>3, <1>5, <2>1, <2>2 DEF Grown
<1> QED
  BY <1>4, <1>5 DEF Send

LEMMA DigestDoes ==
  ASSUME ClipTyped, NEW m \in Both, NEW c \in Contents \cup {None}, Digest(m, c)
  PROVE  /\ net' \in [Both -> Seq(Messages)] /\ pc' = [pc EXCEPT ![m] = "idle"]
         /\ UNCHANGED <<os, clip, changed, own, wire, from, clipLink, slot, applied, missed, got,
                        sess, copies>>
         /\ \A q \in Both : Grown(q) => /\ q = Peer(m) /\ clipLink[m] = "open"
                                        /\ c # None /\ c # applied[m]
                                        /\ net'[q][Len(net'[q])] = c
<1>1. CASE UNCHANGED net
  BY <1>1 DEF Digest, ClipTyped, Grown
<1>2. CASE c \notin {None, seen[m], applied[m]} /\ Send(m, c)
  <2>1. c \in Messages
    BY <1>2 DEF Messages
  <2> QED
    BY <1>2, <2>1, SendGrows DEF Digest
<1> QED
  BY <1>1, <1>2 DEF Digest

(* What a look at the clipboard reads.                                     *)
Looks(m) == \/ \E ok \in BOOLEAN : ReadWindows(m, ok)
            \/ ReadOwn(m)
            \/ \E hows \in [DOMAIN Form -> {"in time", "late", "never"}] :
                 ReadOther(m, hows)

LEMMA LooksDoes ==
  ASSUME ClipTyped, NEW m \in Both, Looks(m)
  PROVE  /\ late' \in [Both -> Seq(Replies \cup {None})]
         /\ \E c \in Contents \cup {None} :
              /\ Digest(m, c)
              /\ \/ os[m] = "windows" /\ c \in {clip[m], None}
                 \/ os[m] = "x11" /\ own[m] /\ c \in {wire[m], None}
                 \/ os[m] = "x11" /\ ~own[m]
<1>1. late \in [Both -> Seq(Replies \cup {None})] /\ clip[m] \in Contents \cup {None}
      /\ wire[m] \in Contents \cup {None}
  BY DEF ClipTyped
<1>2. ASSUME NEW ok \in BOOLEAN, ReadWindows(m, ok)
      PROVE  /\ late' = late /\ os[m] = "windows"
             /\ \E c \in {clip[m], None} : Digest(m, c)
  BY <1>2 DEF ReadWindows, Windows
<1>3. CASE ReadOwn(m)
  <2>1. /\ late' = late /\ os[m] = "x11" /\ own[m]
        /\ \E c \in {wire[m], None} : Digest(m, c)
    BY <1>3 DEF ReadOwn, X11
  <2> QED
    BY <1>1, <2>1
<1>4. ASSUME NEW hows, ReadOther(m, hows)
      PROVE  /\ late' \in [Both -> Seq(Replies \cup {None})]
             /\ os[m] = "x11" /\ ~own[m]
             /\ \E c \in Contents \cup {None} : Digest(m, c)
  <2> DEFINE reading == Reading(late[m], hows, clip[m])
  <2>1. reading \in Readings
    BY <1>1, ReadingTyped
  <2>2. /\ late' = [late EXCEPT ![m] = reading.queue] /\ Digest(m, reading.content)
        /\ os[m] = "x11" /\ ~own[m]
    BY <1>4 DEF ReadOther, X11
  <2> HIDE DEF reading
  <2>3. reading.queue \in Seq(Replies \cup {None}) /\ reading.content \in Contents \cup {None}
    BY <2>1 DEF Readings
  <2> QED
    BY <1>1, <2>2, <2>3
<1> QED
  BY <1>1, <1>2, <1>3, <1>4 DEF Looks

-----------------------------------------------------------------------------
(* A step of one machine leaves the other in step.                         *)
Same(q) ==
  /\ clip'[q] = clip[q] /\ wire'[q] = wire[q] /\ slot'[q] = slot[q] /\ applied'[q] = applied[q]
  /\ got'[q] = got[q] /\ own'[q] = own[q] /\ missed'[q] = missed[q] /\ pc'[q] = pc[q]
  /\ clipLink'[q] = clipLink[q] /\ from'[q] = from[q] /\ sess' = sess /\ os' = os

LEMMA SameKeeps == ASSUME NEW q \in Both, InStep(q), Same(q) PROVE InStep(q)'
BY DEF InStep, Same, Newest, Offering, Owning, Written, Numbered, ThroughWindows,
       Reencoded

LEMMA OneMachine ==
  ASSUME ClipInv, NEW m \in Both, \A q \in Both : q # m => Same(q), ClipTyped', InStep(m)'
  PROVE  ClipInv'
BY SameKeeps DEF ClipInv

LEMMA ClipInitHolds == ClipInit => ClipInv
<1> SUFFICES ASSUME ClipInit PROVE ClipInv
  OBVIOUS
<1> USE DEF ClipInit, Machine, Both
<1>1. ClipTyped
  BY DEF ClipTyped
<1>2. ASSUME NEW m \in Both PROVE InStep(m)
  BY DEF InStep, Newest, Offering, Owning, Written, Numbered
<1> QED
  BY <1>1, <1>2 DEF ClipInv

(* Users and sessions.                                                     *)
LEMMA CopyKeeps ==
  ASSUME ClipInv, NEW m \in Both, NEW c \in Copyable, Copy(m, c)
  PROVE  ClipInv'
<1> USE DEF ClipInv
<1>1. c \in Contents
  BY DEF Copyable, Content, Contents, AsCopied, WrongText
<1>2. /\ clip' = [clip EXCEPT ![m] = c] /\ from' = [from EXCEPT ![m] = 0]
      /\ own' = [own EXCEPT ![m] = FALSE]
      /\ UNCHANGED <<os, wire, late, clipLink, net, slot, applied, pc, missed, got, sess>>
  BY DEF Copy, pumpVars
<1>3. ClipTyped'
  BY <1>1, <1>2 DEF ClipTyped
<1>4. \A q \in Both : q # m => Same(q)
  BY <1>2 DEF Same, ClipTyped
<1>5. InStep(m)'
  BY <1>2 DEF ClipTyped, InStep, Newest, Offering, Owning, Written, Numbered
<1> QED
  BY <1>3, <1>4, <1>5, OneMachine

LEMMA DialKeeps ==
  ASSUME ClipInv, NEW newClient \in BOOLEAN, Dial(newClient)
  PROVE  ClipInv'
<1> USE DEF ClipInv
<1>1. /\ sess' = sess + 1 /\ clipLink' = [m \in Both |-> "opening"]
      /\ slot' = [slot EXCEPT !["slave"] = IF newClient THEN None ELSE @]
      /\ missed' = [m \in Both |-> FALSE] /\ got' = [m \in Both |-> None]
      /\ UNCHANGED <<os, clip, own, wire, late, from, net, applied, pc>>
  BY DEF Dial, osVars, pumpVars, Machine, Both
<1>2. ClipTyped'
  <2>1. slot' \in [Both -> Contents \cup {None}]
    BY <1>1 DEF ClipTyped
  <2>2. /\ clipLink' \in [Both -> {"down", "opening", "open"}]
        /\ missed' \in [Both -> BOOLEAN] /\ got' \in [Both -> Contents \cup {None}]
    BY <1>1
  <2> QED
    BY <1>1, <2>1, <2>2 DEF ClipTyped
<1>3. ASSUME NEW m \in Both PROVE InStep(m)'
  <2>1. from[m] \in Nat /\ from[m] <= sess /\ sess \in Nat
    BY DEF ClipTyped, InStep, Numbered
  <2>2. from'[m] # sess' /\ Numbered(m)'
    BY <1>1, <2>1 DEF Numbered
  <2>3. Newest(m)' /\ Offering(m)'
    BY <1>1 DEF InStep, Newest, Offering
  <2> QED
    BY <2>2, <2>3 DEF InStep, Owning, Written
<1> QED
  BY <1>2, <1>3

LEMMA SessionKeeps ==
  ASSUME ClipInv, NEW m \in Both, Publish(m) \/ Receive(m) \/ Hangup(m)
  PROVE  ClipInv'
<1> USE DEF ClipInv
<1>1. UNCHANGED <<os, clip, wire, own, late, from, applied, pc, missed, sess>>
  BY DEF Publish, Receive, Hangup, osVars, pumpVars
<1>2. CASE Publish(m)
  <2>1. ClipTyped'
    BY <1>1, <1>2 DEF Publish, ClipTyped
  <2>2. \A q \in Both : q # m => Same(q)
    BY <1>1, <1>2 DEF Publish, Same, ClipTyped
  <2>3. InStep(m)'
    BY <1>1, <1>2
    DEF Publish, ClipTyped, InStep, Newest, Offering, Owning, Written, Numbered,
        ThroughWindows, Reencoded
  <2> QED
    BY <2>1, <2>2, <2>3, OneMachine
<1>3. CASE Receive(m)
  <2> DEFINE c == Head(net[m])
  <2>1. net[m] \in Seq(Messages) /\ net[m] # <<>>
    BY <1>3 DEF Receive, ClipTyped
  <2>2. c \in Messages /\ Tail(net[m]) \in Seq(Messages)
    BY <2>1, ReadOldest
  <2>3. /\ slot' = [slot EXCEPT ![m] = c] /\ got' = [got EXCEPT ![m] = c]
        /\ net' = [net EXCEPT ![m] = Tail(@)] /\ UNCHANGED clipLink /\ clipLink[m] = "open"
    BY <1>3 DEF Receive
  <2> HIDE DEF c
  <2>4. c \in Contents /\ c # None
    BY <2>2 DEF Messages
  <2>5. ClipTyped'
    BY <1>1, <2>2, <2>3, <2>4 DEF ClipTyped
  <2>6. \A q \in Both : q # m => Same(q)
    BY <1>1, <2>3 DEF Same, ClipTyped
  <2>7. InStep(m)'
    BY <1>1, <2>3, <2>4
    DEF ClipTyped, InStep, Newest, Offering, Owning, Written, Numbered,
        ThroughWindows, Reencoded
  <2> QED
    BY <2>5, <2>6, <2>7, OneMachine
<1>4. CASE Hangup(m)
  <2>0. <<>> \in Seq(Messages)
    OBVIOUS
  <2>1. ClipTyped'
    BY <1>1, <1>4, <2>0 DEF Hangup, ClipTyped
  <2>2. \A q \in Both : q # m => Same(q)
    BY <1>1, <1>4 DEF Hangup, Same, ClipTyped
  <2>3. InStep(m)'
    BY <1>1, <1>4
    DEF Hangup, ClipTyped, InStep, Newest, Offering, Owning, Written, Numbered
  <2> QED
    BY <2>1, <2>2, <2>3, OneMachine
<1> QED
  BY <1>2, <1>3, <1>4

-----------------------------------------------------------------------------
(* pump_clipboard.                                                         *)
LEMMA QuietPumpKeeps ==
  ASSUME ClipInv, NEW m \in Both,
         PumpOffline(m) \/ PumpEvents(m) \/ PumpOwn(m) \/ Poll(m)
  PROVE  ClipInv'
<1> USE DEF ClipInv
<1>1. UNCHANGED <<os, clip, wire, late, clipLink, net, slot, missed, got, sess>>
  BY DEF PumpOffline, PumpEvents, PumpOwn, Poll
<1>2. CASE PumpOffline(m)
  <2> USE <1>1, <1>2 DEF PumpOffline
  <2>1. ClipTyped'
    BY DEF ClipTyped
  <2>2. \A q \in Both : q # m => Same(q)
    BY DEF Same, ClipTyped
  <2>3. InStep(m)'
    BY DEF ClipTyped, InStep, Newest, Offering, Owning, Written, Numbered, Connected
  <2> QED
    BY <2>1, <2>2, <2>3, OneMachine
<1>3. CASE PumpEvents(m)
  <2> USE <1>1, <1>3 DEF PumpEvents, pumpVars
  <2>1. ClipTyped'
    BY DEF ClipTyped
  <2>2. \A q \in Both : Same(q)
    BY DEF Same
  <2> QED
    BY <2>1, <2>2, SameKeeps
<1>4. CASE PumpOwn(m)
  <2> USE <1>1, <1>4 DEF PumpOwn
  <2>1. ClipTyped'
    BY DEF ClipTyped
  <2>2. \A q \in Both : q # m => Same(q)
    BY DEF Same, ClipTyped
  <2>3. InStep(m)'
    BY DEF ClipTyped, InStep, Newest, Offering, Owning, Written, Numbered
  <2> QED
    BY <2>1, <2>2, <2>3, OneMachine
<1>5. CASE Poll(m)
  <2> USE <1>1, <1>5 DEF Poll
  <2>1. ClipTyped'
    BY DEF ClipTyped
  <2>2. \A q \in Both : q # m => Same(q)
    BY DEF Same, ClipTyped
  <2>3. InStep(m)'
    BY DEF ClipTyped, InStep, Newest, Offering, Owning, Written, Numbered,
           ThroughWindows, Reencoded
  <2> QED
    BY <2>1, <2>2, <2>3, OneMachine
<1> QED
  BY <1>2, <1>3, <1>4, <1>5

LEMMA ApplyKeeps ==
  ASSUME MaxGen \in Nat, ClipInv, NEW m \in Both,
         (\E ok \in BOOLEAN : PumpApplyWindows(m, ok)) \/ PumpOffer(m)
  PROVE  ClipInv'
<1> USE DEF ClipInv
<1>1. /\ slot[m] \in Contents /\ slot[m] # None /\ pc[m] = "idle"
      /\ applied' = [applied EXCEPT ![m] = slot[m]] /\ slot' = [slot EXCEPT ![m] = None]
      /\ UNCHANGED <<os, own, late, clipLink, net, got, sess>>
  BY DEF PumpApplyWindows, PumpOffer, Pending, Track, ClipTyped
<1>2. CASE PumpOffer(m)
  <2>1. /\ wire' = [wire EXCEPT ![m] = slot[m]] /\ pc' = [pc EXCEPT ![m] = "own"]
        /\ os[m] = "x11" /\ UNCHANGED <<clip, from, missed>>
    BY <1>2 DEF PumpOffer, X11
  <2>2. ClipTyped'
    BY <1>1, <2>1 DEF ClipTyped
  <2>3. \A q \in Both : q # m => Same(q)
    BY <1>1, <2>1 DEF Same, ClipTyped
  <2>4. InStep(m)'
    BY <1>1, <2>1 DEF ClipTyped, InStep, Newest, Offering, Owning, Written, Numbered
  <2> QED
    BY <2>2, <2>3, <2>4, OneMachine
<1>3. ASSUME NEW ok \in BOOLEAN, PumpApplyWindows(m, ok) PROVE ClipInv'
  <2>1. /\ os[m] = "windows" /\ UNCHANGED <<wire, pc>>
        /\ \/ /\ clip' = [clip EXCEPT ![m] = ThroughWindows(slot[m])]
              /\ from' = [from EXCEPT ![m] = sess] /\ UNCHANGED missed
           \/ missed' = [missed EXCEPT ![m] = TRUE] /\ UNCHANGED <<clip, from>>
    BY <1>3 DEF PumpApplyWindows, Windows
  <2>2. ThroughWindows(slot[m]) \in Contents
    BY <1>1, WindowsKeepsContents
  <2>3. /\ clip' \in [Both -> Contents \cup {None}] /\ from' \in [Both -> Nat]
        /\ missed' \in [Both -> BOOLEAN]
    <3>1. CASE /\ clip' = [clip EXCEPT ![m] = ThroughWindows(slot[m])]
               /\ from' = [from EXCEPT ![m] = sess] /\ UNCHANGED missed
      BY <2>2, <3>1 DEF ClipTyped
    <3>2. CASE missed' = [missed EXCEPT ![m] = TRUE] /\ UNCHANGED <<clip, from>>
      BY <3>2 DEF ClipTyped
    <3> QED
      BY <2>1, <3>1, <3>2
  <2>4. /\ slot' \in [Both -> Contents \cup {None}]
        /\ applied' \in [Both -> Contents \cup {None}]
    BY <1>1 DEF ClipTyped
  <2>5. ClipTyped'
    BY <1>1, <2>1, <2>3, <2>4 DEF ClipTyped
  <2>6. \A q \in Both : q # m => Same(q)
    BY <1>1, <2>1 DEF Same, ClipTyped
  <2>7. /\ applied'[m] = slot[m] /\ slot'[m] = None
        /\ missed'[m] \/ clip'[m] = ThroughWindows(slot[m])
        /\ from'[m] \in {from[m], sess}
    BY <1>1, <2>1 DEF ClipTyped
  <2>8. Written(m)'
    BY <1>1, <2>7 DEF Written, ThroughWindows, Reencoded
  <2>9. InStep(m)'
    BY <1>1, <2>1, <2>7, <2>8 DEF ClipTyped, InStep, Newest, Offering, Owning, Numbered
  <2> QED
    BY <2>5, <2>6, <2>9, OneMachine
<1> QED
  BY <1>2, <1>3

LEMMA LooksKeeps == ASSUME ClipInv, NEW m \in Both, Looks(m) PROVE ClipInv'
<1> USE DEF ClipInv
<1>1. PICK c \in Contents \cup {None} : Digest(m, c)
  BY LooksDoes
<1>2. /\ net' \in [Both -> Seq(Messages)] /\ pc' = [pc EXCEPT ![m] = "idle"]
      /\ UNCHANGED <<os, clip, own, wire, from, clipLink, slot, applied, missed, got, sess>>
  BY <1>1, DigestDoes
<1>3. late' \in [Both -> Seq(Replies \cup {None})]
  BY LooksDoes
<1>4. ClipTyped'
  BY <1>2, <1>3 DEF ClipTyped
<1>5. \A q \in Both : q # m => Same(q)
  BY <1>2 DEF Same, ClipTyped
<1>6. InStep(m)'
  BY <1>2 DEF ClipTyped, InStep, Newest, Offering, Owning, Written, Numbered,
              ThroughWindows, Reencoded
<1> QED
  BY <1>4, <1>5, <1>6, OneMachine

LEMMA ClipStepKeeps == ClipInv /\ [ClipNext]_clipVars => ClipInv'
<1> SUFFICES ASSUME ClipInv, [ClipNext]_clipVars PROVE ClipInv'
  OBVIOUS
<1>a. MaxGen \in Nat
  BY ClipboardAssumption
<1> USE DEF Machine, Both
<1>1. CASE UNCHANGED clipVars
  <2>1. \A q \in Both : Same(q)
    BY <1>1 DEF clipVars, osVars, pumpVars, Same
  <2>2. ClipTyped'
    BY <1>1 DEF clipVars, osVars, pumpVars, ClipInv, ClipTyped
  <2> QED
    BY <2>1, <2>2, SameKeeps DEF ClipInv
<1>2. ASSUME NEW m \in Both, Pump(m) PROVE ClipInv'
  BY <1>2, <1>a, QuietPumpKeeps, ApplyKeeps, LooksKeeps DEF Pump, Looks
<1>3. ASSUME NEW m \in Both, SessionThread(m) \/ Hangup(m) PROVE ClipInv'
  BY <1>3, SessionKeeps DEF SessionThread
<1> QED
  BY <1>1, <1>2, <1>3, CopyKeeps, DialKeeps DEF ClipNext

LEMMA ClipInductive == ClipSpec => []ClipInv
<1>1. ClipInv /\ [ClipNext]_clipVars => ClipInv'
  BY ClipStepKeeps
<1> QED
  BY <1>1, ClipInitHolds, PTL DEF ClipSpec

-----------------------------------------------------------------------------
(* Between two pumps the content applied last is the one received last,    *)
(* however many messages overwrote each other in the slot before the pump  *)
(* took one, and in whatever session (tcp_server.cpp:115-121,344-352).     *)
THEOREM LatestContentWins == ClipSpec => []LatestWins
<1>1. ClipInv => LatestWins
  BY DEF ClipInv, InStep, Newest, LatestWins, Machine, Both
<1> QED
  BY <1>1, ClipInductive, PTL

(* What the peer sent goes back only as Windows changed it, or in the      *)
(* place of a message that could not be written: for any contents, between *)
(* any two kinds of system, whatever an X11 program answers too late       *)
(* (clipboard_pump.cpp:49-53).                                             *)
THEOREM EchoesOnlyWhatChanged == ClipSpec => NoEcho
<1> DEFINE Echoes(m) ==
             Len(net'[Peer(m)]) > Len(net[Peer(m)])
               => LET c == Last(net'[Peer(m)])
                  IN \/ from[m] # sess
                     \/ missed[m]
                     \/ Windows(m) /\ (c.kind = "image" \/ c.gen = WrongText)
<1>1. ASSUME ClipInv, ClipNext, NEW m \in Both PROVE Echoes(m)
  <2> DEFINE p == Peer(m)
  <2> SUFFICES ASSUME Grown(p), from[m] = sess, ~missed[m]
               PROVE  LET c == Last(net'[p])
                      IN Windows(m) /\ (c.kind = "image" \/ c.gen = WrongText)
    BY DEF Grown
  <2>1. p \in Both
    BY PeerIsOther
  <2>2. PICK k \in Both : Looks(k)
    <3>1. ASSUME NEW k \in Both, Receive(k) \/ Hangup(k) PROVE FALSE
      <4>1. net[p] \in Seq(Messages) /\ net \in [Both -> Seq(Messages)]
        BY <1>1, <2>1 DEF ClipInv, ClipTyped
      <4>2. net'[p] = net[p] \/ net'[p] = <<>> \/ (net[p] # <<>> /\ net'[p] = Tail(net[p]))
        BY <2>1, <3>1, <4>1 DEF Receive, Hangup
      <4>3. Len(net[p]) \in Nat /\ Len(<<>>) = 0
        BY <4>1
      <4>4. net[p] # <<>> => Len(Tail(net[p])) = Len(net[p]) - 1
        BY <4>1, HeadTailProperties
      <4>5. Len(net'[p]) > Len(net[p])
        BY DEF Grown
      <4>6. CASE net'[p] = net[p]
        BY <4>3, <4>5, <4>6
      <4>7. CASE net'[p] = <<>>
        BY <4>3, <4>5, <4>7
      <4>8. CASE net[p] # <<>> /\ net'[p] = Tail(net[p])
        <5>1. Len(net'[p]) = Len(net[p]) - 1
          BY <4>4, <4>8
        <5> HIDE DEF p
        <5> QED
          BY <4>3, <4>5, <5>1
      <4> QED
        BY <4>2, <4>6, <4>7, <4>8
    <3>2. ASSUME UNCHANGED net PROVE FALSE
      <4>1. Len(net[p]) \in Nat
        BY <1>1, <2>1 DEF ClipInv, ClipTyped
      <4> QED
        BY <3>2, <4>1 DEF Grown
    <3> QED
      BY <1>1, <3>1, <3>2
      DEF ClipNext, Machine, Both, Pump, SessionThread, Looks, Copy, Dial,
          Publish, PumpOffline, PumpEvents, PumpOffer, PumpOwn,
          PumpApplyWindows, Poll
  <2>3. PICK c \in Contents \cup {None} :
          /\ Digest(k, c)
          /\ \/ os[k] = "windows" /\ c \in {clip[k], None}
             \/ os[k] = "x11" /\ own[k] /\ c \in {wire[k], None}
             \/ os[k] = "x11" /\ ~own[k]
    BY <1>1, <2>2, LooksDoes DEF ClipInv
  <2>4. /\ p = Peer(k) /\ clipLink[k] = "open" /\ c # None /\ c # applied[k]
        /\ net'[p][Len(net'[p])] = c
    BY <1>1, <2>1, <2>3, DigestDoes DEF ClipInv
  <2>5. k = m
    BY <2>4, PeerIsOther
  <2>6. os[m] = "windows" /\ c = clip[m]
    BY <1>1, <2>3, <2>4, <2>5 DEF ClipInv, InStep, Owning
  <2>7. applied[m] \in Contents /\ c = ThroughWindows(applied[m])
    BY <1>1, <2>4, <2>5, <2>6 DEF ClipInv, InStep, Written
  <2>8. c.kind = "image" \/ c.gen = WrongText
    BY <2>4, <2>5, <2>7, ClipboardAssumption, WindowsKeepsContents
  <2> QED
    BY <2>4, <2>6, <2>8 DEF Last, Windows
<1>2. ClipInv /\ [ClipNext]_clipVars => [\A m \in Machine : Echoes(m)]_clipVars
  BY <1>1 DEF Machine, Both
<1> QED
  BY <1>2, ClipInductive, PTL DEF NoEcho, ClipSpec
=============================================================================
