---------------------------- MODULE AutoConnect ----------------------------
(***************************************************************************)
(* A Slave that dials trusted Masters by itself: the main loop's           *)
(* pump_auto_connect, which looks at the TcpClient once per frame, the     *)
(* client's own thread with its own retries, and the user's buttons.  The  *)
(* Masters are the environment: any attempt may end in any way.            *)
(***************************************************************************)
EXTENDS Naturals, FiniteSets

CONSTANTS Masters,  \* device ids of the Masters
          Nobody    \* the peer_device_id 0 of a status without a peer

ASSUME PeerAssumption == Nobody \notin Masters

VARIABLES
  tcpClient,     \* tcp_client: {} when null, or one record
  known,      \* known_peers
  listed,     \* Masters in the listener's peers(), with a TCP port
  listening,  \* discovery has started (listener is not null)
  enabled,    \* auto_connect_enabled
  suppressed, \* auto_connect_suppressed
  (* history *)
  left,       \* Masters the user disconnected and has not connected to since
  told,       \* Masters whose GoAway a frame has seen, likewise
  refused     \* Masters that rejected this Slave's pairing, likewise

ownVars        == <<known, listed, listening, enabled>>
connectHistory == <<left, told, refused>>
connectVars    == <<tcpClient, suppressed, ownVars, connectHistory>>

-----------------------------------------------------------------------------
(* TcpClient: where its thread is decides the state it shows.  "new" has   *)
(* not run yet, "backoff" sleeps between attempts, "ended" has returned.   *)
Phases == {"new", "dial", "decision", "ik", "session", "backoff", "ended"}
States == {"Idle", "Connecting", "Pairing", "Connected", "Failed"}

FreshClient(m) ==
  {[target |-> m, phase |-> "new", state |-> "Idle", peer |-> Nobody, goAway |-> FALSE]}

(* The Masters dialled by a step: an attempt begins.                       *)
Dials(m) == /\ \E c \in tcpClient' : c.target = m /\ c.phase = "dial"
            /\ \A c \in tcpClient  : c.phase # "dial"

Becomes(c, phase, state, peer) ==
  tcpClient' = {[c EXCEPT !.phase = phase, !.state = state, !.peer = peer]}

(* run_once begins with a fresh status, so an unread GoAway is gone.       *)
BeginAttempt(c) ==
  /\ c.phase \in {"new", "backoff"}
  /\ tcpClient' = {[c EXCEPT !.phase = "dial", !.state = "Connecting",
                          !.peer = Nobody, !.goAway = FALSE]}
  /\ UNCHANGED <<suppressed, ownVars, connectHistory>>

(* The ids and flags are exchanged: pair, unless both know each other.     *)
FlagsExchanged(c) ==
  /\ c.phase = "dial"
  /\ \/ Becomes(c, "decision", "Pairing", c.target)
     \/ c.target \in known /\ Becomes(c, "ik", "Connecting", Nobody)
  /\ UNCHANGED <<suppressed, ownVars, connectHistory>>

MasterApproves(c) ==
  /\ c.phase = "decision"
  /\ Becomes(c, "ik", "Pairing", c.target)
  /\ known' = known \cup {c.target}
  /\ UNCHANGED <<listed, listening, enabled, suppressed, connectHistory>>

MasterRejects(c) ==
  /\ c.phase = "decision"
  /\ Becomes(c, "ended", "Failed", c.peer)
  /\ refused' = refused \cup {c.target}
  /\ UNCHANGED <<suppressed, ownVars, left, told>>

(* The Master may still be asking its user about a kicked Slave: the       *)
(* client cannot tell, and shows Connected.                                *)
HandshakeDone(c) ==
  /\ c.phase = "ik"
  /\ Becomes(c, "session", "Connected", c.target)
  /\ UNCHANGED <<suppressed, ownVars, connectHistory>>

GoAwayArrives(c) ==
  /\ c.phase = "session" /\ ~c.goAway
  /\ tcpClient' = {[c EXCEPT !.goAway = TRUE]}
  /\ UNCHANGED <<suppressed, ownVars, connectHistory>>

(* Any failure shows Failed; the thread then sleeps, or returns because it *)
(* has not been connected for give_up_after_.                              *)
AttemptEnds(c) ==
  /\ c.phase \in {"dial", "decision", "ik", "session"}
  /\ \/ Becomes(c, "backoff", "Failed", c.peer)
     \/ c.phase # "session" /\ Becomes(c, "ended", "Failed", c.peer)
  /\ UNCHANGED <<suppressed, ownVars, connectHistory>>

GivesUp(c) ==
  /\ c.phase = "backoff"
  /\ Becomes(c, "ended", "Failed", c.peer)
  /\ UNCHANGED <<suppressed, ownVars, connectHistory>>

ClientThread(c) ==
  \/ BeginAttempt(c) \/ FlagsExchanged(c) \/ MasterApproves(c) \/ MasterRejects(c)
  \/ HandshakeDone(c) \/ GoAwayArrives(c) \/ AttemptEnds(c) \/ GivesUp(c)

-----------------------------------------------------------------------------
(* pump_auto_connect.  A session that reached Connected lifts its peer's   *)
(* suppression, a GoAway seen in the status brings it back.                *)
Lifted_All(c) == IF c.state = "Connected" THEN Masters ELSE {}
Lifted(c) == IF c.state = "Connected" THEN {c.peer} ELSE {}
GoneAway(c) == IF c.goAway THEN {c.peer} ELSE {}

SuppressedNow ==
  (suppressed \ UNION {Lifted(c) : c \in tcpClient}) \cup UNION {GoneAway(c) : c \in tcpClient}

BusyStates_AnyButIdle == States \ {"Idle"}
BusyStates == {"Connecting", "Pairing", "Connected"}
Busy == \E c \in tcpClient : c.state \in BusyStates

Candidates(barred) ==
  IF enabled THEN (listed \cap known) \ barred ELSE {}

Frame ==
  /\ listening
  /\ suppressed' = SuppressedNow
  /\ told' = told \cup UNION {GoneAway(c) : c \in tcpClient}
  /\ IF Busy \/ Candidates(SuppressedNow) = {}
     THEN UNCHANGED tcpClient
     ELSE \E m \in Candidates(SuppressedNow) : tcpClient' = FreshClient(m)
  /\ UNCHANGED <<ownVars, left, refused>>

-----------------------------------------------------------------------------
(* The user.  Replacing or dropping a client joins its thread first.       *)
PressConnectTo(m) ==
  /\ listening /\ m \in listed
  /\ tcpClient' = FreshClient(m)
  /\ left' = left \ {m} /\ told' = told \ {m} /\ refused' = refused \ {m}
  /\ UNCHANGED <<suppressed, ownVars>>

Suppressing(c) == {c.peer}

PressDisconnect(c) ==
  /\ listening /\ c.state = "Connected"
  /\ suppressed' = suppressed \cup Suppressing(c)
  /\ left' = left \cup {c.peer}
  /\ tcpClient' = {}
  /\ UNCHANGED <<ownVars, told, refused>>

ToggleAutoConnect ==
  /\ listening
  /\ enabled' = ~enabled
  /\ UNCHANGED <<tcpClient, known, listed, listening, suppressed, connectHistory>>

PressForget(m) ==
  /\ m \in known
  /\ known' = known \ {m}
  /\ tcpClient' = {c \in tcpClient : ~(c.state = "Connected" /\ c.peer = m)}
  /\ UNCHANGED <<listed, listening, enabled, suppressed, connectHistory>>

(* Back drops the client and stops listening; the suppressions stay.       *)
BackDropsClient ==
  /\ listening /\ listening' = FALSE
  /\ listed' = {} /\ tcpClient' = {}
  /\ UNCHANGED <<known, enabled, suppressed, connectHistory>>

StartDiscovery ==
  /\ ~listening /\ listening' = TRUE
  /\ UNCHANGED <<tcpClient, known, listed, enabled, suppressed, connectHistory>>

User == \/ \E m \in Masters : PressConnectTo(m) \/ PressForget(m)
        \/ \E c \in tcpClient : PressDisconnect(c)
        \/ ToggleAutoConnect \/ BackDropsClient \/ StartDiscovery

(* Announcements arrive, and entries that are not heard of again expire.   *)
Announced(m) ==
  /\ listening
  /\ listed' = IF m \in listed THEN listed \ {m} ELSE listed \cup {m}
  /\ UNCHANGED <<tcpClient, known, listening, enabled, suppressed, connectHistory>>

ConnectInit ==
  /\ tcpClient = {} /\ known \in SUBSET Masters /\ listed = {}
  /\ listening = FALSE /\ enabled \in BOOLEAN /\ suppressed = {}
  /\ left = {} /\ told = {} /\ refused = {}

ConnectNext == \/ \E c \in tcpClient : ClientThread(c)
               \/ Frame \/ User
               \/ \E m \in Masters : Announced(m)

(* The main loop draws a frame for ever, and a thread that is started, or  *)
(* whose backoff is over, gets to run.  Nothing is asked of a Master.      *)
Fairness == /\ WF_connectVars(Frame)
            /\ WF_connectVars(\E c \in tcpClient : BeginAttempt(c))

ConnectSpec == ConnectInit /\ [][ConnectNext]_connectVars /\ Fairness
-----------------------------------------------------------------------------
(* Properties.                                                             *)

(* The members the pump and the client share keep their types, and there   *)
(* is never more than one client.                                          *)
ConnectTypeOK ==
  /\ tcpClient \subseteq [target : Masters, phase : Phases, state : States,
                       peer : Masters \cup {Nobody}, goAway : BOOLEAN]
  /\ Cardinality(tcpClient) <= 1
  /\ known \subseteq Masters /\ listed \subseteq Masters
  /\ listening \in BOOLEAN /\ enabled \in BOOLEAN
  /\ suppressed \subseteq Masters
  /\ left \subseteq Masters /\ told \subseteq Masters /\ refused \subseteq Masters

(* "I've had enough of this guy": once the user disconnected from a        *)
(* Master, nothing dials it before the user does, whatever other Masters   *)
(* do, however often discovery is restarted (ui.cpp:329-333).              *)
LeaveIsFinal == \A m \in left : m \in suppressed /\ \A c \in tcpClient : c.target # m

(* A dead client never keeps the pump from trusted Masters it may dial     *)
(* (auto_connect_pump.cpp:24-27).                                          *)
KeepsTrying ==
  []<>(\/ \E c \in tcpClient : c.state \in {"Connecting", "Pairing", "Connected"}
       \/ ~listening \/ Candidates(suppressed) = {})

(* "Tell Slave to stop auto-connecting here too [...] -- otherwise         *)
(* auto-connect would just knock again within seconds and re-show this     *)
(* same prompt indefinitely" (tcp_server.cpp:247-249).                     *)
GoAwayStopsDialing == [][\A m \in Masters : Dials(m) => m \notin told]_connectVars

(* "An explicit rejection, not a transient failure -- retrying would just  *)
(* re-prompt Master for approval over and over. Give up for good."         *)
(* (tcp_client.cpp:204-205).                                               *)
RejectionIsFinal == [][\A m \in Masters : Dials(m) => m \notin refused]_connectVars

(* "never got connected -- retry after a growing delay" (tcp_client.h:60): *)
(* what follows a failed attempt is that client's own wait, unless the     *)
(* user presses a button.                                                  *)
RetriesWait ==
  [][\A c \in tcpClient : Frame /\ c.phase = "backoff" => c \in tcpClient']_connectVars
=============================================================================
