------------------------------ MODULE Session ------------------------------
(***************************************************************************)
(* One Master and its Slaves, from the TCP connect to the end of the       *)
(* session: the background thread of TcpServer (Master), the background    *)
(* thread of each TcpClient (Slave), the byte streams between them and the *)
(* UI threads that press buttons at any moment in between.                 *)
(*                                                                         *)
(* A stream is a FIFO of messages; "eof" is the FIN of the other end.  A   *)
(* Slave has at most one socket, the Master serves one connection at a     *)
(* time, and its connection may outlive the Slave's end of it (peerOpen).  *)
(* Every wait has a deadline in the code: a step that takes a deadline is  *)
(* enabled as long as nothing has arrived, since the model has no clock.   *)
(***************************************************************************)
EXTENDS Naturals, Sequences

CONSTANTS Slaves,      \* device ids of the Slaves
          Keys,        \* static public keys a Slave can hold
          NoKey,       \* "no key": an unknown device
          Nobody,      \* no peer
          MaxInFlight, \* bound: session data sent into a stream this long waits
          Buttons      \* bound: what the users do, beyond Accept, Connect and Reject

AllButtons == {"disconnect", "forget", "restart", "slavestop", "slaveforget", "rekey"}

ASSUME KeyAssumption    == NoKey \notin Keys /\ Keys # {}
ASSUME NobodyAssumption == Nobody \notin Slaves \cup (Slaves \X Keys)
ASSUME BoundAssumption  == MaxInFlight \in Nat /\ Buttons \subseteq AllButtons

VARIABLES
  (* Master: TcpServer, and the trust store behind it *)
  running,    \* running_
  spc,        \* where run() is
  speer,      \* peer_device_id of the accepted connection
  peerOpen,   \* the Slave's end of the accepted connection is still open
  strust,     \* trusted_pubkey, the copy run() works with
  skey,       \* the raw public key received for pairing
  sstatus,    \* status_: state, peer and the key whose fingerprint is shown
  decision,   \* pairing_decision_
  disconnect, \* disconnect_requested_
  kicked,     \* kicked_this_session_
  sKnown,     \* known_peers_ of the Master: device -> key or NoKey
  c2s,        \* bytes the accepted connection has not delivered to the Master
  (* Slaves: one TcpClient each *)
  crun,       \* running_
  cpc,        \* where run_once() is; "idle" is the backoff, "off" no thread
  ckey,       \* own_static_
  cKnown,     \* known_peers_ of the Slave contains the Master
  crs,        \* rs.has_value(), the copy run_once() works with
  goAway,     \* status_.go_away_received
  s2c,        \* bytes the Slave's socket has not delivered to it
  (* history of what the Master's user did *)
  approved,   \* pairs <<device, key>> accepted on a prompt and not forgotten
  owed        \* devices the user disconnected and has not accepted since

masterVars == <<running, spc, speer, peerOpen, strust, skey, sstatus,
                decision, disconnect, kicked, sKnown, c2s>>
slaveVars  == <<crun, cpc, ckey, cKnown, crs, goAway, s2c>>
history    == <<approved, owed>>
vars       == <<masterVars, slaveVars, history>>

-----------------------------------------------------------------------------
(* Messages.  A flag or a decision is one byte, 0 or 1.                    *)
Bit == {0, 1}
Flag(b)     == [t |-> "flag",     v |-> b]
PubKey(k)   == [t |-> "pubkey",   v |-> k]
Decision(b) == [t |-> "decision", v |-> b]
Ik1(k)      == [t |-> "ik1",      v |-> k]   \* carries the initiator's static
Ik2         == [t |-> "ik2",      v |-> 0]
Eof         == [t |-> "eof",      v |-> 0]
Frame(kind) == [t |-> kind,       v |-> 0]

MasterFrames == {"audioport", "goaway", "data"}
SlaveFrames  == {"monitors", "data"}
FrameMsg(kinds) == {Frame(kind) : kind \in kinds}
ToSlave  == {Flag(b) : b \in Bit} \cup {Decision(b) : b \in Bit}
            \cup {PubKey(NoKey), Ik2, Eof} \cup FrameMsg(MasterFrames)
ToMaster == {Flag(b) : b \in Bit} \cup {PubKey(k) : k \in Keys}
            \cup {Ik1(k) : k \in Keys} \cup FrameMsg(SlaveFrames)

IdleInfo == [state |-> "Idle", peer |-> Nobody, key |-> NoKey]
Info_Swapped(state, c, k) == [state |-> state, peer |-> k, key |-> c]
Info(state, c, k) == [state |-> state, peer |-> c, key |-> k]

ServerPc == {"accept", "flag", "pubkey", "shown", "prompt", "ik", "reshown",
             "reprompt", "connected", "session", "stopped"}
ClientPc == {"off", "idle", "dial", "flag", "pubkey", "decision", "ik", "session"}
Serving  == spc \notin {"accept", "stopped"}
InSession == spc \in {"connected", "session"}

(* The Slave's socket is the connection the Master is serving.             *)
Served(c) == Serving /\ speer = c /\ peerOpen

(* What a send adds to the other end's stream; into a closed one, nothing. *)
SentToSlave(msgs) ==
  IF peerOpen THEN [s2c EXCEPT ![speer] = @ \o msgs] ELSE s2c
SentToMaster(c, m) == IF Served(c) THEN Append(c2s, m) ELSE c2s

Arrived(c, kind) == s2c[c] # <<>> /\ Head(s2c[c]).t = kind
Received(kind)   == c2s # <<>> /\ Head(c2s).t = kind

-----------------------------------------------------------------------------
Init ==
  /\ running = TRUE /\ spc = "accept" /\ speer = Nobody /\ peerOpen = FALSE
  /\ strust = NoKey /\ skey = NoKey /\ sstatus = IdleInfo
  /\ decision = "Pending" /\ disconnect = FALSE /\ kicked = {}
  /\ sKnown = [c \in Slaves |-> NoKey]
  /\ c2s = <<>>
  /\ crun = [c \in Slaves |-> FALSE]
  /\ cpc = [c \in Slaves |-> "off"]
  /\ ckey \in [Slaves -> Keys]
  /\ cKnown = [c \in Slaves |-> FALSE]
  /\ crs = [c \in Slaves |-> FALSE]
  /\ goAway = [c \in Slaves |-> FALSE]
  /\ s2c = [c \in Slaves |-> <<>>]
  /\ approved = {} /\ owed = {}

-----------------------------------------------------------------------------
(* Master, the background thread.                                          *)

(* What the Slave still gets to read once the Master has sent msgs and     *)
(* called close_socket.                                                    *)
LastWords_FinFirst(msgs) == <<Eof>> \o msgs
LastWords(msgs) == Append(msgs, Eof)

(* Send msgs, close_socket, and back to the top of the loop, where the     *)
(* locals of this connection are gone.                                     *)
CloseServed(msgs) ==
  /\ s2c' = SentToSlave(LastWords(msgs))
  /\ spc' = "accept"
  /\ peerOpen' = FALSE /\ c2s' = <<>>
  /\ speer' = Nobody /\ strust' = NoKey /\ skey' = NoKey

(* accept, the device id exchange, the trust lookup and the own flag: the  *)
(* Slave sends its id without waiting for anything, so nothing can come    *)
(* between these.                                                          *)
AcceptConnection(c) ==
  /\ spc = "accept" /\ running
  /\ cpc[c] = "dial" /\ s2c[c] = <<>>
  /\ spc' = "flag"
  /\ speer' = c /\ peerOpen' = TRUE /\ c2s' = <<>>
  /\ strust' = sKnown[c]
  /\ s2c' = [s2c EXCEPT ![c] = <<Flag(IF sKnown[c] = NoKey THEN 1 ELSE 0)>>]
  /\ UNCHANGED <<running, skey, sstatus, decision, disconnect, kicked, sKnown,
                 crun, cpc, ckey, cKnown, crs, goAway, history>>

(* The peer's flag has arrived: pair if either side asks for it.           *)
NeedPairing_OwnViewOnly(trusted, peerWants) == ~trusted
NeedPairing(trusted, peerWants) == ~trusted \/ peerWants # 0

ServerFlag ==
  /\ spc = "flag" /\ Received("flag")
  /\ c2s' = Tail(c2s)
  /\ IF NeedPairing(strust # NoKey, Head(c2s).v)
     THEN /\ spc' = "pubkey"
          /\ s2c' = SentToSlave(<<PubKey(NoKey)>>)
     ELSE /\ spc' = "ik"
          /\ UNCHANGED s2c
  /\ UNCHANGED <<running, speer, peerOpen, strust, skey, sstatus, decision,
                 disconnect, kicked, sKnown,
                 crun, cpc, ckey, cKnown, crs, goAway, history>>

(* The peer's raw key has arrived: show the prompt...                      *)
ServerPubKey ==
  /\ spc = "pubkey" /\ Received("pubkey")
  /\ c2s' = Tail(c2s)
  /\ skey' = Head(c2s).v
  /\ sstatus' = Info("Pairing", speer, Head(c2s).v)
  /\ spc' = "shown"
  /\ UNCHANGED <<running, speer, peerOpen, strust, decision, disconnect, kicked,
                 sKnown, slaveVars, history>>

(* ...and only then arm it, both at first pairing and at re-approval.      *)
Armed == "Pending"

ArmPrompt ==
  /\ spc \in {"shown", "reshown"}
  /\ decision' = Armed
  /\ spc' = IF spc = "shown" THEN "prompt" ELSE "reprompt"
  /\ UNCHANGED <<running, speer, peerOpen, strust, skey, sstatus, disconnect,
                 kicked, sKnown, c2s, slaveVars, history>>

(* The answer takes effect, even if its device was forgotten since Accept  *)
(* was pressed: known_peers_.remember() comes after that Forget.           *)
PairingApproved ==
  /\ spc = "prompt" /\ decision = "Approved" /\ running
  /\ s2c' = SentToSlave(<<Decision(1)>>)
  /\ sKnown' = [sKnown EXCEPT ![speer] = skey]
  /\ strust' = skey
  /\ spc' = "ik"
  /\ approved' = approved \cup {<<speer, skey>>}
  /\ UNCHANGED <<running, speer, peerOpen, skey, sstatus, decision, disconnect,
                 kicked, c2s, crun, cpc, ckey, cKnown, crs, goAway, owed>>

(* Rejected, or two minutes without an answer, or stop(): all three send   *)
(* the rejection byte.                                                     *)
PairingRefused ==
  /\ spc = "prompt"
  /\ CloseServed(<<Decision(0)>>)
  /\ sstatus' = IdleInfo
  /\ UNCHANGED <<running, decision, disconnect, kicked,
                 sKnown, crun, cpc, ckey, cKnown, crs, goAway, history>>

(* A device that was thrown out is asked about again, trusted or not.       *)
MustReapprove(c) == c \in kicked

(* run_ik_responder answers before the caller compares the static key.     *)
ServerIk ==
  /\ spc = "ik" /\ Received("ik1")
  /\ IF Head(c2s).v # strust
     THEN /\ CloseServed(<<Ik2>>)
          /\ sstatus' = IdleInfo
     ELSE /\ c2s' = Tail(c2s)
          /\ s2c' = SentToSlave(<<Ik2>>)
          /\ UNCHANGED <<speer, peerOpen, strust, skey>>
          /\ IF MustReapprove(speer)
             THEN /\ spc' = "reshown"
                  /\ sstatus' = Info("Pairing", speer, strust)
             ELSE /\ spc' = "connected"
                  /\ sstatus' = Info("Connected", speer, NoKey)
  /\ UNCHANGED <<running, decision, disconnect, kicked,
                 sKnown, crun, cpc, ckey, cKnown, crs, goAway, history>>

Reapproved ==
  /\ spc = "reprompt" /\ decision = "Approved" /\ running
  /\ kicked' = kicked \ {speer}
  /\ sstatus' = Info("Connected", speer, NoKey)
  /\ spc' = "connected"
  /\ UNCHANGED <<running, speer, peerOpen, strust, skey, decision, disconnect,
                 sKnown, c2s, slaveVars, history>>

ReapprovalRefused ==
  /\ spc = "reprompt"
  /\ CloseServed(<<Frame("goaway")>>)
  /\ sstatus' = IdleInfo
  /\ UNCHANGED <<running, decision, disconnect, kicked,
                 sKnown, crun, cpc, ckey, cKnown, crs, goAway, history>>

(* A handshake read that ends without a message: closed, or past its       *)
(* three-second deadline.                                                  *)
ReadEnds_OnCloseOnly == c2s = <<>> /\ ~peerOpen
ReadEnds == c2s = <<>>

ServerHandshakeFails ==
  /\ spc \in {"flag", "pubkey", "ik"} /\ ReadEnds
  /\ CloseServed(<<>>)
  /\ sstatus' = IdleInfo
  /\ UNCHANGED <<running, decision, disconnect, kicked,
                 sKnown, crun, cpc, ckey, cKnown, crs, goAway, history>>

(* The channel is published, the audio port sent, and the disconnect flag  *)
(* of the previous session cleared, after Connected is visible to the UI.  *)
OpenSession ==
  /\ spc = "connected"
  /\ s2c' = SentToSlave(<<Frame("audioport")>>)
  /\ disconnect' = FALSE
  /\ spc' = "session"
  /\ UNCHANGED <<running, speer, peerOpen, strust, skey, sstatus, decision,
                 kicked, sKnown, c2s, crun, cpc, ckey, cKnown, crs, goAway, history>>

ServerReceive ==
  /\ spc = "session" /\ c2s # <<>>
  /\ running /\ ~disconnect
  /\ c2s' = Tail(c2s)
  /\ UNCHANGED <<running, spc, speer, peerOpen, strust, skey, sstatus, decision,
                 disconnect, kicked, sKnown, slaveVars, history>>

ServerSend ==
  /\ spc = "session" /\ peerOpen /\ Len(s2c[speer]) < MaxInFlight
  /\ s2c' = SentToSlave(<<Frame("data")>>)
  /\ UNCHANGED <<masterVars, crun, cpc, ckey, cKnown, crs, goAway, history>>

SessionOver_DeafToStop == disconnect \/ c2s = <<>>
SessionOver == ~running \/ disconnect \/ c2s = <<>>

(* The loop ends on stop(), on the disconnect flag, on a closed stream or  *)
(* on a silent peer; only the flag, looked at once more after the loop,    *)
(* makes it a kick.                                                        *)
EndSession ==
  /\ spc = "session"
  /\ SessionOver
  /\ IF disconnect
     THEN /\ CloseServed(<<Frame("goaway")>>)
          /\ kicked' = kicked \cup {speer}
          /\ owed' = owed \cup {speer}
     ELSE /\ CloseServed(<<>>)
          /\ UNCHANGED <<kicked, owed>>
  /\ sstatus' = IdleInfo
  /\ UNCHANGED <<running, decision, disconnect, sKnown,
                 crun, cpc, ckey, cKnown, crs, goAway, approved>>

(* run() returns and stop() closes the listening socket, which resets the  *)
(* connections still waiting in its backlog.                               *)
ServerExits ==
  /\ spc = "accept" /\ ~running
  /\ spc' = "stopped"
  /\ s2c' = [c \in Slaves |-> IF cpc[c] = "dial" /\ s2c[c] = <<>>
                              THEN <<Eof>> ELSE s2c[c]]
  /\ UNCHANGED <<running, speer, peerOpen, strust, skey, sstatus, decision,
                 disconnect, kicked, sKnown, c2s,
                 crun, cpc, ckey, cKnown, crs, goAway, history>>

Server ==
  \/ \E c \in Slaves : AcceptConnection(c)
  \/ ServerFlag \/ ServerPubKey \/ ArmPrompt \/ PairingApproved \/ PairingRefused
  \/ ServerIk \/ Reapproved \/ ReapprovalRefused \/ ServerHandshakeFails
  \/ OpenSession \/ ServerReceive \/ ServerSend \/ EndSession \/ ServerExits

-----------------------------------------------------------------------------
(* Master, the UI thread.                                                  *)

(* One step from the status a frame draws to the answer it stores: the few *)
(* instructions between ui.cpp:286 and 289, in which a prompt may go, are  *)
(* not taken apart.                                                        *)
PressAccept ==
  /\ sstatus.state = "Pairing"
  /\ decision' = "Approved"
  /\ approved' = approved \cup {<<sstatus.peer, sstatus.key>>}
  /\ owed' = owed \ {sstatus.peer}
  /\ UNCHANGED <<running, spc, speer, peerOpen, strust, skey, sstatus, disconnect,
                 kicked, sKnown, c2s, slaveVars>>

PressReject ==
  /\ sstatus.state = "Pairing"
  /\ decision' = "Rejected"
  /\ UNCHANGED <<running, spc, speer, peerOpen, strust, skey, sstatus, disconnect,
                 kicked, sKnown, c2s, slaveVars, history>>

PressDisconnect ==
  /\ "disconnect" \in Buttons
  /\ sstatus.state = "Connected"
  /\ disconnect' = TRUE
  /\ UNCHANGED <<running, spc, speer, peerOpen, strust, skey, sstatus, decision,
                 kicked, sKnown, c2s, slaveVars, history>>

(* Forgetting also disconnects a connected device.  A handshake that has   *)
(* already copied the key goes on with its copy, strust, which ends with   *)
(* the connection; every approval is withdrawn at once.                    *)
Forgotten_UnlessServed(c) ==
  IF Serving /\ speer = c THEN sKnown ELSE [sKnown EXCEPT ![c] = NoKey]
Forgotten(c) == [sKnown EXCEPT ![c] = NoKey]

PressForget(c) ==
  /\ "forget" \in Buttons
  /\ sKnown[c] # NoKey
  /\ sKnown' = Forgotten(c)
  /\ disconnect' = (disconnect \/ (sstatus.state = "Connected" /\ sstatus.peer = c))
  /\ approved' = {p \in approved : p[1] # c}
  /\ UNCHANGED <<running, spc, speer, peerOpen, strust, skey, sstatus, decision,
                 kicked, c2s, slaveVars, owed>>

(* Back, or quitting: stop() raises the flag and waits for run() to end.   *)
StopServer ==
  /\ "restart" \in Buttons
  /\ running /\ running' = FALSE
  /\ UNCHANGED <<spc, speer, peerOpen, strust, skey, sstatus, decision, disconnect,
                 kicked, sKnown, c2s, slaveVars, history>>

(* A new TcpServer: what was session-scoped starts empty.                  *)
StartServer ==
  /\ spc = "stopped"
  /\ running' = TRUE /\ spc' = "accept"
  /\ decision' = "Pending" /\ disconnect' = FALSE
  /\ kicked' = {} /\ owed' = {}
  /\ UNCHANGED <<speer, peerOpen, strust, skey, sstatus, sKnown, c2s, slaveVars,
                 approved>>

MasterUser ==
  \/ PressAccept \/ PressReject \/ PressDisconnect \/ StopServer \/ StartServer
  \/ \E c \in Slaves : PressForget(c)

-----------------------------------------------------------------------------
(* Slave c, the background thread.                                         *)

(* run_once returns: close the socket, then wait before the next attempt,  *)
(* unless the outcome or running_ says there is none.                      *)
CloseClient(c, pc) ==
  /\ cpc' = [cpc EXCEPT ![c] = pc]
  /\ s2c' = [s2c EXCEPT ![c] = <<>>]
  /\ crs' = [crs EXCEPT ![c] = FALSE]
  /\ peerOpen' = (peerOpen /\ ~Served(c))
AfterAttempt(c) == IF crun[c] THEN "idle" ELSE "off"

masterLessOpen == <<running, spc, speer, strust, skey, sstatus, decision,
                    disconnect, kicked, sKnown, c2s>>

Dial(c) ==
  /\ cpc[c] = "idle" /\ crun[c] /\ spc # "stopped"
  /\ cpc' = [cpc EXCEPT ![c] = "dial"]
  /\ goAway' = [goAway EXCEPT ![c] = FALSE]
  /\ UNCHANGED <<masterVars, crun, ckey, cKnown, crs, s2c, history>>

(* The Master's id has arrived: look it up and send the own flag.          *)
ClientIds(c) ==
  /\ cpc[c] = "dial" /\ Arrived(c, "flag")
  /\ crs' = [crs EXCEPT ![c] = cKnown[c]]
  /\ c2s' = SentToMaster(c, Flag(IF cKnown[c] THEN 0 ELSE 1))
  /\ cpc' = [cpc EXCEPT ![c] = "flag"]
  /\ UNCHANGED <<running, spc, speer, peerOpen, strust, skey, sstatus, decision,
                 disconnect, kicked, sKnown, crun, ckey, cKnown, goAway, s2c, history>>

ClientFlag(c) ==
  /\ cpc[c] = "flag" /\ Arrived(c, "flag")
  /\ s2c' = [s2c EXCEPT ![c] = Tail(@)]
  /\ IF NeedPairing(crs[c], Head(s2c[c]).v)
     THEN /\ cpc' = [cpc EXCEPT ![c] = "pubkey"]
          /\ c2s' = SentToMaster(c, PubKey(ckey[c]))
     ELSE /\ cpc' = [cpc EXCEPT ![c] = "ik"]
          /\ c2s' = SentToMaster(c, Ik1(ckey[c]))
  /\ UNCHANGED <<running, spc, speer, peerOpen, strust, skey, sstatus, decision,
                 disconnect, kicked, sKnown, crun, ckey, cKnown, crs, goAway, history>>

ClientPubKey(c) ==
  /\ cpc[c] = "pubkey" /\ Arrived(c, "pubkey")
  /\ s2c' = [s2c EXCEPT ![c] = Tail(@)]
  /\ cpc' = [cpc EXCEPT ![c] = "decision"]
  /\ UNCHANGED <<masterVars, crun, ckey, cKnown, crs, goAway, history>>

ClientApproved(c) ==
  /\ cpc[c] = "decision" /\ Arrived(c, "decision") /\ Head(s2c[c]).v = 1
  /\ s2c' = [s2c EXCEPT ![c] = Tail(@)]
  /\ cKnown' = [cKnown EXCEPT ![c] = TRUE]
  /\ crs' = [crs EXCEPT ![c] = TRUE]
  /\ c2s' = SentToMaster(c, Ik1(ckey[c]))
  /\ cpc' = [cpc EXCEPT ![c] = "ik"]
  /\ UNCHANGED <<running, spc, speer, peerOpen, strust, skey, sstatus, decision,
                 disconnect, kicked, sKnown, crun, ckey, goAway, history>>

(* An explicit rejection: kGiveUp, the thread ends; running_ stays up.     *)
ClientRejected(c) ==
  /\ cpc[c] = "decision" /\ Arrived(c, "decision") /\ Head(s2c[c]).v # 1
  /\ CloseClient(c, "off")
  /\ UNCHANGED <<masterLessOpen, crun, ckey, cKnown, goAway, history>>

(* Connected is published and the monitor list sent.                       *)
ClientIk(c) ==
  /\ cpc[c] = "ik" /\ Arrived(c, "ik2")
  /\ s2c' = [s2c EXCEPT ![c] = Tail(@)]
  /\ c2s' = SentToMaster(c, Frame("monitors"))
  /\ cpc' = [cpc EXCEPT ![c] = "session"]
  /\ UNCHANGED <<running, spc, speer, peerOpen, strust, skey, sstatus, decision,
                 disconnect, kicked, sKnown, crun, ckey, cKnown, crs, goAway, history>>

(* Nothing has arrived by the deadline, or the Master closed.              *)
ClientReadEnds_OnCloseOnly(c) == Arrived(c, "eof")
ClientReadEnds(c) == s2c[c] = <<>> \/ Arrived(c, "eof")

ClientHandshakeFails(c) ==
  /\ cpc[c] \in {"dial", "flag", "pubkey", "decision", "ik"}
  /\ ClientReadEnds(c)
  /\ CloseClient(c, AfterAttempt(c))
  /\ UNCHANGED <<masterLessOpen, crun, ckey, cKnown, goAway, history>>

ClientReceive(c) ==
  /\ cpc[c] = "session" /\ s2c[c] # <<>> /\ ~Arrived(c, "eof") /\ crun[c]
  /\ s2c' = [s2c EXCEPT ![c] = Tail(@)]
  /\ goAway' = [goAway EXCEPT ![c] = @ \/ Arrived(c, "goaway")]
  /\ UNCHANGED <<masterVars, crun, cpc, ckey, cKnown, crs, history>>

ClientSend(c) ==
  /\ cpc[c] = "session" /\ Served(c) /\ Len(c2s) < MaxInFlight
  /\ c2s' = SentToMaster(c, Frame("data"))
  /\ UNCHANGED <<running, spc, speer, peerOpen, strust, skey, sstatus, decision,
                 disconnect, kicked, sKnown, slaveVars, history>>

(* Closed, silent for give_up_after_, or stop(): the same end, retried.    *)
ClientEndsSession(c) ==
  /\ cpc[c] = "session"
  /\ ~crun[c] \/ ClientReadEnds(c)
  /\ CloseClient(c, AfterAttempt(c))
  /\ UNCHANGED <<masterLessOpen, crun, ckey, cKnown, goAway, history>>

(* give_up_deadline passed, or stop() noticed during the backoff.          *)
ClientGivesUp(c) ==
  /\ cpc[c] = "idle"
  /\ cpc' = [cpc EXCEPT ![c] = "off"]
  /\ UNCHANGED <<masterVars, crun, ckey, cKnown, crs, goAway, s2c, history>>

Client(c) ==
  \/ Dial(c) \/ ClientIds(c) \/ ClientFlag(c) \/ ClientPubKey(c)
  \/ ClientApproved(c) \/ ClientRejected(c) \/ ClientIk(c)
  \/ ClientHandshakeFails(c) \/ ClientReceive(c) \/ ClientSend(c)
  \/ ClientEndsSession(c) \/ ClientGivesUp(c)

-----------------------------------------------------------------------------
(* Slave c, the UI thread and the machine it runs on.                      *)

PressConnect(c) ==
  /\ cpc[c] = "off"
  /\ crun' = [crun EXCEPT ![c] = TRUE]
  /\ cpc' = [cpc EXCEPT ![c] = "idle"]
  /\ goAway' = [goAway EXCEPT ![c] = FALSE]
  /\ UNCHANGED <<masterVars, ckey, cKnown, crs, s2c, history>>

PressStop(c) ==
  /\ "slavestop" \in Buttons
  /\ crun[c]
  /\ crun' = [crun EXCEPT ![c] = FALSE]
  /\ UNCHANGED <<masterVars, cpc, ckey, cKnown, crs, goAway, s2c, history>>

ForgetMaster(c) ==
  /\ "slaveforget" \in Buttons
  /\ cKnown[c]
  /\ cKnown' = [cKnown EXCEPT ![c] = FALSE]
  /\ crun' = [crun EXCEPT ![c] = @ /\ cpc[c] # "session"]
  /\ UNCHANGED <<masterVars, cpc, ckey, crs, goAway, s2c, history>>

(* The key file is lost between two runs of the program; a new one is      *)
(* generated.  The trust store is another file and survives.               *)
Rekey(c) ==
  /\ "rekey" \in Buttons
  /\ cpc[c] = "off"
  /\ \E k \in Keys \ {ckey[c]} : ckey' = [ckey EXCEPT ![c] = k]
  /\ UNCHANGED <<masterVars, crun, cpc, cKnown, crs, goAway, s2c, history>>

SlaveUser(c) == PressConnect(c) \/ PressStop(c) \/ ForgetMaster(c) \/ Rekey(c)

Next == Server \/ MasterUser \/ \E c \in Slaves : Client(c) \/ SlaveUser(c)

Spec == Init /\ [][Next]_vars
-----------------------------------------------------------------------------
(* Properties.                                                             *)

(* Every variable of tcp_server.cpp and tcp_client.cpp keeps its type.     *)
TypeOK ==
  /\ running \in BOOLEAN /\ spc \in ServerPc /\ peerOpen \in BOOLEAN
  /\ speer \in Slaves \cup {Nobody}
  /\ strust \in Keys \cup {NoKey} /\ skey \in Keys \cup {NoKey}
  /\ sstatus \in [state : {"Idle", "Pairing", "Connected"},
                   peer : Slaves \cup {Nobody}, key : Keys \cup {NoKey}]
  /\ decision \in {"Pending", "Approved", "Rejected"} /\ disconnect \in BOOLEAN
  /\ kicked \subseteq Slaves /\ sKnown \in [Slaves -> Keys \cup {NoKey}]
  /\ c2s \in Seq(ToMaster)
  /\ crun \in [Slaves -> BOOLEAN] /\ cpc \in [Slaves -> ClientPc]
  /\ ckey \in [Slaves -> Keys] /\ cKnown \in [Slaves -> BOOLEAN]
  /\ crs \in [Slaves -> BOOLEAN] /\ goAway \in [Slaves -> BOOLEAN]
  /\ s2c \in [Slaves -> Seq(ToSlave)]
  /\ approved \subseteq Slaves \X Keys /\ owed \subseteq Slaves

(* What each side's next read is written to parse.                         *)
MasterExpects ==
  CASE spc = "flag"   -> {"flag"}
    [] spc = "pubkey" -> {"pubkey"}
    [] spc = "ik"     -> {"ik1"}
    [] spc \in {"reshown", "reprompt", "connected", "session"} -> SlaveFrames
    [] OTHER -> {}
SlaveExpects(c) ==
  CASE cpc[c] \in {"dial", "flag"} -> {"flag"}
    [] cpc[c] = "pubkey"   -> {"pubkey"}
    [] cpc[c] = "decision" -> {"decision"}
    [] cpc[c] = "ik"       -> {"ik2"}
    [] cpc[c] = "session"  -> MasterFrames
    [] OTHER -> {}

(* Whatever each side knew of the other and forgot in between, neither     *)
(* ever reads bytes meant for another step of the handshake (the comment   *)
(* at tcp_server.cpp:155-159: "desyncing the byte stream").                *)
StreamAgreement ==
  /\ c2s # <<>> => Head(c2s).t \in MasterExpects
  /\ \A c \in Slaves :
       s2c[c] # <<>> => Head(s2c[c]).t \in SlaveExpects(c) \cup {"eof"}

(* A Slave the Master threw out, or refused to let back in, still has the  *)
(* GoAway ahead of it or has seen it, unless its key is not the one the    *)
(* Master trusts: the FIN never overtakes the reason (tcp_server.cpp:247). *)
KickedSlaveTold ==
  \A c \in kicked :
    cpc[c] = "session" /\ ~Served(c) /\ sKnown[c] = ckey[c] =>
      goAway[c] \/ \E i \in DOMAIN s2c[c] :
                    /\ s2c[c][i].t = "goaway"
                    /\ \A j \in 1 .. i - 1 : s2c[c][j].t # "eof"

(* For the abstract specification: what the connection is trusted with,    *)
(* an Accept that run() has yet to find, and the session's holder.         *)
Visitor == IF strust # NoKey THEN <<speer, strust>> ELSE Nobody
Answer == IF spc = "prompt" /\ decision = "Approved" THEN <<speer, skey>> ELSE Nobody
Holder == IF InSession THEN <<speer, strust>> ELSE Nobody
Admits == INSTANCE Admission WITH accepted <- approved, barred <- owed, visitor <- Visitor,
                                  answer <- Answer, holder <- Holder

(* The handshake, the prompts, the kick list and Forget only ever admit a  *)
(* device as Admission promises; one that was forgotten while it was       *)
(* served needs a new Accept once it has left (tcp_server.cpp:153-262).    *)
OnlyAdmitted == Admits!Spec

(* Fairness: run() is a thread that is always scheduled and each of its    *)
(* waits has a deadline; nothing is asked of any Slave, nor of the users.  *)
ServerSteps ==
  \/ \E c \in Slaves : AcceptConnection(c)
  \/ ServerFlag \/ ServerPubKey \/ ArmPrompt \/ PairingApproved \/ PairingRefused
  \/ ServerIk \/ Reapproved \/ ReapprovalRefused \/ ServerHandshakeFails
  \/ OpenSession \/ EndSession \/ ServerExits
ServerRuns == WF_vars(ServerSteps)

(* However a Slave stops in the middle of a handshake, and whether or not  *)
(* anyone answers a prompt, the Master gets back to where it serves others *)
(* (the deadlines of tcp_server.cpp:144,162,173,188,209).                  *)
ServerNeverWedged == ServerRuns => []<>(spc \in {"accept", "session", "stopped"})

(* stop() on the Master's server returns: it joins run() (tcp_server.cpp:  *)
(* 87-89), which looks at running_ in every loop it waits in.              *)
ServerStops == ServerRuns => ((~running) ~> (spc = "stopped"))

(* Fairness of the Slaves' threads alone, whatever the Master does.        *)
ClientRuns(c) ==
  /\ WF_vars(ClientIds(c) \/ ClientFlag(c) \/ ClientPubKey(c) \/ ClientApproved(c)
             \/ ClientRejected(c) \/ ClientIk(c) \/ ClientHandshakeFails(c)
             \/ ClientEndsSession(c))
  /\ WF_vars(~crun[c] /\ ClientGivesUp(c))

(* stop() on a Slave's client returns even when the Master never sends     *)
(* another byte: every read of the handshake has a deadline, the longest   *)
(* two minutes, and only the session loop and the backoff look at running_ *)
(* (tcp_client.cpp:91-94,145,165,177,195,216,262,408).                     *)
ClientStops ==
  \A c \in Slaves : ClientRuns(c) => ((~crun[c]) ~> (cpc[c] = "off"))
=============================================================================
