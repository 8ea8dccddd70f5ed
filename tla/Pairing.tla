------------------------------ MODULE Pairing ------------------------------
(***************************************************************************)
(* The trust stores of a Master and a Slave, and the handshake that reads   *)
(* and changes both: each end looks the other up, says whether it wants to  *)
(* pair, and unless neither does the Master's user is asked and both store  *)
(* the other's key, first the Master and then the Slave.  Either process    *)
(* may die, and either user may forget the other, at any moment in between. *)
(* The Slave's thread dials again after a failure, but not for ever.        *)
(***************************************************************************)
EXTENDS TrustStore

CONSTANTS Master, Slave,
          Other,     \* another Slave, which the Master pairs with too
          OtherKey,  \* its key
          Unread,    \* a lookup that has not been made yet
          Writable   \* the machines that can store an identity_keys file

ASSUME EndAssumption ==
  Machines = {Master, Slave} /\ Master # Slave /\ Devices = {Master, Slave, Other}
ASSUME IdentityAssumption == OtherKey \in Keys /\ Unread \notin Keys \cup {NoKey}

VARIABLES
  ident,     \* own_static_.public_key of a machine's TcpServer or TcpClient
  handshake, \* {}, or the connection: its step, the ends that still work on
             \* it, trusted_pubkey (mTrust) and rs (sTrust)
  dialing    \* the thread of the Slave's TcpClient: there is none or it has
             \* returned, it has not tried yet, or it tries again and again

pairVars == <<storeVars, ident, handshake, dialing>>

Steps == {"look", "prompt", "storing", "approved", "slaveStoring", "ik", "session"}
Handshakes == [step : Steps, ends : SUBSET Machines,
               mTrust : Keys \cup {NoKey, Unread}, sTrust : Keys \cup {NoKey, Unread}]

PairInit ==
  /\ StoreInit
  /\ ident \in {f \in [Machines -> Keys \ {OtherKey}] : f[Master] # f[Slave]}
  /\ handshake = {} /\ dialing = "stopped"

(* get_or_create_static_keypair, which every TcpServer and TcpClient       *)
(* calls: a key pair that could not be stored is not found again.          *)
NewIdentity(m) ==
  IF m \in Writable THEN UNCHANGED ident
  ELSE \E k \in Keys \ ({OtherKey} \cup {ident[n] : n \in Machines}) :
         ident' = [ident EXCEPT ![m] = k]

Both(h)      == h.ends = Machines
Advance(h, step) == handshake' = {[h EXCEPT !.step = step]}
Without(m)   == {[h EXCEPT !.ends = @ \ {m}] : h \in handshake}
AtStep(h, step, m) == h.step = step /\ m \in h.ends
SlaveFree    == \A h \in handshake : Slave \notin h.ends

-----------------------------------------------------------------------------
(* The thread that dials.  The Master serves one connection at a time.     *)
Dial ==
  /\ dialing # "stopped"
  /\ handshake = {} /\ Up(Master) /\ Up(Slave)
  /\ handshake' = {[step |-> "look", ends |-> Machines, mTrust |-> Unread, sTrust |-> Unread]}
  /\ dialing' = "retrying"
  /\ UNCHANGED <<storeVars, ident>>

(* The Master is down, or does not come to this connection in time.        *)
NotReached ==
  /\ dialing = "new" /\ SlaveFree
  /\ ~Up(Master) \/ handshake # {}
  /\ dialing' = "retrying"
  /\ UNCHANGED <<storeVars, ident, handshake>>

(* give_up_deadline has passed and no attempt is under way.                *)
GivesUp ==
  /\ dialing = "retrying" /\ SlaveFree
  /\ dialing' = "stopped"
  /\ UNCHANGED <<storeVars, ident, handshake>>

(* Another TcpClient, whose thread has not tried yet.                      *)
Connect ==
  /\ handshake' = Without(Slave)
  /\ dialing' = "new"
  /\ NewIdentity(Slave)

(* The user of a Slave that dials nobody presses Connect.                  *)
PressConnect ==
  /\ Up(Slave) /\ dialing = "stopped"
  /\ Connect
  /\ UNCHANGED storeVars

(* pump_auto_connect dials a Master the Slave trusts, also while another   *)
(* thread sleeps between two attempts.                                     *)
AutoConnect ==
  /\ Unlocked(Slave) /\ SlaveFree /\ mem[Slave][Master] # NoKey
  /\ Connect
  /\ UNCHANGED storeVars

-----------------------------------------------------------------------------
(* The handshake.                                                          *)

MasterLooks(h) ==
  /\ AtStep(h, "look", Master) /\ h.mTrust = Unread /\ Unlocked(Master)
  /\ handshake' = {[h EXCEPT !.mTrust = mem[Master][Slave]]}
  /\ UNCHANGED <<storeVars, ident, dialing>>

SlaveLooks(h) ==
  /\ AtStep(h, "look", Slave) /\ h.sTrust = Unread /\ Unlocked(Slave)
  /\ handshake' = {[h EXCEPT !.sTrust = mem[Slave][Master]]}
  /\ UNCHANGED <<storeVars, ident, dialing>>

(* need_pairing, from the own lookup and the flag the other end sent.      *)
NeedsPairing_OwnOnly(own, peers) == own = NoKey
NeedsPairing(own, peers) == own = NoKey \/ peers = NoKey

(* Ends that disagree read each other's bytes as something else, and fail; *)
(* ends that both pair exchange their public keys.                         *)
FlagsMeet(h) ==
  /\ h.step = "look" /\ Both(h) /\ Unread \notin {h.mTrust, h.sTrust}
  /\ LET master == NeedsPairing(h.mTrust, h.sTrust)
         slave  == NeedsPairing(h.sTrust, h.mTrust)
     IN  IF master # slave THEN handshake' = {}
         ELSE IF ~master THEN Advance(h, "ik")
         ELSE handshake' = {[h EXCEPT !.step = "prompt", !.mTrust = ident[Slave],
                                      !.sTrust = ident[Master]]}
  /\ UNCHANGED <<storeVars, ident, dialing>>

(* Accept on the prompt: also when the Slave is gone by then.              *)
MasterApproves(h) ==
  /\ AtStep(h, "prompt", Master)
  /\ Remember(Master, Slave, h.mTrust)
  /\ Advance(h, "storing")
  /\ UNCHANGED <<ident, dialing>>

(* Reject, or nobody answers: kPairingRejected, after which the Slave does  *)
(* not dial again, unless its own wait for the byte has ended just before. *)
PromptEnds(h) ==
  /\ AtStep(h, "prompt", Master)
  /\ handshake' = {}
  /\ dialing' \in IF Slave \in h.ends THEN {"stopped", "retrying"} ELSE {dialing}
  /\ UNCHANGED <<storeVars, ident>>

(* The decision byte leaves before remember() is called: by the time the   *)
(* Slave reads it, the Master may or may not be done storing.              *)
DecisionArrives(h) ==
  /\ AtStep(h, "storing", Slave)
  /\ Advance(h, "approved")
  /\ UNCHANGED <<storeVars, ident, dialing>>

SlaveRemembers(h) ==
  /\ AtStep(h, "approved", Slave)
  /\ Remember(Slave, Master, h.sTrust)
  /\ Advance(h, "slaveStoring")
  /\ UNCHANGED <<ident, dialing>>

SlaveStored(h) ==
  /\ AtStep(h, "slaveStoring", Slave) /\ Unlocked(Slave)
  /\ Advance(h, "ik")
  /\ UNCHANGED <<storeVars, ident, dialing>>

(* The IK handshake: the Slave encrypts to the key it trusts, and the      *)
(* Master compares the static key it is shown with the one it trusts.      *)
IkEnds(h) ==
  /\ h.step = "ik" /\ Both(h) /\ Unlocked(Master)
  /\ IF h.sTrust = ident[Master] /\ h.mTrust = ident[Slave]
     THEN Advance(h, "session") ELSE handshake' = {}
  /\ UNCHANGED <<storeVars, ident, dialing>>

(* One end is gone: the other meets the end of the stream or its deadline. *)
Abandoned(h) ==
  /\ ~Both(h)
  /\ handshake' = {}
  /\ UNCHANGED <<storeVars, ident, dialing>>

(* Disconnect on the Slave drops its TcpClient, any other end is kRetryFast. *)
SessionEnds(h) ==
  /\ h.step = "session"
  /\ handshake' = {}
  /\ dialing' \in {"stopped", "retrying"}
  /\ UNCHANGED <<storeVars, ident>>

Handshake(h) ==
  \/ MasterLooks(h) \/ SlaveLooks(h) \/ FlagsMeet(h) \/ MasterApproves(h) \/ PromptEnds(h)
  \/ DecisionArrives(h) \/ SlaveRemembers(h) \/ SlaveStored(h) \/ IkEnds(h)
  \/ Abandoned(h) \/ SessionEnds(h)

-----------------------------------------------------------------------------
(* What else changes a store or ends a handshake.                          *)

(* Another Slave pairs with the Master while no connection is served.      *)
PairOther ==
  /\ handshake = {} /\ mem[Master][Other] = NoKey
  /\ Remember(Master, Other, OtherKey)
  /\ UNCHANGED <<ident, handshake, dialing>>

(* Forget also ends a session with the device, and only a session.         *)
PressForget(m, d) ==
  /\ Forget(m, d)
  /\ handshake' = IF d = Other THEN handshake
                  ELSE {h \in handshake : h.step # "session"}
  /\ dialing' = IF m = Slave /\ handshake' # handshake THEN "stopped" ELSE dialing
  /\ UNCHANGED ident

EndLost(m) ==
  /\ \E h \in handshake : m \in h.ends
  /\ Mishap("lost")
  /\ handshake' = Without(m)
  /\ UNCHANGED <<mem, file, torn, doing, leaving, word, intact, ident, dialing>>

(* A new TcpServer takes the place of the old one, or Connect is pressed   *)
(* with an attempt under way: the old thread is joined first.              *)
Replaced(m) ==
  /\ Unlocked(m)
  /\ Mishap("replaced")
  /\ \/ m = Slave /\ Connect
     \/ m = Master /\ handshake' = Without(m) /\ NewIdentity(m) /\ UNCHANGED dialing
  /\ UNCHANGED <<mem, file, torn, doing, leaving, word, intact>>

Dies(m) == /\ Crash(m)
           /\ handshake' = Without(m)
           /\ dialing' = IF m = Slave THEN "stopped" ELSE dialing
           /\ UNCHANGED ident

(* The Slave has no TcpClient yet.                                         *)
Restarts(m) == /\ Start(m)
               /\ IF m = Master THEN NewIdentity(m) ELSE UNCHANGED ident
               /\ UNCHANGED <<handshake, dialing>>

Stores(m) == Save(m) /\ UNCHANGED <<ident, handshake, dialing>>

StoreFails(m) == (OpenRefused(m) \/ WriteShort(m)) /\ UNCHANGED <<ident, handshake, dialing>>

PairNext ==
  \/ Dial \/ NotReached \/ GivesUp \/ PressConnect \/ AutoConnect \/ PairOther
  \/ \E h \in handshake : Handshake(h)
  \/ \E m \in Machines : \/ EndLost(m) \/ Replaced(m) \/ Dies(m) \/ Restarts(m)
                         \/ Stores(m) \/ StoreFails(m)
                         \/ \E d \in Devices : PressForget(m, d)

(* The threads run: a thread that still dials tries again.  The rest is    *)
(* asked of the users: a program that died is started again, Connect is    *)
(* pressed on a Slave whose thread stopped after a rejection or at its     *)
(* deadline (AutoConnect need not help: it dials trusted Masters only, and *)
(* may be off), and a prompt shown again and again is accepted one day.    *)
Fairness ==
  /\ WF_pairVars(Dial) /\ WF_pairVars(PressConnect)
  /\ SF_pairVars(\E h \in handshake : MasterApproves(h))
  /\ WF_pairVars(\E h \in handshake : MasterLooks(h))
  /\ WF_pairVars(\E h \in handshake : SlaveLooks(h))
  /\ WF_pairVars(\E h \in handshake :
       \/ FlagsMeet(h) \/ DecisionArrives(h) \/ SlaveRemembers(h)
       \/ SlaveStored(h) \/ IkEnds(h) \/ Abandoned(h))
  /\ \A m \in Machines : WF_pairVars(Stores(m)) /\ WF_pairVars(Restarts(m))

PairSpec == PairInit /\ [][PairNext]_pairVars /\ Fairness

TypeOK == /\ StoreTypeOK
          /\ ident \in [Machines -> Keys]
          /\ handshake \subseteq Handshakes
          /\ dialing \in {"stopped", "new", "retrying"}

(* Whatever trust a crash, a lost connection, a full disk or a Forget took *)
(* from one end only, the two find back to a session if the Slave's user   *)
(* presses Connect when nothing dials any more and the Master's accepts: no *)
(* trust is left over that stands in the way, for an end that still knows  *)
(* the other pairs again with one that does not (tcp_server.cpp:155-168,   *)
(* "otherwise one side (e.g. after the other end forgot it) could skip     *)
(* straight into an IK message").                                          *)
Heals == []<>(\E h \in handshake : h.step = "session")
=============================================================================
