---------------------------- MODULE SessionProofs ----------------------------
(***************************************************************************)
(* For any number of Slaves, keys and buttons: whatever a Slave sends and  *)
(* whenever the users press what, the Master's session is only ever held   *)
(* as Admission promises; the two ends of a connection never read past     *)
(* each other; and a Slave that was thrown out gets to read why.           *)
(***************************************************************************)
EXTENDS Session, SequenceTheorems, TLAPS

Typed ==
  /\ spc \in ServerPc
  /\ Serving => speer \in Slaves
  /\ c2s \in Seq(ToMaster)
  /\ ckey \in [Slaves -> Keys] /\ sKnown \in [Slaves -> Keys \cup {NoKey}]
  /\ approved \subseteq Slaves \X Keys

(* What the trust store holds was accepted and not forgotten; the copy     *)
(* that run() works with lives no longer than the connection, and the      *)
(* handshake's last message and the session cannot do without it.          *)
KnownAccepted == \A c \in Slaves : sKnown[c] # NoKey => <<c, sKnown[c]>> \in approved
CopyServed ==
  /\ strust \in Keys \cup {NoKey}
  /\ strust # NoKey => Serving
  /\ spc \in {"ik", "reshown", "reprompt", "connected", "session"} => strust # NoKey

(* A prompt shows the device that waits for it, with the key it would be   *)
(* trusted with; so does what is left of a prompt during the handshake.    *)
Shows(k) == sstatus = Info("Pairing", speer, k)
PromptShown ==
  /\ spc \in {"shown", "prompt"} => skey \in Keys /\ Shows(skey)
  /\ spc \in {"reshown", "reprompt"} => Shows(strust)
  /\ spc = "ik" /\ sstatus.state = "Pairing" => Shows(strust)
  /\ sstatus.state = "Pairing" => spc \in {"shown", "prompt", "ik", "reshown", "reprompt"}

(* An Approved that run() will act on was pressed on this very prompt, so  *)
(* whoever it is for owes none.                                            *)
AnswerIsOwn ==
  decision = "Approved" /\ spc \in {"prompt", "reprompt"} => speer \notin owed

(* Nobody who owes an approval is missing from the kick list.              *)
OwedKicked == owed \subseteq kicked

IInv == Typed /\ KnownAccepted /\ CopyServed /\ PromptShown /\ AnswerIsOwn /\ OwedKicked

-----------------------------------------------------------------------------
(* The steps that matter to none of this, and the end of a connection.     *)

seen == <<spc, speer, strust, skey, sstatus, decision, kicked, sKnown, history>>

LEMMA QuietKeeps ==
  ASSUME IInv, UNCHANGED seen, c2s' \in Seq(ToMaster), ckey' \in [Slaves -> Keys]
  PROVE  IInv'
BY DEF IInv, Typed, KnownAccepted, CopyServed, PromptShown, Shows, AnswerIsOwn, OwedKicked,
       Serving, seen, history

LEMMA CloseKeeps ==
  ASSUME IInv, spc' = "accept", strust' = NoKey, c2s' = <<>>, sstatus' = IdleInfo,
         UNCHANGED <<ckey, sKnown, approved>>, owed' \subseteq kicked'
  PROVE  IInv'
BY DEF IInv, Typed, KnownAccepted, CopyServed, PromptShown, AnswerIsOwn, OwedKicked,
       Serving, ServerPc, IdleInfo

LEMMA TailTyped == ASSUME c2s \in Seq(ToMaster), c2s # <<>>
                   PROVE  Tail(c2s) \in Seq(ToMaster) /\ Head(c2s) \in ToMaster
OBVIOUS

LEMMA KeyReceived ==
  ASSUME c2s \in Seq(ToMaster), Received("pubkey")
  PROVE  Head(c2s).v \in Keys
<1>1. Head(c2s) \in ToMaster /\ Head(c2s).t = "pubkey"
  BY TailTyped DEF Received
<1>2. \A m \in ToMaster : m.t = "pubkey" => m.v \in Keys
  BY DEF ToMaster, Flag, PubKey, Ik1, FrameMsg, Frame, SlaveFrames
<1> QED
  BY <1>1, <1>2

-----------------------------------------------------------------------------
(* The Master's thread.                                                    *)

LEMMA AcceptConnectionKeeps == ASSUME IInv, NEW c \in Slaves, AcceptConnection(c) PROVE IInv'
<1> USE DEF IInv, AcceptConnection, history
<1>1. Typed' /\ KnownAccepted' /\ OwedKicked'
  BY DEF Typed, KnownAccepted, OwedKicked, Serving, ServerPc
<1>2. CopyServed'
  BY DEF CopyServed, KnownAccepted, Typed, Serving
<1>3. PromptShown' /\ AnswerIsOwn'
  BY DEF PromptShown, AnswerIsOwn
<1> QED
  BY <1>1, <1>2, <1>3

LEMMA ServerFlagKeeps == ASSUME IInv, ServerFlag PROVE IInv'
<1> USE DEF IInv, ServerFlag, history
<1>1. c2s' \in Seq(ToMaster)
  BY TailTyped DEF Typed, Received
<1>2. spc' \in {"pubkey", "ik"} /\ (spc' = "ik" => strust # NoKey)
  BY DEF NeedPairing
<1>3. Typed' /\ KnownAccepted' /\ OwedKicked'
  BY <1>1, <1>2 DEF Typed, KnownAccepted, OwedKicked, Serving, ServerPc
<1>4. CopyServed' /\ PromptShown' /\ AnswerIsOwn'
  BY <1>2 DEF CopyServed, PromptShown, AnswerIsOwn, Serving
<1> QED
  BY <1>3, <1>4

LEMMA ServerPubKeyKeeps == ASSUME IInv, ServerPubKey PROVE IInv'
<1> USE DEF IInv, ServerPubKey, history, slaveVars
<1>1. c2s' \in Seq(ToMaster) /\ skey' \in Keys
  BY TailTyped, KeyReceived DEF Typed, Received
<1>2. Typed' /\ KnownAccepted' /\ OwedKicked'
  BY <1>1 DEF Typed, KnownAccepted, OwedKicked, Serving, ServerPc
<1>3. CopyServed' /\ PromptShown' /\ AnswerIsOwn'
  BY <1>1 DEF CopyServed, PromptShown, AnswerIsOwn, Serving, Shows, Info
<1> QED
  BY <1>2, <1>3

LEMMA ArmPromptKeeps == ASSUME IInv, ArmPrompt PROVE IInv'
BY DEF IInv, ArmPrompt, Armed, slaveVars, history, Typed, KnownAccepted, CopyServed,
       PromptShown, Shows, AnswerIsOwn, OwedKicked, Serving, ServerPc

LEMMA PairingApprovedKeeps == ASSUME IInv, PairingApproved PROVE IInv'
<1> USE DEF IInv, PairingApproved, history
<1>1. skey \in Keys /\ Shows(skey) /\ speer \in Slaves
  BY DEF PromptShown, Typed, Serving
<1>2. Typed' /\ KnownAccepted' /\ OwedKicked'
  BY <1>1 DEF Typed, KnownAccepted, OwedKicked, Serving, ServerPc
<1>3. CopyServed' /\ PromptShown' /\ AnswerIsOwn'
  BY <1>1, KeyAssumption DEF CopyServed, PromptShown, AnswerIsOwn, Shows, Serving
<1> QED
  BY <1>2, <1>3

LEMMA ServerIkKeeps == ASSUME IInv, ServerIk PROVE IInv'
<1> USE DEF IInv, ServerIk, history
<1>1. CASE Head(c2s).v # strust
  BY <1>1, CloseKeeps DEF CloseServed, OwedKicked
<1>2. CASE Head(c2s).v = strust
  <2>1. c2s' \in Seq(ToMaster)
    BY <1>2, TailTyped DEF Typed, Received
  <2>2. \/ spc' = "reshown" /\ sstatus' = Info("Pairing", speer, strust)
        \/ spc' = "connected" /\ sstatus' = Info("Connected", speer, NoKey)
    BY <1>2
  <2>3. Typed' /\ KnownAccepted' /\ OwedKicked'
    BY <1>2, <2>1, <2>2 DEF Typed, KnownAccepted, OwedKicked, Serving, ServerPc
  <2>4. CopyServed' /\ PromptShown' /\ AnswerIsOwn'
    BY <1>2, <2>2 DEF CopyServed, PromptShown, AnswerIsOwn, Shows, Info, Serving
  <2> QED
    BY <2>3, <2>4
<1> QED
  BY <1>1, <1>2

LEMMA ReapprovedKeeps == ASSUME IInv, Reapproved PROVE IInv'
<1> USE DEF IInv, Reapproved, history, slaveVars
<1>1. Typed' /\ KnownAccepted'
  BY DEF Typed, KnownAccepted, Serving, ServerPc
<1>2. OwedKicked'
  BY DEF OwedKicked, AnswerIsOwn
<1>3. CopyServed' /\ PromptShown' /\ AnswerIsOwn'
  BY DEF CopyServed, PromptShown, AnswerIsOwn, Info, Serving
<1> QED
  BY <1>1, <1>2, <1>3

LEMMA RefusedKeeps ==
  ASSUME IInv, PairingRefused \/ ReapprovalRefused \/ ServerHandshakeFails PROVE IInv'
BY CloseKeeps DEF PairingRefused, ReapprovalRefused, ServerHandshakeFails, CloseServed, history,
                  IInv, OwedKicked

LEMMA OpenSessionKeeps == ASSUME IInv, OpenSession PROVE IInv'
BY DEF IInv, OpenSession, history, Typed, KnownAccepted, CopyServed, PromptShown, Shows,
       AnswerIsOwn, OwedKicked, Serving, ServerPc

LEMMA EndSessionKeeps == ASSUME IInv, EndSession PROVE IInv'
<1>1. owed' \subseteq kicked'
  BY DEF EndSession, IInv, OwedKicked
<1> QED
  BY <1>1, CloseKeeps DEF EndSession, CloseServed

LEMMA ServerExitsKeeps == ASSUME IInv, ServerExits PROVE IInv'
BY DEF IInv, ServerExits, history, Typed, KnownAccepted, CopyServed, PromptShown,
       AnswerIsOwn, OwedKicked, Serving, ServerPc

LEMMA ServerKeeps == ASSUME IInv, Server PROVE IInv'
<1>1. CASE ServerReceive
  BY <1>1, QuietKeeps, TailTyped DEF ServerReceive, seen, history, slaveVars, IInv, Typed
<1>2. CASE ServerSend
  BY <1>2, QuietKeeps DEF ServerSend, seen, history, masterVars, IInv, Typed
<1> QED
  BY <1>1, <1>2, AcceptConnectionKeeps, ServerFlagKeeps, ServerPubKeyKeeps, ArmPromptKeeps,
     PairingApprovedKeeps, RefusedKeeps, ServerIkKeeps, ReapprovedKeeps, OpenSessionKeeps,
     EndSessionKeeps, ServerExitsKeeps DEF Server

-----------------------------------------------------------------------------
(* The Master's user.                                                      *)

LEMMA PressAcceptKeeps == ASSUME IInv, PressAccept PROVE IInv'
<1> USE DEF IInv, PressAccept, slaveVars
<1>1. /\ spc \in {"shown", "prompt", "ik", "reshown", "reprompt"} /\ speer \in Slaves
      /\ sstatus.peer = speer /\ sstatus.key \in Keys
      /\ spc \in {"shown", "prompt"} => sstatus.key = skey
  <2>1. spc \in {"shown", "prompt", "ik", "reshown", "reprompt"} /\ speer \in Slaves
    BY DEF PromptShown, Typed, Serving
  <2>2. CASE spc \in {"shown", "prompt"}
    BY <2>1, <2>2 DEF PromptShown, Shows, Info
  <2>3. CASE spc \in {"ik", "reshown", "reprompt"}
    BY <2>1, <2>3 DEF PromptShown, Shows, Info, CopyServed, Typed
  <2> QED
    BY <2>1, <2>2, <2>3
<1>2. Typed' /\ KnownAccepted' /\ CopyServed' /\ PromptShown' /\ OwedKicked'
  BY <1>1 DEF Typed, KnownAccepted, CopyServed, PromptShown, Shows, OwedKicked, Serving
<1>3. AnswerIsOwn'
  BY <1>1 DEF AnswerIsOwn
<1> QED
  BY <1>2, <1>3

LEMMA PressForgetKeeps == ASSUME IInv, NEW c \in Slaves, PressForget(c) PROVE IInv'
<1> USE DEF IInv, PressForget, Forgotten, slaveVars
<1>1. Typed' /\ PromptShown' /\ OwedKicked' /\ CopyServed' /\ AnswerIsOwn'
  BY DEF Typed, PromptShown, Shows, OwedKicked, Serving, CopyServed, AnswerIsOwn
<1>2. KnownAccepted'
  BY DEF KnownAccepted, Typed
<1> QED
  BY <1>1, <1>2

LEMMA MasterUserKeeps == ASSUME IInv, MasterUser PROVE IInv'
<1>1. CASE PressReject
  BY <1>1 DEF PressReject, slaveVars, history, IInv, Typed, KnownAccepted, CopyServed,
              PromptShown, Shows, AnswerIsOwn, OwedKicked, Serving
<1>2. CASE PressDisconnect \/ StopServer
  BY <1>2, QuietKeeps DEF PressDisconnect, StopServer, seen, history, slaveVars, IInv, Typed
<1>3. CASE StartServer
  BY <1>3 DEF StartServer, slaveVars, IInv, Typed, KnownAccepted, CopyServed, PromptShown,
              AnswerIsOwn, OwedKicked, Serving, ServerPc
<1> QED
  BY <1>1, <1>2, <1>3, PressAcceptKeeps, PressForgetKeeps DEF MasterUser

-----------------------------------------------------------------------------
(* The Slaves: what they send is typed, and nothing else of it matters.    *)

LEMMA SentTyped ==
  ASSUME Typed, NEW c \in Slaves, NEW m \in ToMaster
  PROVE  SentToMaster(c, m) \in Seq(ToMaster)
BY DEF Typed, SentToMaster

LEMMA ClientKeeps == ASSUME IInv, NEW c \in Slaves, Client(c) \/ SlaveUser(c) PROVE IInv'
<1> USE DEF IInv
<1>1. UNCHANGED seen
  BY DEF Client, Dial, ClientIds, ClientFlag, ClientPubKey, ClientApproved, ClientRejected,
         ClientIk, ClientHandshakeFails, ClientReceive, ClientSend, ClientEndsSession,
         ClientGivesUp, SlaveUser, PressConnect, PressStop, ForgetMaster, Rekey,
         masterLessOpen, masterVars, history, seen
<1>2. ckey' \in [Slaves -> Keys]
  BY DEF Client, Dial, ClientIds, ClientFlag, ClientPubKey, ClientApproved, ClientRejected,
         ClientIk, ClientHandshakeFails, ClientReceive, ClientSend, ClientEndsSession,
         ClientGivesUp, SlaveUser, PressConnect, PressStop, ForgetMaster, Rekey, slaveVars, Typed
<1>3. \A b \in Bit : Flag(b) \in ToMaster
  BY DEF ToMaster
<1>4. PubKey(ckey[c]) \in ToMaster /\ Ik1(ckey[c]) \in ToMaster
  BY DEF ToMaster, Typed
<1>5. Frame("monitors") \in ToMaster /\ Frame("data") \in ToMaster
  BY DEF ToMaster, FrameMsg, SlaveFrames
<1>6. \/ UNCHANGED c2s
      \/ \E m \in ToMaster : c2s' = SentToMaster(c, m)
  <2>1. CASE ClientIds(c)
    BY <1>3, <2>1 DEF ClientIds, Bit
  <2>2. CASE ClientFlag(c)
    BY <1>4, <2>2 DEF ClientFlag
  <2>3. CASE ClientApproved(c)
    BY <1>4, <2>3 DEF ClientApproved
  <2>4. CASE ClientIk(c) \/ ClientSend(c)
    BY <1>5, <2>4 DEF ClientIk, ClientSend
  <2>5. CASE \/ Dial(c) \/ ClientPubKey(c) \/ ClientRejected(c) \/ ClientHandshakeFails(c)
             \/ ClientReceive(c) \/ ClientEndsSession(c) \/ ClientGivesUp(c) \/ SlaveUser(c)
    BY <2>5 DEF Dial, ClientPubKey, ClientRejected, ClientHandshakeFails, ClientReceive,
                ClientEndsSession, ClientGivesUp, SlaveUser, PressConnect, PressStop,
                ForgetMaster, Rekey, masterLessOpen, masterVars
  <2> QED
    BY <2>1, <2>2, <2>3, <2>4, <2>5 DEF Client
<1>7. c2s' \in Seq(ToMaster)
  BY <1>6, SentTyped DEF Typed
<1> QED
  BY <1>1, <1>2, <1>7, QuietKeeps

LEMMA Initially == Init => IInv
<1> SUFFICES ASSUME Init PROVE IInv
  OBVIOUS
<1>1. Typed /\ KnownAccepted /\ CopyServed
  BY DEF Init, Typed, KnownAccepted, CopyServed, Serving, ServerPc
<1>2. PromptShown /\ AnswerIsOwn /\ OwedKicked
  BY DEF Init, PromptShown, AnswerIsOwn, OwedKicked, IdleInfo
<1> QED
  BY <1>1, <1>2 DEF IInv

(* No step of a thread or a user, on either side, breaks the invariant.    *)
THEOREM Inductive == Spec => []IInv
<1>1. IInv /\ UNCHANGED vars => IInv'
  BY QuietKeeps DEF vars, masterVars, slaveVars, seen, IInv, Typed
<1>2. IInv /\ [Next]_vars => IInv'
  BY <1>1, ServerKeeps, MasterUserKeeps, ClientKeeps DEF Next
<1> QED
  BY <1>2, Initially, PTL DEF Spec

-----------------------------------------------------------------------------
(* Refinement of Admission.  The copy of the trust store is the visitor,   *)
(* an Accept on an armed prompt the answer: a connection that is accepted  *)
(* knocks, run() remembers, admits and closes, and four buttons accept,    *)
(* take back, forget and restart.  Nothing else is seen.                   *)

AdmitsStep == [Admits!Next]_Admits!admissionVars

LEMMA Unseen ==
  ASSUME UNCHANGED <<approved, owed>>, Visitor' = Visitor, Answer' = Answer, Holder' = Holder
  PROVE  AdmitsStep
BY DEF AdmitsStep, Admits!admissionVars

(* Where run() looks neither for an answer nor after a session.            *)
LEMMA Unasked == ASSUME spc # "prompt" PROVE Answer = Nobody
BY DEF Answer

LEMMA OutOfSession == ASSUME ~InSession PROVE Holder = Nobody
BY DEF Holder

LEMMA SameDoor ==
  ASSUME UNCHANGED <<spc, speer, strust, skey>>
  PROVE  Visitor' = Visitor /\ Holder' = Holder /\ (decision' = decision => Answer' = Answer)
BY DEF Visitor, Holder, Answer, InSession

(* The steps of run() on the way to an answer or a session.                *)
LEMMA OnTheWay ==
  ASSUME spc # "prompt", UNCHANGED <<speer, strust, approved, owed>>, InSession' = InSession,
         Answer' = Nobody
  PROVE  AdmitsStep
BY Unseen, Unasked DEF Visitor, Holder

LEMMA ClosedLeaves ==
  ASSUME spc' = "accept", strust' = NoKey, UNCHANGED <<approved, owed>>
  PROVE  AdmitsStep
<1>1. Visitor' = Nobody /\ Answer' = Nobody /\ Holder' = Nobody
  BY DEF Visitor, Answer, Holder, InSession
<1>2. Admits!Leave
  BY <1>1 DEF Admits!Leave, Admits!Gone
<1> QED
  BY <1>2 DEF AdmitsStep, Admits!Next

LEMMA AcceptConnectionKnocks ==
  ASSUME IInv, NEW c \in Slaves, AcceptConnection(c) PROVE AdmitsStep
<1>1. /\ spc = "accept" /\ spc' = "flag" /\ speer' = c /\ strust' = sKnown[c]
      /\ UNCHANGED <<approved, owed>>
  BY DEF AcceptConnection, history
<1>2. Answer = Nobody /\ Answer' = Nobody /\ Holder = Nobody /\ Holder' = Nobody
  BY <1>1 DEF Answer, Holder, InSession
<1>3. Visitor = Nobody
  BY <1>1 DEF Visitor, IInv, CopyServed, Serving
<1>4. CASE sKnown[c] = NoKey
  <2>1. Visitor' = Nobody
    BY <1>1, <1>4 DEF Visitor
  <2> QED
    BY <1>1, <1>2, <1>3, <2>1, Unseen
<1>5. CASE sKnown[c] # NoKey
  <2>1. Visitor' = <<c, sKnown[c]>>
    BY <1>1, <1>5 DEF Visitor
  <2>2. sKnown[c] \in Keys /\ <<c, sKnown[c]>> \in approved
    BY <1>5 DEF IInv, Typed, KnownAccepted
  <2>3. Admits!Knock(c, sKnown[c])
    BY <1>1, <1>2, <1>3, <2>1, <2>2 DEF Admits!Knock
  <2> QED
    BY <2>2, <2>3 DEF AdmitsStep, Admits!Next
<1> QED
  BY <1>4, <1>5

LEMMA PairingApprovedRemembers == ASSUME IInv, PairingApproved PROVE AdmitsStep
<1>1. /\ spc = "prompt" /\ decision = "Approved" /\ spc' = "ik" /\ strust' = skey
      /\ UNCHANGED <<speer, owed>> /\ approved' = approved \cup {<<speer, skey>>}
      /\ speer \in Slaves /\ skey \in Keys
  BY DEF PairingApproved, IInv, Typed, PromptShown, Serving
<1>2. Answer = <<speer, skey>> /\ Answer' = Nobody /\ Visitor' = <<speer, skey>>
  BY <1>1, KeyAssumption DEF Answer, Visitor
<1>3. Answer # Nobody
  <2>1. <<speer, skey>> \in Slaves \X Keys
    BY <1>1
  <2> QED
    BY <1>2, <2>1, NobodyAssumption
<1>4. Holder = Nobody /\ Holder' = Nobody
  BY <1>1 DEF Holder, InSession
<1>5. Admits!Remember
  BY <1>1, <1>2, <1>3, <1>4 DEF Admits!Remember
<1> QED
  BY <1>5 DEF AdmitsStep, Admits!Next

(* The copy that the handshake was made with is what is admitted.          *)
LEMMA VisitorAdmitted ==
  ASSUME IInv, spc \in {"ik", "reprompt"}, spc' = "connected",
         speer \notin owed, UNCHANGED <<speer, strust, approved, owed>>
  PROVE  AdmitsStep
<1>1. speer \in Slaves /\ strust \in Keys /\ strust # NoKey
  BY DEF IInv, CopyServed, Typed, Serving
<1>2. Visitor = <<speer, strust>> /\ Visitor' = <<speer, strust>>
  BY <1>1 DEF Visitor
<1>3. /\ Answer = Nobody /\ Answer' = Nobody
      /\ Holder = Nobody /\ Holder' = <<speer, strust>>
  BY DEF Answer, Holder, InSession
<1>4. Admits!Admit(speer, strust)
  BY <1>2, <1>3 DEF Admits!Admit
<1> QED
  BY <1>1, <1>4 DEF AdmitsStep, Admits!Next

LEMMA ServerIkAdmits == ASSUME IInv, ServerIk PROVE AdmitsStep
<1>1. UNCHANGED <<approved, owed>> /\ spc = "ik"
  BY DEF ServerIk, history
<1>2. CASE spc' = "connected"
  <2>1. speer \notin kicked /\ UNCHANGED <<speer, strust>>
    BY <1>2 DEF ServerIk, CloseServed, MustReapprove
  <2> QED
    BY <1>1, <1>2, <2>1, VisitorAdmitted DEF IInv, OwedKicked
<1>3. CASE spc' = "reshown"
  <2>1. UNCHANGED <<speer, strust>> /\ InSession' = InSession /\ Answer' = Nobody
    BY <1>1, <1>3 DEF ServerIk, CloseServed, InSession, Answer
  <2> QED
    BY <1>1, <2>1, OnTheWay
<1>4. CASE spc' \notin {"connected", "reshown"}
  <2>1. spc' = "accept" /\ strust' = NoKey
    BY <1>4 DEF ServerIk, CloseServed
  <2> QED
    BY <1>1, <2>1, ClosedLeaves
<1> QED
  BY <1>2, <1>3, <1>4

LEMMA ReapprovedAdmits == ASSUME IInv, Reapproved PROVE AdmitsStep
BY VisitorAdmitted DEF Reapproved, history, IInv, AnswerIsOwn

LEMMA EndSessionLeaves == ASSUME IInv, EndSession PROVE AdmitsStep
<1>1. /\ Holder = <<speer, strust>> /\ approved' = approved
      /\ spc' = "accept" /\ strust' = NoKey
  BY DEF EndSession, CloseServed, Holder, InSession
<1>2. CASE disconnect
  <2>1. Holder # Nobody
    <3>1. <<speer, strust>> \in Slaves \X Keys
      BY DEF IInv, CopyServed, Typed, EndSession, Serving
    <3> QED
      BY <1>1, <3>1, NobodyAssumption
  <2>2. Visitor' = Nobody /\ Answer' = Nobody /\ Holder' = Nobody
    BY <1>1 DEF Visitor, Answer, Holder, InSession
  <2>3. owed' = owed \cup {Holder[1]}
    BY <1>1, <1>2 DEF EndSession
  <2>4. Admits!Kick
    BY <1>1, <2>1, <2>2, <2>3 DEF Admits!Kick, Admits!Gone
  <2> QED
    BY <2>4 DEF AdmitsStep, Admits!Next
<1>3. CASE ~disconnect
  BY <1>1, <1>3, ClosedLeaves DEF EndSession
<1> QED
  BY <1>2, <1>3

LEMMA ServerAdmits == ASSUME IInv, Server PROVE AdmitsStep
<1>1. CASE ServerFlag \/ ServerPubKey \/ ArmPrompt \/ OpenSession \/ ServerExits
  <2>1. /\ spc # "prompt" /\ UNCHANGED <<speer, strust, approved, owed>>
        /\ InSession' = InSession
    BY <1>1 DEF ServerFlag, ServerPubKey, ArmPrompt, OpenSession, ServerExits, InSession, history
  <2>2. Answer' = Nobody
    BY <1>1 DEF ServerFlag, ServerPubKey, ArmPrompt, Armed, OpenSession, ServerExits, Answer
  <2> QED
    BY <2>1, <2>2, OnTheWay
<1>2. CASE PairingRefused \/ ReapprovalRefused \/ ServerHandshakeFails
  <2>1. spc' = "accept" /\ strust' = NoKey /\ UNCHANGED <<approved, owed>>
    BY <1>2 DEF PairingRefused, ReapprovalRefused, ServerHandshakeFails, CloseServed, history
  <2> QED
    BY <2>1, ClosedLeaves
<1>3. CASE ServerReceive \/ ServerSend
  <2>1. UNCHANGED <<spc, speer, strust, skey, decision, approved, owed>>
    BY <1>3 DEF ServerReceive, ServerSend, history, masterVars
  <2> QED
    BY <2>1, SameDoor, Unseen
<1> QED
  BY <1>1, <1>2, <1>3, AcceptConnectionKnocks, PairingApprovedRemembers, ServerIkAdmits,
     ReapprovedAdmits, EndSessionLeaves DEF Server

LEMMA UserAdmits == ASSUME IInv, MasterUser PROVE AdmitsStep
<1>1. CASE PressAccept
  <2>1. UNCHANGED <<spc, speer, strust, skey>> /\ sstatus.state = "Pairing"
    BY <1>1 DEF PressAccept
  <2>2. sstatus.peer \in Slaves /\ sstatus.key \in Keys
    BY <2>1 DEF IInv, PromptShown, CopyServed, Typed, Serving, Shows, Info
  <2>3. Visitor' = Visitor /\ Holder' = Holder
    BY <2>1, SameDoor
  <2>4. Answer' \in {Answer, <<sstatus.peer, sstatus.key>>}
    <3>1. CASE spc = "prompt"
      <4>1. sstatus.peer = speer /\ sstatus.key = skey
        BY <3>1 DEF IInv, PromptShown, Shows, Info
      <4>2. Answer' = <<speer, skey>>
        BY <1>1, <2>1, <3>1 DEF PressAccept, Answer
      <4> QED
        BY <4>1, <4>2
    <3>2. CASE spc # "prompt"
      BY <2>1, <3>2 DEF Answer
    <3> QED
      BY <3>1, <3>2
  <2>5. Admits!Accept(sstatus.peer, sstatus.key)
    BY <1>1, <2>3, <2>4 DEF PressAccept, Admits!Accept
  <2> QED
    BY <2>2, <2>5 DEF AdmitsStep, Admits!Next
<1>2. CASE PressReject
  <2>1. UNCHANGED <<spc, speer, strust, skey, approved, owed>> /\ decision' = "Rejected"
    BY <1>2 DEF PressReject, history
  <2>2. Answer' = Nobody /\ Visitor' = Visitor /\ Holder' = Holder
    BY <2>1, SameDoor DEF Answer
  <2>3. Admits!TakeBack
    BY <2>1, <2>2 DEF Admits!TakeBack
  <2> QED
    BY <2>3 DEF AdmitsStep, Admits!Next
<1>3. ASSUME NEW c \in Slaves, PressForget(c) PROVE AdmitsStep
  <2>1. Holder' = Holder /\ Visitor' = Visitor /\ Answer' = Answer /\ owed' = owed
    BY <1>3, SameDoor DEF PressForget
  <2>2. Admits!Forget(c)
    BY <1>3, <2>1 DEF PressForget, Admits!Forget
  <2> QED
    BY <2>2 DEF AdmitsStep, Admits!Next
<1>4. CASE StartServer
  <2>1. /\ spc = "stopped" /\ spc' = "accept" /\ UNCHANGED <<speer, strust, approved>>
        /\ owed' = {} /\ strust = NoKey
    BY <1>4 DEF StartServer, IInv, CopyServed, Serving
  <2>2. /\ Holder = Nobody /\ Holder' = Nobody /\ Answer = Nobody /\ Answer' = Nobody
        /\ Visitor = Nobody /\ Visitor' = Nobody
    BY <2>1 DEF Holder, InSession, Answer, Visitor
  <2>3. Admits!Restart
    BY <2>1, <2>2 DEF Admits!Restart
  <2> QED
    BY <2>3 DEF AdmitsStep, Admits!Next
<1>5. CASE PressDisconnect \/ StopServer
  <2>1. UNCHANGED <<spc, speer, strust, skey, decision, approved, owed>>
    BY <1>5 DEF PressDisconnect, StopServer, history
  <2> QED
    BY <2>1, SameDoor, Unseen
<1> QED
  BY <1>1, <1>2, <1>3, <1>4, <1>5 DEF MasterUser

LEMMA ClientAdmits ==
  ASSUME NEW c \in Slaves, Client(c) \/ SlaveUser(c)
  PROVE  AdmitsStep
<1>1. UNCHANGED <<spc, speer, strust, skey, decision, approved, owed>>
  BY DEF Client, Dial, ClientIds, ClientFlag, ClientPubKey, ClientApproved, ClientRejected,
         ClientIk, ClientHandshakeFails, ClientReceive, ClientSend, ClientEndsSession,
         ClientGivesUp, SlaveUser, PressConnect, PressStop, ForgetMaster, Rekey,
         masterLessOpen, masterVars, history
<1> QED
  BY <1>1, SameDoor, Unseen

(* Whatever Slaves connect in whatever order, send, forget and re-key, and *)
(* whenever the users press their buttons: the session is only ever held   *)
(* by a device with a key that was accepted on a prompt for it and not     *)
(* forgotten before it connected, and never by one that was thrown out and *)
(* not accepted since (tcp_server.cpp:153-262, ui.cpp:523-528).            *)
THEOREM ImplementsAdmission == Spec => OnlyAdmitted
<1>1. Init => Admits!Init
  BY DEF Init, Admits!Init, Holder, InSession, Visitor, Answer
<1>2. UNCHANGED vars => AdmitsStep
  BY SameDoor, Unseen DEF vars, masterVars, history
<1>3. IInv /\ [Next]_vars => AdmitsStep
  BY <1>2, ServerAdmits, UserAdmits, ClientAdmits DEF Next
<1> QED
  BY <1>1, <1>3, Inductive, PTL DEF Spec, OnlyAdmitted, Admits!Spec, AdmitsStep

-----------------------------------------------------------------------------
(* The byte streams.  What a Slave has ahead of it before the FIN is what  *)
(* its reads are written for, one after the other.                         *)
Readable(pc, rs, w) ==
  /\ pc \in ClientPc \ {"off", "idle"}
  /\ pc = "dial" => Len(w) <= 1 /\ (Len(w) >= 1 => w[1].t = "flag")
  /\ pc = "flag" => /\ Len(w) <= 2
                    /\ Len(w) >= 1 => w[1].t = "flag"
                    /\ Len(w) = 2 => w[2].t = "pubkey" /\ NeedPairing(rs, w[1].v)
  /\ pc = "pubkey" => /\ Len(w) <= 2
                      /\ Len(w) >= 1 => w[1].t = "pubkey"
                      /\ Len(w) = 2 => w[2].t = "decision"
  /\ pc = "decision" => Len(w) <= 1 /\ (Len(w) >= 1 => w[1].t = "decision")
  /\ pc = "ik" => /\ Len(w) >= 1 => w[1].t = "ik2"
                  /\ \A i \in 2 .. Len(w) : w[i].t \in MasterFrames
  /\ pc = "session" => \A i \in 1 .. Len(w) : w[i].t \in MasterFrames

(* The same of the Master and the accepted connection, whose Slave may     *)
(* have closed its end since.                                              *)
MasterReadable ==
  /\ spc \in {"accept", "stopped", "shown", "prompt"} => c2s = <<>>
  /\ spc = "flag" => /\ Len(c2s) <= 2
                     /\ Len(c2s) >= 1 => c2s[1].t = "flag"
                     /\ Len(c2s) = 2 =>
                          c2s[2].t = IF NeedPairing(strust # NoKey, c2s[1].v)
                                     THEN "pubkey" ELSE "ik1"
  /\ spc = "pubkey" => Len(c2s) <= 1 /\ (Len(c2s) = 1 => c2s[1].t = "pubkey")
  /\ spc = "ik" => Len(c2s) <= 1 /\ (Len(c2s) = 1 => c2s[1].t = "ik1")
  /\ spc \in {"reshown", "reprompt", "connected", "session"} =>
       \A i \in 1 .. Len(c2s) : c2s[i].t \in SlaveFrames

(* How far a served Slave can be from the Master, and what is then under   *)
(* way in either direction.                                                *)
Apart(c, toSlave, toMaster) == Len(s2c[c]) = toSlave /\ Len(c2s) = toMaster
FlagStage(c) ==
  \/ cpc[c] = "dial" /\ Apart(c, 1, 0) /\ (s2c[c][1].v # 0 <=> strust = NoKey)
  \/ /\ cpc[c] = "flag" /\ Apart(c, 1, 1)
     /\ s2c[c][1].v # 0 <=> strust = NoKey
     /\ c2s[1].v # 0 <=> ~crs[c]
  \/ cpc[c] = "pubkey" /\ Apart(c, 0, 2) /\ c2s[2].t = "pubkey"
  \/ cpc[c] = "ik" /\ Apart(c, 0, 2) /\ c2s[2].t = "ik1"
PubKeyStage(c) ==
  \/ cpc[c] = "flag" /\ Apart(c, 2, 0)
  \/ cpc[c] = "pubkey" /\ Apart(c, 1, 1)
  \/ cpc[c] = "decision" /\ Apart(c, 0, 1)
PromptStage(c) ==
  \/ cpc[c] = "pubkey" /\ Apart(c, 1, 0)
  \/ cpc[c] = "decision" /\ Apart(c, 0, 0)
IkStage(c) ==
  \/ cpc[c] = "flag" /\ Apart(c, 1, 0) /\ ~NeedPairing(crs[c], s2c[c][1].v)
  \/ cpc[c] = "pubkey" /\ Apart(c, 2, 0)
  \/ cpc[c] = "decision" /\ Apart(c, 1, 0)
  \/ cpc[c] = "ik" /\ Apart(c, 0, 1)
ConnectedStage(c) ==
  \/ cpc[c] = "ik" /\ Apart(c, 1, 0)
  \/ cpc[c] = "session" /\ Len(s2c[c]) = 0
SessionStage(c) ==
  \/ cpc[c] = "ik" /\ Len(s2c[c]) >= 1 /\ Len(c2s) = 0
  \/ cpc[c] = "session"
Together(c) ==
  /\ spc = "flag"   => FlagStage(c)
  /\ spc = "pubkey" => PubKeyStage(c)
  /\ spc \in {"shown", "prompt"} => PromptStage(c)
  /\ spc = "ik" => IkStage(c)
  /\ spc \in {"reshown", "reprompt", "connected"} => ConnectedStage(c)
  /\ spc = "session" => SessionStage(c)

(* The key a served Slave offers is the one it holds.                      *)
OwnKey(c) == \A i \in 1 .. Len(c2s) : c2s[i].t = "ik1" => c2s[i].v = ckey[c]

Joint(c) == Readable(cpc[c], crs[c], s2c[c]) /\ Together(c) /\ OwnKey(c)

(* A Slave that is not served has no connection yet, or one that ends; a   *)
(* Slave that left while it was served has none.                           *)
Words == Seq(ToSlave \ {Eof})
Unconnected(c) == cpc[c] \in {"off", "idle", "dial"} /\ s2c[c] = <<>>
Ending(c) == \E w \in Words : s2c[c] = Append(w, Eof) /\ Readable(cpc[c], crs[c], w)
Alone(c) == Unconnected(c) \/ (~(Serving /\ speer = c) /\ Ending(c))

(* Past the Master's half of the handshake, or about to be.                *)
PastIk(c) == \/ cpc[c] = "session"
             \/ cpc[c] = "ik" /\ \E i \in DOMAIN s2c[c] : s2c[c][i].t = "ik2"
Told(c) == goAway[c] \/ \E i \in DOMAIN s2c[c] : s2c[c][i].t = "goaway"

StreamTyped ==
  /\ peerOpen \in BOOLEAN /\ s2c \in [Slaves -> Seq(ToSlave)]
  /\ cpc \in [Slaves -> ClientPc] /\ crs \in [Slaves -> BOOLEAN]
  /\ cKnown \in [Slaves -> BOOLEAN] /\ goAway \in [Slaves -> BOOLEAN]
  /\ kicked \subseteq Slaves
  /\ \A c \in Slaves : Served(c) => s2c[c] \in Words
StreamInv == \A c \in Slaves : IF Served(c) THEN Joint(c) ELSE Alone(c)
CopyKnown == Serving => sKnown[speer] \in {strust, NoKey}
KickedOut == InSession => speer \notin kicked
ReasonGiven ==
  \A c \in kicked : ~Served(c) /\ PastIk(c) /\ sKnown[c] = ckey[c] => Told(c)

SInv == StreamTyped /\ MasterReadable /\ StreamInv /\ CopyKnown /\ KickedOut /\ ReasonGiven

-----------------------------------------------------------------------------
(* Words grow at one end and shrink at the other.                          *)

LEMMA WordEmpty == <<>> \in Words /\ Len(<<>>) = 0
BY DEF Words

LEMMA WordAdded ==
  ASSUME NEW w \in Words, NEW m \in ToSlave \ {Eof}
  PROVE  /\ w \o <<m>> \in Words /\ Len(w) \in Nat /\ Len(w \o <<m>>) = Len(w) + 1
         /\ \A i \in 1 .. Len(w) : (w \o <<m>>)[i] = w[i]
         /\ (w \o <<m>>)[Len(w) + 1] = m
<1>1. w \o <<m>> = Append(w, m)
  BY AppendIsConcat DEF Words
<1> QED
  BY <1>1, AppendProperties, LenProperties DEF Words

LEMMA WordRead ==
  ASSUME NEW w \in Words, w # <<>>
  PROVE  /\ Tail(w) \in Words /\ Len(Tail(w)) = Len(w) - 1 /\ Len(w) \in Nat /\ Len(w) >= 1
         /\ \A i \in 1 .. Len(w) - 1 : Tail(w)[i] = w[i + 1]
         /\ Head(w) = w[1] /\ Head(w) \in ToSlave \ {Eof}
BY HeadTailProperties, LenProperties, EmptySeq DEF Words

LEMMA WordEnded ==
  ASSUME NEW w \in Words
  PROVE  /\ Append(w, Eof) \in Seq(ToSlave) /\ Append(w, Eof) # <<>>
         /\ Head(Append(w, Eof)) = IF w = <<>> THEN Eof ELSE Head(w)
         /\ w # <<>> => Tail(Append(w, Eof)) = Append(Tail(w), Eof)
         /\ w \o <<Eof>> = Append(w, Eof)
         /\ Len(Append(w, Eof)) = Len(w) + 1 /\ Len(w) \in Nat
         /\ \A i \in 1 .. Len(w) : Append(w, Eof)[i] = w[i]
         /\ Append(w, Eof)[Len(w) + 1] = Eof
<1>1. w \in Seq(ToSlave) /\ Eof \in ToSlave
  BY SeqMonotonic DEF Words, ToSlave
<1> QED
  BY <1>1, AppendProperties, AppendIsConcat, HeadTailAppend, LenProperties

LEMMA RequestRead ==
  ASSUME c2s \in Seq(ToMaster), c2s # <<>>
  PROVE  /\ Tail(c2s) \in Seq(ToMaster) /\ Len(Tail(c2s)) = Len(c2s) - 1
         /\ Len(c2s) \in Nat /\ Len(c2s) >= 1
         /\ \A i \in 1 .. Len(c2s) - 1 : Tail(c2s)[i] = c2s[i + 1]
         /\ Head(c2s) = c2s[1] /\ Head(c2s) \in ToMaster
         /\ Len(c2s) = 1 => Tail(c2s) = <<>>
<1>1. Tail(c2s) \in Seq(ToMaster) /\ Len(Tail(c2s)) = Len(c2s) - 1
      /\ Len(c2s) \in Nat /\ Len(c2s) >= 1
  BY HeadTailProperties, LenProperties, EmptySeq
<1>2. \A s \in Seq(ToMaster) : Len(s) = 0 => s = <<>>
  OBVIOUS
<1> QED
  BY <1>1, <1>2, HeadTailProperties

LEMMA RequestAdded ==
  ASSUME c2s \in Seq(ToMaster), NEW m \in ToMaster
  PROVE  /\ Append(c2s, m) \in Seq(ToMaster)
         /\ Len(c2s) \in Nat /\ Len(Append(c2s, m)) = Len(c2s) + 1
         /\ \A i \in 1 .. Len(c2s) : Append(c2s, m)[i] = c2s[i]
         /\ Append(c2s, m)[Len(c2s) + 1] = m
BY AppendProperties, LenProperties

LEMMA Messages ==
  /\ \A b \in Bit : /\ Flag(b) \in ToSlave \ {Eof} /\ Decision(b) \in ToSlave \ {Eof}
                    /\ Flag(b) \in ToMaster
                    /\ Flag(b).t = "flag" /\ Flag(b).v = b /\ Decision(b).t = "decision"
  /\ PubKey(NoKey) \in ToSlave \ {Eof} /\ PubKey(NoKey).t = "pubkey"
  /\ Ik2 \in ToSlave \ {Eof} /\ Ik2.t = "ik2"
  /\ \A kind \in MasterFrames : Frame(kind) \in ToSlave \ {Eof} /\ Frame(kind).t = kind
  /\ \A k \in Keys : /\ PubKey(k) \in ToMaster /\ PubKey(k).t = "pubkey"
                     /\ Ik1(k) \in ToMaster /\ Ik1(k).t = "ik1" /\ Ik1(k).v = k
  /\ \A kind \in SlaveFrames : Frame(kind) \in ToMaster /\ Frame(kind).t = kind
  /\ Eof \in ToSlave /\ Eof.t = "eof"
BY DEF Flag, Decision, PubKey, Ik1, Ik2, Eof, Frame, FrameMsg, MasterFrames, SlaveFrames,
       ToSlave, ToMaster, Bit

-----------------------------------------------------------------------------
(* The Master's thread, seen from the streams: it stays with a connection, *)
(* or leaves it with some last words.                                      *)

LEMMA ServerSends ==
  ASSUME StreamTyped, speer \in Slaves, NEW m \in ToSlave \ {Eof}, s2c' = SentToSlave(<<m>>)
  PROVE  /\ peerOpen /\ Serving => /\ s2c'[speer] = s2c[speer] \o <<m>> /\ s2c'[speer] \in Words
                                   /\ s2c[speer] \in Words
         /\ peerOpen => \A d \in Slaves \ {speer} : s2c'[d] = s2c[d]
         /\ ~peerOpen => s2c' = s2c
         /\ peerOpen /\ Serving => s2c' \in [Slaves -> Seq(ToSlave)]
<1>1. ASSUME peerOpen, Serving
      PROVE  /\ s2c[speer] \in Words /\ s2c'[speer] = s2c[speer] \o <<m>>
             /\ s2c'[speer] \in Words /\ s2c'[speer] \in Seq(ToSlave)
  <2>1. s2c[speer] \in Words
    BY <1>1 DEF StreamTyped, Served
  <2>2. s2c'[speer] = s2c[speer] \o <<m>>
    BY <1>1 DEF StreamTyped, SentToSlave
  <2>3. s2c'[speer] \in Words
    BY <2>1, <2>2, WordAdded
  <2> QED
    BY <2>1, <2>2, <2>3, SeqMonotonic DEF Words
<1>2. peerOpen => s2c' = [s2c EXCEPT ![speer] = @ \o <<m>>]
  BY DEF SentToSlave
<1>3. ~peerOpen => s2c' = s2c
  BY DEF SentToSlave
<1> QED
  BY <1>1, <1>2, <1>3 DEF StreamTyped

LEMMA SentOne ==
  ASSUME StreamTyped, speer \in Slaves, Serving, peerOpen, NEW m \in ToSlave \ {Eof},
         s2c' = SentToSlave(<<m>>)
  PROVE  /\ Len(s2c[speer]) \in Nat /\ Len(s2c'[speer]) = Len(s2c[speer]) + 1
         /\ \A i \in 1 .. Len(s2c[speer]) : s2c'[speer][i] = s2c[speer][i]
         /\ s2c'[speer][Len(s2c[speer]) + 1] = m
<1> DEFINE s == s2c[speer]
<1>1. s \in Words /\ s2c'[speer] = s \o <<m>>
  BY ServerSends
<1> HIDE DEF s
<1>2. /\ Len(s) \in Nat /\ Len(s \o <<m>>) = Len(s) + 1
      /\ \A i \in 1 .. Len(s) : (s \o <<m>>)[i] = s[i]
      /\ (s \o <<m>>)[Len(s) + 1] = m
  BY <1>1, WordAdded
<1> QED
  BY <1>1, <1>2 DEF s

LEMMA ServerStays ==
  ASSUME SInv, Serving, Serving', speer \in Slaves,
         UNCHANGED <<speer, peerOpen, cpc, crs, cKnown, ckey, goAway>>,
         kicked' \subseteq kicked, \A d \in Slaves \ {speer} : sKnown'[d] = sKnown[d],
         peerOpen => /\ s2c' \in [Slaves -> Seq(ToSlave)]
                     /\ \A d \in Slaves \ {speer} : s2c'[d] = s2c[d]
                     /\ s2c'[speer] \in Words
                     /\ Joint(speer) => Joint(speer)',
         ~peerOpen => s2c' = s2c,
         kicked \subseteq Slaves
  PROVE  StreamTyped' /\ StreamInv' /\ ReasonGiven'
<1> USE DEF SInv
<1>1. \A d \in Slaves : (Served(d) <=> peerOpen /\ speer = d) /\ (Served(d)' <=> Served(d))
  BY DEF Served
<1>2. StreamTyped'
  BY <1>1 DEF StreamTyped
<1>3. \A d \in Slaves : ~Served(d) => s2c'[d] = s2c[d]
  BY <1>1
<1>4. ASSUME NEW d \in Slaves, Served(d) PROVE Joint(d)'
  BY <1>1, <1>4 DEF StreamInv
<1>5. ASSUME NEW d \in Slaves, ~Served(d) PROVE Alone(d)'
  <2>1. Alone(d)
    BY <1>5 DEF StreamInv
  <2> QED
    BY <1>3, <1>5, <2>1 DEF Alone, Unconnected, Ending
<1>6. StreamInv'
  BY <1>1, <1>4, <1>5 DEF StreamInv
<1>7. ASSUME NEW c \in kicked', ~Served(c)', PastIk(c)', sKnown'[c] = ckey'[c] PROVE Told(c)'
  <2>1. c \in Slaves /\ c \in kicked /\ ~Served(c) /\ s2c'[c] = s2c[c]
    BY <1>1, <1>3, <1>7
  <2>2. PastIk(c)
    BY <1>7, <2>1 DEF PastIk
  <2>3. c # speer
    <3> SUFFICES ASSUME c = speer PROVE FALSE
      OBVIOUS
    <3>1. Unconnected(c)
      BY <2>1 DEF StreamInv, Alone
    <3> QED
      BY <2>2, <3>1 DEF Unconnected, PastIk
  <2>4. Told(c)
    BY <1>7, <2>1, <2>2, <2>3 DEF ReasonGiven
  <2> QED
    BY <2>1, <2>4 DEF Told
<1>8. ReasonGiven'
  BY <1>7 DEF ReasonGiven
<1> QED
  BY <1>2, <1>6, <1>8

LEMMA ServerSilent ==
  ASSUME SInv, Serving, Serving', speer \in Slaves,
         UNCHANGED <<speer, peerOpen, cpc, crs, cKnown, ckey, goAway, s2c>>,
         kicked' \subseteq kicked, \A d \in Slaves \ {speer} : sKnown'[d] = sKnown[d],
         peerOpen /\ Joint(speer) => Joint(speer)',
         kicked \subseteq Slaves
  PROVE  StreamTyped' /\ StreamInv' /\ ReasonGiven'
<1>1. peerOpen => s2c[speer] \in Words
  BY DEF SInv, StreamTyped, Served
<1>2. s2c' \in [Slaves -> Seq(ToSlave)]
  BY DEF SInv, StreamTyped
<1> QED
  BY <1>1, <1>2, ServerStays

LEMMA ServerSays ==
  ASSUME SInv, Serving, Serving', speer \in Slaves, NEW m \in ToSlave \ {Eof},
         s2c' = SentToSlave(<<m>>),
         UNCHANGED <<speer, peerOpen, cpc, crs, cKnown, ckey, goAway>>,
         kicked' \subseteq kicked, \A d \in Slaves \ {speer} : sKnown'[d] = sKnown[d],
         peerOpen /\ Joint(speer) => Joint(speer)',
         kicked \subseteq Slaves
  PROVE  StreamTyped' /\ StreamInv' /\ ReasonGiven'
BY ServerSends, ServerStays DEF SInv

(* The Slave can read the last words too, and is told why if it must be.   *)
LEMMA ServerLeaves ==
  ASSUME SInv, Serving, NEW p \in Slaves, p = speer, kicked \subseteq Slaves,
         NEW msgs, CloseServed(msgs), NEW w \in Words,
         UNCHANGED <<cpc, crs, cKnown, ckey, goAway, sKnown>>,
         kicked' \subseteq kicked \cup {speer},
         peerOpen => /\ s2c[speer] \o LastWords(msgs) = Append(w, Eof)
                     /\ Readable(cpc[speer], crs[speer], w)
                     /\ p \in kicked' /\ PastIk(p)' /\ sKnown[p] = ckey[p] => Told(p)'
  PROVE  SInv'
<1> USE DEF SInv, CloseServed
<1>1. \A d \in Slaves : ~Served(d)' /\ ~(Serving' /\ speer' = d)
  BY DEF Served, Serving
<1>2. /\ \A d \in Slaves : ~Served(d) => s2c'[d] = s2c[d]
      /\ peerOpen => s2c'[speer] = Append(w, Eof)
      /\ s2c' \in [Slaves -> Seq(ToSlave)]
  BY WordEnded DEF StreamTyped, SentToSlave, Served
<1>3. StreamTyped'
  BY <1>1, <1>2 DEF StreamTyped
<1>4. MasterReadable' /\ CopyKnown' /\ KickedOut'
  BY DEF MasterReadable, CopyKnown, KickedOut, Serving, InSession
<1>5. ASSUME NEW d \in Slaves, Served(d) PROVE Alone(d)'
  <2>1. d = speer /\ peerOpen
    BY <1>5 DEF Served
  <2>2. Ending(d)'
    BY <1>2, <2>1 DEF Ending
  <2> QED
    BY <1>1, <2>2 DEF Alone
<1>6. ASSUME NEW d \in Slaves, ~Served(d) PROVE Alone(d)'
  <2>1. Alone(d)
    BY <1>6 DEF StreamInv
  <2> QED
    BY <1>1, <1>2, <1>6, <2>1 DEF Alone, Unconnected, Ending
<1>7. StreamInv'
  BY <1>1, <1>5, <1>6 DEF StreamInv
<1>8. ASSUME NEW c \in kicked', ~Served(c)', PastIk(c)', sKnown'[c] = ckey'[c] PROVE Told(c)'
  <2>1. c \in Slaves
    BY <1>8
  <2>2. CASE Served(c)
    BY <1>8, <2>2 DEF Served
  <2>3. CASE ~Served(c)
    <3>1. s2c'[c] = s2c[c]
      BY <1>2, <2>1, <2>3
    <3>2. PastIk(c)
      BY <1>8, <3>1 DEF PastIk
    <3>3. c # speer
      <4> SUFFICES ASSUME c = speer PROVE FALSE
        OBVIOUS
      <4>1. Unconnected(c)
        BY <2>1, <2>3 DEF StreamInv, Alone
      <4> QED
        BY <3>2, <4>1 DEF Unconnected, PastIk
    <3>4. Told(c)
      BY <1>8, <2>3, <3>2, <3>3 DEF ReasonGiven
    <3> QED
      BY <3>1, <3>4 DEF Told
  <2> QED
    BY <2>2, <2>3
<1>9. ReasonGiven'
  BY <1>8 DEF ReasonGiven
<1> QED
  BY <1>3, <1>4, <1>7, <1>9

-----------------------------------------------------------------------------
(* run(), step by step.                                                    *)

LEMMA AcceptConnectionStreams ==
  ASSUME IInv, SInv, NEW c \in Slaves, AcceptConnection(c) PROVE SInv'
<1> USE DEF SInv, AcceptConnection
<1> DEFINE flag == Flag(IF sKnown[c] = NoKey THEN 1 ELSE 0)
<1>1. /\ flag \in ToSlave \ {Eof} /\ flag.t = "flag" /\ (flag.v # 0 <=> sKnown[c] = NoKey)
      /\ <<flag>> \in Words /\ Len(<<flag>>) = 1 /\ <<flag>>[1] = flag
      /\ <<flag>> \in Seq(ToSlave)
  BY Messages DEF Bit, Words
<1> HIDE DEF flag
<1>2. /\ \A d \in Slaves : ~Served(d) /\ (Served(d)' <=> d = c)
      /\ s2c' = [s2c EXCEPT ![c] = <<flag>>] /\ spc' = "flag" /\ speer' = c
      /\ UNCHANGED <<cpc, crs, cKnown, ckey, goAway, kicked, sKnown>>
      /\ strust' = sKnown[c] /\ c2s' = <<>>
  BY DEF Served, Serving, flag
<1>3. StreamTyped'
  BY <1>1, <1>2 DEF StreamTyped
<1>4. MasterReadable' /\ CopyKnown' /\ KickedOut'
  BY <1>2 DEF MasterReadable, CopyKnown, KickedOut, InSession
<1>5. Joint(c)'
  BY <1>1, <1>2, <1>3 DEF Joint, Readable, Together, FlagStage, Apart, OwnKey, StreamTyped, ClientPc
<1>6. ASSUME NEW d \in Slaves, d # c PROVE Alone(d)' /\ ~Served(d)'
  BY <1>2, <1>6 DEF StreamTyped, StreamInv, Alone, Unconnected, Ending
<1>7. StreamInv'
  BY <1>2, <1>5, <1>6 DEF StreamInv
<1>8. ReasonGiven'
  <2> SUFFICES ASSUME NEW d \in kicked', ~Served(d)', PastIk(d)', sKnown'[d] = ckey'[d]
               PROVE  Told(d)'
    BY DEF ReasonGiven
  <2>1. d \in Slaves /\ d \in kicked /\ d # c /\ ~Served(d)
    BY <1>2 DEF StreamTyped
  <2>2. s2c'[d] = s2c[d]
    BY <1>2, <2>1 DEF StreamTyped
  <2>3. PastIk(d) /\ Told(d)
    BY <1>2, <2>1, <2>2 DEF PastIk, ReasonGiven
  <2> QED
    BY <1>2, <2>2, <2>3 DEF Told
<1> QED
  BY <1>3, <1>4, <1>7, <1>8

LEMMA ServerFlagStreams == ASSUME IInv, SInv, ServerFlag PROVE SInv'
<1> USE DEF SInv
<1>1. /\ spc = "flag" /\ Serving /\ Serving' /\ speer \in Slaves /\ kicked \subseteq Slaves
      /\ UNCHANGED <<speer, peerOpen, strust, cpc, crs, cKnown, ckey, goAway, kicked, sKnown>>
      /\ IF NeedPairing(strust # NoKey, Head(c2s).v)
         THEN spc' = "pubkey" /\ s2c' = SentToSlave(<<PubKey(NoKey)>>)
         ELSE spc' = "ik" /\ s2c' = s2c
  BY DEF ServerFlag, Serving, IInv, Typed, StreamTyped
<1>2. /\ Len(c2s) \in {1, 2} /\ Len(c2s') = Len(c2s) - 1 /\ Head(c2s) = c2s[1]
      /\ \A i \in 1 .. Len(c2s') : c2s'[i] = c2s[i + 1]
      /\ Len(c2s) = 2 => c2s'[1] = c2s[2]
  <2>1. c2s \in Seq(ToMaster) /\ c2s # <<>> /\ c2s' = Tail(c2s)
    BY DEF ServerFlag, Received, IInv, Typed
  <2> QED
    BY <1>1, <2>1, RequestRead DEF MasterReadable
<1>3. ASSUME OwnKey(speer) PROVE OwnKey(speer)'
  BY <1>1, <1>2, <1>3 DEF OwnKey
<1>4. CASE NeedPairing(strust # NoKey, c2s[1].v)
  <2>1. spc' = "pubkey" /\ s2c' = SentToSlave(<<PubKey(NoKey)>>)
    BY <1>1, <1>2, <1>4
  <2>2. ASSUME peerOpen, Joint(speer) PROVE Joint(speer)'
    <3>1. /\ Len(s2c[speer]) \in Nat /\ Len(s2c'[speer]) = Len(s2c[speer]) + 1
          /\ \A i \in 1 .. Len(s2c[speer]) : s2c'[speer][i] = s2c[speer][i]
          /\ s2c'[speer][Len(s2c[speer]) + 1].t = "pubkey"
      BY <1>1, <2>1, <2>2, Messages, SentOne
    <3>2. FlagStage(speer) /\ Readable(cpc[speer], crs[speer], s2c[speer]) /\ OwnKey(speer)
      BY <1>1, <2>2 DEF Joint, Together
    <3>3. \/ /\ cpc[speer] = "flag" /\ Apart(speer, 1, 1)
             /\ NeedPairing(crs[speer], s2c[speer][1].v)
          \/ cpc[speer] = "pubkey" /\ Apart(speer, 0, 2)
      BY <1>1, <1>2, <1>4, <3>2 DEF FlagStage, Apart, MasterReadable, NeedPairing
    <3>4. PubKeyStage(speer)'
      BY <1>1, <1>2, <3>1, <3>3 DEF PubKeyStage, Apart
    <3>5. Readable(cpc[speer], crs[speer], s2c'[speer])
      BY <3>1, <3>2, <3>3 DEF Readable, Apart
    <3> QED
      BY <1>1, <1>3, <2>1, <3>2, <3>4, <3>5 DEF Joint, Together
  <2>3. StreamTyped' /\ StreamInv' /\ ReasonGiven'
    BY <1>1, <2>1, <2>2, ServerSays, Messages
  <2>4. MasterReadable' /\ CopyKnown' /\ KickedOut'
    BY <1>1, <1>2, <1>4, <2>1 DEF MasterReadable, CopyKnown, KickedOut, InSession
  <2> QED
    BY <2>3, <2>4
<1>5. CASE ~NeedPairing(strust # NoKey, c2s[1].v)
  <2>1. spc' = "ik" /\ s2c' = s2c
    BY <1>1, <1>2, <1>5
  <2>2. ASSUME peerOpen, Joint(speer) PROVE Joint(speer)'
    <3>1. FlagStage(speer) /\ Readable(cpc[speer], crs[speer], s2c[speer]) /\ OwnKey(speer)
      BY <1>1, <2>2 DEF Joint, Together
    <3>2. \/ cpc[speer] = "flag" /\ Apart(speer, 1, 1) /\ ~NeedPairing(crs[speer], s2c[speer][1].v)
          \/ cpc[speer] = "ik" /\ Apart(speer, 0, 2)
      BY <1>1, <1>2, <1>5, <3>1 DEF FlagStage, Apart, MasterReadable, NeedPairing
    <3>3. IkStage(speer)'
      BY <1>1, <1>2, <2>1, <3>2 DEF IkStage, Apart
    <3> QED
      BY <1>1, <1>3, <2>1, <3>1, <3>3 DEF Joint, Together
  <2>3. StreamTyped' /\ StreamInv' /\ ReasonGiven'
    BY <1>1, <2>1, <2>2, ServerSilent
  <2>4. MasterReadable' /\ CopyKnown' /\ KickedOut'
    BY <1>1, <1>2, <1>5, <2>1 DEF MasterReadable, CopyKnown, KickedOut, InSession
  <2> QED
    BY <2>3, <2>4
<1> QED
  BY <1>4, <1>5

(* A connection that ends without a word, or with one.                     *)
LEMMA LeavesSilently ==
  ASSUME SInv, Serving, speer \in Slaves, CloseServed(<<>>),
         UNCHANGED <<cpc, crs, cKnown, ckey, goAway, sKnown, kicked>>,
         peerOpen /\ Joint(speer) => speer \notin kicked \/ ~PastIk(speer)
  PROVE  SInv'
<1> PICK p \in Slaves : p = speer
  OBVIOUS
<1> DEFINE w == IF peerOpen THEN s2c[p] ELSE <<>>
<1>1. p \in Slaves /\ p = speer /\ kicked \subseteq Slaves
  BY DEF SInv, StreamTyped
<1>2. w \in Words
  BY WordEmpty DEF SInv, StreamTyped, Served
<1>3. ASSUME peerOpen
      PROVE  /\ s2c[p] = w /\ s2c[p] \o LastWords(<<>>) = Append(w, Eof)
             /\ s2c'[p] = Append(w, Eof)
             /\ Readable(cpc[p], crs[p], w) /\ (p \notin kicked \/ ~PastIk(p))
  <2>1. s2c[p] = w /\ Joint(p)
    BY <1>1, <1>3 DEF SInv, StreamInv, Served
  <2>2. LastWords(<<>>) = <<Eof>>
    BY DEF LastWords
  <2>3. s2c'[p] = s2c[p] \o LastWords(<<>>)
    BY <1>1, <1>3 DEF CloseServed, SentToSlave, SInv, StreamTyped
  <2> HIDE DEF w
  <2> QED
    BY <1>1, <1>2, <1>3, <2>1, <2>2, <2>3, WordEnded DEF Joint
<1> HIDE DEF w
<1>4. ASSUME peerOpen, p \in kicked, PastIk(p)' PROVE FALSE
  <2>1. cpc[p] = "ik" /\ ~PastIk(p) /\ s2c[p] = w /\ s2c'[p] = Append(w, Eof)
    BY <1>3, <1>4 DEF PastIk
  <2>2. PICK i \in DOMAIN Append(w, Eof) : Append(w, Eof)[i].t = "ik2"
    BY <1>4, <2>1 DEF PastIk
  <2>3. i \in 1 .. Len(w) + 1
    BY <1>2, <2>2, WordEnded, LenProperties
  <2>4. i \in 1 .. Len(w) /\ w[i].t = "ik2"
    BY <1>2, <2>2, <2>3, WordEnded, Messages
  <2> QED
    BY <1>2, <2>1, <2>4, LenProperties DEF PastIk, Words
<1> QED
  BY <1>1, <1>2, <1>3, <1>4, ServerLeaves

LEMMA LeavesSaying ==
  ASSUME SInv, Serving, speer \in Slaves, NEW m \in ToSlave \ {Eof}, CloseServed(<<m>>),
         UNCHANGED <<cpc, crs, cKnown, ckey, goAway, sKnown>>,
         kicked' \subseteq kicked \cup {speer},
         peerOpen /\ Joint(speer) =>
           /\ \A w \in Words :
                /\ Len(w) = Len(s2c[speer]) + 1 /\ w[Len(w)] = m
                /\ \A i \in 1 .. Len(s2c[speer]) : w[i] = s2c[speer][i]
                => Readable(cpc[speer], crs[speer], w)
           /\ \/ m.t = "goaway"
              \/ cpc[speer] \notin {"ik", "session"}
              \/ sKnown[speer] # ckey[speer]
  PROVE  SInv'
<1> PICK p \in Slaves : p = speer
  OBVIOUS
<1> DEFINE w == IF peerOpen THEN s2c[p] \o <<m>> ELSE <<>>
<1>1. p \in Slaves /\ p = speer /\ kicked \subseteq Slaves
  BY DEF SInv, StreamTyped
<1>2. peerOpen => s2c[p] \in Words /\ Joint(p)
  BY DEF SInv, StreamTyped, StreamInv, Served
<1>3. w \in Words
  BY <1>2, WordAdded, WordEmpty
<1>4. peerOpen => /\ Len(w) = Len(s2c[p]) + 1 /\ w[Len(w)] = m /\ Len(w) \in Nat
                  /\ \A i \in 1 .. Len(s2c[p]) : w[i] = s2c[p][i]
  BY <1>2, WordAdded
<1>5. ASSUME peerOpen PROVE s2c[p] \o LastWords(<<m>>) = Append(w, Eof)
  <2>1. LastWords(<<m>>) = <<m>> \o <<Eof>>
    BY DEF LastWords
  <2>2. s2c[p] \in Seq(ToSlave) /\ <<m>> \in Seq(ToSlave) /\ <<Eof>> \in Seq(ToSlave)
    BY <1>2, <1>5, SeqMonotonic, Messages DEF Words
  <2>3. s2c[p] \o (<<m>> \o <<Eof>>) = (s2c[p] \o <<m>>) \o <<Eof>>
    BY <2>2, ConcatAssociative
  <2> QED
    BY <1>3, <1>5, <2>1, <2>3, WordEnded
<1>6. peerOpen => s2c'[p] = Append(w, Eof)
  BY <1>1, <1>5 DEF CloseServed, SentToSlave, SInv, StreamTyped
<1> HIDE DEF w
<1>7. ASSUME peerOpen, p \in kicked', PastIk(p)', sKnown[p] = ckey[p] PROVE Told(p)'
  <2>1. m.t = "goaway"
    BY <1>1, <1>2, <1>7 DEF PastIk
  <2>2. Append(w, Eof)[Len(w)] = m /\ Len(w) \in DOMAIN Append(w, Eof)
    BY <1>2, <1>3, <1>4, <1>7, WordEnded, LenProperties DEF Words
  <2> QED
    BY <1>6, <1>7, <2>1, <2>2 DEF Told
<1>8. peerOpen => Readable(cpc[p], crs[p], w)
  BY <1>1, <1>2, <1>3, <1>4
<1> QED
  BY <1>1, <1>3, <1>5, <1>7, <1>8, ServerLeaves

LEMMA ServerPubKeyStreams == ASSUME IInv, SInv, ServerPubKey PROVE SInv'
<1> USE DEF SInv
<1>1. /\ spc = "pubkey" /\ spc' = "shown" /\ Serving /\ Serving' /\ speer \in Slaves
      /\ kicked \subseteq Slaves
      /\ UNCHANGED <<speer, peerOpen, strust, cpc, crs, cKnown, ckey, goAway, s2c, kicked, sKnown>>
  BY DEF ServerPubKey, slaveVars, Serving, IInv, Typed, StreamTyped
<1>2. Len(c2s) = 1 /\ c2s' = <<>> /\ Len(c2s') = 0
  <2>1. c2s \in Seq(ToMaster) /\ c2s # <<>> /\ c2s' = Tail(c2s)
    BY DEF ServerPubKey, Received, IInv, Typed
  <2> QED
    BY <1>1, <2>1, RequestRead DEF MasterReadable
<1>3. ASSUME peerOpen, Joint(speer) PROVE Joint(speer)'
  <2>1. PubKeyStage(speer)
    BY <1>1, <1>3 DEF Joint, Together
  <2>2. PromptStage(speer)'
    BY <1>1, <1>2, <2>1 DEF PubKeyStage, PromptStage, Apart
  <2> QED
    BY <1>1, <1>2, <1>3, <2>2 DEF Joint, Together, OwnKey
<1>4. StreamTyped' /\ StreamInv' /\ ReasonGiven'
  BY <1>1, <1>3, ServerSilent
<1>5. MasterReadable' /\ CopyKnown' /\ KickedOut'
  BY <1>1, <1>2 DEF MasterReadable, CopyKnown, KickedOut, InSession
<1> QED
  BY <1>4, <1>5

LEMMA ArmPromptStreams == ASSUME IInv, SInv, ArmPrompt PROVE SInv'
<1> USE DEF SInv
<1>1. /\ spc \in {"shown", "reshown"} /\ Serving /\ Serving' /\ speer \in Slaves
      /\ spc' = IF spc = "shown" THEN "prompt" ELSE "reprompt"
      /\ kicked \subseteq Slaves
      /\ UNCHANGED <<speer, peerOpen, strust, c2s, cpc, crs, cKnown, ckey, goAway, s2c, kicked,
                     sKnown>>
  BY DEF ArmPrompt, slaveVars, Serving, IInv, Typed, StreamTyped
<1>2. ASSUME Joint(speer) PROVE Joint(speer)'
  BY <1>1, <1>2 DEF Joint, Together, OwnKey, PromptStage, ConnectedStage, Apart
<1>3. StreamTyped' /\ StreamInv' /\ ReasonGiven'
  BY <1>1, <1>2, ServerSilent
<1>4. MasterReadable' /\ CopyKnown' /\ KickedOut'
  BY <1>1 DEF MasterReadable, CopyKnown, KickedOut, InSession
<1> QED
  BY <1>3, <1>4

LEMMA PairingApprovedStreams == ASSUME IInv, SInv, PairingApproved PROVE SInv'
<1> USE DEF SInv
<1>1. /\ spc = "prompt" /\ spc' = "ik" /\ Serving /\ Serving' /\ speer \in Slaves
      /\ kicked \subseteq Slaves
      /\ UNCHANGED <<speer, peerOpen, c2s, cpc, crs, cKnown, ckey, goAway, kicked>>
      /\ s2c' = SentToSlave(<<Decision(1)>>)
      /\ \A d \in Slaves \ {speer} : sKnown'[d] = sKnown[d]
      /\ sKnown'[speer] = strust'
  BY DEF PairingApproved, Serving, IInv, Typed, StreamTyped
<1>2. c2s = <<>> /\ Len(c2s) = 0
  BY <1>1 DEF MasterReadable
<1>3. Decision(1) \in ToSlave \ {Eof} /\ Decision(1).t = "decision"
  BY Messages DEF Bit
<1>4. ASSUME peerOpen, Joint(speer) PROVE Joint(speer)'
  <2>1. /\ Len(s2c[speer]) \in Nat /\ Len(s2c'[speer]) = Len(s2c[speer]) + 1
        /\ \A i \in 1 .. Len(s2c[speer]) : s2c'[speer][i] = s2c[speer][i]
        /\ s2c'[speer][Len(s2c[speer]) + 1].t = "decision"
    BY <1>1, <1>3, <1>4, SentOne
  <2>2. PromptStage(speer) /\ Readable(cpc[speer], crs[speer], s2c[speer])
    BY <1>1, <1>4 DEF Joint, Together
  <2>3. \/ cpc[speer] = "pubkey" /\ Len(s2c[speer]) = 1
        \/ cpc[speer] = "decision" /\ Len(s2c[speer]) = 0
    BY <2>2 DEF PromptStage, Apart
  <2>4. CASE cpc[speer] = "pubkey" /\ Len(s2c[speer]) = 1
    <3>1. Len(s2c'[speer]) = 2 /\ s2c'[speer][1] = s2c[speer][1] /\ s2c'[speer][2].t = "decision"
      BY <2>1, <2>4
    <3>2. IkStage(speer)'
      BY <1>1, <1>2, <2>4, <3>1 DEF IkStage, Apart
    <3>3. Readable(cpc[speer], crs[speer], s2c'[speer])
      BY <2>2, <2>4, <3>1 DEF Readable
    <3> QED
      BY <1>1, <1>2, <3>2, <3>3 DEF Joint, Together, OwnKey
  <2>5. CASE cpc[speer] = "decision" /\ Len(s2c[speer]) = 0
    <3>1. Len(s2c'[speer]) = 1 /\ s2c'[speer][1].t = "decision"
      BY <2>1, <2>5
    <3>2. IkStage(speer)'
      BY <1>1, <1>2, <2>5, <3>1 DEF IkStage, Apart
    <3>3. Readable(cpc[speer], crs[speer], s2c'[speer])
      BY <2>2, <2>5, <3>1 DEF Readable
    <3> QED
      BY <1>1, <1>2, <3>2, <3>3 DEF Joint, Together, OwnKey
  <2> QED
    BY <2>3, <2>4, <2>5
<1>5. StreamTyped' /\ StreamInv' /\ ReasonGiven'
  BY <1>1, <1>3, <1>4, ServerSays
<1>6. MasterReadable' /\ CopyKnown' /\ KickedOut'
  BY <1>1, <1>2 DEF MasterReadable, CopyKnown, KickedOut, InSession
<1> QED
  BY <1>5, <1>6

LEMMA PairingRefusedStreams == ASSUME IInv, SInv, PairingRefused PROVE SInv'
<1> USE DEF SInv
<1>1. /\ spc = "prompt" /\ Serving /\ speer \in Slaves /\ CloseServed(<<Decision(0)>>)
      /\ UNCHANGED <<cpc, crs, cKnown, ckey, goAway, sKnown, kicked>>
  BY DEF PairingRefused, Serving, IInv, Typed
<1>2. Decision(0) \in ToSlave \ {Eof} /\ Decision(0).t = "decision"
  BY Messages DEF Bit
<1>3. ASSUME peerOpen, Joint(speer)
      PROVE  /\ \A w \in Words :
                  /\ Len(w) = Len(s2c[speer]) + 1 /\ w[Len(w)] = Decision(0)
                  /\ \A i \in 1 .. Len(s2c[speer]) : w[i] = s2c[speer][i]
                  => Readable(cpc[speer], crs[speer], w)
             /\ cpc[speer] \notin {"ik", "session"}
  <2>1. PromptStage(speer) /\ Readable(cpc[speer], crs[speer], s2c[speer])
    BY <1>1, <1>3 DEF Joint, Together
  <2>2. \/ cpc[speer] = "pubkey" /\ Len(s2c[speer]) = 1
        \/ cpc[speer] = "decision" /\ Len(s2c[speer]) = 0
    BY <2>1 DEF PromptStage, Apart
  <2>3. ASSUME NEW w \in Words, Len(w) = Len(s2c[speer]) + 1, w[Len(w)] = Decision(0),
               \A i \in 1 .. Len(s2c[speer]) : w[i] = s2c[speer][i]
        PROVE  Readable(cpc[speer], crs[speer], w)
    <3>1. CASE cpc[speer] = "pubkey" /\ Len(s2c[speer]) = 1
      <4>1. Len(w) = 2 /\ w[1] = s2c[speer][1] /\ w[2].t = "decision"
        BY <1>2, <2>3, <3>1
      <4> QED
        BY <2>1, <3>1, <4>1 DEF Readable
    <3>2. CASE cpc[speer] = "decision" /\ Len(s2c[speer]) = 0
      <4>1. Len(w) = 1 /\ w[1].t = "decision"
        BY <1>2, <2>3, <3>2
      <4> QED
        BY <2>1, <3>2, <4>1 DEF Readable
    <3> QED
      BY <2>2, <3>1, <3>2
  <2> QED
    BY <2>2, <2>3
<1> QED
  BY <1>1, <1>2, <1>3, LeavesSaying

(* A frame can follow whatever the Slave still has to read of the session. *)
LEMMA FrameFits ==
  ASSUME NEW pc, NEW rs, NEW w, NEW v, Readable(pc, rs, w), Len(w) \in Nat, Len(v) = Len(w) + 1,
         \A i \in 1 .. Len(w) : v[i] = w[i], v[Len(w) + 1].t \in MasterFrames,
         pc = "session" \/ (pc = "ik" /\ Len(w) >= 1)
  PROVE  Readable(pc, rs, v)
<1>1. CASE pc = "session"
  <2>1. \A i \in 1 .. Len(w) : w[i].t \in MasterFrames
    BY <1>1 DEF Readable
  <2>2. \A i \in 1 .. Len(v) : i \in 1 .. Len(w) \/ i = Len(w) + 1
    OBVIOUS
  <2>3. \A i \in 1 .. Len(v) : v[i].t \in MasterFrames
    BY <2>1, <2>2
  <2> QED
    BY <1>1, <2>3 DEF Readable
<1>2. CASE pc = "ik" /\ Len(w) >= 1
  <2>1. w[1].t = "ik2" /\ \A i \in 2 .. Len(w) : w[i].t \in MasterFrames
    BY <1>2 DEF Readable
  <2>2. \A i \in 2 .. Len(v) : i \in 2 .. Len(w) \/ i = Len(w) + 1
    OBVIOUS
  <2>3. \A i \in 2 .. Len(w) : i \in 1 .. Len(w)
    OBVIOUS
  <2>4. \A i \in 2 .. Len(v) : v[i].t \in MasterFrames
    BY <2>1, <2>2, <2>3
  <2>5. v[1] = w[1] /\ Len(v) >= 1
    BY <1>2
  <2> QED
    BY <1>2, <2>1, <2>4, <2>5 DEF Readable
<1> QED
  BY <1>1, <1>2

LEMMA ServerIkStreams == ASSUME IInv, SInv, ServerIk PROVE SInv'
<1> USE DEF SInv
<1>1. /\ spc = "ik" /\ Serving /\ speer \in Slaves /\ kicked \subseteq Slaves
      /\ UNCHANGED <<cpc, crs, cKnown, ckey, goAway, sKnown, kicked>>
      /\ strust # NoKey /\ ckey \in [Slaves -> Keys]
  BY DEF ServerIk, Serving, IInv, Typed, StreamTyped, CopyServed
<1>2. Len(c2s) = 1 /\ Head(c2s) = c2s[1] /\ c2s[1].t = "ik1" /\ Tail(c2s) = <<>>
  <2>1. c2s \in Seq(ToMaster) /\ c2s # <<>> /\ Head(c2s).t = "ik1"
    BY DEF ServerIk, Received, IInv, Typed
  <2> QED
    BY <1>1, <2>1, RequestRead DEF MasterReadable
<1>3. ASSUME Joint(speer)
      PROVE  /\ cpc[speer] = "ik" /\ Len(s2c[speer]) = 0 /\ c2s[1].v = ckey[speer]
             /\ Readable(cpc[speer], crs[speer], s2c[speer])
  <2>1. IkStage(speer) /\ OwnKey(speer)
    BY <1>1, <1>3 DEF Joint, Together
  <2>2. c2s[1].v = ckey[speer]
    BY <1>2, <2>1 DEF OwnKey
  <2> QED
    BY <1>2, <1>3, <2>1, <2>2 DEF IkStage, Apart, Joint
<1>4. Ik2 \in ToSlave \ {Eof} /\ Ik2.t = "ik2"
  BY Messages
<1>5. CASE c2s[1].v # strust
  <2>1. CloseServed(<<Ik2>>)
    BY <1>2, <1>5 DEF ServerIk
  <2>2. ASSUME peerOpen, Joint(speer)
        PROVE  /\ \A w \in Words :
                    /\ Len(w) = Len(s2c[speer]) + 1 /\ w[Len(w)] = Ik2
                    /\ \A i \in 1 .. Len(s2c[speer]) : w[i] = s2c[speer][i]
                    => Readable(cpc[speer], crs[speer], w)
               /\ sKnown[speer] # ckey[speer]
    <3>1. ASSUME NEW w \in Words, Len(w) = Len(s2c[speer]) + 1, w[Len(w)] = Ik2
          PROVE  Readable(cpc[speer], crs[speer], w)
      <4>1. Len(w) = 1 /\ w[1].t = "ik2" /\ cpc[speer] = "ik"
        BY <1>3, <1>4, <2>2, <3>1
      <4> QED
        BY <4>1 DEF Readable, ClientPc
    <3>2. sKnown[speer] # ckey[speer]
      BY <1>1, <1>3, <1>5, <2>2, KeyAssumption DEF CopyKnown
    <3> QED
      BY <3>1, <3>2
  <2> QED
    BY <1>1, <1>4, <2>1, <2>2, LeavesSaying
<1>6. CASE c2s[1].v = strust
  <2>1. /\ c2s' = <<>> /\ s2c' = SentToSlave(<<Ik2>>) /\ UNCHANGED <<speer, peerOpen, strust>>
        /\ spc' \in {"reshown", "connected"} /\ (spc' = "connected" => speer \notin kicked)
        /\ Serving'
    BY <1>2, <1>6 DEF ServerIk, MustReapprove, Serving
  <2>2. ASSUME peerOpen, Joint(speer) PROVE Joint(speer)'
    <3>1. Len(s2c'[speer]) = 1 /\ s2c'[speer][1].t = "ik2"
      <4>1. /\ Len(s2c[speer]) \in Nat /\ Len(s2c'[speer]) = Len(s2c[speer]) + 1
            /\ s2c'[speer][Len(s2c[speer]) + 1].t = "ik2"
        BY <1>1, <1>4, <2>1, <2>2, SentOne
      <4> QED
        BY <1>3, <2>2, <4>1
    <3>2. Readable("ik", crs[speer], s2c'[speer])
      BY <3>1 DEF Readable, ClientPc
    <3>3. ConnectedStage(speer)'
      BY <1>1, <1>3, <2>1, <2>2, <3>1 DEF ConnectedStage, Apart
    <3> QED
      BY <1>1, <1>3, <2>1, <2>2, <3>2, <3>3 DEF Joint, Together, OwnKey
  <2>3. StreamTyped' /\ StreamInv' /\ ReasonGiven'
    BY <1>1, <1>4, <2>1, <2>2, ServerSays
  <2>4. MasterReadable' /\ CopyKnown' /\ KickedOut'
    BY <1>1, <2>1 DEF MasterReadable, CopyKnown, KickedOut, InSession
  <2> QED
    BY <2>3, <2>4
<1> QED
  BY <1>5, <1>6

LEMMA ReapprovedStreams == ASSUME IInv, SInv, Reapproved PROVE SInv'
<1> USE DEF SInv
<1>1. /\ spc = "reprompt" /\ spc' = "connected" /\ Serving /\ Serving' /\ speer \in Slaves
      /\ kicked \subseteq Slaves /\ kicked' = kicked \ {speer}
      /\ UNCHANGED <<speer, peerOpen, strust, c2s, cpc, crs, cKnown, ckey, goAway, s2c, sKnown>>
  BY DEF Reapproved, slaveVars, Serving, IInv, Typed, StreamTyped
<1>2. ASSUME Joint(speer) PROVE Joint(speer)'
  BY <1>1, <1>2 DEF Joint, Together, OwnKey, ConnectedStage, Apart
<1>3. StreamTyped' /\ StreamInv' /\ ReasonGiven'
  BY <1>1, <1>2, ServerSilent
<1>4. MasterReadable' /\ CopyKnown' /\ KickedOut'
  BY <1>1 DEF MasterReadable, CopyKnown, KickedOut, InSession
<1> QED
  BY <1>3, <1>4

LEMMA SomeAhead ==
  ASSUME NEW c, ConnectedStage(c)
  PROVE  \/ cpc[c] = "ik" /\ Len(s2c[c]) >= 1 /\ Len(c2s) = 0
         \/ cpc[c] = "session"
<1>1. \/ cpc[c] = "ik" /\ Len(s2c[c]) = 1 /\ Len(c2s) = 0
      \/ cpc[c] = "session"
  BY DEF ConnectedStage, Apart
<1>2. CASE cpc[c] = "ik" /\ Len(s2c[c]) = 1 /\ Len(c2s) = 0
  BY <1>2
<1>3. CASE cpc[c] = "session"
  BY <1>3
<1> QED
  BY <1>1, <1>2, <1>3

LEMMA GoAwaySaid ==
  ASSUME SInv, Serving, speer \in Slaves, CloseServed(<<Frame("goaway")>>),
         UNCHANGED <<cpc, crs, cKnown, ckey, goAway, sKnown>>,
         kicked' \subseteq kicked \cup {speer},
         spc \in {"reprompt", "session"}
  PROVE  SInv'
<1>1. Frame("goaway") \in ToSlave \ {Eof} /\ Frame("goaway").t = "goaway"
  BY Messages DEF MasterFrames
<1>2. ASSUME peerOpen, Joint(speer), NEW w \in Words, Len(w) = Len(s2c[speer]) + 1,
             w[Len(w)] = Frame("goaway"),
             \A i \in 1 .. Len(s2c[speer]) : w[i] = s2c[speer][i]
      PROVE  Readable(cpc[speer], crs[speer], w)
  <2>1. s2c[speer] \in Words
    BY <1>2 DEF SInv, StreamTyped, Served
  <2>2. Len(s2c[speer]) \in Nat
    BY <2>1, LenProperties DEF Words
  <2>3. /\ Readable(cpc[speer], crs[speer], s2c[speer])
        /\ cpc[speer] = "session" \/ (cpc[speer] = "ik" /\ Len(s2c[speer]) >= 1)
    <3>1. spc = "reprompt" => ConnectedStage(speer)
      BY <1>2 DEF Joint, Together
    <3>2. spc = "session" => SessionStage(speer)
      BY <1>2 DEF Joint, Together
    <3>3. ConnectedStage(speer) =>
            cpc[speer] = "session" \/ (cpc[speer] = "ik" /\ Len(s2c[speer]) >= 1)
      BY SomeAhead
    <3>4. SessionStage(speer) =>
            cpc[speer] = "session" \/ (cpc[speer] = "ik" /\ Len(s2c[speer]) >= 1)
      BY DEF SessionStage
    <3> QED
      BY <1>2, <3>1, <3>2, <3>3, <3>4 DEF Joint
  <2>4. w[Len(s2c[speer]) + 1].t \in MasterFrames
    BY <1>1, <1>2 DEF MasterFrames
  <2> QED
    BY <1>2, <2>2, <2>3, <2>4, FrameFits
<1> QED
  BY <1>1, <1>2, LeavesSaying

LEMMA ReapprovalRefusedStreams == ASSUME IInv, SInv, ReapprovalRefused PROVE SInv'
<1>1. /\ spc = "reprompt" /\ Serving /\ speer \in Slaves
      /\ CloseServed(<<Frame("goaway")>>)
      /\ UNCHANGED <<cpc, crs, cKnown, ckey, goAway, sKnown, kicked>>
  BY DEF ReapprovalRefused, Serving, IInv, Typed
<1> QED
  BY <1>1, GoAwaySaid

LEMMA ServerHandshakeFailsStreams == ASSUME IInv, SInv, ServerHandshakeFails PROVE SInv'
<1>1. /\ spc \in {"flag", "pubkey", "ik"} /\ Serving /\ speer \in Slaves /\ CloseServed(<<>>)
      /\ c2s = <<>> /\ Len(c2s) = 0
      /\ UNCHANGED <<cpc, crs, cKnown, ckey, goAway, sKnown, kicked>>
  BY DEF ServerHandshakeFails, ReadEnds, Serving, IInv, Typed
<1>2. ASSUME Joint(speer) PROVE ~PastIk(speer)
  BY <1>1, <1>2 DEF Joint, Together, FlagStage, PubKeyStage, IkStage, Apart, PastIk
<1> QED
  BY <1>1, <1>2, LeavesSilently

LEMMA EndSessionStreams == ASSUME IInv, SInv, EndSession PROVE SInv'
<1>1. /\ spc = "session" /\ Serving /\ InSession /\ speer \in Slaves
      /\ UNCHANGED <<cpc, crs, cKnown, ckey, goAway, sKnown>>
  BY DEF EndSession, Serving, InSession, IInv, Typed
<1>2. CASE disconnect
  <2>1. CloseServed(<<Frame("goaway")>>) /\ kicked' = kicked \cup {speer}
    BY <1>2 DEF EndSession
  <2> QED
    BY <1>1, <2>1, GoAwaySaid
<1>3. CASE ~disconnect
  <2>1. CloseServed(<<>>) /\ kicked' = kicked
    BY <1>3 DEF EndSession
  <2>2. speer \notin kicked
    BY <1>1 DEF SInv, KickedOut
  <2> QED
    BY <1>1, <2>1, <2>2, LeavesSilently
<1> QED
  BY <1>2, <1>3

LEMMA OpenSessionStreams == ASSUME IInv, SInv, OpenSession PROVE SInv'
<1> USE DEF SInv
<1>1. /\ spc = "connected" /\ spc' = "session" /\ Serving /\ Serving' /\ speer \in Slaves
      /\ kicked \subseteq Slaves /\ s2c' = SentToSlave(<<Frame("audioport")>>)
      /\ UNCHANGED <<speer, peerOpen, strust, c2s, cpc, crs, cKnown, ckey, goAway, kicked, sKnown>>
  BY DEF OpenSession, Serving, IInv, Typed, StreamTyped
<1>2. /\ Frame("audioport") \in ToSlave \ {Eof}
      /\ Frame("audioport").t \in MasterFrames
  BY Messages DEF MasterFrames
<1>3. ASSUME peerOpen, Joint(speer) PROVE Joint(speer)'
  <2>1. /\ Len(s2c[speer]) \in Nat /\ Len(s2c'[speer]) = Len(s2c[speer]) + 1
        /\ \A i \in 1 .. Len(s2c[speer]) : s2c'[speer][i] = s2c[speer][i]
        /\ s2c'[speer][Len(s2c[speer]) + 1].t \in MasterFrames
    BY <1>1, <1>2, <1>3, SentOne
  <2>2. ConnectedStage(speer) /\ Readable(cpc[speer], crs[speer], s2c[speer])
    BY <1>1, <1>3 DEF Joint, Together
  <2>3. \/ cpc[speer] = "ik" /\ Len(s2c[speer]) >= 1 /\ Len(c2s) = 0
        \/ cpc[speer] = "session"
    BY <2>2, SomeAhead
  <2>4. Len(s2c'[speer]) >= 1
    BY <2>1
  <2>5. SessionStage(speer)'
    BY <1>1, <2>3, <2>4 DEF SessionStage
  <2>6. Readable(cpc[speer], crs[speer], s2c'[speer])
    BY <2>1, <2>2, <2>3, FrameFits
  <2> QED
    BY <1>1, <1>3, <2>5, <2>6 DEF Joint, Together, OwnKey
<1>4. StreamTyped' /\ StreamInv' /\ ReasonGiven'
  BY <1>1, <1>2, <1>3, ServerSays
<1>5. MasterReadable' /\ CopyKnown' /\ KickedOut'
  BY <1>1 DEF MasterReadable, CopyKnown, KickedOut, InSession
<1> QED
  BY <1>4, <1>5

LEMMA ServerReceiveStreams == ASSUME IInv, SInv, ServerReceive PROVE SInv'
<1> USE DEF SInv
<1>1. /\ spc = "session" /\ spc' = "session" /\ Serving /\ Serving' /\ speer \in Slaves
      /\ kicked \subseteq Slaves
      /\ UNCHANGED <<speer, peerOpen, strust, cpc, crs, cKnown, ckey, goAway, s2c, kicked, sKnown>>
  BY DEF ServerReceive, slaveVars, Serving, IInv, Typed, StreamTyped
<1>2. /\ Len(c2s) \in Nat /\ Len(c2s) >= 1 /\ Len(c2s') = Len(c2s) - 1
      /\ \A i \in 1 .. Len(c2s') : c2s'[i] = c2s[i + 1]
  <2>1. c2s \in Seq(ToMaster) /\ c2s # <<>> /\ c2s' = Tail(c2s)
    BY DEF ServerReceive, IInv, Typed
  <2> QED
    BY <2>1, RequestRead
<1>3. \A i \in 1 .. Len(c2s') : i + 1 \in 1 .. Len(c2s)
  BY <1>2
<1>4. ASSUME Joint(speer) PROVE Joint(speer)'
  <2>1. SessionStage(speer) /\ Readable(cpc[speer], crs[speer], s2c[speer]) /\ OwnKey(speer)
    BY <1>1, <1>4 DEF Joint, Together
  <2>2. cpc[speer] = "session"
    BY <1>2, <2>1 DEF SessionStage
  <2>3. SessionStage(speer)'
    BY <1>1, <2>2 DEF SessionStage
  <2>4. OwnKey(speer)'
    BY <1>1, <1>2, <1>3, <2>1 DEF OwnKey
  <2> QED
    BY <1>1, <2>1, <2>3, <2>4 DEF Joint, Together
<1>5. StreamTyped' /\ StreamInv' /\ ReasonGiven'
  BY <1>1, <1>4, ServerSilent
<1>6. MasterReadable'
  BY <1>1, <1>2, <1>3 DEF MasterReadable
<1>7. CopyKnown' /\ KickedOut'
  BY <1>1 DEF CopyKnown, KickedOut, InSession
<1> QED
  BY <1>5, <1>6, <1>7

LEMMA ServerSendStreams == ASSUME IInv, SInv, ServerSend PROVE SInv'
<1> USE DEF SInv
<1>1. /\ spc = "session" /\ spc' = "session" /\ Serving /\ Serving' /\ speer \in Slaves
      /\ kicked \subseteq Slaves /\ s2c' = SentToSlave(<<Frame("data")>>)
      /\ UNCHANGED <<speer, peerOpen, strust, c2s, cpc, crs, cKnown, ckey, goAway, kicked, sKnown>>
  BY DEF ServerSend, masterVars, Serving, IInv, Typed, StreamTyped
<1>2. Frame("data") \in ToSlave \ {Eof} /\ Frame("data").t \in MasterFrames
  BY Messages DEF MasterFrames
<1>3. ASSUME peerOpen, Joint(speer) PROVE Joint(speer)'
  <2>1. /\ Len(s2c[speer]) \in Nat /\ Len(s2c'[speer]) = Len(s2c[speer]) + 1
        /\ \A i \in 1 .. Len(s2c[speer]) : s2c'[speer][i] = s2c[speer][i]
        /\ s2c'[speer][Len(s2c[speer]) + 1].t \in MasterFrames
    BY <1>1, <1>2, <1>3, SentOne
  <2>2. SessionStage(speer) /\ Readable(cpc[speer], crs[speer], s2c[speer])
    BY <1>1, <1>3 DEF Joint, Together
  <2>3. \/ cpc[speer] = "ik" /\ Len(s2c[speer]) >= 1 /\ Len(c2s) = 0
        \/ cpc[speer] = "session"
    BY <2>2 DEF SessionStage
  <2>4. Len(s2c'[speer]) >= 1
    BY <2>1
  <2>5. SessionStage(speer)'
    BY <1>1, <2>3, <2>4 DEF SessionStage
  <2>6. Readable(cpc[speer], crs[speer], s2c'[speer])
    BY <2>1, <2>2, <2>3, FrameFits
  <2> QED
    BY <1>1, <1>3, <2>5, <2>6 DEF Joint, Together, OwnKey
<1>4. StreamTyped' /\ StreamInv' /\ ReasonGiven'
  BY <1>1, <1>2, <1>3, ServerSays
<1>5. MasterReadable' /\ CopyKnown' /\ KickedOut'
  BY <1>1 DEF MasterReadable, CopyKnown, KickedOut, InSession
<1> QED
  BY <1>4, <1>5

LEMMA ServerExitsStreams == ASSUME IInv, SInv, ServerExits PROVE SInv'
<1> USE DEF SInv
<1>1. /\ spc = "accept" /\ spc' = "stopped" /\ ~Serving /\ ~Serving'
      /\ s2c' = [c \in Slaves |-> IF cpc[c] = "dial" /\ s2c[c] = <<>> THEN <<Eof>> ELSE s2c[c]]
      /\ UNCHANGED <<peerOpen, c2s, cpc, crs, cKnown, ckey, goAway, kicked, sKnown>>
      /\ \A c \in Slaves : ~Served(c) /\ ~Served(c)'
  BY DEF ServerExits, Serving, Served
<1>2. <<Eof>> = Append(<<>>, Eof) /\ <<Eof>> \in Seq(ToSlave)
  BY Messages
<1>3. StreamTyped'
  BY <1>1, <1>2 DEF StreamTyped
<1>4. ASSUME NEW c \in Slaves PROVE Alone(c)'
  <2>1. Alone(c) /\ (~(Serving /\ speer = c))'
    BY <1>1 DEF StreamInv
  <2>2. CASE cpc[c] = "dial" /\ s2c[c] = <<>>
    <3>1. s2c'[c] = Append(<<>>, Eof)
      BY <1>1, <1>2, <2>2
    <3>2. Readable(cpc[c], crs[c], <<>>)
      BY <2>2, WordEmpty DEF Readable, ClientPc
    <3> QED
      BY <1>1, <2>1, <3>1, <3>2, WordEmpty DEF Alone, Ending
  <2>3. CASE ~(cpc[c] = "dial" /\ s2c[c] = <<>>)
    BY <1>1, <2>1, <2>3 DEF Alone, Unconnected, Ending
  <2> QED
    BY <2>2, <2>3
<1>5. StreamInv'
  BY <1>1, <1>4 DEF StreamInv
<1>6. ASSUME NEW d \in kicked', ~Served(d)', PastIk(d)', sKnown'[d] = ckey'[d] PROVE Told(d)'
  <2>1. d \in Slaves /\ s2c'[d] = s2c[d]
    BY <1>1, <1>6 DEF PastIk, StreamTyped
  <2>2. PastIk(d)
    BY <1>1, <1>6, <2>1 DEF PastIk
  <2> QED
    BY <1>1, <1>6, <2>1, <2>2 DEF Told, ReasonGiven
<1>7. ReasonGiven'
  BY <1>6 DEF ReasonGiven
<1>8. MasterReadable' /\ CopyKnown' /\ KickedOut'
  BY <1>1 DEF MasterReadable, CopyKnown, KickedOut, InSession
<1> QED
  BY <1>3, <1>5, <1>7, <1>8

LEMMA ServerStreams == ASSUME IInv, SInv, Server PROVE SInv'
BY AcceptConnectionStreams, ServerFlagStreams, ServerPubKeyStreams, ArmPromptStreams,
   PairingApprovedStreams, PairingRefusedStreams, ServerIkStreams, ReapprovedStreams,
   ReapprovalRefusedStreams, ServerHandshakeFailsStreams, OpenSessionStreams,
   ServerReceiveStreams, ServerSendStreams, EndSessionStreams, ServerExitsStreams DEF Server

-----------------------------------------------------------------------------
(* The users.  What they press reaches the streams only through the trust  *)
(* store and the Slave's threads.                                          *)

-----------------------------------------------------------------------------
(* The users.  What they press reaches the streams only through the trust  *)
(* store and the Slaves' threads.                                          *)

streamVars == <<spc, speer, peerOpen, strust, kicked, sKnown, c2s, cpc, ckey, cKnown, crs,
                goAway, s2c>>

LEMMA JointSame ==
  ASSUME NEW d \in Slaves, Joint(d), UNCHANGED <<spc, strust, c2s>>, cpc'[d] = cpc[d],
         crs'[d] = crs[d], ckey'[d] = ckey[d], s2c'[d] = s2c[d]
  PROVE  Joint(d)'
<1>1. Readable(cpc'[d], crs'[d], s2c'[d])
  BY DEF Joint
<1>2. Together(d)' /\ OwnKey(d)'
  BY DEF Joint, Together, FlagStage, PubKeyStage, PromptStage, IkStage, ConnectedStage,
         SessionStage, Apart, OwnKey
<1> QED
  BY <1>1, <1>2 DEF Joint

LEMMA StreamsUnseen == ASSUME SInv, UNCHANGED streamVars PROVE SInv'
<1> USE DEF SInv, streamVars
<1>1. /\ StreamTyped' /\ MasterReadable' /\ CopyKnown' /\ KickedOut' /\ ReasonGiven'
      /\ \A d \in Slaves : (Served(d)' <=> Served(d)) /\ (Alone(d)' <=> Alone(d))
  BY DEF StreamTyped, Served, Serving, InSession, MasterReadable, Alone, Unconnected, Ending,
         CopyKnown, KickedOut, ReasonGiven, PastIk, Told
<1>2. StreamInv'
  BY <1>1, JointSame DEF StreamInv
<1> QED
  BY <1>1, <1>2

LEMMA MasterUserStreams == ASSUME IInv, SInv, MasterUser PROVE SInv'
<1>1. CASE PressAccept \/ PressReject \/ PressDisconnect \/ StopServer
  BY <1>1, StreamsUnseen DEF PressAccept, PressReject, PressDisconnect, StopServer,
                             slaveVars, streamVars
<1>2. CASE StartServer
  <2>1. /\ ~Serving /\ ~Serving' /\ kicked' = {} /\ spc = "stopped" /\ spc' = "accept"
        /\ \A c \in Slaves : ~Served(c) /\ ~Served(c)'
        /\ UNCHANGED <<peerOpen, c2s, cpc, crs, cKnown, ckey, goAway, s2c>>
    BY <1>2 DEF StartServer, slaveVars, Serving, Served
  <2>2. StreamTyped' /\ MasterReadable' /\ CopyKnown' /\ KickedOut' /\ ReasonGiven'
    BY <2>1 DEF SInv, StreamTyped, MasterReadable, CopyKnown, KickedOut, InSession, ReasonGiven
  <2>3. StreamInv'
    BY <2>1 DEF SInv, StreamInv, Alone, Unconnected, Ending
  <2> QED
    BY <2>2, <2>3 DEF SInv
<1>3. ASSUME NEW c \in Slaves, PressForget(c) PROVE SInv'
  <2>1. /\ \A d \in Slaves : sKnown'[d] \in {sKnown[d], NoKey}
        /\ UNCHANGED <<spc, speer, peerOpen, strust, kicked, c2s, cpc, ckey, cKnown, crs, goAway, s2c>>
        /\ sKnown \in [Slaves -> Keys \cup {NoKey}] /\ ckey \in [Slaves -> Keys]
        /\ (Serving => speer \in Slaves) /\ NoKey \notin Keys
    BY <1>3, KeyAssumption DEF PressForget, Forgotten, slaveVars, IInv, Typed
  <2>2. /\ StreamTyped' /\ MasterReadable' /\ KickedOut'
        /\ \A d \in Slaves : (Served(d)' <=> Served(d)) /\ (Alone(d)' <=> Alone(d))
    BY <2>1 DEF SInv, StreamTyped, Served, Serving, InSession, MasterReadable, Alone, Unconnected,
                Ending, KickedOut
  <2>6. StreamInv'
    BY <2>1, <2>2, JointSame DEF SInv, StreamInv
  <2>3. CopyKnown'
    BY <2>1 DEF SInv, CopyKnown, Serving
  <2>4. ASSUME NEW d \in kicked', ~Served(d)', PastIk(d)', sKnown'[d] = ckey'[d] PROVE Told(d)'
    <3>1. d \in Slaves /\ d \in kicked /\ sKnown[d] = ckey[d]
      BY <2>1, <2>4 DEF SInv, StreamTyped
    <3>2. ~Served(d) /\ PastIk(d)
      BY <2>1, <2>4 DEF Served, Serving, PastIk
    <3> QED
      BY <2>1, <3>1, <3>2 DEF SInv, ReasonGiven, Told
  <2>5. ReasonGiven'
    BY <2>4 DEF ReasonGiven
  <2> QED
    BY <2>2, <2>3, <2>5, <2>6 DEF SInv
<1> QED
  BY <1>1, <1>2, <1>3 DEF MasterUser

-----------------------------------------------------------------------------
(* A Slave moves: of its own connection, served or ending, the rest of the *)
(* system sees what it sends and that it closes.                           *)

LEMMA SlaveMoves ==
  ASSUME SInv, NEW c \in Slaves,
         UNCHANGED <<spc, speer, strust, kicked, sKnown>>,
         peerOpen' = (peerOpen /\ ~(Served(c) /\ ~Served(c)')),
         cpc' \in [Slaves -> ClientPc], crs' \in [Slaves -> BOOLEAN],
         cKnown' \in [Slaves -> BOOLEAN], goAway' \in [Slaves -> BOOLEAN],
         s2c' \in [Slaves -> Seq(ToSlave)],
         \A d \in Slaves \ {c} : /\ cpc'[d] = cpc[d] /\ crs'[d] = crs[d] /\ ckey'[d] = ckey[d]
                                 /\ goAway'[d] = goAway[d] /\ s2c'[d] = s2c[d],
         ~Served(c) => c2s' = c2s,
         MasterReadable',
         Served(c)' => s2c'[c] \in Words /\ Joint(c)',
         ~Served(c)' => Alone(c)',
         c \in kicked /\ ~Served(c)' /\ PastIk(c)' /\ sKnown[c] = ckey'[c] => Told(c)'
  PROVE  SInv'
<1> USE DEF SInv
<1>1. peerOpen' \in BOOLEAN /\ (Serving' <=> Serving)
  BY DEF StreamTyped, Serving
<1>2. ASSUME NEW d \in Slaves, d # c, Served(d)
      PROVE  Served(d)' /\ s2c'[d] \in Words /\ Joint(d)'
  <2>1. speer = d /\ ~Served(c) /\ peerOpen' /\ c2s' = c2s
    BY <1>2 DEF Served, StreamTyped
  <2>2. Served(d)' /\ s2c'[d] \in Words
    BY <1>1, <1>2, <2>1 DEF Served, StreamTyped
  <2>3. Joint(d)
    BY <1>2 DEF StreamInv
  <2>4. /\ cpc'[d] = cpc[d] /\ crs'[d] = crs[d] /\ ckey'[d] = ckey[d] /\ s2c'[d] = s2c[d]
        /\ UNCHANGED <<spc, speer, strust, c2s>>
    BY <1>2, <2>1
  <2> QED
    BY <1>2, <2>2, <2>3, <2>4, JointSame
<1>3. ASSUME NEW d \in Slaves, d # c, ~Served(d) PROVE ~Served(d)' /\ Alone(d)'
  <2>1. ~Served(d)'
    BY <1>1, <1>3 DEF Served
  <2>2. Alone(d)
    BY <1>3 DEF StreamInv
  <2>3. cpc'[d] = cpc[d] /\ crs'[d] = crs[d] /\ s2c'[d] = s2c[d] /\ speer' = speer
    BY <1>3
  <2> QED
    BY <1>1, <2>1, <2>2, <2>3 DEF Alone, Unconnected, Ending
<1>4. StreamTyped'
  BY <1>1, <1>2, <1>3 DEF StreamTyped
<1>5. StreamInv'
  BY <1>2, <1>3 DEF StreamInv
<1>6. CopyKnown' /\ KickedOut'
  BY <1>1 DEF CopyKnown, KickedOut, InSession
<1>7. ASSUME NEW d \in kicked', ~Served(d)', PastIk(d)', sKnown'[d] = ckey'[d] PROVE Told(d)'
  <2>1. d \in Slaves
    BY <1>7 DEF StreamTyped
  <2>2. CASE d = c
    BY <1>7, <2>2
  <2>3. CASE d # c
    <3>1. /\ cpc'[d] = cpc[d] /\ s2c'[d] = s2c[d] /\ goAway'[d] = goAway[d] /\ ckey'[d] = ckey[d]
          /\ ~Served(d)
      BY <1>2, <1>7, <2>1, <2>3
    <3>2. PastIk(d)
      BY <1>7, <3>1 DEF PastIk
    <3> QED
      BY <1>7, <3>1, <3>2 DEF ReasonGiven, Told
  <2> QED
    BY <2>2, <2>3
<1>8. ReasonGiven'
  BY <1>7 DEF ReasonGiven
<1> QED
  BY <1>4, <1>5, <1>6, <1>8

LEMMA NotDialing ==
  ASSUME SInv, NEW c \in Slaves, cpc[c] \in {"off", "idle"}
  PROVE  ~Served(c) /\ s2c[c] = <<>>
BY DEF SInv, StreamInv, Joint, Alone, Unconnected, Ending, Readable

(* Without a connection there is nothing left to read, and nothing served. *)
LEMMA SlaveUnconnected ==
  ASSUME IInv, SInv, NEW c \in Slaves, NEW pc \in {"off", "idle", "dial"},
         UNCHANGED <<spc, speer, strust, kicked, sKnown, c2s>>,
         peerOpen' = (peerOpen /\ ~Served(c)),
         cpc' = [cpc EXCEPT ![c] = pc], crs' \in [Slaves -> BOOLEAN],
         cKnown' \in [Slaves -> BOOLEAN], goAway' \in [Slaves -> BOOLEAN],
         s2c' = [s2c EXCEPT ![c] = <<>>],
         \A d \in Slaves \ {c} : /\ crs'[d] = crs[d] /\ ckey'[d] = ckey[d]
                                 /\ goAway'[d] = goAway[d]
  PROVE  SInv'
<1>1. cpc' \in [Slaves -> ClientPc] /\ s2c' \in [Slaves -> Seq(ToSlave)]
      /\ cpc'[c] = pc /\ s2c'[c] = <<>>
      /\ \A d \in Slaves \ {c} : cpc'[d] = cpc[d] /\ s2c'[d] = s2c[d]
  BY DEF SInv, StreamTyped, ClientPc
<1>2. ~Served(c)' /\ peerOpen' = (peerOpen /\ ~(Served(c) /\ ~Served(c)'))
  BY DEF Served, Serving, SInv, StreamTyped
<1>3. Alone(c)' /\ ~PastIk(c)'
  BY <1>1 DEF Alone, Unconnected, PastIk
<1>4. MasterReadable'
  BY DEF SInv, MasterReadable
<1> QED
  BY <1>1, <1>2, <1>3, <1>4, SlaveMoves

LEMMA ClosesStreams ==
  ASSUME IInv, SInv, NEW c \in Slaves, NEW pc \in {"off", "idle"}, CloseClient(c, pc),
         UNCHANGED <<spc, speer, strust, kicked, sKnown, c2s, cKnown, ckey, goAway>>
  PROVE  SInv'
<1>1. /\ cpc' = [cpc EXCEPT ![c] = pc] /\ s2c' = [s2c EXCEPT ![c] = <<>>]
      /\ peerOpen' = (peerOpen /\ ~Served(c)) /\ crs' = [crs EXCEPT ![c] = FALSE]
      /\ crs' \in [Slaves -> BOOLEAN] /\ cKnown' \in [Slaves -> BOOLEAN]
      /\ goAway' \in [Slaves -> BOOLEAN]
      /\ pc \in {"off", "idle", "dial"}
  BY DEF CloseClient, SInv, StreamTyped
<1>2. \A d \in Slaves \ {c} : crs'[d] = crs[d] /\ ckey'[d] = ckey[d] /\ goAway'[d] = goAway[d]
  BY <1>1 DEF SInv, StreamTyped
<1> QED
  BY <1>1, <1>2, SlaveUnconnected

LEMMA IdleStreams ==
  ASSUME IInv, SInv, NEW c \in Slaves, Dial(c) \/ ClientGivesUp(c) \/ PressConnect(c) \/ Rekey(c)
  PROVE  SInv'
<1>1. cpc[c] \in {"off", "idle"}
  BY DEF Dial, ClientGivesUp, PressConnect, Rekey
<1>2. ~Served(c) /\ s2c[c] = <<>>
  BY <1>1, NotDialing
<1>3. /\ UNCHANGED <<spc, speer, strust, kicked, sKnown, c2s, peerOpen, s2c, cKnown, crs>>
      /\ \A d \in Slaves \ {c} : crs'[d] = crs[d] /\ ckey'[d] = ckey[d] /\ goAway'[d] = goAway[d]
      /\ \E pc \in {"off", "idle", "dial"} : cpc' = [cpc EXCEPT ![c] = pc]
      /\ goAway' \in [Slaves -> BOOLEAN]
  <2> USE DEF masterVars, SInv, StreamTyped, IInv, Typed
  <2>1. CASE Dial(c)
    BY <2>1 DEF Dial
  <2>2. CASE ClientGivesUp(c)
    BY <2>2 DEF ClientGivesUp
  <2>3. CASE PressConnect(c)
    BY <2>3 DEF PressConnect
  <2>4. CASE Rekey(c)
    <3>1. cpc' = [cpc EXCEPT ![c] = "off"]
      BY <2>4 DEF Rekey
    <3> QED
      BY <2>4, <3>1 DEF Rekey
  <2> QED
    BY <2>1, <2>2, <2>3, <2>4
<1>4. peerOpen' = (peerOpen /\ ~Served(c)) /\ s2c' = [s2c EXCEPT ![c] = <<>>]
      /\ crs' \in [Slaves -> BOOLEAN] /\ cKnown' \in [Slaves -> BOOLEAN]
      /\ goAway' \in [Slaves -> BOOLEAN]
  BY <1>2, <1>3 DEF SInv, StreamTyped
<1>5. PICK pc \in {"off", "idle", "dial"} : cpc' = [cpc EXCEPT ![c] = pc]
  BY <1>3
<1> QED
  BY <1>3, <1>4, <1>5, SlaveUnconnected

(* What a Slave that is not served any more still reads.                   *)
LEMMA EndingRead ==
  ASSUME SInv, NEW c \in Slaves, ~Served(c), s2c[c] # <<>>, ~Arrived(c, "eof")
  PROVE  /\ ~(Serving /\ speer = c)
         /\ \E w \in Words : /\ w # <<>> /\ s2c[c] = Append(w, Eof)
                             /\ Readable(cpc[c], crs[c], w) /\ Head(s2c[c]) = w[1]
                             /\ Tail(s2c[c]) = Append(Tail(w), Eof)
<1>1. Ending(c) /\ ~(Serving /\ speer = c)
  BY DEF SInv, StreamInv, Alone, Unconnected
<1>2. PICK w \in Words : s2c[c] = Append(w, Eof) /\ Readable(cpc[c], crs[c], w)
  BY <1>1 DEF Ending
<1>3. w # <<>>
  <2> SUFFICES ASSUME w = <<>> PROVE FALSE
    OBVIOUS
  <2>1. Head(s2c[c]) = Eof
    BY <1>2, WordEnded
  <2> QED
    BY <2>1, Messages DEF Arrived
<1>4. Head(s2c[c]) = w[1] /\ Tail(s2c[c]) = Append(Tail(w), Eof)
  BY <1>2, <1>3, WordEnded, WordRead
<1> QED
  BY <1>1, <1>2, <1>3, <1>4

LEMMA ToldRead ==
  ASSUME NEW c \in Slaves, s2c[c] \in Seq(ToSlave), s2c[c] # <<>>, Told(c),
         s2c'[c] = Tail(s2c[c]), goAway[c] \/ Head(s2c[c]).t = "goaway" => goAway'[c]
  PROVE  Told(c)'
<1> DEFINE s == s2c[c]
<1>1. /\ Len(s) \in Nat /\ Len(Tail(s)) = Len(s) - 1 /\ Head(s) = s[1]
      /\ \A i \in 1 .. Len(s) - 1 : Tail(s)[i] = s[i + 1]
      /\ Tail(s) \in Seq(ToSlave)
  BY HeadTailProperties, LenProperties
<1>2. DOMAIN s = 1 .. Len(s) /\ DOMAIN Tail(s) = 1 .. Len(s) - 1
  BY <1>1, LenProperties
<1>3. CASE goAway[c]
  BY <1>3 DEF Told
<1>4. ASSUME NEW i \in DOMAIN s, s[i].t = "goaway" PROVE Told(c)'
  <2>1. CASE i = 1
    BY <1>1, <1>4, <2>1 DEF Told
  <2>2. CASE i # 1
    <3>1. i - 1 \in 1 .. Len(s) - 1 /\ (i - 1) + 1 = i
      BY <1>1, <1>2, <2>2
    <3>2. Tail(s)[i - 1] = s[i]
      BY <1>1, <3>1
    <3> QED
      BY <1>2, <1>4, <3>1, <3>2 DEF Told
  <2> QED
    BY <2>1, <2>2
<1> QED
  BY <1>3, <1>4 DEF Told

(* A read that takes a message leaves the Slave where it can read the next,*)
(* whether the Master still serves it or has said all it had to say.       *)
LEMMA SlaveReads ==
  ASSUME IInv, SInv, NEW c \in Slaves, NEW pc \in {"pubkey", "decision", "ik", "session"},
         s2c[c] # <<>>, ~Arrived(c, "eof"),
         UNCHANGED <<spc, speer, peerOpen, strust, kicked, sKnown, ckey>>,
         cpc' = [cpc EXCEPT ![c] = pc], s2c' = [s2c EXCEPT ![c] = Tail(@)],
         crs' \in [Slaves -> BOOLEAN], cKnown' \in [Slaves -> BOOLEAN],
         goAway' \in [Slaves -> BOOLEAN],
         \A d \in Slaves \ {c} : crs'[d] = crs[d] /\ goAway'[d] = goAway[d],
         goAway[c] \/ Head(s2c[c]).t = "goaway" => goAway'[c],
         ~Served(c) => c2s' = c2s,
         pc = "session" => cpc[c] = "session" \/ (cpc[c] = "ik" /\ Head(s2c[c]).t = "ik2"),
         \A w \in Words : w # <<>> /\ w[1] = Head(s2c[c]) /\ Readable(cpc[c], crs[c], w)
                            => Readable(pc, crs'[c], Tail(w)) /\ (pc = "ik" => Tail(w) = <<>>),
         Served(c) /\ Joint(c) /\ s2c[c] \in Words
           => Together(c)' /\ OwnKey(c)' /\ MasterReadable'
  PROVE  SInv'
<1> USE DEF SInv
<1>1. /\ Head(s2c[c]) \in ToSlave /\ Tail(s2c[c]) \in Seq(ToSlave) /\ s2c[c] \in Seq(ToSlave)
      /\ s2c'[c] = Tail(s2c[c]) /\ s2c' \in [Slaves -> Seq(ToSlave)]
      /\ cpc' \in [Slaves -> ClientPc] /\ cpc'[c] = pc
      /\ \A d \in Slaves \ {c} : cpc'[d] = cpc[d] /\ s2c'[d] = s2c[d]
  <2>1. s2c[c] \in Seq(ToSlave) /\ pc \in ClientPc
    BY DEF StreamTyped, ClientPc
  <2>2. Head(s2c[c]) \in ToSlave /\ Tail(s2c[c]) \in Seq(ToSlave)
    BY <2>1, HeadTailProperties
  <2> QED
    BY <2>1, <2>2 DEF StreamTyped
<1>2. /\ Served(c)' <=> Served(c)
      /\ peerOpen' = (peerOpen /\ ~(Served(c) /\ ~Served(c)'))
  BY DEF Served, Serving, StreamTyped
<1>3. ASSUME Served(c) PROVE s2c'[c] \in Words /\ Joint(c)' /\ MasterReadable'
  <2>1. Joint(c) /\ s2c[c] \in Words
    BY <1>3 DEF StreamInv, StreamTyped
  <2>2. Tail(s2c[c]) \in Words /\ Head(s2c[c]) = s2c[c][1]
    BY <2>1, WordRead
  <2>3. Readable(cpc[c], crs[c], s2c[c])
    BY <2>1 DEF Joint
  <2>4. Readable(pc, crs'[c], Tail(s2c[c]))
    BY <2>1, <2>2, <2>3
  <2> QED
    BY <1>1, <1>3, <2>1, <2>2, <2>4 DEF Joint
<1>4. MasterReadable'
  BY <1>3 DEF MasterReadable
<1>5. ASSUME ~Served(c)
      PROVE  Alone(c)' /\ (c \in kicked /\ PastIk(c)' /\ sKnown[c] = ckey'[c] => Told(c)')
  <2>1. PICK w \in Words : /\ w # <<>> /\ s2c[c] = Append(w, Eof)
                           /\ Readable(cpc[c], crs[c], w) /\ Head(s2c[c]) = w[1]
                           /\ Tail(s2c[c]) = Append(Tail(w), Eof)
    BY <1>5, EndingRead
  <2>2. ~(Serving /\ speer = c)
    BY <1>5, EndingRead
  <2>3. Tail(w) \in Words /\ Readable(pc, crs'[c], Tail(w))
    BY <2>1, WordRead
  <2>4. Ending(c)'
    BY <1>1, <2>1, <2>3 DEF Ending
  <2>5. Alone(c)'
    BY <2>2, <2>4 DEF Alone, Serving
  <2>6. ASSUME pc = "ik" PROVE ~PastIk(c)'
    <3> DEFINE fin == Append(<<>>, Eof)
    <3>1. s2c'[c] = fin
      BY <1>1, <2>1, <2>6
    <3>2. \A i \in DOMAIN fin : fin[i].t # "ik2"
      <4>1. \A i \in DOMAIN fin : fin[i] = Eof
        OBVIOUS
      <4> QED
        BY <4>1 DEF Eof
    <3> HIDE DEF fin
    <3>3. \A i \in DOMAIN s2c'[c] : s2c'[c][i].t # "ik2"
      BY <3>1, <3>2
    <3> QED
      BY <1>1, <2>6, <3>3 DEF PastIk
  <2>7. ASSUME c \in kicked, PastIk(c)', sKnown[c] = ckey'[c] PROVE Told(c)'
    <3>1. pc = "session"
      BY <1>1, <2>6, <2>7 DEF PastIk
    <3>2. PastIk(c)
      <4>1. CASE cpc[c] = "session"
        BY <4>1 DEF PastIk
      <4>2. CASE cpc[c] = "ik" /\ Head(s2c[c]).t = "ik2"
        <5>1. 1 \in DOMAIN s2c[c] /\ s2c[c][1] = Head(s2c[c])
          <6>1. Head(s2c[c]) = s2c[c][1]
            BY <1>1
          <6>2. Len(s2c[c]) \in Nat /\ Len(s2c[c]) # 0 /\ DOMAIN s2c[c] = 1 .. Len(s2c[c])
            BY <1>1, LenProperties, EmptySeq
          <6> QED
            BY <6>1, <6>2
        <5> QED
          BY <4>2, <5>1 DEF PastIk
      <4> QED
        BY <3>1, <4>1, <4>2
    <3>3. Told(c)
      BY <1>5, <2>7, <3>2 DEF ReasonGiven
    <3> QED
      BY <1>1, <3>3, ToldRead
  <2> QED
    BY <2>5, <2>7
<1> QED
  BY <1>1, <1>2, <1>3, <1>4, <1>5, SlaveMoves

LEMMA RequestSent ==
  ASSUME IInv, NEW c, Served(c), NEW m \in ToMaster, c2s' = SentToMaster(c, m)
  PROVE  /\ Len(c2s) \in Nat /\ Len(c2s') = Len(c2s) + 1
         /\ \A i \in 1 .. Len(c2s) : c2s'[i] = c2s[i]
         /\ c2s'[Len(c2s) + 1] = m
BY RequestAdded DEF SentToMaster, IInv, Typed

(* Where the Master is while it serves a Slave that has s2c[c] to read.    *)
LEMMA StageOf ==
  ASSUME IInv, NEW c \in Slaves, Served(c), Joint(c)
  PROVE  \/ spc = "flag" /\ FlagStage(c)
         \/ spc = "pubkey" /\ PubKeyStage(c)
         \/ spc \in {"shown", "prompt"} /\ PromptStage(c)
         \/ spc = "ik" /\ IkStage(c)
         \/ spc \in {"reshown", "reprompt", "connected"} /\ ConnectedStage(c)
         \/ spc = "session" /\ SessionStage(c)
BY DEF Served, Serving, Joint, Together, IInv, Typed, ServerPc

(* What the Slave is to read, told apart by its length.                    *)
LEMMA ReadableShort ==
  ASSUME NEW pc \in ClientPc \ {"off", "idle"}, NEW rs, NEW w
  PROVE  /\ Len(w) = 0 => Readable(pc, rs, w)
         /\ Len(w) = 1 /\ pc = "flag" /\ w[1].t = "flag" => Readable(pc, rs, w)
         /\ Len(w) = 1 /\ pc = "pubkey" /\ w[1].t = "pubkey" => Readable(pc, rs, w)
         /\ Len(w) = 1 /\ pc = "decision" /\ w[1].t = "decision" => Readable(pc, rs, w)
<1>1. ASSUME Len(w) = 0 PROVE Readable(pc, rs, w)
  BY <1>1 DEF Readable
<1>2. ASSUME Len(w) = 1, pc \in {"flag", "pubkey", "decision"}, w[1].t = pc PROVE Readable(pc, rs, w)
  BY <1>2 DEF Readable
<1> QED
  BY <1>1, <1>2

LEMMA ClientIdsStreams == ASSUME IInv, SInv, NEW c \in Slaves, ClientIds(c) PROVE SInv'
<1> USE DEF SInv
<1> DEFINE wants == IF cKnown[c] THEN 0 ELSE 1
<1>1. /\ cpc[c] = "dial" /\ s2c[c] # <<>> /\ Head(s2c[c]).t = "flag" /\ ~Arrived(c, "eof")
      /\ UNCHANGED <<spc, speer, peerOpen, strust, kicked, sKnown, s2c, cKnown, ckey, goAway>>
      /\ crs' = [crs EXCEPT ![c] = cKnown[c]] /\ cpc' = [cpc EXCEPT ![c] = "flag"]
      /\ c2s' = SentToMaster(c, Flag(wants))
  BY DEF ClientIds, Arrived
<1>2. /\ cpc' \in [Slaves -> ClientPc] /\ crs' \in [Slaves -> BOOLEAN]
      /\ s2c' \in [Slaves -> Seq(ToSlave)] /\ cKnown' \in [Slaves -> BOOLEAN]
      /\ goAway' \in [Slaves -> BOOLEAN]
      /\ cpc'[c] = "flag" /\ (wants # 0 <=> ~crs'[c])
      /\ \A d \in Slaves \ {c} : cpc'[d] = cpc[d] /\ crs'[d] = crs[d]
      /\ Served(c)' <=> Served(c)
      /\ peerOpen' = (peerOpen /\ ~(Served(c) /\ ~Served(c)'))
  BY <1>1 DEF StreamTyped, ClientPc, Served, Serving
<1>3. Flag(wants) \in ToMaster /\ Flag(wants).t = "flag" /\ Flag(wants).v = wants
  BY Messages DEF Bit
<1>4. ASSUME NEW w, Readable("dial", crs[c], w) PROVE Readable("flag", crs'[c], w)
  <2>1. Len(w) <= 1 /\ (Len(w) >= 1 => w[1].t = "flag")
    BY <1>4 DEF Readable
  <2>2. Len(w) <= 2 /\ Len(w) # 2
    BY <2>1
  <2> QED
    BY <2>1, <2>2 DEF Readable, ClientPc
<1>5. ASSUME Served(c) PROVE s2c'[c] \in Words /\ Joint(c)' /\ MasterReadable'
  <2>1. Joint(c) /\ s2c[c] \in Words
    BY <1>5 DEF StreamInv, StreamTyped
  <2>2. spc = "flag" /\ Len(s2c[c]) = 1 /\ Len(c2s) = 0 /\ (s2c[c][1].v # 0 <=> strust = NoKey)
    BY <1>1, <1>5, <2>1, StageOf DEF FlagStage, PubKeyStage, PromptStage, IkStage, ConnectedStage,
                                     SessionStage, Apart
  <2>3. Len(c2s') = 1 /\ c2s'[1].t = "flag" /\ c2s'[1].v = wants
    BY <1>1, <1>3, <1>5, <2>2, RequestSent
  <2> HIDE DEF wants
  <2>4. FlagStage(c)'
    BY <1>1, <1>2, <2>2, <2>3 DEF FlagStage, Apart
  <2>5. Together(c)' /\ OwnKey(c)'
    BY <1>1, <2>2, <2>3, <2>4 DEF Together, OwnKey
  <2>6. Readable(cpc'[c], crs'[c], s2c'[c])
    BY <1>1, <1>2, <1>4, <2>1 DEF Joint
  <2>7. MasterReadable'
    BY <1>1, <2>2, <2>3 DEF MasterReadable
  <2> QED
    BY <1>1, <2>1, <2>5, <2>6, <2>7 DEF Joint
<1>6. MasterReadable'
  BY <1>1, <1>5 DEF MasterReadable, SentToMaster
<1>7. ~Served(c) => c2s' = c2s
  BY <1>1 DEF SentToMaster
<1>8. ASSUME ~Served(c) PROVE Alone(c)' /\ ~PastIk(c)'
  <2>1. PICK w \in Words : s2c[c] = Append(w, Eof) /\ Readable(cpc[c], crs[c], w)
    BY <1>1, <1>8, EndingRead
  <2>2. Ending(c)' /\ (~(Serving /\ speer = c))'
    BY <1>1, <1>2, <1>4, <1>8, <2>1, EndingRead DEF Ending, Serving
  <2> QED
    BY <1>2, <2>2 DEF Alone, PastIk
<1>9. ~PastIk(c)'
  BY <1>2 DEF PastIk
<1> HIDE DEF wants
<1> QED
  BY <1>1, <1>2, <1>5, <1>6, <1>7, <1>8, <1>9, SlaveMoves

LEMMA ClientFlagStreams == ASSUME IInv, SInv, NEW c \in Slaves, ClientFlag(c) PROVE SInv'
<1> USE DEF SInv
<1> DEFINE pair == NeedPairing(crs[c], Head(s2c[c]).v)
           pc == IF pair THEN "pubkey" ELSE "ik"
           request == IF pair THEN PubKey(ckey[c]) ELSE Ik1(ckey[c])
<1>1. /\ cpc[c] = "flag" /\ s2c[c] # <<>> /\ Head(s2c[c]).t = "flag" /\ ~Arrived(c, "eof")
      /\ UNCHANGED <<spc, speer, peerOpen, strust, kicked, sKnown, cKnown, ckey, crs, goAway>>
      /\ s2c' = [s2c EXCEPT ![c] = Tail(@)] /\ cpc' = [cpc EXCEPT ![c] = pc]
      /\ c2s' = SentToMaster(c, request)
  BY DEF ClientFlag, Arrived
<1>2. /\ pc \in {"pubkey", "decision", "ik", "session"} /\ pc # "session"
      /\ crs' \in [Slaves -> BOOLEAN] /\ cKnown' \in [Slaves -> BOOLEAN]
      /\ goAway' \in [Slaves -> BOOLEAN]
      /\ cpc'[c] = pc /\ s2c'[c] = Tail(s2c[c]) /\ (~Served(c) => c2s' = c2s)
      /\ \A d \in Slaves \ {c} : crs'[d] = crs[d] /\ goAway'[d] = goAway[d]
  BY <1>1 DEF StreamTyped, SentToMaster
<1>3. goAway[c] \/ Head(s2c[c]).t = "goaway" => goAway'[c]
  BY <1>1
<1>4. /\ request \in ToMaster /\ request.t = IF pair THEN "pubkey" ELSE "ik1"
      /\ ~pair => request.v = ckey[c]
  BY Messages DEF IInv, Typed
<1> HIDE DEF request
<1>5. ASSUME NEW w \in Words, w # <<>>, w[1] = Head(s2c[c]), Readable(cpc[c], crs[c], w)
      PROVE  Readable(pc, crs'[c], Tail(w)) /\ (pc = "ik" => Tail(w) = <<>>)
  <2>1. /\ Len(w) \in {1, 2} /\ (Len(w) = 2 => w[2].t = "pubkey" /\ pair)
        /\ Len(Tail(w)) = Len(w) - 1 /\ (Len(w) = 2 => Tail(w)[1] = w[2]) /\ Tail(w) \in Words
    <3>1. /\ Len(w) \in Nat /\ Len(w) >= 1 /\ Len(Tail(w)) = Len(w) - 1 /\ Tail(w) \in Words
          /\ \A i \in 1 .. Len(w) - 1 : Tail(w)[i] = w[i + 1]
      BY <1>5, WordRead
    <3>2. Len(w) <= 2 /\ (Len(w) = 2 => w[2].t = "pubkey" /\ pair)
      BY <1>1, <1>5 DEF Readable
    <3>3. Len(w) \in {1, 2}
      <4>1. \A n \in Nat : n >= 1 /\ n <= 2 => n \in {1, 2}
        OBVIOUS
      <4> QED
        BY <3>1, <3>2, <4>1
    <3>4. ASSUME Len(w) = 2 PROVE Tail(w)[1] = w[2]
      BY <3>1, <3>4
    <3> QED
      BY <3>1, <3>2, <3>3, <3>4
  <2>2. CASE Len(w) = 1
    <3>1. Len(Tail(w)) = 0 /\ Tail(w) = <<>>
      <4>1. Len(Tail(w)) = 0 /\ Tail(w) \in Seq(ToSlave \ {Eof})
        BY <2>1, <2>2 DEF Words
      <4> QED
        BY <4>1, EmptySeq
    <3>2. Readable("pubkey", crs'[c], Tail(w)) /\ Readable("ik", crs'[c], Tail(w))
      BY <3>1, ReadableShort DEF ClientPc
    <3> QED
      BY <3>1, <3>2
  <2>3. CASE Len(w) = 2
    <3>1. pc = "pubkey" /\ Len(Tail(w)) = 1 /\ Tail(w)[1].t = "pubkey"
      BY <2>1, <2>3
    <3>2. Readable("pubkey", crs'[c], Tail(w))
      BY <3>1, ReadableShort DEF ClientPc
    <3> QED
      BY <3>1, <3>2
  <2> QED
    BY <2>1, <2>2, <2>3
<1>6. ASSUME Served(c), Joint(c), s2c[c] \in Words
      PROVE  Together(c)' /\ OwnKey(c)' /\ MasterReadable'
  <2>1. /\ Len(s2c[c]) \in Nat /\ Len(s2c'[c]) = Len(s2c[c]) - 1 /\ s2c[c][1] = Head(s2c[c])
    BY <1>1, <1>2, <1>6, WordRead
  <2>2. /\ Len(c2s) \in Nat /\ Len(c2s') = Len(c2s) + 1
        /\ \A i \in 1 .. Len(c2s) : c2s'[i] = c2s[i]
        /\ c2s'[Len(c2s) + 1] = request
    BY <1>1, <1>4, <1>6, RequestSent
  <2>3. \/ /\ spc = "flag" /\ Len(s2c[c]) = 1 /\ Len(c2s) = 1
           /\ (s2c[c][1].v # 0 <=> strust = NoKey) /\ (c2s[1].v # 0 <=> ~crs[c])
        \/ spc = "pubkey" /\ Len(s2c[c]) = 2 /\ Len(c2s) = 0
        \/ spc = "ik" /\ Len(s2c[c]) = 1 /\ Len(c2s) = 0 /\ ~NeedPairing(crs[c], s2c[c][1].v)
    BY <1>1, <1>6, StageOf DEF FlagStage, PubKeyStage, PromptStage, IkStage, ConnectedStage,
                               SessionStage, Apart
  <2>4. OwnKey(c)'
    <3>1. OwnKey(c)
      BY <1>6 DEF Joint
    <3>2. \A i \in 1 .. Len(c2s') : i \in 1 .. Len(c2s) \/ i = Len(c2s) + 1
      BY <2>2
    <3>3. request.t = "ik1" => request.v = ckey[c]
      BY <1>4
    <3> QED
      BY <1>1, <2>2, <3>1, <3>2, <3>3 DEF OwnKey
  <2>5. CASE /\ spc = "flag" /\ Len(s2c[c]) = 1 /\ Len(c2s) = 1
             /\ (s2c[c][1].v # 0 <=> strust = NoKey) /\ (c2s[1].v # 0 <=> ~crs[c])
    <3>1. /\ Len(s2c'[c]) = 0 /\ Len(c2s') = 2 /\ c2s'[1] = c2s[1]
          /\ c2s'[2].t = IF pair THEN "pubkey" ELSE "ik1"
      BY <1>4, <2>1, <2>2, <2>5
    <3>2. pair <=> NeedPairing(strust # NoKey, c2s[1].v)
      BY <2>1, <2>5 DEF NeedPairing
    <3>3. c2s[1].t = "flag"
      BY <2>5 DEF MasterReadable
    <3>4. FlagStage(c)'
      BY <1>2, <3>1 DEF FlagStage, Apart
    <3>5. MasterReadable'
      BY <1>1, <2>5, <3>1, <3>2, <3>3 DEF MasterReadable
    <3> QED
      BY <1>1, <2>4, <2>5, <3>4, <3>5 DEF Together
  <2>6. CASE spc = "pubkey" /\ Len(s2c[c]) = 2 /\ Len(c2s) = 0
    <3>1. pair
      <4>1. Readable(cpc[c], crs[c], s2c[c])
        BY <1>6 DEF Joint
      <4> QED
        BY <1>1, <2>1, <2>6, <4>1 DEF Readable
    <3>2. cpc'[c] = "pubkey" /\ Len(s2c'[c]) = 1 /\ Len(c2s') = 1 /\ c2s'[1].t = "pubkey"
      BY <1>2, <1>4, <2>1, <2>2, <2>6, <3>1
    <3>3. PubKeyStage(c)' /\ MasterReadable'
      BY <1>1, <2>6, <3>2 DEF PubKeyStage, Apart, MasterReadable
    <3> QED
      BY <1>1, <2>4, <2>6, <3>3 DEF Together
  <2>7. CASE spc = "ik" /\ Len(s2c[c]) = 1 /\ Len(c2s) = 0 /\ ~NeedPairing(crs[c], s2c[c][1].v)
    <3>1. ~pair
      BY <2>1, <2>7
    <3>2. cpc'[c] = "ik" /\ Len(s2c'[c]) = 0 /\ Len(c2s') = 1 /\ c2s'[1].t = "ik1"
      BY <1>2, <1>4, <2>1, <2>2, <2>7, <3>1
    <3>3. IkStage(c)' /\ MasterReadable'
      BY <1>1, <2>7, <3>2 DEF IkStage, Apart, MasterReadable
    <3> QED
      BY <1>1, <2>4, <2>7, <3>3 DEF Together
  <2> QED
    BY <2>3, <2>5, <2>6, <2>7
<1> HIDE DEF pc
<1> QED
  BY <1>1, <1>2, <1>3, <1>5, <1>6, SlaveReads

LEMMA ClientPubKeyStreams == ASSUME IInv, SInv, NEW c \in Slaves, ClientPubKey(c) PROVE SInv'
<1> USE DEF SInv
<1>1. /\ cpc[c] = "pubkey" /\ s2c[c] # <<>> /\ Head(s2c[c]).t = "pubkey" /\ ~Arrived(c, "eof")
      /\ UNCHANGED <<spc, speer, peerOpen, strust, kicked, sKnown, cKnown, ckey, crs, goAway, c2s>>
      /\ s2c' = [s2c EXCEPT ![c] = Tail(@)] /\ cpc' = [cpc EXCEPT ![c] = "decision"]
  BY DEF ClientPubKey, Arrived, masterVars
<1>2. /\ crs' \in [Slaves -> BOOLEAN] /\ cKnown' \in [Slaves -> BOOLEAN]
      /\ goAway' \in [Slaves -> BOOLEAN]
      /\ cpc'[c] = "decision" /\ s2c'[c] = Tail(s2c[c])
  BY <1>1 DEF StreamTyped
<1>3. ASSUME NEW w \in Words, w # <<>>, Readable(cpc[c], crs[c], w)
      PROVE  Readable("decision", crs'[c], Tail(w))
  <2>1. /\ Len(w) \in Nat /\ Len(w) >= 1 /\ Len(Tail(w)) = Len(w) - 1
        /\ \A i \in 1 .. Len(w) - 1 : Tail(w)[i] = w[i + 1]
    BY <1>3, WordRead
  <2>2. Len(w) <= 2 /\ (Len(w) = 2 => w[2].t = "decision")
    BY <1>1, <1>3 DEF Readable
  <2>3. Len(w) = 1 \/ Len(w) = 2
    <3>1. \A n \in Nat : n >= 1 /\ n <= 2 => n = 1 \/ n = 2
      OBVIOUS
    <3> QED
      BY <2>1, <2>2, <3>1
  <2>4. CASE Len(w) = 1
    <3>1. Len(Tail(w)) = 0
      BY <2>1, <2>4
    <3> QED
      BY <3>1, ReadableShort DEF ClientPc
  <2>5. CASE Len(w) = 2
    <3>1. Len(Tail(w)) = 1 /\ Tail(w)[1].t = "decision"
      BY <2>1, <2>2, <2>5
    <3> QED
      BY <3>1, ReadableShort DEF ClientPc
  <2> QED
    BY <2>3, <2>4, <2>5
<1>4. ASSUME Served(c), Joint(c), s2c[c] \in Words
      PROVE  Together(c)' /\ OwnKey(c)' /\ MasterReadable'
  <2>1. /\ Len(s2c[c]) \in Nat /\ Len(s2c[c]) >= 1 /\ Len(s2c'[c]) = Len(s2c[c]) - 1
    BY <1>1, <1>2, <1>4, WordRead
  <2>2. \/ spc = "pubkey" /\ Len(s2c[c]) = 1 /\ Len(c2s) = 1
        \/ spc \in {"shown", "prompt"} /\ Len(s2c[c]) = 1 /\ Len(c2s) = 0
        \/ spc = "ik" /\ Len(s2c[c]) = 2 /\ Len(c2s) = 0
    <3>1. Len(s2c[c]) # 0
      BY <2>1
    <3> QED
      BY <1>1, <1>4, <3>1, StageOf DEF FlagStage, PubKeyStage, PromptStage, IkStage,
                                       ConnectedStage, SessionStage, Apart
  <2>3. OwnKey(c)' /\ MasterReadable'
    BY <1>1, <1>4 DEF Joint, OwnKey, MasterReadable
  <2>4. CASE spc = "pubkey" /\ Len(s2c[c]) = 1 /\ Len(c2s) = 1
    <3>1. Len(s2c'[c]) = 0
      BY <2>1, <2>4
    <3> QED
      BY <1>1, <1>2, <2>3, <2>4, <3>1 DEF Together, PubKeyStage, Apart
  <2>5. CASE spc \in {"shown", "prompt"} /\ Len(s2c[c]) = 1 /\ Len(c2s) = 0
    <3>1. Len(s2c'[c]) = 0
      BY <2>1, <2>5
    <3> QED
      BY <1>1, <1>2, <2>3, <2>5, <3>1 DEF Together, PromptStage, Apart
  <2>6. CASE spc = "ik" /\ Len(s2c[c]) = 2 /\ Len(c2s) = 0
    <3>1. Len(s2c'[c]) = 1
      BY <2>1, <2>6
    <3> QED
      BY <1>1, <1>2, <2>3, <2>6, <3>1 DEF Together, IkStage, Apart
  <2> QED
    BY <2>2, <2>4, <2>5, <2>6
<1> QED
  BY <1>1, <1>2, <1>3, <1>4, SlaveReads

LEMMA ClientApprovedStreams == ASSUME IInv, SInv, NEW c \in Slaves, ClientApproved(c) PROVE SInv'
<1> USE DEF SInv
<1>1. /\ cpc[c] = "decision" /\ s2c[c] # <<>> /\ Head(s2c[c]).t = "decision" /\ ~Arrived(c, "eof")
      /\ UNCHANGED <<spc, speer, peerOpen, strust, kicked, sKnown, ckey, goAway>>
      /\ s2c' = [s2c EXCEPT ![c] = Tail(@)] /\ cpc' = [cpc EXCEPT ![c] = "ik"]
      /\ cKnown' = [cKnown EXCEPT ![c] = TRUE] /\ crs' = [crs EXCEPT ![c] = TRUE]
      /\ c2s' = SentToMaster(c, Ik1(ckey[c]))
  BY DEF ClientApproved, Arrived
<1>2. /\ crs' \in [Slaves -> BOOLEAN] /\ cKnown' \in [Slaves -> BOOLEAN]
      /\ goAway' \in [Slaves -> BOOLEAN]
      /\ cpc'[c] = "ik" /\ s2c'[c] = Tail(s2c[c]) /\ (~Served(c) => c2s' = c2s)
      /\ \A d \in Slaves \ {c} : crs'[d] = crs[d] /\ goAway'[d] = goAway[d]
  BY <1>1 DEF StreamTyped, SentToMaster
<1>3. ASSUME NEW w \in Words, w # <<>>, Readable(cpc[c], crs[c], w)
      PROVE  Readable("ik", crs'[c], Tail(w)) /\ Tail(w) = <<>>
  <2>1. /\ Len(w) \in Nat /\ Len(w) >= 1 /\ Len(Tail(w)) = Len(w) - 1 /\ Tail(w) \in Words
    BY <1>3, WordRead
  <2>2. Len(w) <= 1
    BY <1>1, <1>3 DEF Readable
  <2>3. Len(Tail(w)) = 0
    BY <2>1, <2>2
  <2>4. Tail(w) = <<>>
    BY <2>1, <2>3, EmptySeq DEF Words
  <2> QED
    BY <2>3, <2>4, ReadableShort DEF ClientPc
<1>4. ASSUME Served(c), Joint(c), s2c[c] \in Words
      PROVE  Together(c)' /\ OwnKey(c)' /\ MasterReadable'
  <2>1. /\ Len(s2c[c]) \in Nat /\ Len(s2c[c]) >= 1 /\ Len(s2c'[c]) = Len(s2c[c]) - 1
    BY <1>1, <1>2, <1>4, WordRead
  <2>2. spc = "ik" /\ Len(s2c[c]) = 1 /\ Len(c2s) = 0
    <3>1. Len(s2c[c]) # 0
      BY <2>1
    <3> QED
      BY <1>1, <1>4, <3>1, StageOf DEF FlagStage, PubKeyStage, PromptStage, IkStage,
                                       ConnectedStage, SessionStage, Apart
  <2>3. Ik1(ckey[c]) \in ToMaster /\ Ik1(ckey[c]).t = "ik1" /\ Ik1(ckey[c]).v = ckey[c]
    BY Messages DEF IInv, Typed
  <2>4. Len(c2s') = 1 /\ c2s'[1].t = "ik1" /\ c2s'[1].v = ckey[c] /\ Len(s2c'[c]) = 0
    BY <1>1, <1>4, <2>1, <2>2, <2>3, RequestSent
  <2>5. IkStage(c)'
    BY <1>2, <2>4 DEF IkStage, Apart
  <2> QED
    BY <1>1, <2>2, <2>4, <2>5 DEF Together, OwnKey, MasterReadable
<1> QED
  BY <1>1, <1>2, <1>3, <1>4, SlaveReads

LEMMA ClientClosesStreams ==
  ASSUME IInv, SInv, NEW c \in Slaves,
         ClientRejected(c) \/ ClientHandshakeFails(c) \/ ClientEndsSession(c)
  PROVE  SInv'
BY ClosesStreams DEF ClientRejected, ClientHandshakeFails, ClientEndsSession, AfterAttempt,
                     masterLessOpen

LEMMA ClientIkStreams == ASSUME IInv, SInv, NEW c \in Slaves, ClientIk(c) PROVE SInv'
<1> USE DEF SInv
<1>1. /\ cpc[c] = "ik" /\ s2c[c] # <<>> /\ Head(s2c[c]).t = "ik2" /\ ~Arrived(c, "eof")
      /\ UNCHANGED <<spc, speer, peerOpen, strust, kicked, sKnown, cKnown, ckey, crs, goAway>>
      /\ s2c' = [s2c EXCEPT ![c] = Tail(@)] /\ cpc' = [cpc EXCEPT ![c] = "session"]
      /\ c2s' = SentToMaster(c, Frame("monitors"))
  BY DEF ClientIk, Arrived
<1>2. /\ crs' \in [Slaves -> BOOLEAN] /\ cKnown' \in [Slaves -> BOOLEAN]
      /\ goAway' \in [Slaves -> BOOLEAN]
      /\ cpc'[c] = "session" /\ s2c'[c] = Tail(s2c[c]) /\ (~Served(c) => c2s' = c2s)
      /\ goAway[c] \/ Head(s2c[c]).t = "goaway" => goAway'[c]
  BY <1>1 DEF StreamTyped, SentToMaster
<1>3. ASSUME NEW w \in Words, w # <<>>, Readable(cpc[c], crs[c], w)
      PROVE  Readable("session", crs'[c], Tail(w))
  <2>1. /\ Len(w) \in Nat /\ Len(w) >= 1 /\ Len(Tail(w)) = Len(w) - 1
        /\ \A i \in 1 .. Len(w) - 1 : Tail(w)[i] = w[i + 1]
    BY <1>3, WordRead
  <2>2. \A i \in 2 .. Len(w) : w[i].t \in MasterFrames
    BY <1>1, <1>3 DEF Readable
  <2>3. \A i \in 1 .. Len(Tail(w)) : i \in 1 .. Len(w) - 1 /\ i + 1 \in 2 .. Len(w)
    BY <2>1
  <2>4. \A i \in 1 .. Len(Tail(w)) : Tail(w)[i].t \in MasterFrames
    BY <2>1, <2>2, <2>3
  <2> DEFINE v == Tail(w)
  <2> HIDE DEF v
  <2>5. \A i \in 1 .. Len(v) : v[i].t \in MasterFrames
    BY <2>4 DEF v
  <2>6. Readable("session", crs'[c], v)
    BY <2>5 DEF Readable, ClientPc
  <2> QED
    BY <2>6 DEF v
<1>4. ASSUME Served(c), Joint(c), s2c[c] \in Words
      PROVE  Together(c)' /\ OwnKey(c)' /\ MasterReadable'
  <2>1. Len(s2c[c]) \in Nat /\ Len(s2c[c]) >= 1 /\ Len(s2c'[c]) = Len(s2c[c]) - 1
    BY <1>1, <1>2, <1>4, WordRead
  <2>2. \/ spc \in {"reshown", "reprompt", "connected"} /\ Len(s2c[c]) = 1 /\ Len(c2s) = 0
        \/ spc = "session" /\ Len(c2s) = 0
    <3>1. Len(s2c[c]) # 0
      BY <2>1
    <3>2. ~FlagStage(c) /\ ~PubKeyStage(c) /\ ~PromptStage(c) /\ ~IkStage(c)
      BY <1>1, <3>1 DEF FlagStage, PubKeyStage, PromptStage, IkStage, Apart
    <3>3. ConnectedStage(c) => Len(s2c[c]) = 1 /\ Len(c2s) = 0
      BY <1>1 DEF ConnectedStage, Apart
    <3>4. SessionStage(c) => Len(c2s) = 0
      BY <1>1 DEF SessionStage
    <3> QED
      BY <1>4, <3>2, <3>3, <3>4, StageOf
  <2>3. Frame("monitors") \in ToMaster /\ Frame("monitors").t = "monitors"
    BY Messages DEF SlaveFrames
  <2>4. Len(c2s') = 1 /\ c2s'[1].t = "monitors"
    <3>1. Len(c2s) = 0
      BY <2>2
    <3>2. Len(c2s') = Len(c2s) + 1 /\ c2s'[Len(c2s) + 1].t = "monitors"
      BY <1>1, <1>4, <2>3, RequestSent
    <3> QED
      BY <3>1, <3>2
  <2>5. \A i \in 1 .. Len(c2s') : c2s'[i].t = "monitors"
    BY <2>4
  <2>6. OwnKey(c)' /\ MasterReadable'
    BY <1>1, <2>2, <2>5 DEF OwnKey, MasterReadable, SlaveFrames
  <2>7. CASE spc \in {"reshown", "reprompt", "connected"} /\ Len(s2c[c]) = 1
    <3>1. Len(s2c'[c]) = 0
      BY <2>1, <2>7
    <3> QED
      BY <1>1, <1>2, <2>6, <2>7, <3>1 DEF Together, ConnectedStage
  <2>8. CASE spc = "session"
    BY <1>1, <1>2, <2>6, <2>8 DEF Together, SessionStage
  <2> QED
    BY <2>2, <2>7, <2>8
<1> QED
  BY <1>1, <1>2, <1>3, <1>4, SlaveReads

LEMMA ClientReceiveStreams == ASSUME IInv, SInv, NEW c \in Slaves, ClientReceive(c) PROVE SInv'
<1> USE DEF SInv
<1>1. /\ cpc[c] = "session" /\ s2c[c] # <<>> /\ ~Arrived(c, "eof")
      /\ UNCHANGED <<spc, speer, peerOpen, strust, kicked, sKnown, cKnown, ckey, crs, c2s, cpc>>
      /\ s2c' = [s2c EXCEPT ![c] = Tail(@)]
      /\ goAway' = [goAway EXCEPT ![c] = @ \/ Arrived(c, "goaway")]
  BY DEF ClientReceive, masterVars
<1>2. /\ crs' \in [Slaves -> BOOLEAN] /\ cKnown' \in [Slaves -> BOOLEAN]
      /\ goAway' \in [Slaves -> BOOLEAN]
      /\ cpc' = [cpc EXCEPT ![c] = "session"] /\ s2c'[c] = Tail(s2c[c])
  BY <1>1 DEF StreamTyped
<1>3. /\ goAway[c] \/ Head(s2c[c]).t = "goaway" => goAway'[c]
      /\ \A d \in Slaves \ {c} : goAway'[d] = goAway[d]
  BY <1>1 DEF Arrived, StreamTyped
<1>4. ASSUME NEW w \in Words, w # <<>>, Readable(cpc[c], crs[c], w)
      PROVE  Readable("session", crs'[c], Tail(w))
  <2>1. /\ Len(w) \in Nat /\ Len(w) >= 1 /\ Len(Tail(w)) = Len(w) - 1
        /\ \A i \in 1 .. Len(w) - 1 : Tail(w)[i] = w[i + 1]
    BY <1>4, WordRead
  <2>2. \A i \in 1 .. Len(w) : w[i].t \in MasterFrames
    BY <1>1, <1>4 DEF Readable
  <2>3. \A i \in 1 .. Len(Tail(w)) : i \in 1 .. Len(w) - 1 /\ i + 1 \in 1 .. Len(w)
    BY <2>1
  <2>4. \A i \in 1 .. Len(Tail(w)) : Tail(w)[i].t \in MasterFrames
    BY <2>1, <2>2, <2>3
  <2> DEFINE v == Tail(w)
  <2> HIDE DEF v
  <2>5. \A i \in 1 .. Len(v) : v[i].t \in MasterFrames
    BY <2>4 DEF v
  <2>6. Readable("session", crs'[c], v)
    BY <2>5 DEF Readable, ClientPc
  <2> QED
    BY <2>6 DEF v
<1>5. ASSUME Served(c), Joint(c), s2c[c] \in Words
      PROVE  Together(c)' /\ OwnKey(c)' /\ MasterReadable'
  <2>1. Len(s2c[c]) \in Nat /\ Len(s2c[c]) >= 1
    BY <1>1, <1>5, WordRead
  <2>2. spc = "session"
    <3>1. Len(s2c[c]) # 0
      BY <2>1
    <3> QED
      BY <1>1, <1>5, <3>1, StageOf DEF FlagStage, PubKeyStage, PromptStage, IkStage,
                                       ConnectedStage, SessionStage, Apart
  <2> QED
    BY <1>1, <1>5, <2>2 DEF Joint, OwnKey, MasterReadable, Together, SessionStage
<1> QED
  BY <1>1, <1>2, <1>3, <1>4, <1>5, SlaveReads

LEMMA ClientSendStreams == ASSUME IInv, SInv, NEW c \in Slaves, ClientSend(c) PROVE SInv'
<1> USE DEF SInv
<1>1. /\ cpc[c] = "session" /\ Served(c)
      /\ UNCHANGED <<spc, speer, peerOpen, strust, kicked, sKnown, cKnown, ckey, crs, goAway, cpc,
                     s2c>>
      /\ c2s' = SentToMaster(c, Frame("data"))
  BY DEF ClientSend, slaveVars
<1>2. /\ Served(c)' /\ peerOpen' = (peerOpen /\ ~(Served(c) /\ ~Served(c)'))
      /\ cpc' \in [Slaves -> ClientPc] /\ crs' \in [Slaves -> BOOLEAN]
      /\ goAway' \in [Slaves -> BOOLEAN] /\ cKnown' \in [Slaves -> BOOLEAN]
      /\ s2c' \in [Slaves -> Seq(ToSlave)] /\ s2c'[c] \in Words
  BY <1>1 DEF Served, Serving, StreamTyped
<1>3. Joint(c)
  BY <1>1 DEF StreamInv
<1>4. /\ Len(c2s) \in Nat /\ Len(c2s') = Len(c2s) + 1
      /\ \A i \in 1 .. Len(c2s) : c2s'[i] = c2s[i]
      /\ c2s'[Len(c2s) + 1] = Frame("data") /\ Frame("data").t = "data"
  BY <1>1, Messages, RequestSent DEF SlaveFrames
<1>5. \A i \in 1 .. Len(c2s') : i \in 1 .. Len(c2s) \/ c2s'[i].t = "data"
  <2>1. \A i \in 1 .. Len(c2s') : i \in 1 .. Len(c2s) \/ i = Len(c2s) + 1
    BY <1>4
  <2> QED
    BY <1>4, <2>1
<1>6. spc \in {"reshown", "reprompt", "connected", "session"}
  BY <1>1, <1>3, StageOf DEF FlagStage, PubKeyStage, PromptStage, IkStage
<1>7. MasterReadable'
  BY <1>1, <1>4, <1>5, <1>6 DEF MasterReadable, SlaveFrames
<1>8. OwnKey(c)'
  <2>1. OwnKey(c)
    BY <1>3 DEF Joint
  <2> QED
    BY <1>1, <1>4, <1>5, <2>1 DEF OwnKey
<1>9. Together(c)'
  BY <1>1, <1>3, <1>6 DEF Joint, Together, ConnectedStage, SessionStage, Apart
<1>10. Joint(c)'
  BY <1>1, <1>3, <1>8, <1>9 DEF Joint
<1> QED
  BY <1>1, <1>2, <1>7, <1>10, SlaveMoves

LEMMA ClientStreams == ASSUME IInv, SInv, NEW c \in Slaves, Client(c) \/ SlaveUser(c) PROVE SInv'
<1>1. CASE PressStop(c)
  BY <1>1, StreamsUnseen DEF PressStop, masterVars, streamVars
<1>2. CASE ForgetMaster(c)
  <2>1. /\ UNCHANGED <<spc, speer, peerOpen, strust, kicked, sKnown, c2s, cpc, ckey, crs, goAway,
                       s2c>>
        /\ cKnown' \in [Slaves -> BOOLEAN]
    BY <1>2 DEF ForgetMaster, masterVars, SInv, StreamTyped
  <2>2. /\ StreamTyped' /\ MasterReadable' /\ CopyKnown' /\ KickedOut' /\ ReasonGiven'
        /\ \A d \in Slaves : (Served(d)' <=> Served(d)) /\ (Alone(d)' <=> Alone(d))
    BY <2>1 DEF SInv, StreamTyped, Served, Serving, InSession, MasterReadable, Alone, Unconnected,
                Ending, CopyKnown, KickedOut, ReasonGiven, PastIk, Told
  <2>3. StreamInv'
    BY <2>1, <2>2, JointSame DEF SInv, StreamInv
  <2> QED
    BY <2>2, <2>3 DEF SInv
<1> QED
  BY <1>1, <1>2, IdleStreams, ClientIdsStreams, ClientFlagStreams, ClientPubKeyStreams,
     ClientApprovedStreams, ClientClosesStreams, ClientIkStreams, ClientReceiveStreams,
     ClientSendStreams DEF Client, SlaveUser

LEMMA StreamsInitially == Init => SInv
<1> SUFFICES ASSUME Init PROVE SInv
  OBVIOUS
<1>1. StreamTyped
  <2>1. s2c \in [Slaves -> Seq(ToSlave)]
    <3>1. <<>> \in Seq(ToSlave)
      OBVIOUS
    <3> QED
      BY <3>1 DEF Init
  <2>2. cpc \in [Slaves -> ClientPc]
    BY DEF Init, ClientPc
  <2>3. \A c \in Slaves : ~Served(c)
    BY DEF Init, Served
  <2> QED
    BY <2>1, <2>2, <2>3 DEF Init, StreamTyped
<1>2. MasterReadable /\ CopyKnown /\ KickedOut /\ ReasonGiven
  BY DEF Init, MasterReadable, CopyKnown, KickedOut, ReasonGiven, Serving, InSession
<1>3. StreamInv
  BY DEF Init, StreamInv, Served, Serving, Alone, Unconnected
<1> QED
  BY <1>1, <1>2, <1>3 DEF SInv

(* However the handshakes, the buttons and the closings interleave, what   *)
(* each end has still to read is what its next reads are written for       *)
(* (TcpServer::run, tcp_server.cpp:123-411; TcpClient::run_once,           *)
(* tcp_client.cpp:115-377).                                                *)
THEOREM StreamsInductive == Spec => []SInv
<1>1. ASSUME IInv, SInv, [Next]_vars PROVE SInv'
  <2>1. CASE Next
    BY <1>1, <2>1, ServerStreams, MasterUserStreams, ClientStreams DEF Next
  <2>2. CASE UNCHANGED vars
    BY <1>1, <2>2, StreamsUnseen DEF vars, masterVars, slaveVars, streamVars
  <2> QED
    BY <1>1, <2>1, <2>2
<1> QED
  BY <1>1, StreamsInitially, Inductive, PTL DEF Spec

LEMMA HeadRead == ASSUME NEW S, NEW w \in Seq(S), w # <<>>
                 PROVE  Head(w) = w[1] /\ Len(w) \in Nat /\ Len(w) >= 1
BY HeadTailProperties, LenProperties, EmptySeq

LEMMA MasterExpected ==
  /\ spc = "flag" => MasterExpects = {"flag"}
  /\ spc = "pubkey" => MasterExpects = {"pubkey"}
  /\ spc = "ik" => MasterExpects = {"ik1"}
  /\ spc \in {"reshown", "reprompt", "connected", "session"} => MasterExpects = SlaveFrames
<1>1. spc = "flag" => MasterExpects = {"flag"}
  BY Zenon DEF MasterExpects
<1>2. spc = "pubkey" => MasterExpects = {"pubkey"}
  BY Zenon DEF MasterExpects
<1>3. spc = "ik" => MasterExpects = {"ik1"}
  BY Zenon DEF MasterExpects
<1>4. spc \in {"reshown", "reprompt", "connected", "session"} => MasterExpects = SlaveFrames
  BY Zenon DEF MasterExpects
<1> QED
  BY <1>1, <1>2, <1>3, <1>4

LEMMA SlaveExpected ==
  ASSUME NEW c
  PROVE  /\ cpc[c] \in {"dial", "flag"} => SlaveExpects(c) = {"flag"}
         /\ cpc[c] = "pubkey" => SlaveExpects(c) = {"pubkey"}
         /\ cpc[c] = "decision" => SlaveExpects(c) = {"decision"}
         /\ cpc[c] = "ik" => SlaveExpects(c) = {"ik2"}
         /\ cpc[c] = "session" => SlaveExpects(c) = MasterFrames
<1>1. cpc[c] \in {"dial", "flag"} => SlaveExpects(c) = {"flag"}
  BY Zenon DEF SlaveExpects
<1>2. cpc[c] = "pubkey" => SlaveExpects(c) = {"pubkey"}
  BY Zenon DEF SlaveExpects
<1>3. cpc[c] = "decision" => SlaveExpects(c) = {"decision"}
  BY Zenon DEF SlaveExpects
<1>4. cpc[c] = "ik" => SlaveExpects(c) = {"ik2"}
  BY Zenon DEF SlaveExpects
<1>5. cpc[c] = "session" => SlaveExpects(c) = MasterFrames
  BY Zenon DEF SlaveExpects
<1> QED
  BY <1>1, <1>2, <1>3, <1>4, <1>5

LEMMA MasterAgrees == ASSUME IInv, SInv, c2s # <<>> PROVE Head(c2s).t \in MasterExpects
<1>1. /\ Head(c2s) = c2s[1] /\ Len(c2s) \in Nat /\ Len(c2s) >= 1
      /\ Len(c2s) <= 1 => Len(c2s) = 1
  <2>1. Head(c2s) = c2s[1] /\ Len(c2s) \in Nat /\ Len(c2s) >= 1
    BY HeadRead DEF IInv, Typed
  <2> QED
    BY <2>1
<1>2. spc \in {"flag", "pubkey", "ik", "reshown", "reprompt", "connected", "session"}
  BY DEF SInv, MasterReadable, IInv, Typed, ServerPc
<1>3. CASE spc = "flag"
  BY <1>1, <1>3, MasterExpected DEF SInv, MasterReadable
<1>4. CASE spc = "pubkey"
  BY <1>1, <1>4, MasterExpected DEF SInv, MasterReadable
<1>5. CASE spc = "ik"
  BY <1>1, <1>5, MasterExpected DEF SInv, MasterReadable
<1>6. CASE spc \in {"reshown", "reprompt", "connected", "session"}
  BY <1>1, <1>6, MasterExpected DEF SInv, MasterReadable
<1> QED
  BY <1>2, <1>3, <1>4, <1>5, <1>6

LEMMA SlaveAgrees ==
  ASSUME SInv, NEW c \in Slaves, s2c[c] # <<>>
  PROVE  Head(s2c[c]).t \in SlaveExpects(c) \cup {"eof"}
<1> USE DEF SInv
<1>1. ASSUME NEW w \in Words, w # <<>>, Readable(cpc[c], crs[c], w)
      PROVE  Head(w).t \in SlaveExpects(c)
  <2>1. Head(w) = w[1] /\ Len(w) \in Nat /\ Len(w) >= 1
    BY <1>1, HeadRead DEF Words
  <2>2. cpc[c] \in {"dial", "flag", "pubkey", "decision", "ik", "session"}
    BY <1>1 DEF Readable, ClientPc
  <2>3. cpc[c] \in {"dial", "flag"} => Head(w).t = "flag"
    BY <1>1, <2>1 DEF Readable
  <2>4. cpc[c] = "pubkey" => Head(w).t = "pubkey"
    BY <1>1, <2>1 DEF Readable
  <2>5. cpc[c] = "decision" => Head(w).t = "decision"
    BY <1>1, <2>1 DEF Readable
  <2>6. cpc[c] = "ik" => Head(w).t = "ik2"
    BY <1>1, <2>1 DEF Readable
  <2>7. cpc[c] = "session" => Head(w).t \in MasterFrames
    BY <1>1, <2>1 DEF Readable
  <2> QED
    BY <2>2, <2>3, <2>4, <2>5, <2>6, <2>7, SlaveExpected
<1>2. CASE Served(c)
  BY <1>1, <1>2 DEF StreamTyped, StreamInv, Joint
<1>3. CASE ~Served(c)
  <2>1. CASE Arrived(c, "eof")
    BY <2>1 DEF Arrived
  <2>2. CASE ~Arrived(c, "eof")
    <3>1. PICK w \in Words : /\ w # <<>> /\ Readable(cpc[c], crs[c], w) /\ Head(s2c[c]) = w[1]
      BY <1>3, <2>2, EndingRead
    <3>2. Head(w) = w[1]
      BY <3>1, HeadRead DEF Words
    <3> QED
      BY <1>1, <3>1, <3>2
  <2> QED
    BY <2>1, <2>2
<1> QED
  BY <1>2, <1>3

(* Neither side ever reads bytes meant for another step of the handshake,  *)
(* whatever each knew of the other and forgot in between (need_pairing and *)
(* the comment at tcp_server.cpp:155-159).                                 *)
THEOREM StreamsAgree == Spec => []StreamAgreement
<1>1. IInv /\ SInv => StreamAgreement
  BY MasterAgrees, SlaveAgrees DEF StreamAgreement
<1> QED
  BY <1>1, Inductive, StreamsInductive, PTL

(* A Slave on the kick list whose session has ended has seen the GoAway or *)
(* still has it ahead of the FIN (tcp_server.cpp:253,396).                 *)
THEOREM ReasonArrives == Spec => []KickedSlaveTold
<1>1. ASSUME IInv, SInv PROVE KickedSlaveTold
  <2> USE DEF SInv
  <2> SUFFICES ASSUME NEW c \in kicked, cpc[c] = "session", ~Served(c), sKnown[c] = ckey[c],
                      ~goAway[c]
               PROVE  \E i \in DOMAIN s2c[c] : /\ s2c[c][i].t = "goaway"
                                               /\ \A j \in 1 .. i - 1 : s2c[c][j].t # "eof"
    BY DEF KickedSlaveTold
  <2>1. c \in Slaves
    BY <1>1 DEF StreamTyped
  <2>2. PICK i \in DOMAIN s2c[c] : s2c[c][i].t = "goaway"
    BY <1>1, <2>1 DEF ReasonGiven, PastIk, Told
  <2>3. PICK w \in Words : s2c[c] = Append(w, Eof) /\ Readable(cpc[c], crs[c], w)
    BY <1>1, <2>1 DEF StreamInv, Alone, Unconnected, Ending
  <2>4. i \in 1 .. Len(w) + 1 /\ Len(w) \in Nat
    BY <2>2, <2>3, WordEnded, LenProperties
  <2>5. \A j \in 1 .. Len(w) : s2c[c][j].t # "eof"
    <3>1. \A j \in 1 .. Len(w) : w[j].t \in MasterFrames
      BY <2>3 DEF Readable
    <3>2. \A j \in 1 .. Len(w) : s2c[c][j] = w[j]
      BY <2>3, WordEnded
    <3> QED
      BY <3>1, <3>2 DEF MasterFrames
  <2>6. \A j \in 1 .. i - 1 : j \in 1 .. Len(w)
    BY <2>4
  <2> QED
    BY <2>2, <2>5, <2>6
<1> QED
  BY <1>1, Inductive, StreamsInductive, PTL

-----------------------------------------------------------------------------
(* The types of the variables that neither invariant needs.                *)
RestTyped ==
  /\ running \in BOOLEAN /\ disconnect \in BOOLEAN
  /\ speer \in Slaves \cup {Nobody}
  /\ strust \in Keys \cup {NoKey} /\ skey \in Keys \cup {NoKey}
  /\ sstatus \in [state : {"Idle", "Pairing", "Connected"},
                   peer : Slaves \cup {Nobody}, key : Keys \cup {NoKey}]
  /\ decision \in {"Pending", "Approved", "Rejected"}
  /\ crun \in [Slaves -> BOOLEAN] /\ owed \subseteq Slaves

LEMMA RestServer == ASSUME IInv, RestTyped, Server PROVE RestTyped'
<1> USE DEF RestTyped, CloseServed, IdleInfo, Info, history, slaveVars
<1>1. CASE \E c \in Slaves : AcceptConnection(c)
  BY <1>1 DEF AcceptConnection, IInv, Typed
<1>2. CASE ServerFlag
  BY <1>2 DEF ServerFlag
<1>3. CASE ServerPubKey
  <2>1. Head(c2s).v \in Keys
    BY <1>3, KeyReceived DEF ServerPubKey, IInv, Typed
  <2> QED
    BY <1>3, <2>1 DEF ServerPubKey
<1>4. CASE ArmPrompt
  BY <1>4 DEF ArmPrompt, Armed
<1>5. CASE PairingApproved
  BY <1>5 DEF PairingApproved
<1>6. CASE PairingRefused \/ ReapprovalRefused \/ ServerHandshakeFails
  BY <1>6 DEF PairingRefused, ReapprovalRefused, ServerHandshakeFails
<1>7. CASE ServerIk
  BY <1>7 DEF ServerIk
<1>8. CASE Reapproved
  BY <1>8 DEF Reapproved
<1>9. CASE OpenSession \/ ServerReceive \/ ServerExits
  BY <1>9 DEF OpenSession, ServerReceive, ServerExits
<1>10. CASE ServerSend
  BY <1>10 DEF ServerSend, masterVars
<1>11. CASE EndSession
  BY <1>11 DEF EndSession, IInv, Typed, Serving
<1> QED
  BY <1>1, <1>2, <1>3, <1>4, <1>5, <1>6, <1>7, <1>8, <1>9, <1>10, <1>11 DEF Server

LEMMA RestUsers ==
  ASSUME RestTyped, MasterUser \/ \E c \in Slaves : Client(c) \/ SlaveUser(c)
  PROVE  RestTyped'
<1> USE DEF RestTyped, history, slaveVars, masterVars, masterLessOpen
<1>1. CASE MasterUser
  BY <1>1 DEF MasterUser, PressAccept, PressReject, PressDisconnect, StopServer, StartServer,
              PressForget
<1>2. ASSUME NEW c \in Slaves, Client(c) PROVE RestTyped'
  BY <1>2 DEF Client, Dial, ClientIds, ClientFlag, ClientPubKey, ClientApproved, ClientRejected,
              ClientIk, ClientHandshakeFails, ClientReceive, ClientSend, ClientEndsSession,
              ClientGivesUp
<1>3. ASSUME NEW c \in Slaves, SlaveUser(c) PROVE RestTyped'
  BY <1>3 DEF SlaveUser, PressConnect, PressStop, ForgetMaster, Rekey
<1> QED
  BY <1>1, <1>2, <1>3

(* Every variable of tcp_server.cpp and tcp_client.cpp keeps its type,     *)
(* however long the streams grow.                                          *)
THEOREM SessionTyped == Spec => []TypeOK
<1>1. Init => RestTyped
  <2> SUFFICES ASSUME Init PROVE RestTyped
    OBVIOUS
  <2>1. sstatus \in [state : {"Idle", "Pairing", "Connected"},
                     peer : Slaves \cup {Nobody}, key : Keys \cup {NoKey}]
    BY DEF Init, IdleInfo
  <2>2. crun \in [Slaves -> BOOLEAN]
    BY DEF Init
  <2> QED
    BY <2>1, <2>2 DEF Init, RestTyped
<1>2. ASSUME IInv, RestTyped, [Next]_vars PROVE RestTyped'
  <2>1. CASE Next
    BY <1>2, <2>1, RestServer, RestUsers DEF Next
  <2>2. CASE UNCHANGED vars
    BY <1>2, <2>2 DEF vars, masterVars, slaveVars, history, RestTyped
  <2> QED
    BY <1>2, <2>1, <2>2
<1>3. IInv /\ SInv /\ RestTyped => TypeOK
  BY DEF IInv, Typed, SInv, StreamTyped, RestTyped, TypeOK
<1> QED
  BY <1>1, <1>2, <1>3, Inductive, StreamsInductive, PTL DEF Spec
=============================================================================
