----------------------------- MODULE Admission -----------------------------
(***************************************************************************)
(* What a Master promises about who may hold its one session, with no      *)
(* sockets, threads or handshakes in it: a device is admitted only with a  *)
(* key its user accepted, and a device its user threw out is not admitted  *)
(* again before the user accepts it again.  Forgetting a device withdraws  *)
(* its keys at once; only the one at the door at that moment may still     *)
(* come in, this once, on the trust it came with.  Session refines this.   *)
(***************************************************************************)
CONSTANTS Slaves,   \* device ids
          Keys,     \* static public keys
          Nobody    \* no pair

VARIABLES accepted, \* pairs <<device, key>> the Master's user vouches for
          barred,   \* devices the user disconnected and has not accepted since
          visitor,  \* the pair trusted of the device at the door or inside
          answer,   \* the pair just accepted at the door, not yet acted upon
          holder    \* the pair that holds the session, or Nobody

admissionVars == <<accepted, barred, visitor, answer, holder>>

Init == /\ accepted = {}
        /\ barred = {}
        /\ visitor = Nobody /\ answer = Nobody
        /\ holder = Nobody

(* A device comes to the door, and is found among the accepted.            *)
Knock(c, k) == /\ visitor = Nobody
               /\ <<c, k>> \in accepted
               /\ visitor' = <<c, k>>
               /\ UNCHANGED <<accepted, barred, answer, holder>>

(* The user presses Accept on a prompt that shows device c and key k, too  *)
(* early or too late for the door, perhaps; or takes the answer back.      *)
Accept(c, k) == /\ accepted' = accepted \cup {<<c, k>>}
                /\ barred' = barred \ {c}
                /\ answer' \in {answer, <<c, k>>}
                /\ UNCHANGED <<visitor, holder>>
TakeBack == /\ answer' = Nobody
            /\ UNCHANGED <<accepted, barred, visitor, holder>>

(* The answer is acted upon: it stands, even if its device was forgotten   *)
(* since Accept was pressed.                                               *)
Remember == /\ answer # Nobody
            /\ accepted' = accepted \cup {answer}
            /\ visitor' = answer /\ answer' = Nobody
            /\ UNCHANGED <<barred, holder>>

(* A session may only begin for the pair trusted at the door, not barred.  *)
Admit(c, k) == /\ holder = Nobody
               /\ visitor = <<c, k>>
               /\ c \notin barred
               /\ holder' = <<c, k>>
               /\ UNCHANGED <<accepted, barred, visitor, answer>>

(* The device leaves, or is turned away: whatever it came with ends here.  *)
Gone == visitor' = Nobody /\ answer' = Nobody /\ holder' = Nobody
Leave == Gone /\ UNCHANGED <<accepted, barred>>

(* The user ended the session: the device owes a fresh approval.           *)
Kick == /\ holder # Nobody
        /\ barred' = barred \cup {holder[1]}
        /\ Gone
        /\ UNCHANGED accepted

(* The user forgets a device: every key accepted for it is withdrawn.      *)
Forget(c) == /\ accepted' = {p \in accepted : p[1] # c}
             /\ UNCHANGED <<barred, visitor, answer, holder>>

(* A restarted Master remembers trust, but not who was thrown out.         *)
Restart == /\ holder = Nobody /\ visitor = Nobody
           /\ barred' = {}
           /\ UNCHANGED <<accepted, visitor, answer, holder>>

Next == \/ \E c \in Slaves, k \in Keys : Knock(c, k) \/ Accept(c, k) \/ Admit(c, k)
        \/ \E c \in Slaves : Forget(c)
        \/ TakeBack \/ Remember \/ Leave \/ Kick \/ Restart

Spec == Init /\ [][Next]_admissionVars
=============================================================================
