--------------------------- MODULE MCSessionRaces ---------------------------
(***************************************************************************)
(* Session with a memory of two button presses, for the runs that show     *)
(* which presses the Master's background thread overwrites.                *)
(***************************************************************************)
EXTENDS Session

VARIABLES asked,    \* Disconnect was pressed on the session now shown
          answered  \* the prompt now shown was answered

Asking == {"shown", "prompt", "reshown", "reprompt"}

RaceInit == Init /\ asked = FALSE /\ answered = FALSE

RaceNext ==
  /\ Next
  /\ asked' = /\ sstatus'.state = "Connected"
              /\ asked \/ (~disconnect /\ disconnect')
  /\ answered' = /\ spc' \in Asking /\ sstatus' = sstatus
                 /\ answered \/ (decision' # decision /\ decision' # "Pending")

RaceSpec == RaceInit /\ [][RaceNext]_<<vars, asked, answered>>

(* "Called from the UI thread to end the current connection (if any)":     *)
(* once Disconnect was pressed on a connection the UI shows, a session     *)
(* that goes on has the request still standing (tcp_server.h:60-62).       *)
DisconnectHonoured == asked /\ spc = "session" => disconnect

(* "Called from the UI thread to resolve a pending pairing request": an    *)
(* answer given to the prompt on screen is there when run() looks for it   *)
(* (tcp_server.h:56).                                                      *)
AnswerKept == answered /\ spc \in {"prompt", "reprompt"} => decision # "Pending"
=============================================================================
