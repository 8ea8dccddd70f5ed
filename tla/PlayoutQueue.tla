---------------------------- MODULE PlayoutQueue ----------------------------
(***************************************************************************)
(* What an audio receiver promises its listener: frames are heard in the   *)
(* order of their sequence numbers, each at most once, at most Capacity of *)
(* them ever wait, what must be discarded is the oldest, and a position    *)
(* that was passed is not gone back to unless the whole queue is given up  *)
(* and filled anew.  Nothing here says when to play, skip or give up.      *)
(***************************************************************************)
EXTENDS Integers, FiniteSets

CONSTANTS SeqMod,   \* sequence numbers are 0 .. SeqMod - 1
          Capacity  \* frames that may wait at once

Seqs    == 0 .. SeqMod - 1
Filling == -1       \* a position before every sequence number
Silence == -1
After(s) == (s + 1) % SeqMod

VARIABLES waiting,  \* frames that have arrived and are not yet heard
          pos,      \* the next position to be heard, or Filling
          out       \* what the listener heard last: a frame or Silence

queueVars == <<waiting, pos, out>>

Init == waiting = {} /\ pos = Filling /\ out = Silence

Arrive(s) == /\ s >= pos
             /\ waiting' = waiting \cup {s}
             /\ Cardinality(waiting') <= Capacity
             /\ UNCHANGED <<pos, out>>

(* No room: the oldest goes, and its position with it.                     *)
ArriveFull(s) ==
  /\ s >= pos
  /\ Cardinality(waiting) = Capacity /\ s \notin waiting
  /\ \E old \in waiting \cup {s} :
       /\ waiting' = (waiting \cup {s}) \ {old}
       /\ \A k \in waiting' : old < k
       /\ pos' = IF pos = Filling THEN Filling ELSE After(old)
  /\ UNCHANGED out

Play(s) == /\ s \in waiting
           /\ s = pos \/ (pos = Filling /\ \A k \in waiting : s <= k)
           /\ waiting' = waiting \ {s}
           /\ pos' = After(s)
           /\ out' = s

Skip == /\ pos # Filling /\ pos \notin waiting
        /\ pos' = After(pos)
        /\ out' = Silence
        /\ UNCHANGED waiting

GiveUp == /\ pos # Filling /\ pos \notin waiting
          /\ pos' = Filling /\ waiting' = {}
          /\ out' = Silence

StayQuiet == /\ pos = Filling
             /\ out' = Silence
             /\ UNCHANGED <<waiting, pos>>

Next == \/ \E s \in Seqs : Arrive(s) \/ ArriveFull(s) \/ Play(s)
        \/ Skip \/ GiveUp \/ StayQuiet

Spec == Init /\ [][Next]_queueVars
=============================================================================
