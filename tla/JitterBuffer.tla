---------------------------- MODULE JitterBuffer ----------------------------
(***************************************************************************)
(* audio::JitterBuffer: push() on the network side and pop() on the device *)
(* callback's side, each one critical section under mutex_, in any order   *)
(* and with any sequence numbers.  A frame is its sequence number; the     *)
(* payload behind it plays no part in what push and pop decide.            *)
(***************************************************************************)
EXTENDS Integers, FiniteSets

CONSTANTS TargetDepth,    \* frames to buffer before playback starts
          MaxDepthAsked,  \* the ceiling the constructor is given
          MaxMisses,      \* kMaxConsecutiveMisses
          SeqMod          \* 2^32 in the code: the width of a sequence number

ASSUME DepthAssumption == TargetDepth \in Nat \ {0} /\ MaxDepthAsked \in Nat
ASSUME MissAssumption  == MaxMisses \in Nat \ {0}
ASSUME SeqAssumption   == SeqMod \in Nat \ {0}

(* The ceiling is raised to the target, or filling could never finish.     *)
MaxDepth == IF MaxDepthAsked < TargetDepth THEN TargetDepth ELSE MaxDepthAsked

(* Ten percent below the ceiling, at least one frame.                      *)
RecoveryThreshold ==
  LET margin == IF MaxDepth \div 10 > 1 THEN MaxDepth \div 10 ELSE 1
  IN  IF margin < MaxDepth THEN MaxDepth - margin ELSE 0

Seqs    == 0 .. SeqMod - 1
Silence == -1                 \* std::nullopt
After(s) == (s + 1) % SeqMod  \* unsigned ++ wraps
Oldest(S) == CHOOSE s \in S : \A k \in S : s <= k

VARIABLES buffer,   \* the keys of buffer_
          started,  \* started_
          nextSeq,  \* next_seq_
          misses,   \* consecutive_misses_
          atCap,    \* at_cap_; cap_episodes_ counts its rising edges
          out       \* what the last pop() returned

vars == <<buffer, started, nextSeq, misses, atCap, out>>

Init == /\ buffer = {} /\ started = FALSE /\ nextSeq = 0
        /\ misses = 0 /\ atCap = FALSE /\ out = Silence

(* clear_at_cap_if_recovered, with depth the size buffer_ has by then.     *)
AtCapAfter(depth) == atCap /\ depth > RecoveryThreshold

-----------------------------------------------------------------------------
(* push: a frame behind the playback position is dropped.                  *)
TooLate_ByTwo(s) == started /\ s + 1 < nextSeq
TooLate(s) == started /\ s < nextSeq

Fits_OffByOne(depth) == depth <= MaxDepth + 1
Fits(depth) == depth <= MaxDepth

PushLate(s) == /\ TooLate(s)
               /\ UNCHANGED vars

PushFits(s) == /\ ~TooLate(s)
               /\ Fits(Cardinality(buffer \cup {s}))
               /\ buffer' = buffer \cup {s}
               /\ atCap' = AtCapAfter(Cardinality(buffer \cup {s}))
               /\ UNCHANGED <<started, nextSeq, misses, out>>

(* Over the ceiling: the oldest goes and playback skips past it.  The loop *)
(* body runs once, since the buffer held no more than MaxDepth before.     *)
Position_Kept(old) == nextSeq
Position(old) == IF started /\ old >= nextSeq THEN After(old) ELSE nextSeq

PushOver(s) == /\ ~TooLate(s)
               /\ ~Fits(Cardinality(buffer \cup {s}))
               /\ LET old == Oldest(buffer \cup {s})
                  IN  /\ buffer' = (buffer \cup {s}) \ {old}
                      /\ nextSeq' = Position(old)
               /\ atCap' = TRUE
               /\ UNCHANGED <<started, misses, out>>

Push(s) == PushLate(s) \/ PushFits(s) \/ PushOver(s)

-----------------------------------------------------------------------------
(* pop: still filling, or else play the frame at position n, which is      *)
(* next_seq_, or the oldest frame when this very call starts playback.     *)
Ready == started \/ Cardinality(buffer) >= TargetDepth
PlayFrom == IF started THEN nextSeq ELSE Oldest(buffer)

PopFilling == /\ ~Ready
              /\ out' = Silence
              /\ UNCHANGED <<buffer, started, nextSeq, misses, atCap>>

PopFrame == /\ Ready /\ PlayFrom \in buffer
            /\ started' = TRUE
            /\ nextSeq' = After(PlayFrom)
            /\ misses' = 0
            /\ out' = PlayFrom
            /\ buffer' = buffer \ {PlayFrom}
            /\ atCap' = AtCapAfter(Cardinality(buffer \ {PlayFrom}))

(* Not there: keep pace with silence...                                    *)
PopMiss == /\ Ready /\ PlayFrom \notin buffer
           /\ misses + 1 < MaxMisses
           /\ misses' = misses + 1
           /\ started' = TRUE
           /\ nextSeq' = After(PlayFrom)
           /\ out' = Silence
           /\ UNCHANGED <<buffer, atCap>>

(* ...or, after too many in a row, start over: back to filling, where      *)
(* nothing is too late.                                                    *)
AfterStall_CarriesOn == [started |-> TRUE, buffer |-> buffer]
AfterStall == [started |-> FALSE, buffer |-> {}]

PopResync == /\ Ready /\ PlayFrom \notin buffer
             /\ misses + 1 >= MaxMisses
             /\ misses' = 0
             /\ started' = AfterStall.started
             /\ nextSeq' = After(PlayFrom)
             /\ buffer' = AfterStall.buffer
             /\ atCap' = AtCapAfter(Cardinality(AfterStall.buffer))
             /\ out' = Silence

Pop == PopFilling \/ PopFrame \/ PopMiss \/ PopResync

Next == (\E s \in Seqs : Push(s)) \/ Pop

Spec == Init /\ [][Next]_vars

-----------------------------------------------------------------------------
(* Properties.                                                             *)

(* The members of jitter_buffer.h keep their types.                        *)
TypeOK == /\ buffer \subseteq Seqs
          /\ started \in BOOLEAN /\ atCap \in BOOLEAN
          /\ nextSeq \in Seqs
          /\ misses \in 0 .. MaxMisses - 1
          /\ out \in Seqs \cup {Silence}

(* However push and pop interleave, no more than the ceiling ever waits    *)
(* (jitter_buffer.h:29-31, "rather than allowed to pile up").              *)
BoundedDepth == Cardinality(buffer) <= MaxDepth

(* Once playing, nothing that waits is behind the playback position, where *)
(* it could never be played and would hold its place for good, also when   *)
(* the position wraps (jitter_buffer.cpp:34,46).                           *)
NothingStranded == started => \A s \in buffer : s >= nextSeq

(* The at-cap flag is up only while the buffer has not drained back to the *)
(* recovery threshold, whichever call drained it (jitter_buffer.h:92-94).  *)
CapClears == atCap => Cardinality(buffer) > RecoveryThreshold

(* The buffer keeps what a PlayoutQueue of the same capacity promises.     *)
Queue == INSTANCE PlayoutQueue WITH
           waiting  <- buffer,
           pos      <- IF started THEN nextSeq ELSE -1,
           Capacity <- MaxDepth
HeardInOrder == Queue!Spec

(* pop()'s documentation (jitter_buffer.h:68-73): one call that finds more *)
(* than a small margin above the target waiting "fast-forwards past the    *)
(* backlog first so depth() drops back toward target_depth in this one     *)
(* call".                                                                  *)
Margin == 1
FastForwards ==
  [][Pop /\ Cardinality(buffer) > TargetDepth + Margin
       => Cardinality(buffer') <= TargetDepth + Margin]_vars
=============================================================================
