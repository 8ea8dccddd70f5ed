------------------------- MODULE JitterBufferProofs -------------------------
(***************************************************************************)
(* The jitter buffer keeps its invariants, and implements PlayoutQueue,    *)
(* for every depth, ceiling, miss limit and width of a sequence number; so *)
(* does the audio path around it, whose playback callback never works in   *)
(* vain.                                                                   *)
(***************************************************************************)
EXTENDS AudioPlayout, TLAPS, FiniteSetTheorems, WellFoundedInduction

(* The four invariants are inductive together: NothingStranded keeps a     *)
(* wrapping position from passing what waits, BoundedDepth makes an        *)
(* overflow leave exactly MaxDepth frames, which is what CapClears needs.  *)
IInv == TypeOK /\ BoundedDepth /\ NothingStranded /\ CapClears

-----------------------------------------------------------------------------
(* Facts about the constants and the helpers.                              *)

(* The ceiling and the threshold below it are what cap_episodes() needs    *)
(* (jitter_buffer.cpp:19-22,26-28).                                        *)
LEMMA Ceiling ==
  /\ MaxDepth \in Nat \ {0} /\ TargetDepth <= MaxDepth
  /\ RecoveryThreshold \in Nat /\ RecoveryThreshold < MaxDepth
  BY DepthAssumption DEF MaxDepth, RecoveryThreshold

(* A non-empty set of sequence numbers has a least element, buffer_.begin. *)
LEMMA OldestIsLeast ==
  ASSUME NEW S \in SUBSET Seqs, S # {}
  PROVE  Oldest(S) \in S /\ \A k \in S : Oldest(S) <= k
<1>1. S \subseteq Nat
  BY SeqAssumption DEF Seqs
<1>2. PICK x \in S : \A y \in S : ~(<<y, x>> \in OpToRel(<, Nat))
  BY <1>1, NatLessThanWellFounded, WFMin
<1>3. \A y \in S : x \in Nat /\ y \in Nat /\ ~(y < x)
  BY <1>1, <1>2, Zenon DEF OpToRel
<1>4. \A y \in S : x <= y
  BY <1>3
<1> QED
  BY <1>4 DEF Oldest

(* ++next_seq_ moves forward within the sequence space or wraps to 0.      *)
LEMMA AfterInSeqs ==
  ASSUME NEW s \in Seqs
  PROVE  /\ After(s) \in Seqs
         /\ s # SeqMod - 1 => After(s) = s + 1
         /\ s = SeqMod - 1 => After(s) = 0
  BY SeqAssumption DEF After, Seqs

(* Past a position that nothing waiting is behind, nothing waiting that is *)
(* beyond it is behind the next position either, even when that one wraps. *)
LEMMA AfterStrandsNothing ==
  ASSUME NEW s \in Seqs, NEW S \in SUBSET Seqs, \A k \in S : s < k
  PROVE  \A k \in S : k >= After(s)
  BY AfterInSeqs, SeqAssumption DEF Seqs

LEMMA BufferFinite ==
  ASSUME NEW S \in SUBSET Seqs
  PROVE  IsFiniteSet(S) /\ Cardinality(S) \in Nat /\ (S = {} => Cardinality(S) = 0)
<1>1. IsFiniteSet(Seqs)
  BY FS_Interval, SeqAssumption DEF Seqs
<1>2. IsFiniteSet(S)
  BY <1>1, FS_Subset
<1> QED
  BY <1>2, FS_CardinalityType, FS_EmptySet

(* What an overflowing push finds: the buffer was exactly full.            *)
LEMMA OverflowIsByOne ==
  ASSUME IInv, NEW s \in Seqs, ~Fits(Cardinality(buffer \cup {s}))
  PROVE  /\ Cardinality(buffer) = MaxDepth /\ s \notin buffer
         /\ \A old \in buffer \cup {s} :
              Cardinality((buffer \cup {s}) \ {old}) = MaxDepth
<1>1. buffer \in SUBSET Seqs /\ buffer \cup {s} \in SUBSET Seqs
  BY DEF IInv, TypeOK
<1>2. /\ IsFiniteSet(buffer) /\ IsFiniteSet(buffer \cup {s})
      /\ Cardinality(buffer) \in Nat /\ Cardinality(buffer \cup {s}) \in Nat
  BY <1>1, BufferFinite
<1>3. Cardinality(buffer \cup {s})
        = IF s \in buffer THEN Cardinality(buffer) ELSE Cardinality(buffer) + 1
  BY <1>2, FS_AddElement
<1>4. Cardinality(buffer) = MaxDepth /\ s \notin buffer
  BY <1>2, <1>3, Ceiling DEF IInv, BoundedDepth, Fits
<1>5. ASSUME NEW old \in buffer \cup {s}
      PROVE  Cardinality((buffer \cup {s}) \ {old}) = MaxDepth
  <2>1. Cardinality((buffer \cup {s}) \ {old}) = Cardinality(buffer \cup {s}) - 1
    BY <1>2, FS_RemoveElement
  <2> QED
    BY <1>3, <1>4, <2>1, Ceiling
<1> QED
  BY <1>4, <1>5

(* What a push that is not late finds: nothing behind the position.        *)
LEMMA NothingBehind ==
  ASSUME IInv, NEW s \in Seqs, ~TooLate(s), started
  PROVE  \A k \in buffer \cup {s} : k >= nextSeq
<1>1. nextSeq \in Nat /\ s \in Nat /\ s >= nextSeq
  BY SeqAssumption DEF IInv, TypeOK, TooLate, Seqs
<1>2. \A k \in buffer : k >= nextSeq
  BY DEF IInv, NothingStranded
<1> QED
  BY <1>1, <1>2

(* What pop() plays from once it is past its first test: a position that   *)
(* nothing waiting is behind.  A miss happens only after playback began.   *)
LEMMA PlaysFromTheFront ==
  ASSUME IInv, Ready
  PROVE  /\ PlayFrom \in Seqs
         /\ \A k \in buffer : PlayFrom <= k
         /\ PlayFrom \notin buffer => started
<1>1. CASE started
  BY <1>1, SeqAssumption DEF IInv, TypeOK, NothingStranded, PlayFrom, Seqs
<1>2. CASE ~started
  <2>1. buffer \in SUBSET Seqs /\ buffer # {}
    BY <1>2, BufferFinite, DepthAssumption DEF IInv, TypeOK, Ready
  <2> QED
    BY <1>2, <2>1, OldestIsLeast DEF PlayFrom
<1> QED
  BY <1>1, <1>2

-----------------------------------------------------------------------------
(* The inductive invariant.                                                *)

LEMMA InitIInv == Init => IInv
<1> SUFFICES ASSUME Init
             PROVE  IInv
  OBVIOUS
<1>0. 0 \in Seqs /\ 0 \in 0 .. MaxMisses - 1
  BY MissAssumption, SeqAssumption DEF Seqs
<1>1. TypeOK
  BY <1>0 DEF Init, TypeOK
<1>2. Cardinality(buffer) = 0
  BY FS_EmptySet DEF Init
<1>3. BoundedDepth
  BY <1>2, Ceiling DEF BoundedDepth
<1>4. NothingStranded /\ CapClears
  BY DEF Init, NothingStranded, CapClears
<1> QED
  BY <1>1, <1>3, <1>4 DEF IInv

LEMMA PushKeepsIInv ==
  ASSUME IInv, NEW s \in Seqs, Push(s)
  PROVE  IInv'
<1>1. CASE PushLate(s)
  BY <1>1 DEF PushLate, vars, IInv, TypeOK, BoundedDepth, NothingStranded, CapClears
<1>2. CASE PushFits(s)
  <2>1. buffer' \subseteq Seqs /\ Cardinality(buffer') \in Nat
    BY <1>2, BufferFinite DEF PushFits, IInv, TypeOK
  <2>2. TypeOK'
    BY <1>2, <2>1 DEF PushFits, AtCapAfter, IInv, TypeOK
  <2>3. BoundedDepth'
    BY <1>2 DEF PushFits, Fits, BoundedDepth
  <2>4. NothingStranded'
    BY <1>2, SeqAssumption
    DEF PushFits, TooLate, IInv, TypeOK, NothingStranded, Seqs
  <2>5. CapClears'
    BY <1>2, <2>1, Ceiling DEF PushFits, AtCapAfter, CapClears
  <2> QED
    BY <2>2, <2>3, <2>4, <2>5 DEF IInv
<1>3. CASE PushOver(s)
  <2> DEFINE all == buffer \cup {s}
             old == Oldest(all)
  <2>1. all \in SUBSET Seqs /\ all # {}
    BY DEF IInv, TypeOK
  <2>2. old \in all /\ \A k \in all : old <= k
    BY <2>1, OldestIsLeast
  <2>3. buffer' = all \ {old} /\ nextSeq' = Position(old)
    BY <1>3 DEF PushOver
  <2>4. Cardinality(buffer') = MaxDepth
    BY <1>3, <2>2, <2>3, OverflowIsByOne DEF PushOver
  <2>5. old \in Seqs /\ \A k \in buffer' : k \in Seqs /\ old < k
    BY <2>1, <2>2, <2>3, SeqAssumption DEF Seqs
  <2>6. TypeOK'
    BY <1>3, <2>3, <2>5, AfterInSeqs DEF PushOver, Position, IInv, TypeOK
  <2>7. BoundedDepth' /\ CapClears'
    BY <2>4, Ceiling DEF BoundedDepth, CapClears
  <2>8. NothingStranded'
    <3>1. SUFFICES ASSUME started
                   PROVE  \A k \in buffer' : k >= nextSeq'
      BY <1>3 DEF PushOver, NothingStranded
    <3>2. old >= nextSeq
      BY <1>3, <2>2, <3>1, NothingBehind DEF PushOver
    <3>3. nextSeq' = After(old)
      BY <2>3, <3>1, <3>2 DEF Position
    <3> QED
      BY <2>5, <3>3, AfterStrandsNothing
  <2> QED
    BY <2>6, <2>7, <2>8 DEF IInv
<1> QED
  BY <1>1, <1>2, <1>3 DEF Push

LEMMA PopKeepsIInv ==
  ASSUME IInv, Pop
  PROVE  IInv'
<1>1. CASE PopFilling
  BY <1>1 DEF PopFilling, IInv, TypeOK, BoundedDepth, NothingStranded, CapClears
<1>2. CASE PopFrame
  <2>1. /\ PlayFrom \in Seqs /\ PlayFrom \in buffer /\ buffer \in SUBSET Seqs
        /\ \A k \in buffer : PlayFrom <= k
    BY <1>2, PlaysFromTheFront DEF PopFrame, IInv, TypeOK
  <2>2. buffer' \in SUBSET Seqs /\ \A k \in buffer' : PlayFrom < k
    BY <1>2, <2>1, SeqAssumption DEF PopFrame, Seqs
  <2>3. TypeOK'
    BY <1>2, <2>1, <2>2, AfterInSeqs, MissAssumption DEF PopFrame, AtCapAfter, IInv, TypeOK
  <2>4. /\ Cardinality(buffer) \in Nat /\ Cardinality(buffer') \in Nat
        /\ Cardinality(buffer') = Cardinality(buffer) - 1
    BY <1>2, <2>1, BufferFinite, FS_RemoveElement DEF PopFrame
  <2>5. BoundedDepth'
    BY <2>4, Ceiling DEF IInv, BoundedDepth
  <2>6. CapClears'
    BY <1>2, <2>4, Ceiling DEF PopFrame, AtCapAfter, CapClears
  <2>7. NothingStranded'
    BY <1>2, <2>1, <2>2, AfterStrandsNothing DEF PopFrame, NothingStranded
  <2> QED
    BY <2>3, <2>5, <2>6, <2>7 DEF IInv
<1>3. CASE PopMiss
  <2>1. PlayFrom \in Seqs /\ \A k \in buffer : PlayFrom <= k
    BY <1>3, PlaysFromTheFront DEF PopMiss
  <2>2. buffer \in SUBSET Seqs /\ \A k \in buffer : PlayFrom < k
    BY <1>3, <2>1, SeqAssumption DEF PopMiss, IInv, TypeOK, Seqs
  <2>3. TypeOK'
    BY <1>3, <2>1, AfterInSeqs, MissAssumption DEF PopMiss, IInv, TypeOK, Seqs
  <2>4. BoundedDepth' /\ CapClears'
    BY <1>3 DEF PopMiss, IInv, BoundedDepth, CapClears
  <2>5. NothingStranded'
    BY <1>3, <2>1, <2>2, AfterStrandsNothing DEF PopMiss, NothingStranded
  <2> QED
    BY <2>3, <2>4, <2>5 DEF IInv
<1>4. CASE PopResync
  <2>1. PlayFrom \in Seqs
    BY <1>4, PlaysFromTheFront DEF PopResync
  <2>2. ~(0 > RecoveryThreshold)
    BY Ceiling
  <2>3. buffer' = {} /\ started' = FALSE /\ AfterStall.buffer = {}
    BY <1>4 DEF PopResync, AfterStall
  <2>4. Cardinality(buffer') = 0
    BY <2>3, FS_EmptySet
  <2>5. BoundedDepth'
    BY <2>4, Ceiling DEF BoundedDepth
  <2>6. ~atCap' /\ atCap' \in BOOLEAN
    <3>1. Cardinality(AfterStall.buffer) = 0
      BY <2>3, FS_EmptySet
    <3>2. atCap' = AtCapAfter(Cardinality(AfterStall.buffer))
      BY <1>4 DEF PopResync
    <3> QED
      BY <2>2, <3>1, <3>2, Zenon DEF AtCapAfter
  <2>7. nextSeq' \in Seqs /\ out' = Silence /\ misses' \in 0 .. MaxMisses - 1
    BY <1>4, <2>1, AfterInSeqs, MissAssumption DEF PopResync
  <2>8. TypeOK'
    BY <2>3, <2>6, <2>7 DEF TypeOK
  <2> QED
    BY <2>3, <2>5, <2>6, <2>8 DEF IInv, CapClears, NothingStranded
<1> QED
  BY <1>1, <1>2, <1>3, <1>4 DEF Pop

LEMMA Invariant == Spec => []IInv
<1>1. Init => IInv
  BY InitIInv
<1>2. IInv /\ [Next]_vars => IInv'
  <2> SUFFICES ASSUME IInv, [Next]_vars
               PROVE  IInv'
    OBVIOUS
  <2>1. CASE UNCHANGED vars
    BY <2>1 DEF vars, IInv, TypeOK, BoundedDepth, NothingStranded, CapClears
  <2>2. CASE Next
    BY <2>2, PushKeepsIInv, PopKeepsIInv DEF Next
  <2> QED
    BY <2>1, <2>2
<1> QED
  BY <1>1, <1>2, PTL DEF Spec

-----------------------------------------------------------------------------
(* What the invariant gives, for every depth, ceiling and sequence width.  *)

(* The members of jitter_buffer.h keep their types.                        *)
THEOREM TypeCorrect == Spec => []TypeOK
  BY Invariant, PTL DEF IInv

(* push() and pop() never let more than the ceiling wait                   *)
(* (jitter_buffer.cpp:46-51).                                              *)
THEOREM DepthStaysBounded == Spec => []BoundedDepth
  BY Invariant, PTL DEF IInv

(* No frame waits behind the playback position, whatever was lost,         *)
(* reordered or discarded and however often the sequence numbers wrapped   *)
(* (jitter_buffer.cpp:34,49,88).                                           *)
THEOREM NoFrameStranded == Spec => []NothingStranded
  BY Invariant, PTL DEF IInv

(* An at-cap episode lasts no longer than the backlog: the flag is up only *)
(* above the recovery threshold (jitter_buffer.cpp:52-59,73-77).           *)
THEOREM CapEpisodesEnd == Spec => []CapClears
  BY Invariant, PTL DEF IInv

-----------------------------------------------------------------------------
(* Refinement of PlayoutQueue.                                             *)

LEMMA SameCardinality == \A S : Queue!Cardinality(S) = Cardinality(S)
  BY Zenon DEF Queue!Cardinality, Cardinality

LEMMA PushIsArrival ==
  ASSUME IInv, NEW s \in Seqs, Push(s)
  PROVE  [Queue!Next]_Queue!queueVars
<1> DEFINE pos == IF started THEN nextSeq ELSE -1
<1>1. CASE PushLate(s)
  BY <1>1 DEF PushLate, vars, Queue!queueVars
<1>2. CASE PushFits(s)
  <2>1. s >= pos
    BY <1>2, SeqAssumption DEF PushFits, TooLate, IInv, TypeOK, Seqs
  <2>2. Queue!Arrive(s)
    BY <1>2, <2>1, SameCardinality DEF PushFits, Fits, Queue!Arrive
  <2> QED
    BY <2>2 DEF Queue!Next, Queue!Seqs, Seqs
<1>3. CASE PushOver(s)
  <2> DEFINE all == buffer \cup {s}
             old == Oldest(all)
  <2>1. s >= pos
    BY <1>3, SeqAssumption DEF PushOver, TooLate, IInv, TypeOK, Seqs
  <2>2. Cardinality(buffer) = MaxDepth /\ s \notin buffer
    BY <1>3, OverflowIsByOne DEF PushOver
  <2> all \in SUBSET Seqs /\ all # {}
    BY DEF IInv, TypeOK
  <2>3. old \in all /\ \A k \in all : old <= k
    BY OldestIsLeast
  <2>4. buffer' = all \ {old} /\ nextSeq' = Position(old) /\ started' = started
    BY <1>3 DEF PushOver
  <2>5. \A k \in buffer' : old < k
    BY <2>3, <2>4, SeqAssumption DEF Seqs
  <2>6. started => old >= nextSeq
    BY <1>3, <2>3, NothingBehind DEF PushOver
  <2>7. (IF started' THEN nextSeq' ELSE -1)
          = IF pos = -1 THEN -1 ELSE After(old)
    BY <2>4, <2>6, SeqAssumption DEF Position, IInv, TypeOK, Seqs
  <2>8. out' = out
    BY <1>3 DEF PushOver
  <2> HIDE DEF old
  <2>9. Queue!ArriveFull(s)
    BY <2>1, <2>2, <2>3, <2>4, <2>5, <2>7, <2>8, SameCardinality
    DEF Queue!ArriveFull, Queue!Filling, Queue!After, After
  <2> QED
    BY <2>9 DEF Queue!Next, Queue!Seqs, Seqs
<1> QED
  BY <1>1, <1>2, <1>3 DEF Push

LEMMA PopIsHearing ==
  ASSUME IInv, Pop
  PROVE  [Queue!Next]_Queue!queueVars
<1> DEFINE pos == IF started THEN nextSeq ELSE -1
<1>1. CASE PopFilling
  <2>1. Queue!StayQuiet
    BY <1>1 DEF PopFilling, Ready, Silence,
                Queue!StayQuiet, Queue!Filling, Queue!Silence
  <2> QED
    BY <2>1 DEF Queue!Next
<1>2. CASE PopFrame
  <2>1. /\ PlayFrom \in Seqs /\ PlayFrom \in buffer
        /\ \A k \in buffer : PlayFrom <= k
    BY <1>2, PlaysFromTheFront DEF PopFrame
  <2>2. PlayFrom = pos \/ (pos = -1 /\ \A k \in buffer : PlayFrom <= k)
    BY <2>1 DEF PlayFrom
  <2>3. Queue!Play(PlayFrom)
    BY <1>2, <2>1, <2>2 DEF PopFrame, Queue!Play, Queue!Filling, Queue!After, After
  <2> QED
    BY <2>1, <2>3 DEF Queue!Next, Queue!Seqs, Seqs
<1>3. ASSUME PopMiss \/ PopResync
      PROVE  pos = PlayFrom /\ pos # -1 /\ pos \notin buffer
  <2>1. started /\ PlayFrom \in Seqs /\ PlayFrom \notin buffer
    BY <1>3, PlaysFromTheFront DEF PopMiss, PopResync
  <2> QED
    BY <2>1, SeqAssumption DEF PlayFrom, Seqs
<1>4. CASE PopMiss
  <2>1. Queue!Skip
    BY <1>3, <1>4 DEF PopMiss, Silence, After,
                      Queue!Skip, Queue!Filling, Queue!Silence, Queue!After
  <2> QED
    BY <2>1 DEF Queue!Next
<1>5. CASE PopResync
  <2>1. Queue!GiveUp
    BY <1>3, <1>5 DEF PopResync, AfterStall, Silence,
                      Queue!GiveUp, Queue!Filling, Queue!Silence
  <2> QED
    BY <2>1 DEF Queue!Next
<1> QED
  BY <1>1, <1>2, <1>4, <1>5 DEF Pop

(* Every push() is an arrival and every pop() a hearing of PlayoutQueue:   *)
(* frames are heard in order, each at most once, and only the oldest is    *)
(* ever discarded (jitter_buffer.cpp:30-66,79-115).                        *)
THEOREM ImplementsPlayoutQueue == Spec => HeardInOrder
<1>1. Init => Queue!Init
  BY DEF Init, Silence, Queue!Init, Queue!Filling, Queue!Silence
<1>2. IInv /\ [Next]_vars => [Queue!Next]_Queue!queueVars
  <2> SUFFICES ASSUME IInv, [Next]_vars
               PROVE  [Queue!Next]_Queue!queueVars
    OBVIOUS
  <2>1. CASE UNCHANGED vars
    BY <2>1 DEF vars, Queue!queueVars
  <2>2. CASE Next
    BY <2>2, PushIsArrival, PopIsHearing DEF Next
  <2> QED
    BY <2>1, <2>2
<1> QED
  BY <1>1, <1>2, Invariant, PTL DEF Spec, HeardInOrder, Queue!Spec

-----------------------------------------------------------------------------
(* The audio path around the buffer.                                       *)

(* Whatever the network, the main loop and the playback device do, they    *)
(* reach the buffer only through push() and pop(), one critical section at *)
(* a time (audio_pump.cpp: push_frame; playback.cpp:51-71).                *)
THEOREM PlayoutUsesBuffer == PlayoutSpec => Spec
<1>1. PlayoutInit => Init
  BY DEF PlayoutInit
<1>2. [PlayoutNext]_playoutVars => [Next]_vars
  <2> SUFFICES ASSUME [PlayoutNext]_playoutVars PROVE [Next]_vars
    OBVIOUS
  <2>1. CASE UNCHANGED playoutVars
    BY <2>1 DEF playoutVars
  <2>2. CASE Send \/ BeginCallback \/ CopyBytes \/ \E s \in Seqs : Lose(s)
    BY <2>2 DEF Send, BeginCallback, CopyBytes, Lose
  <2>3. CASE \E s \in Seqs : Deliver(s) \/ DeliverCopy(s)
    BY <2>3 DEF Deliver, DeliverCopy, Next
  <2>4. CASE PullFrame
    BY <2>4 DEF PullFrame, Next
  <2> QED
    BY <2>1, <2>2, <2>3, <2>4 DEF PlayoutNext, Callback
<1> QED
  BY <1>1, <1>2, PTL DEF PlayoutSpec, Spec

(* So an unreliable network and a device that asks for any number of bytes *)
(* find the same bounded buffer, in which no frame is stranded             *)
(* (jitter_buffer.cpp:34,46-51,88).                                        *)
THEOREM PlayoutKeepsBuffer == PlayoutSpec => [](BoundedDepth /\ NothingStranded)
  BY PlayoutUsesBuffer, DepthStaysBounded, NoFrameStranded, PTL

(* And what is heard of a stream that lost, reordered and duplicated its   *)
(* packets is heard in order, each at most once (jitter_buffer.cpp:79-115).*)
THEOREM PlayoutHeardInOrder == PlayoutSpec => HeardInOrder
  BY PlayoutUsesBuffer, ImplementsPlayoutQueue, PTL

(* What a callback still has to do: every pop() and every copy takes       *)
(* something off it.                                                       *)
Debt == 2 * remaining - (IF carry > 0 THEN 1 ELSE 0)
PlayoutTyped == carry \in Nat /\ remaining \in Nat

LEMMA PlayoutTypedAlways == PlayoutSpec => []PlayoutTyped
<1>1. PlayoutInit => PlayoutTyped
  BY DEF PlayoutInit, PlayoutTyped
<1>2. PlayoutTyped /\ [PlayoutNext]_playoutVars => PlayoutTyped'
  <2> SUFFICES ASSUME PlayoutTyped, [PlayoutNext]_playoutVars PROVE PlayoutTyped'
    OBVIOUS
  <2>1. CASE CopyBytes
    BY <2>1 DEF CopyBytes, PlayoutTyped
  <2>2. CASE PullFrame
    BY <2>2, PacketAssumption DEF PullFrame, Starved, PlayoutTyped
  <2>3. CASE BeginCallback
    BY <2>3, PacketAssumption DEF BeginCallback, PlayoutTyped
  <2>4. CASE UNCHANGED playoutVars \/ Send \/ \E s \in Seqs : Lose(s) \/ Deliver(s) \/ DeliverCopy(s)
    BY <2>4 DEF playoutVars, Send, Lose, Deliver, DeliverCopy, PlayoutTyped
  <2> QED
    BY <2>1, <2>2, <2>3, <2>4 DEF PlayoutNext, Callback
<1> QED
  BY <1>1, <1>2, PTL DEF PlayoutSpec

(* The playback callback's loop has a variant: each turn lowers a natural  *)
(* number, and nothing that happens meanwhile raises it, so the number of  *)
(* turns is bounded by what the device asked for, whatever the buffer      *)
(* holds (playback.cpp:51-71).                                             *)
THEOREM CallbackWorksOff ==
  PlayoutSpec => [][remaining > 0 => /\ Debt \in Nat /\ Debt' <= Debt
                                     /\ PullFrame \/ CopyBytes => Debt' < Debt]_playoutVars
<1> DEFINE A == remaining > 0 => /\ Debt \in Nat /\ Debt' <= Debt
                                 /\ PullFrame \/ CopyBytes => Debt' < Debt
<1>1. ASSUME PlayoutTyped, PlayoutTyped', PlayoutNext, remaining > 0
      PROVE  /\ Debt \in Nat /\ Debt' <= Debt
             /\ PullFrame \/ CopyBytes => Debt' < Debt
  <2>1. Debt \in Nat /\ Debt' \in Int
    BY <1>1 DEF PlayoutTyped, Debt
  <2>2. ASSUME CopyBytes PROVE Debt' < Debt
    <3>1. CASE remaining < carry
      BY <1>1, <2>2, <3>1 DEF CopyBytes, PlayoutTyped, Debt
    <3>2. CASE ~(remaining < carry)
      BY <1>1, <2>2, <3>2 DEF CopyBytes, PlayoutTyped, Debt
    <3> QED
      BY <3>1, <3>2
  <2>3. ASSUME PullFrame PROVE Debt' < Debt
    <3>1. Debt = 2 * remaining /\ remaining \in Nat /\ remaining > 0
      BY <1>1, <2>3 DEF PullFrame, PlayoutTyped, Debt
    <3>2. CASE out' # Silence
      <4>1. carry' > 0 /\ remaining' = remaining
        BY <2>3, <3>2, PacketAssumption DEF PullFrame
      <4> QED
        BY <3>1, <4>1 DEF Debt
    <3>3. CASE out' = Silence
      <4>1. carry' = 0 /\ remaining' = 0
        BY <2>3, <3>3 DEF PullFrame, Starved
      <4> QED
        BY <3>1, <4>1 DEF Debt
    <3> QED
      BY <3>2, <3>3
  <2>4. ASSUME ~PullFrame, ~CopyBytes PROVE Debt' = Debt
    BY <1>1, <2>4 DEF PlayoutNext, Callback, BeginCallback, Send, Lose, Deliver, DeliverCopy, Debt
  <2> QED
    BY <2>1, <2>2, <2>3, <2>4
<1>2. PlayoutTyped /\ PlayoutTyped' /\ [PlayoutNext]_playoutVars => [A]_playoutVars
  BY <1>1
<1> QED
  BY <1>2, PlayoutTypedAlways, PTL DEF PlayoutSpec
=============================================================================
