------------------------- MODULE SecureChannelProofs -------------------------
(***************************************************************************)
(* For messages of any sizes, any limit on a frame, any socket buffers and *)
(* any number of messages and of frames given up: what receive() returns   *)
(* is what the peer sent, in order and without a gap.                      *)
(***************************************************************************)
EXTENDS SecureChannel, SequenceTheorems, TLAPS

(* What was cut from the frames an end has encrypted so far.               *)
Issued(e) == [n : 0 .. sendNonce[e] - 1, part : Nat, size : Nat]

Typed ==
  /\ want \in [End -> [Thread -> Sizes \cup {0}]]
  /\ sendNonce \in [End -> Nat] /\ recvNonce \in [End -> Nat]
  /\ todo \in [End -> Seq(Piece)] /\ pipe \in [End -> Seq(Piece)]
  /\ reading \in [End -> [size : Int, got : Seq(Piece)]]
  /\ delivered \in [End -> Seq(Nat)]

(* Nothing is on its way that was not encrypted: written, buffered, read.  *)
Outgoing == \A e \in End : todo[e] \in Seq(Issued(e))
Buffered == \A e \in End : pipe[e] \in Seq(Issued(Peer(e)))
Gathered ==
  \A e \in End : /\ reading[e].got \in Seq(Issued(Peer(e)))
                 /\ reading[e] # None => reading[e].size \in 1 .. FrameMax

(* The receiver's nonce counts what it delivered, in order, and never      *)
(* overtakes the sender's.                                                 *)
Counted ==
  \A e \in End : /\ Len(delivered[e]) = recvNonce[e]
                 /\ \A i \in 1 .. Len(delivered[e]) : delivered[e][i] = i - 1
Behind == \A e \in End : recvNonce[e] <= sendNonce[Peer(e)]

IInv == Typed /\ Outgoing /\ Buffered /\ Gathered /\ Counted /\ Behind

-----------------------------------------------------------------------------
(* The two ends, and frames.                                               *)

LEMMA Ends == \A e \in End : Peer(e) \in End /\ Peer(e) # e /\ Peer(Peer(e)) = e
BY DEF End, Peer

LEMMA NoPieces == None = [size |-> -1, got |-> <<>>] /\ None.got = <<>> /\ None.size = -1
BY DEF None

LEMMA IssuedPieces == ASSUME Typed, NEW e \in End PROVE Issued(e) \subseteq Piece
BY DEF Typed, Issued, Piece

(* A frame's pieces all carry its nonce.                                   *)
LEMMA FramePieces ==
  ASSUME NEW n \in Nat, NEW k \in Nat
  PROVE  Frame(n, k) \in Seq([n : 0 .. n, part : Nat, size : Nat])
<1> DEFINE S == [n : 0 .. n, part : Nat, size : Nat]
<1>1. k + 1 \in Nat
  OBVIOUS
<1>2. \A i \in 1 .. k + 1 : [n |-> n, part |-> i - 1, size |-> k] \in S
  OBVIOUS
<1> HIDE DEF S
<1>3. [i \in 1 .. k + 1 |-> [n |-> n, part |-> i - 1, size |-> k]] \in Seq(S)
  BY <1>1, <1>2, IsASeq
<1> QED
  BY <1>3 DEF Frame, S

LEMMA ChunkHead ==
  ASSUME NEW n \in Nat, NEW k \in Nat \ {0}
  PROVE  Len(Chunks(n, k)) = k /\ Head(Chunks(n, k)).n = n
<1>1. Frame(n, k) \in Seq([n : 0 .. n, part : Nat, size : Nat])
  BY FramePieces
<1>2. Len(Frame(n, k)) = k + 1 /\ Frame(n, k)[2].n = n
  BY <1>1 DEF Frame
<1> QED
  BY <1>1, <1>2 DEF Chunks

LEMMA ChunkPieces ==
  ASSUME NEW n \in Nat, NEW k \in Nat \ {0}
  PROVE  /\ Chunks(n, k) \in Seq(Piece) /\ Len(Chunks(n, k)) = k
         /\ \A i \in 1 .. k : Chunks(n, k)[i] = [n |-> n, part |-> i, size |-> k]
<1> DEFINE F == Frame(n, k)
<1>1. F \in Seq([n : 0 .. n, part : Nat, size : Nat])
  BY FramePieces
<1>2. [n : 0 .. n, part : Nat, size : Nat] \subseteq Piece
  BY DEF Piece
<1>3. F \in Seq(Piece)
  BY <1>1, <1>2, SeqMonotonic
<1>4. /\ Len(F) = k + 1
      /\ \A i \in 1 .. k : F[i + 1] = [n |-> n, part |-> i, size |-> k]
  <2>1. DOMAIN F = 1 .. k + 1 /\ DOMAIN F = 1 .. Len(F) /\ Len(F) \in Nat
    BY <1>3, LenProperties DEF Frame
  <2>2. ASSUME NEW i \in 1 .. k PROVE F[i + 1] = [n |-> n, part |-> i, size |-> k]
    <3>1. i + 1 \in 1 .. k + 1 /\ i + 1 - 1 = i
      OBVIOUS
    <3> QED
      BY <3>1 DEF Frame
  <2> QED
    BY <2>1, <2>2
<1> HIDE DEF F
<1>5. F # <<>>
  BY <1>4, EmptySeq
<1>6. /\ Tail(F) \in Seq(Piece) /\ Len(Tail(F)) = Len(F) - 1
      /\ \A i \in 1 .. Len(Tail(F)) : Tail(F)[i] = F[i + 1]
  BY <1>3, <1>5, HeadTailProperties
<1>7. Chunks(n, k) = Tail(F)
  BY DEF Chunks, F
<1> QED
  BY <1>4, <1>6, <1>7

(* What was issued stays so while only more is issued.                     *)
LEMMA IssuedGrows ==
  ASSUME NEW e \in End, sendNonce[e] \in Nat, sendNonce'[e] \in Nat,
         sendNonce[e] <= sendNonce'[e]
  PROVE  Issued(e) \subseteq Issued(e)' /\ Seq(Issued(e)) \subseteq Seq(Issued(e)')
<1>1. Issued(e) \subseteq Issued(e)'
  BY DEF Issued
<1> QED
  BY <1>1, SeqMonotonic

-----------------------------------------------------------------------------
(* Sending.                                                                *)

LEMMA BeginKeeps ==
  ASSUME IInv, NEW e \in End, NEW t \in Thread, NEW k \in Sizes, BeginSend(e, t, k)
  PROVE  IInv'
BY DEF IInv, BeginSend, Typed, Outgoing, Buffered, Gathered, Counted, Behind, Issued

LEMMA AcquireKeeps ==
  ASSUME IInv, NEW e \in End, NEW t \in Thread, Acquire(e, t) PROVE IInv'
<1> USE DEF IInv
<1> DEFINE k == want[e][t]
           n == sendNonce[e]
<1>1. k \in Nat /\ n \in Nat
  <2>1. want[e] \in [Thread -> Sizes \cup {0}] /\ sendNonce[e] \in Nat
    BY DEF Typed
  <2>2. Sizes \cup {0} \subseteq Nat
    BY ChannelAssumption
  <2> QED
    BY <2>1, <2>2
<1>2. /\ sendNonce' = [sendNonce EXCEPT ![e] = n + 1]
      /\ todo' = [todo EXCEPT ![e] = Frame(n, k)]
      /\ UNCHANGED <<want, recvNonce, pipe, reading, delivered>>
  BY DEF Acquire
<1> HIDE DEF k, n
<1>3. sendNonce' \in [End -> Nat] /\ sendNonce'[e] = n + 1
  BY <1>1, <1>2 DEF Typed
<1>4. Frame(n, k) \in Seq(Issued(e)')
  BY <1>1, <1>3, FramePieces DEF Issued
<1>5. \A x \in End : sendNonce[x] \in Nat /\ sendNonce'[x] \in Nat /\ sendNonce[x] <= sendNonce'[x]
  BY <1>1, <1>2, <1>3 DEF Typed, n
<1>6. \A x \in End : Seq(Issued(x)) \subseteq Seq(Issued(x)')
  BY <1>5, IssuedGrows
<1>7. Frame(n, k) \in Seq(Piece)
  <2>1. Issued(e)' \subseteq Piece
    BY <1>3 DEF Issued, Piece
  <2> QED
    BY <1>4, <2>1, SeqMonotonic
<1>8. Typed'
  BY <1>2, <1>3, <1>7 DEF Typed
<1>9. Outgoing'
  BY <1>2, <1>4, <1>6 DEF Outgoing, Typed
<1>10. Buffered' /\ Gathered'
  BY <1>2, <1>6, Ends DEF Buffered, Gathered
<1>11. Counted' /\ Behind'
  <2>1. \A x \in End : recvNonce[x] \in Nat
    BY DEF Typed
  <2> QED
    BY <1>2, <1>5, <2>1, Ends DEF Counted, Behind
<1> QED
  BY <1>8, <1>9, <1>10, <1>11

LEMMA WriteKeeps == ASSUME IInv, NEW e \in End, Write(e) PROVE IInv'
<1> USE DEF IInv
<1> DEFINE p == Peer(e)
           h == Head(todo[e])
<1>1. /\ todo[e] # <<>> /\ todo' = [todo EXCEPT ![e] = Tail(todo[e])]
      /\ pipe' = [pipe EXCEPT ![p] = Append(pipe[p], h)]
      /\ UNCHANGED <<want, sendNonce, recvNonce, reading, delivered>>
  BY DEF Write
<1>2. p \in End /\ Peer(p) = e
  BY Ends
<1>3. todo[e] \in Seq(Issued(e)) /\ pipe[p] \in Seq(Issued(e))
  BY <1>2 DEF Outgoing, Buffered
<1>4. h \in Issued(e) /\ Tail(todo[e]) \in Seq(Issued(e))
  BY <1>1, <1>3, HeadTailProperties
<1> HIDE DEF p, h
<1>5. Append(pipe[p], h) \in Seq(Issued(e))
  BY <1>3, <1>4, AppendProperties
<1>6. Tail(todo[e]) \in Seq(Piece) /\ Append(pipe[p], h) \in Seq(Piece)
  BY <1>4, <1>5, IssuedPieces, SeqMonotonic
<1>7. Typed'
  BY <1>1, <1>2, <1>6 DEF Typed
<1>8. \A x \in End : Issued(x)' = Issued(x)
  BY <1>1 DEF Issued
<1>9. Outgoing' /\ Buffered'
  BY <1>1, <1>2, <1>4, <1>5, <1>8, Ends DEF Outgoing, Buffered, Typed
<1>10. Gathered' /\ Counted' /\ Behind'
  BY <1>1, <1>8, Ends DEF Gathered, Counted, Behind
<1> QED
  BY <1>7, <1>9, <1>10

LEMMA WriteFailsKeeps == ASSUME IInv, NEW e \in End, WriteFails(e) PROVE IInv'
<1>1. /\ todo' = [todo EXCEPT ![e] = <<>>]
      /\ UNCHANGED <<want, sendNonce, recvNonce, pipe, reading, delivered>>
  BY DEF WriteFails
<1>2. <<>> \in Seq(Issued(e)) /\ <<>> \in Seq(Piece)
  BY EmptySeq
<1> QED
  BY <1>1, <1>2 DEF IInv, Typed, Outgoing, Buffered, Gathered, Counted, Behind, Issued

LEMMA ReturnKeeps == ASSUME IInv, NEW e \in End, RefuseSend(e) \/ Release(e) PROVE IInv'
<1>1. want' \in [End -> [Thread -> Sizes \cup {0}]]
  <2>1. \A w \in [Thread -> Sizes \cup {0}] : \A t : [w EXCEPT ![t] = 0] \in [Thread -> Sizes \cup {0}]
    OBVIOUS
  <2>2. \E t : want' = [want EXCEPT ![e] = [want[e] EXCEPT ![t] = 0]]
    BY DEF RefuseSend, Release
  <2>3. want \in [End -> [Thread -> Sizes \cup {0}]]
    BY DEF IInv, Typed
  <2> QED
    BY <2>1, <2>2, <2>3
<1>2. UNCHANGED <<todo, sendNonce, recvNonce, pipe, reading, delivered>>
  BY DEF RefuseSend, Release
<1> QED
  BY <1>1, <1>2 DEF IInv, Typed, Outgoing, Buffered, Gathered, Counted, Behind, Issued

-----------------------------------------------------------------------------
(* Receiving.                                                              *)

(* One step of receive(): a shorter buffer, and what was gathered.         *)
LEMMA ReadKeeps ==
  ASSUME IInv, NEW e \in End, NEW q \in Seq(Issued(Peer(e))),
         NEW r \in [size : Int, got : Seq(Issued(Peer(e)))],
         r # None => r.size \in 1 .. FrameMax,
         pipe' = [pipe EXCEPT ![e] = q], reading' = [reading EXCEPT ![e] = r],
         UNCHANGED <<want, todo, sendNonce, recvNonce, delivered>>
  PROVE  IInv'
<1> USE DEF IInv
<1>1. \A x \in End : Issued(x)' = Issued(x)
  BY DEF Issued
<1>2. Seq(Issued(Peer(e))) \subseteq Seq(Piece)
  BY Ends, IssuedPieces, SeqMonotonic
<1>3. Typed'
  BY <1>2 DEF Typed
<1>4. Buffered' /\ Gathered'
  BY <1>1, Ends DEF Buffered, Gathered, Typed
<1>5. Outgoing' /\ Counted' /\ Behind'
  BY <1>1 DEF Outgoing, Counted, Behind
<1> QED
  BY <1>3, <1>4, <1>5

LEMMA NoneFits == \A e \in End : None \in [size : Int, got : Seq(Issued(Peer(e)))]
BY EmptySeq DEF None

LEMMA LengthKeeps ==
  ASSUME IInv, NEW e \in End, NEW k \in (0 .. FrameMax + 1) \cup Sizes, ReadLength(e, k)
  PROVE  IInv'
<1> USE DEF IInv
<1>1. pipe[e] \in Seq(Issued(Peer(e))) /\ pipe[e] # <<>>
  BY DEF ReadLength, Buffered
<1>2. Tail(pipe[e]) \in Seq(Issued(Peer(e)))
  BY <1>1, HeadTailProperties
<1>3. /\ pipe' = [pipe EXCEPT ![e] = Tail(pipe[e])]
      /\ UNCHANGED <<want, todo, sendNonce, recvNonce, delivered>>
  BY DEF ReadLength
<1>4. CASE k \in 1 .. FrameMax
  <2> DEFINE r == [size |-> k, got |-> <<>>]
  <2>1. reading' = [reading EXCEPT ![e] = r]
    BY <1>4 DEF ReadLength
  <2>2. r \in [size : Int, got : Seq(Issued(Peer(e)))] /\ r.size \in 1 .. FrameMax
    BY <1>4, EmptySeq, ChannelAssumption
  <2> HIDE DEF r
  <2> QED
    BY <1>2, <1>3, <2>1, <2>2, ReadKeeps
<1>5. CASE k \notin 1 .. FrameMax
  <2>1. reading' = [reading EXCEPT ![e] = None]
    BY <1>5 DEF ReadLength, Fail
  <2> QED
    BY <1>2, <1>3, <2>1, NoneFits, ReadKeeps
<1> QED
  BY <1>4, <1>5

LEMMA LengthTimeoutKeeps == ASSUME IInv, NEW e \in End, LengthTimeout(e) PROVE IInv'
<1>1. pipe[e] \in Seq(Issued(Peer(e))) /\ pipe[e] # <<>>
  BY DEF LengthTimeout, IInv, Buffered
<1>2. Tail(pipe[e]) \in Seq(Issued(Peer(e)))
  BY <1>1, HeadTailProperties
<1>3. /\ pipe' = [pipe EXCEPT ![e] = Tail(pipe[e])]
      /\ reading' = [reading EXCEPT ![e] = None]
      /\ UNCHANGED <<want, todo, sendNonce, recvNonce, delivered>>
  BY DEF LengthTimeout, Fail
<1> QED
  BY <1>2, <1>3, NoneFits, ReadKeeps

LEMMA ChunkKeeps == ASSUME IInv, NEW e \in End, ReadChunk(e) PROVE IInv'
<1> USE DEF IInv
<1> DEFINE h == Head(pipe[e])
           r == [reading[e] EXCEPT !.got = Append(reading[e].got, h)]
<1>1. /\ pipe[e] \in Seq(Issued(Peer(e))) /\ pipe[e] # <<>>
      /\ reading[e].got \in Seq(Issued(Peer(e))) /\ reading[e].size \in 1 .. FrameMax
      /\ reading[e] \in [size : Int, got : Seq(Piece)]
  BY DEF ReadChunk, Buffered, Gathered, Typed
<1>2. h \in Issued(Peer(e)) /\ Tail(pipe[e]) \in Seq(Issued(Peer(e)))
  BY <1>1, HeadTailProperties
<1>3. /\ pipe' = [pipe EXCEPT ![e] = Tail(pipe[e])]
      /\ reading' = [reading EXCEPT ![e] = r]
      /\ UNCHANGED <<want, todo, sendNonce, recvNonce, delivered>>
  BY DEF ReadChunk
<1> HIDE DEF h
<1>4. Append(reading[e].got, h) \in Seq(Issued(Peer(e)))
  BY <1>1, <1>2, AppendProperties
<1>5. r \in [size : Int, got : Seq(Issued(Peer(e)))] /\ r.size \in 1 .. FrameMax
  BY <1>1, <1>4
<1> HIDE DEF r
<1> QED
  BY <1>2, <1>3, <1>5, ReadKeeps

(* receive() gives up what it has read: the frame is late, or not          *)
(* authentic, or the session ends.                                         *)
LEMMA GiveUpKeeps ==
  ASSUME IInv, NEW e \in End, reading' = [reading EXCEPT ![e] = None],
         UNCHANGED <<want, todo, sendNonce, recvNonce, pipe, delivered>>
  PROVE  IInv'
<1>1. pipe[e] \in Seq(Issued(Peer(e))) /\ pipe' = [pipe EXCEPT ![e] = pipe[e]]
  BY DEF IInv, Buffered, Typed
<1> QED
  BY <1>1, NoneFits, ReadKeeps

(* A frame that is authentic is the next one, since its pieces carry the   *)
(* nonce that is expected, and the peer has counted past it.               *)
LEMMA DecryptKeeps == ASSUME IInv, NEW e \in End, Decrypt(e) PROVE IInv'
<1> USE DEF IInv
<1>1. CASE ~Authentic(e)
  BY <1>1, GiveUpKeeps DEF Decrypt, Fail
<1>2. CASE Authentic(e)
  <2> DEFINE n == recvNonce[e]
             got == reading[e].got
  <2>1. /\ n \in Nat /\ reading[e].size \in Nat \ {0}
        /\ got \in Seq(Issued(Peer(e))) /\ delivered[e] \in Seq(Nat)
    BY DEF Decrypt, Typed, Gathered
  <2>2. Len(got) = reading[e].size /\ Head(got).n = n
    BY <1>2, <2>1, ChunkHead DEF Authentic
  <2>3. Head(got) \in Issued(Peer(e))
    BY <2>1, <2>2, HeadTailProperties, EmptySeq
  <2>4. n < sendNonce[Peer(e)]
    BY <2>1, <2>2, <2>3, Ends DEF Issued, Typed
  <2>5. /\ delivered' = [delivered EXCEPT ![e] = Append(delivered[e], n)]
        /\ recvNonce' = [recvNonce EXCEPT ![e] = n + 1]
        /\ reading' = [reading EXCEPT ![e] = None]
        /\ UNCHANGED <<want, todo, sendNonce, pipe>>
    BY <1>2, <2>2 DEF Decrypt
  <2> HIDE DEF got, n
  <2>6. /\ Append(delivered[e], n) \in Seq(Nat)
        /\ Len(Append(delivered[e], n)) = Len(delivered[e]) + 1
        /\ \A i \in 1 .. Len(delivered[e]) : Append(delivered[e], n)[i] = delivered[e][i]
        /\ Append(delivered[e], n)[Len(delivered[e]) + 1] = n
    BY <2>1, AppendProperties
  <2>7. None \in [size : Int, got : Seq(Piece)] /\ None.got \in Seq(Issued(Peer(e)))
    BY EmptySeq DEF None
  <2>8. Typed'
    BY <2>1, <2>5, <2>6, <2>7 DEF Typed
  <2>9. \A x \in End : Issued(x)' = Issued(x)
    BY <2>5 DEF Issued
  <2>10. Outgoing' /\ Buffered' /\ Gathered'
    BY <2>5, <2>7, <2>9, Ends DEF Outgoing, Buffered, Gathered, Typed
  <2>11. Counted'
    <3>1. delivered'[e] = Append(delivered[e], n) /\ recvNonce'[e] = n + 1
          /\ \A x \in End \ {e} : delivered'[x] = delivered[x] /\ recvNonce'[x] = recvNonce[x]
      BY <2>5 DEF Typed
    <3>2. Len(delivered[e]) = n /\ \A i \in 1 .. n : delivered[e][i] = i - 1
      BY DEF Counted, n
    <3>3. Len(delivered'[e]) = n + 1 /\ \A i \in 1 .. n + 1 : delivered'[e][i] = i - 1
      BY <2>1, <2>6, <3>1, <3>2
    <3> QED
      BY <3>1, <3>3 DEF Counted
  <2>12. Behind'
    <3>1. recvNonce'[e] <= sendNonce[Peer(e)]
      BY <2>1, <2>4, <2>5, Ends DEF Typed
    <3>2. \A x \in End \ {e} : recvNonce'[x] = recvNonce[x]
      BY <2>5 DEF Typed
    <3> QED
      BY <2>5, <3>1, <3>2 DEF Behind
  <2> QED
    BY <2>8, <2>10, <2>11, <2>12
<1> QED
  BY <1>1, <1>2

LEMMA CloseKeeps == ASSUME IInv, NEW e \in End, CloseSocket(e) PROVE IInv'
<1> USE DEF IInv
<1>1. <<>> \in Seq(Issued(Peer(e)))
  BY EmptySeq
<1>2. reading[e] \in [size : Int, got : Seq(Issued(Peer(e)))]
      /\ (reading[e] # None => reading[e].size \in 1 .. FrameMax)
  BY DEF Typed, Gathered
<1>3. /\ pipe' = [pipe EXCEPT ![e] = <<>>] /\ reading' = [reading EXCEPT ![e] = reading[e]]
      /\ UNCHANGED <<want, todo, sendNonce, recvNonce, delivered>>
  BY DEF CloseSocket, Typed
<1> QED
  BY <1>1, <1>2, <1>3, ReadKeeps

-----------------------------------------------------------------------------
LEMMA Starts == Init => IInv
<1> SUFFICES ASSUME Init PROVE IInv
  OBVIOUS
<1>1. \A S : <<>> \in Seq(S) /\ Len(<<>>) = 0
  BY EmptySeq
<1>2. Typed
  BY <1>1 DEF Init, Typed, None
<1>3. Outgoing /\ Buffered /\ Gathered
  BY <1>1, Ends DEF Init, Outgoing, Buffered, Gathered, None
<1>4. Counted /\ Behind
  BY <1>1, Ends DEF Init, Counted, Behind
<1> QED
  BY <1>2, <1>3, <1>4 DEF IInv

LEMMA Keeps == IInv /\ [Next]_vars => IInv'
<1> SUFFICES ASSUME IInv, [Next]_vars PROVE IInv'
  OBVIOUS
<1>1. CASE UNCHANGED vars
  BY <1>1 DEF vars, IInv, Typed, Outgoing, Buffered, Gathered, Counted, Behind, Issued
<1>2. CASE Next
  <2>1. PICK e \in End :
          \/ \E t \in Thread, k \in Sizes : BeginSend(e, t, k)
          \/ Sending(e) \/ Receiving(e) \/ FrameTimeout(e) \/ LengthTimeout(e)
          \/ Withdraw(e) \/ CloseSocket(e)
    BY <1>2 DEF Next
  <2>2. CASE \E t \in Thread, k \in Sizes : BeginSend(e, t, k)
    BY <2>2, BeginKeeps
  <2>3. CASE Sending(e)
    BY <2>3, AcquireKeeps, WriteKeeps, WriteFailsKeeps, ReturnKeeps DEF Sending
  <2>4. CASE Receiving(e)
    BY <2>4, LengthKeeps, ChunkKeeps, DecryptKeeps DEF Receiving
  <2>5. CASE FrameTimeout(e) \/ Withdraw(e)
    BY <2>5, GiveUpKeeps DEF FrameTimeout, Withdraw, Fail
  <2>6. CASE CloseSocket(e)
    BY <2>6, CloseKeeps
  <2>7. CASE LengthTimeout(e)
    BY <2>7, LengthTimeoutKeeps
  <2> QED
    BY <2>1, <2>2, <2>3, <2>4, <2>5, <2>6, <2>7
<1> QED
  BY <1>1, <1>2

LEMMA Delivers == IInv => InOrder
<1> SUFFICES ASSUME IInv, NEW e \in End PROVE Len(delivered[e]) <= sendNonce[Peer(e)]
  BY DEF InOrder, IInv, Counted
<1> QED
  BY DEF IInv, Counted, Behind

(* Whatever is lost or given up on the way, what receive() returns is a    *)
(* prefix of what the peer sent (secure_channel.cpp:47-106).               *)
THEOREM PrefixDelivered == Spec => []InOrder
<1>1. Spec => []IInv
  BY Starts, Keeps, PTL DEF Spec
<1> QED
  BY <1>1, Delivers, PTL

-----------------------------------------------------------------------------
(* The stream as the receiver sees it: what is buffered, then what the     *)
(* holder of the peer's mutex has still to write.                          *)
Rest(e) == pipe[e] \o todo[Peer(e)]

Before(p, q)  == p.n < q.n \/ (p.n = q.n /\ p.part < q.part)
Follows(p, q) == IF p.part < p.size THEN q.n = p.n /\ q.part = p.part + 1 /\ q.size = p.size
                                    ELSE q.n = p.n + 1 /\ q.part = 0

(* The last part of an unbroken run of frames, the youngest of nonce       *)
(* last - 1, which is there up to its end.                                 *)
Good(R, last) ==
  /\ R \in Seq(Piece)
  /\ \A i \in DOMAIN R : R[i].n < last /\ R[i].part <= R[i].size /\ R[i].size > 0
  /\ \A i, j \in DOMAIN R : i < j => Before(R[i], R[j])
  /\ \A i \in DOMAIN R : i + 1 \in DOMAIN R => Follows(R[i], R[i + 1])
  /\ R # <<>> => R[Len(R)].n = last - 1 /\ R[Len(R)].part = R[Len(R)].size

(* A frame starts next, and it is that of nonce n.                         *)
Starting(R, n, last) == IF R = <<>> THEN n = last ELSE R[1].n = n /\ R[1].part = 0

Flags ==
  /\ published \in [End -> BOOLEAN] /\ open \in [End -> BOOLEAN]
  /\ failed \in [End -> BOOLEAN] /\ damaged \in [End -> BOOLEAN]
  /\ lock \in [End -> Thread \cup {"free"}]

Bound == \A e \in End : published[e] => open[e]
Quiet == \A e \in End : ~published[e] => reading[e] = None
Unlocked == \A e \in End : lock[e] = "free" => todo[e] = <<>>

Marked(e) == \A i \in DOMAIN Rest(e) : Rest(e)[i].size > FrameMax => damaged[e]

(* As long as receive() has not failed, what it has read is the beginning  *)
(* of the next frame, and what comes is the rest of it.                    *)
Gathering(e) ==
  LET r == reading[e]
  IN  /\ Len(r.got) <= r.size
      /\ \A i \in 1 .. Len(r.got) :
           r.got[i].n = recvNonce[e] /\ r.got[i].part = i /\ r.got[i].size = r.size
      /\ IF Len(r.got) < r.size
         THEN /\ Rest(e) # <<>> /\ Rest(e)[1].n = recvNonce[e]
              /\ Rest(e)[1].part = Len(r.got) + 1 /\ Rest(e)[1].size = r.size
         ELSE Starting(Rest(e), recvNonce[e] + 1, sendNonce[Peer(e)])

Framed(e) == IF reading[e] = None THEN Starting(Rest(e), recvNonce[e], sendNonce[Peer(e)])
                                  ELSE Gathering(e)

(* After a failure the first piece of the frame that is expected has been  *)
(* passed over, or will be taken for a length.                             *)
FirstPiece(e, p) == p.n = recvNonce[e] /\ p.part = 1

Lost(e) ==
  /\ recvNonce[e] < sendNonce[Peer(e)]
  /\ \A i \in DOMAIN reading[e].got : ~FirstPiece(e, reading[e].got[i])
  /\ \A i \in DOMAIN Rest(e) : FirstPiece(e, Rest(e)[i]) => i = 1 /\ reading[e] = None

Received(e) == /\ Good(Rest(e), sendNonce[Peer(e)]) /\ Marked(e)
               /\ IF failed[e] THEN damaged[e] /\ Lost(e) ELSE Framed(e)

Inbound == \A e \in End : published[e] => Received(e)

FInv == IInv /\ Flags /\ Bound /\ Quiet /\ Unlocked /\ Inbound /\ WholeFrames

-----------------------------------------------------------------------------
(* What a good run of frames loses at its head and gains at its end.       *)

LEMMA TailGood ==
  ASSUME NEW R, NEW last \in Nat, Good(R, last), R # <<>>
  PROVE  /\ Good(Tail(R), last) /\ R[1] \in Piece /\ 1 \in DOMAIN R
         /\ \A i \in DOMAIN Tail(R) : i + 1 \in DOMAIN R /\ i \in Nat \ {0} /\ Tail(R)[i] = R[i + 1]
         /\ IF R[1].part < R[1].size
            THEN /\ Tail(R) # <<>> /\ Tail(R)[1].n = R[1].n
                 /\ Tail(R)[1].part = R[1].part + 1 /\ Tail(R)[1].size = R[1].size
            ELSE Starting(Tail(R), R[1].n + 1, last)
<1> DEFINE T == Tail(R)
<1>1. R \in Seq(Piece) /\ Len(R) \in Nat \ {0} /\ DOMAIN R = 1 .. Len(R)
  BY EmptySeq DEF Good
<1>2. /\ T \in Seq(Piece) /\ Len(T) = Len(R) - 1 /\ DOMAIN T = 1 .. Len(R) - 1
      /\ \A i \in 1 .. Len(R) - 1 : T[i] = R[i + 1]
      /\ (Len(R) = 1 <=> T = <<>>)
  <2>1. /\ T \in Seq(Piece) /\ Len(T) = Len(R) - 1
        /\ \A i \in 1 .. Len(T) : T[i] = R[i + 1]
    BY <1>1, HeadTailProperties DEF Good
  <2>2. DOMAIN T = 1 .. Len(T) /\ (T # <<>> => Len(T) \in Nat \ {0}) /\ Len(<<>>) = 0
    BY <2>1, LenProperties, EmptySeq
  <2> HIDE DEF T
  <2> QED
    BY <1>1, <2>1, <2>2
<1> HIDE DEF T
<1>3. \A i \in DOMAIN R : R[i] \in Piece
  BY <1>1, ElementOfSeq
<1>4. /\ \A i \in DOMAIN T : i \in Nat \ {0} /\ i + 1 \in DOMAIN R /\ T[i] = R[i + 1]
      /\ 1 \in DOMAIN R
  BY <1>1, <1>2
<1>5. Good(T, last)
  <2>1. \A i, j \in DOMAIN T : i < j => Before(T[i], T[j])
    BY <1>4 DEF Good
  <2>2. \A i \in DOMAIN T : i + 1 \in DOMAIN T => Follows(T[i], T[i + 1])
    BY <1>4 DEF Good
  <2>3. T # <<>> => T[Len(T)] = R[Len(R)]
    BY <1>1, <1>2
  <2> QED
    BY <1>1, <1>2, <1>4, <2>1, <2>2, <2>3 DEF Good
<1>6. CASE Len(R) = 1
  <2>1. R[1].part = R[1].size /\ R[1].n = last - 1
    BY <1>1, <1>6 DEF Good
  <2>2. R[1].n + 1 = last /\ ~(R[1].part < R[1].size)
    BY <1>3, <1>4, <2>1 DEF Piece
  <2> QED
    BY <1>2, <1>3, <1>4, <1>5, <1>6, <2>2 DEF Starting, T
<1>7. CASE Len(R) # 1
  <2>1. T # <<>> /\ T[1] = R[2] /\ 1 + 1 \in DOMAIN R
    BY <1>1, <1>2, <1>7
  <2>2. Follows(R[1], R[1 + 1])
    BY <1>4, <2>1 DEF Good
  <2> QED
    BY <1>3, <1>4, <1>5, <2>1, <2>2 DEF Starting, Follows, T
<1> QED
  BY <1>6, <1>7

(* N is R and the frame of nonce last after it.                            *)
Extends(R, last, k, N) ==
  /\ Good(N, last + 1) /\ N # <<>>
  /\ \A i \in DOMAIN R : i \in DOMAIN N /\ N[i] = R[i]
  /\ \A i \in DOMAIN N : i \in DOMAIN R \/ (N[i].n = last /\ N[i].size = k)
  /\ (R # <<>> => N[1] = R[1])
  /\ (R = <<>> => N[1].n = last /\ N[1].part = 0)

LEMMA FrameGood ==
  ASSUME NEW R, NEW last \in Nat, NEW k \in Nat \ {0}, Good(R, last)
  PROVE  Extends(R, last, k, R \o Frame(last, k))
<1> DEFINE F == Frame(last, k)
           N == R \o F
           m == Len(R)
<1>1. R \in Seq(Piece) /\ m \in Nat /\ DOMAIN R = 1 .. m /\ (R = <<>> <=> m = 0)
  BY EmptySeq DEF Good
<1>2. /\ F \in Seq(Piece) /\ Len(F) = k + 1
      /\ \A i \in 1 .. k + 1 : F[i] = [n |-> last, part |-> i - 1, size |-> k]
  <2>1. F \in Seq([n : 0 .. last, part : Nat, size : Nat])
    BY FramePieces
  <2>2. [n : 0 .. last, part : Nat, size : Nat] \subseteq Piece
    BY DEF Piece
  <2>3. F \in Seq(Piece)
    BY <2>1, <2>2, SeqMonotonic
  <2>4. DOMAIN F = 1 .. k + 1 /\ Len(F) \in Nat /\ DOMAIN F = 1 .. Len(F)
    BY <2>3, LenProperties DEF Frame
  <2> QED
    BY <2>3, <2>4 DEF Frame
<1> HIDE DEF F
<1>3. /\ N \in Seq(Piece) /\ Len(N) = m + k + 1 /\ DOMAIN N = 1 .. m + k + 1
      /\ \A i \in 1 .. m : N[i] = R[i]
      /\ \A i \in m + 1 .. m + k + 1 : N[i] = F[i - m]
  <2>1. /\ N \in Seq(Piece) /\ Len(N) = m + (k + 1)
        /\ \A i \in 1 .. m + (k + 1) : N[i] = IF i <= m THEN R[i] ELSE F[i - m]
    <3>1. R \in Seq(Piece) /\ F \in Seq(Piece)
      BY <1>1, <1>2
    <3>2. /\ R \o F \in Seq(Piece) /\ Len(R \o F) = Len(R) + Len(F)
          /\ \A i \in 1 .. Len(R) + Len(F) :
               (R \o F)[i] = IF i <= Len(R) THEN R[i] ELSE F[i - Len(R)]
      BY ONLY <3>1, ConcatProperties
    <3> QED
      BY <1>2, <3>2
  <2>2. DOMAIN N = 1 .. Len(N)
    BY <2>1, LenProperties
  <2> HIDE DEF N, m
  <2> QED
    BY <1>1, <2>1, <2>2
<1> HIDE DEF N, m
<1>4. \A i \in m + 1 .. m + k + 1 : N[i].n = last /\ N[i].part = i - m - 1 /\ N[i].size = k
  BY <1>1, <1>2, <1>3
<1>5. \A i \in 1 .. m : i \in DOMAIN R /\ R[i] \in Piece /\ R[i].n < last
  BY <1>1, ElementOfSeq DEF Good
<1>6. \A i \in DOMAIN N : N[i].n < last + 1 /\ N[i].part <= N[i].size /\ N[i].size > 0
  <2>1. ASSUME NEW i \in 1 .. m
        PROVE  N[i].n < last + 1 /\ N[i].part <= N[i].size /\ N[i].size > 0
    BY <1>3, <1>5 DEF Good, Piece
  <2>2. ASSUME NEW i \in m + 1 .. m + k + 1
        PROVE  N[i].n < last + 1 /\ N[i].part <= N[i].size /\ N[i].size > 0
    BY <1>1, <1>4
  <2> QED
    BY <1>1, <1>3, <2>1, <2>2
<1>7. \A i, j \in DOMAIN N : i < j => Before(N[i], N[j])
  <2>1. ASSUME NEW i \in DOMAIN N, NEW j \in DOMAIN N, i < j PROVE Before(N[i], N[j])
    <3>1. CASE j \in 1 .. m
      BY <1>1, <1>3, <2>1, <3>1 DEF Good
    <3>2. CASE j \notin 1 .. m /\ i \in 1 .. m
      BY <1>1, <1>3, <1>4, <1>5, <3>2 DEF Before
    <3>3. CASE j \notin 1 .. m /\ i \notin 1 .. m
      BY <1>1, <1>3, <1>4, <2>1, <3>3 DEF Before
    <3> QED
      BY <3>1, <3>2, <3>3
  <2> QED
    BY <2>1
<1>8. \A i \in DOMAIN N : i + 1 \in DOMAIN N => Follows(N[i], N[i + 1])
  <2>1. ASSUME NEW i \in DOMAIN N, i + 1 \in DOMAIN N PROVE Follows(N[i], N[i + 1])
    <3>1. CASE i + 1 \in 1 .. m
      BY <1>1, <1>3, <2>1, <3>1 DEF Good
    <3>2. CASE i = m
      <4>1. R # <<>> /\ N[i] = R[m] /\ R[m].n = last - 1 /\ R[m].part = R[m].size /\ R[m] \in Piece
        BY <1>1, <1>3, <1>5, <3>2 DEF Good, m
      <4>2. N[i + 1].n = last /\ N[i + 1].part = 0
        BY <1>1, <1>3, <1>4, <2>1, <3>2
      <4> QED
        BY <4>1, <4>2 DEF Follows, Piece
    <3>3. CASE i \in m + 1 .. m + k
      <4>1. i \in m + 1 .. m + k + 1 /\ i + 1 \in m + 1 .. m + k + 1
        BY <1>1, <3>3
      <4>2. N[i].part = i - m - 1 /\ N[i + 1].part = i - m /\ i - m - 1 < k
        BY <1>1, <1>4, <3>3, <4>1
      <4> QED
        BY <1>1, <1>4, <4>1, <4>2 DEF Follows
    <3> QED
      BY <1>1, <1>3, <2>1, <3>1, <3>2, <3>3
  <2> QED
    BY <2>1
<1>9. N # <<>> /\ N[Len(N)].n = last /\ N[Len(N)].part = N[Len(N)].size
  BY <1>1, <1>3, <1>4, EmptySeq
<1>10. Good(N, last + 1)
  BY <1>3, <1>6, <1>7, <1>8, <1>9 DEF Good
<1>11. R # <<>> => N[1] = R[1]
  BY <1>1, <1>3
<1>12. R = <<>> => N[1].n = last /\ N[1].part = 0
  BY <1>1, <1>3, <1>4
<1>13. /\ \A i \in DOMAIN R : i \in DOMAIN N /\ N[i] = R[i]
       /\ \A i \in DOMAIN N : i \in DOMAIN R \/ (N[i].n = last /\ N[i].size = k)
  BY <1>1, <1>3, <1>4
<1>14. Extends(R, last, k, N)
  BY <1>9, <1>10, <1>11, <1>12, <1>13 DEF Extends
<1> QED
  BY <1>14 DEF N, F

-----------------------------------------------------------------------------
(* What a step leaves as it was.                                           *)

LEMMA ReceivedStill ==
  ASSUME NEW e \in End, Received(e), Rest(e)' = Rest(e),
         sendNonce'[Peer(e)] = sendNonce[Peer(e)], recvNonce'[e] = recvNonce[e],
         reading'[e] = reading[e], failed'[e] = failed[e], damaged'[e] = damaged[e]
  PROVE  Received(e)'
<1>1. Peer(e)' = Peer(e)
  BY DEF Peer
<1> HIDE DEF Rest
<1>2. Marked(e) <=> Marked(e)'
  BY DEF Marked
<1>3. Lost(e) <=> Lost(e)'
  BY <1>1 DEF Lost, FirstPiece
<1>4. Framed(e) <=> Framed(e)'
  BY <1>1 DEF Framed, Gathering
<1> QED
  BY <1>1, <1>2, <1>3, <1>4 DEF Received

LEMMA FlowStill ==
  ASSUME FInv, UNCHANGED <<open, published, todo, sendNonce, recvNonce, pipe, reading, damaged, failed>>,
         lock' \in [End -> Thread \cup {"free"}],
         \A e \in End : lock'[e] = "free" => todo[e] = <<>>, IInv'
  PROVE  FInv'
<1> USE DEF FInv
<1>1. Flags' /\ Bound' /\ Quiet' /\ Unlocked' /\ WholeFrames'
  BY DEF Flags, Bound, Quiet, Unlocked, WholeFrames
<1>2. ASSUME NEW e \in End, published'[e] PROVE Received(e)'
  <2>1. Received(e) /\ Rest(e)' = Rest(e)
    BY <1>2 DEF Inbound, Rest, Peer
  <2> QED
    BY <2>1, ReceivedStill
<1> QED
  BY <1>1, <1>2 DEF Inbound

-----------------------------------------------------------------------------
(* Sending, and the end of a session.                                      *)

LEMMA AcquireFlows ==
  ASSUME FInv, IInv', NEW e \in End, NEW t \in Thread, Acquire(e, t) PROVE FInv'
<1> USE DEF FInv
<1>1. PICK k \in Nat \ {0}, n \in Nat, p \in End : k = want[e][t] /\ n = sendNonce[e] /\ p = Peer(e)
  <2>1. want[e] \in [Thread -> Sizes \cup {0}] /\ sendNonce[e] \in Nat
    BY DEF IInv, Typed
  <2>2. Sizes \subseteq Nat \ {0} /\ want[e][t] # 0
    BY ChannelAssumption DEF Acquire
  <2> QED
    BY <2>1, <2>2, Ends
<1>2. /\ sendNonce' = [sendNonce EXCEPT ![e] = n + 1]
      /\ todo' = [todo EXCEPT ![e] = Frame(n, k)]
      /\ damaged' = [damaged EXCEPT ![p] = damaged[p] \/ k > FrameMax]
      /\ lock' = [lock EXCEPT ![e] = t] /\ todo[e] = <<>>
      /\ UNCHANGED <<open, published, recvNonce, pipe, reading, failed>>
  BY <1>1 DEF Acquire, Unlocked
<1>3. p # e /\ Peer(p) = e /\ \A x \in End : x = p \/ Peer(x) # e
  BY <1>1, Ends DEF Peer, End
<1>4. /\ sendNonce'[e] = n + 1 /\ todo'[e] = Frame(n, k)
      /\ \A x \in End : x # e => sendNonce'[x] = sendNonce[x] /\ todo'[x] = todo[x]
  BY <1>2 DEF IInv, Typed
<1>5. /\ damaged' \in [End -> BOOLEAN] /\ damaged'[p] = (damaged[p] \/ k > FrameMax)
      /\ \A x \in End : x # p => damaged'[x] = damaged[x]
  BY <1>2 DEF Flags
<1>6. Flags' /\ Bound' /\ Quiet'
  BY <1>2, <1>5 DEF Flags, Bound, Quiet
<1>7. t # "free"
  BY DEF Thread
<1>8. Unlocked'
  BY <1>2, <1>4, <1>7 DEF Unlocked, Flags
<1>9. WholeFrames'
  BY <1>2, <1>5 DEF WholeFrames
<1>10. ASSUME NEW x \in End, published'[x] PROVE Received(x)'
  <2>1. Received(x)
    BY <1>2, <1>10 DEF Inbound
  <2>2. CASE x # p
    <3>1. Peer(x) \in End /\ Peer(x) # e /\ Peer(x)' = Peer(x)
      BY <1>3, <2>2, Ends DEF Peer
    <3>2. Rest(x)' = Rest(x)
      BY <1>2, <1>4, <3>1 DEF Rest
    <3> QED
      BY <1>2, <1>4, <1>5, <2>1, <2>2, <3>1, <3>2, ReceivedStill
  <2>3. CASE x = p
    <3>1. PICK R, N : R = Rest(p) /\ N = R \o Frame(n, k)
      OBVIOUS
    <3>2. pipe[p] \in Seq(Piece) /\ Peer(p)' = e
      BY <1>3 DEF IInv, Typed, Peer
    <3>3. R = pipe[p] /\ Rest(p)' = N
      BY <1>2, <1>3, <1>4, <3>1, <3>2, ConcatEmptySeq DEF Rest
    <3>4. Good(R, n)
      BY <1>1, <1>3, <2>1, <2>3, <3>1 DEF Received
    <3>5. /\ Good(N, n + 1) /\ N # <<>>
          /\ \A i \in DOMAIN R : i \in DOMAIN N /\ N[i] = R[i]
          /\ \A i \in DOMAIN N : i \in DOMAIN R \/ (N[i].n = n /\ N[i].size = k)
          /\ (R # <<>> => N[1] = R[1])
          /\ (R = <<>> => N[1].n = n /\ N[1].part = 0)
      <4>1. Extends(R, n, k, R \o Frame(n, k))
        BY <3>4, FrameGood
      <4> QED
        BY <3>1, <4>1 DEF Extends
    <3>6. Marked(p)'
      <4>1. \A i \in DOMAIN R : R[i].size > FrameMax => damaged[p]
        BY <2>1, <2>3, <3>1 DEF Marked, Received
      <4>2. \A i \in DOMAIN N : N[i].size > FrameMax => damaged'[p]
        BY <1>5, <3>5, <4>1
      <4> QED
        BY <3>3, <4>2 DEF Marked
    <3>7. ASSUME failed[p] PROVE Lost(p)' /\ damaged'[p]
      <4>1. Lost(p) /\ damaged[p]
        BY <2>1, <2>3, <3>7 DEF Received
      <4>2. recvNonce[p] < n /\ recvNonce[p] \in Nat /\ recvNonce[p] < n + 1
        <5>1. recvNonce[p] \in Nat
          BY DEF IInv, Typed
        <5>2. recvNonce[p] < n
          BY <1>1, <1>3, <4>1 DEF Lost
        <5> QED
          BY <5>1, <5>2
      <4>3. ASSUME NEW i \in DOMAIN N, N[i].n = recvNonce[p], N[i].part = 1
            PROVE  i = 1 /\ reading[p] = None
        <5>1. N[i].n # n
          BY <1>1, <4>2, <4>3
        <5>2. i \in DOMAIN Rest(p) /\ FirstPiece(p, Rest(p)[i])
          BY <3>1, <3>5, <4>3, <5>1 DEF FirstPiece
        <5> QED
          BY <4>1, <5>2 DEF Lost
      <4>4. damaged'[p] /\ recvNonce'[p] < sendNonce'[e]
        BY <1>1, <1>2, <1>4, <1>5, <4>1, <4>2
      <4>5. \A i \in DOMAIN reading'[p].got :
              ~(reading'[p].got[i].n = recvNonce'[p] /\ reading'[p].got[i].part = 1)
        BY <1>2, <4>1 DEF Lost, FirstPiece
      <4>6. \A i \in DOMAIN N : N[i].n = recvNonce'[p] /\ N[i].part = 1 => i = 1 /\ reading'[p] = None
        BY <1>2, <4>3
      <4> QED
        BY <3>2, <3>3, <4>4, <4>5, <4>6 DEF Lost, FirstPiece
    <3>8. ASSUME ~failed[p] PROVE Framed(p)'
      <4>1. Framed(p)
        BY <2>1, <2>3, <3>8 DEF Received
      <4>2. \A m : Starting(R, m, n) => Starting(N, m, n + 1)
        BY <3>5 DEF Starting
      <4>3. CASE reading[p] = None
        <5>1. Starting(N, recvNonce[p], n + 1)
          BY <1>1, <1>3, <3>1, <4>1, <4>2, <4>3 DEF Framed
        <5> QED
          BY <1>2, <1>4, <3>2, <3>3, <4>3, <5>1 DEF Framed
      <4>4. CASE reading[p] # None
        <5>1. Gathering(p)
          BY <4>1, <4>4 DEF Framed
        <5>2. IF Len(reading[p].got) < reading[p].size
              THEN /\ N # <<>> /\ N[1].n = recvNonce[p]
                   /\ N[1].part = Len(reading[p].got) + 1 /\ N[1].size = reading[p].size
              ELSE Starting(N, recvNonce[p] + 1, n + 1)
          BY <1>1, <1>3, <3>1, <3>5, <4>2, <5>1 DEF Gathering
        <5>3. Gathering(p)'
          BY <1>2, <1>4, <3>2, <3>3, <5>1, <5>2 DEF Gathering
        <5> QED
          BY <1>2, <4>4, <5>3 DEF Framed
      <4> QED
        BY <4>3, <4>4
    <3> QED
      BY <1>2, <1>4, <2>3, <3>2, <3>3, <3>5, <3>6, <3>7, <3>8 DEF Received
  <2> QED
    BY <2>2, <2>3
<1> QED
  BY <1>6, <1>8, <1>9, <1>10 DEF Inbound

(* What is written leaves the one part of the stream for the other.        *)
LEMMA HandedOver ==
  ASSUME NEW S, NEW s \in Seq(S), NEW t \in Seq(S), t # <<>>
  PROVE  Append(s, Head(t)) \o Tail(t) = s \o t
<1> DEFINE h == Head(t)
           u == Tail(t)
           a == Append(s, h)
<1>1. h \in S /\ u \in Seq(S) /\ Len(u) = Len(t) - 1 /\ \A i \in 1 .. Len(u) : u[i] = t[i + 1]
  BY HeadTailProperties
<1>2. h = t[1] /\ Len(t) \in Nat \ {0} /\ Len(s) \in Nat
  BY EmptySeq
<1> HIDE DEF h, u
<1>3. /\ a \in Seq(S) /\ Len(a) = Len(s) + 1 /\ a[Len(s) + 1] = h
      /\ \A i \in 1 .. Len(s) : a[i] = s[i]
  BY <1>1, AppendProperties
<1> HIDE DEF a
<1>4. /\ a \o u \in Seq(S) /\ Len(a \o u) = Len(a) + Len(u)
      /\ \A i \in 1 .. Len(a) + Len(u) : (a \o u)[i] = IF i <= Len(a) THEN a[i] ELSE u[i - Len(a)]
  BY ONLY <1>1, <1>3, ConcatProperties
<1>5. /\ s \o t \in Seq(S) /\ Len(s \o t) = Len(s) + Len(t)
      /\ \A i \in 1 .. Len(s) + Len(t) : (s \o t)[i] = IF i <= Len(s) THEN s[i] ELSE t[i - Len(s)]
  BY ONLY s \in Seq(S), t \in Seq(S), ConcatProperties
<1>6. Len(a \o u) = Len(s \o t)
  BY <1>1, <1>2, <1>3, <1>4, <1>5
<1>7. ASSUME NEW i \in 1 .. Len(a \o u) PROVE (a \o u)[i] = (s \o t)[i]
  <2>1. i \in 1 .. Len(s) + Len(t) /\ i \in Nat
    BY <1>1, <1>2, <1>3, <1>4
  <2>2. CASE i <= Len(s)
    BY <1>1, <1>2, <1>3, <1>4, <1>5, <2>1, <2>2
  <2>3. CASE i = Len(s) + 1
    BY <1>1, <1>2, <1>3, <1>4, <1>5, <2>1, <2>3
  <2>4. CASE i > Len(s) + 1
    <3>1. (a \o u)[i] = u[i - (Len(s) + 1)]
      BY <1>1, <1>2, <1>3, <1>4, <2>1, <2>4
    <3>2. u[i - (Len(s) + 1)] = t[i - (Len(s) + 1) + 1] /\ i - (Len(s) + 1) + 1 = i - Len(s)
      BY <1>1, <1>2, <2>1, <2>4
    <3>3. (s \o t)[i] = t[i - Len(s)]
      BY <1>2, <1>5, <2>1, <2>4
    <3> QED
      BY <3>1, <3>2, <3>3
  <2> QED
    BY <1>2, <2>1, <2>2, <2>3, <2>4
<1> QED
  BY <1>4, <1>5, <1>6, <1>7, SeqEqual DEF a, h, u

LEMMA WriteFlows == ASSUME FInv, IInv', NEW e \in End, Write(e) PROVE FInv'
<1> USE DEF FInv
<1>1. PICK p \in End : p = Peer(e) /\ p # e /\ Peer(p) = e /\ \A x \in End : x = p \/ Peer(x) # e
  BY Ends DEF Peer, End
<1>2. /\ todo[e] # <<>> /\ todo' = [todo EXCEPT ![e] = Tail(todo[e])]
      /\ pipe' = [pipe EXCEPT ![p] = Append(pipe[p], Head(todo[e]))]
      /\ UNCHANGED <<open, published, lock, sendNonce, recvNonce, reading, damaged, failed>>
  BY <1>1 DEF Write
<1>3. /\ todo[e] \in Seq(Piece) /\ pipe[p] \in Seq(Piece)
      /\ todo'[e] = Tail(todo[e]) /\ pipe'[p] = Append(pipe[p], Head(todo[e]))
      /\ \A x \in End : (x # e => todo'[x] = todo[x]) /\ (x # p => pipe'[x] = pipe[x])
  BY <1>1, <1>2 DEF IInv, Typed
<1>4. Flags' /\ Bound' /\ Quiet' /\ WholeFrames'
  BY <1>2 DEF Flags, Bound, Quiet, WholeFrames
<1>5. Unlocked'
  BY <1>2, <1>3 DEF Unlocked
<1>6. ASSUME NEW x \in End PROVE Rest(x)' = Rest(x)
  <2>1. Peer(x)' = Peer(x) /\ Peer(x) \in End
    BY Ends DEF Peer
  <2>2. CASE x = p
    <3>1. Append(pipe[p], Head(todo[e])) \o Tail(todo[e]) = pipe[p] \o todo[e]
      BY <1>2, <1>3, HandedOver
    <3> QED
      BY <1>1, <1>3, <2>1, <2>2, <3>1 DEF Rest
  <2>3. CASE x # p
    BY <1>1, <1>3, <2>1, <2>3 DEF Rest
  <2> QED
    BY <2>2, <2>3
<1>7. \A x \in End : published'[x] => Received(x)'
  BY <1>2, <1>6, ReceivedStill DEF Inbound
<1> QED
  BY <1>4, <1>5, <1>7 DEF Inbound

(* One end has closed its socket: what was on its way to it matters to     *)
(* nobody.                                                                 *)
LEMMA EndFlows ==
  ASSUME FInv, IInv', NEW e \in End, ~published'[e], Bound', Quiet', Unlocked',
         published' \in [End -> BOOLEAN], open' \in [End -> BOOLEAN],
         \A x \in End : x # e => /\ published'[x] = published[x] /\ pipe'[x] = pipe[x]
                                /\ todo'[Peer(x)] = todo[Peer(x)] /\ reading'[x] = reading[x],
         UNCHANGED <<lock, sendNonce, recvNonce, failed, damaged>>
  PROVE  FInv'
<1> USE DEF FInv
<1>1. Flags' /\ WholeFrames'
  BY DEF Flags, WholeFrames
<1>2. ASSUME NEW x \in End, published'[x] PROVE Received(x)'
  <2>1. x # e /\ Received(x) /\ Peer(x)' = Peer(x)
    BY <1>2 DEF Inbound, Peer
  <2>2. Rest(x)' = Rest(x)
    BY <2>1 DEF Rest
  <2> QED
    BY <2>1, <2>2, ReceivedStill
<1> QED
  BY <1>1, <1>2 DEF Inbound

LEMMA WriteFailsFlows == ASSUME FInv, IInv', NEW e \in End, WriteFails(e) PROVE FInv'
<1> USE DEF FInv
<1>1. /\ todo' = [todo EXCEPT ![e] = <<>>] /\ ~open[Peer(e)]
      /\ UNCHANGED <<open, published, lock, sendNonce, recvNonce, pipe, reading, damaged, failed>>
  BY DEF WriteFails
<1>2. Peer(e) \in End /\ ~published'[Peer(e)] /\ \A x \in End : x # Peer(e) => Peer(x) \in End /\ Peer(x) # e
  BY <1>1, Ends DEF Bound, End, Peer
<1>3. Bound' /\ Quiet' /\ published' \in [End -> BOOLEAN] /\ open' \in [End -> BOOLEAN]
  BY <1>1 DEF Bound, Quiet, Flags
<1>4. \A x \in End : todo'[x] = todo[x] \/ todo'[x] = <<>>
  BY <1>1 DEF IInv, Typed
<1>5. Unlocked'
  BY <1>1, <1>4 DEF Unlocked
<1>6. \A x \in End : x # e => todo'[x] = todo[x]
  BY <1>1 DEF IInv, Typed
<1> QED
  BY <1>1, <1>2, <1>3, <1>5, <1>6, EndFlows

LEMMA WithdrawFlows == ASSUME FInv, IInv', NEW e \in End, Withdraw(e) PROVE FInv'
<1> USE DEF FInv
<1>1. /\ published' = [published EXCEPT ![e] = FALSE] /\ reading' = [reading EXCEPT ![e] = None]
      /\ UNCHANGED <<open, lock, todo, sendNonce, recvNonce, pipe, damaged, failed>>
  BY DEF Withdraw
<1>2. /\ ~published'[e] /\ reading'[e] = None /\ published' \in [End -> BOOLEAN]
      /\ \A x \in End : x # e => published'[x] = published[x] /\ reading'[x] = reading[x]
  BY <1>1 DEF Flags, IInv, Typed
<1>3. Bound' /\ Quiet' /\ Unlocked' /\ open' \in [End -> BOOLEAN]
  BY <1>1, <1>2 DEF Bound, Quiet, Unlocked, Flags
<1> QED
  BY <1>1, <1>2, <1>3, EndFlows

LEMMA CloseFlows == ASSUME FInv, IInv', NEW e \in End, CloseSocket(e) PROVE FInv'
<1> USE DEF FInv
<1>1. /\ open' = [open EXCEPT ![e] = FALSE] /\ pipe' = [pipe EXCEPT ![e] = <<>>] /\ ~published[e]
      /\ UNCHANGED <<published, lock, todo, sendNonce, recvNonce, reading, damaged, failed>>
  BY DEF CloseSocket
<1>2. /\ open' \in [End -> BOOLEAN]
      /\ \A x \in End : x # e => open'[x] = open[x] /\ pipe'[x] = pipe[x]
  BY <1>1 DEF Flags, IInv, Typed
<1>3. Bound' /\ Quiet' /\ Unlocked' /\ published' \in [End -> BOOLEAN]
  BY <1>1, <1>2 DEF Bound, Quiet, Unlocked, Flags
<1> QED
  BY <1>1, <1>2, <1>3, EndFlows

-----------------------------------------------------------------------------
(* Receiving.                                                              *)

(* A step of receive() at one end leaves the other as it was.              *)
LEMMA ReceiveFlows ==
  ASSUME FInv, IInv', NEW e \in End, published[e], Received(e)', damaged'[e] \/ ~failed'[e],
         failed' \in [End -> BOOLEAN], damaged' \in [End -> BOOLEAN],
         \A x \in End : x # e =>
           /\ pipe'[x] = pipe[x] /\ recvNonce'[x] = recvNonce[x] /\ reading'[x] = reading[x]
           /\ failed'[x] = failed[x] /\ damaged'[x] = damaged[x],
         UNCHANGED <<open, published, lock, todo, sendNonce>>
  PROVE  FInv'
<1> USE DEF FInv
<1>1. Flags' /\ Bound' /\ Unlocked' /\ WholeFrames'
  BY DEF Flags, Bound, Unlocked, WholeFrames
<1>2. Quiet'
  BY DEF Quiet
<1>3. ASSUME NEW x \in End, published'[x] PROVE Received(x)'
  <2>1. CASE x = e
    BY <2>1
  <2>2. CASE x # e
    <3>1. Received(x) /\ Peer(x)' = Peer(x)
      BY <1>3 DEF Inbound, Peer
    <3>2. Rest(x)' = Rest(x)
      BY <2>2, <3>1 DEF Rest
    <3> QED
      BY <2>2, <3>1, <3>2, ReceivedStill
  <2> QED
    BY <2>1, <2>2
<1> QED
  BY <1>1, <1>2, <1>3 DEF Inbound

(* What is read is the head of the stream.                                 *)
LEMMA ReadsHead ==
  ASSUME IInv, NEW e \in End, pipe[e] # <<>>, pipe' = [pipe EXCEPT ![e] = Tail(pipe[e])],
         UNCHANGED todo
  PROVE  /\ Rest(e) # <<>> /\ Rest(e)[1] = Head(pipe[e]) /\ Rest(e)' = Tail(Rest(e))
         /\ \A x \in End : x # e => pipe'[x] = pipe[x]
<1> DEFINE s == pipe[e]
           t == todo[Peer(e)]
<1>1. /\ s \in Seq(Piece) /\ t \in Seq(Piece) /\ pipe'[e] = Tail(s)
      /\ \A x \in End : x # e => pipe'[x] = pipe[x]
  BY Ends DEF IInv, Typed
<1>2. Rest(e) = s \o t /\ Rest(e)' = Tail(s) \o t
  BY <1>1 DEF Rest, Peer
<1>3. s # <<>>
  OBVIOUS
<1> HIDE DEF s, t
<1>4. /\ Len(s) \in Nat \ {0} /\ Len(t) \in Nat /\ Head(s) = s[1]
      /\ Tail(s) \in Seq(Piece) /\ Len(Tail(s)) = Len(s) - 1
      /\ \A i \in 1 .. Len(s) - 1 : Tail(s)[i] = s[i + 1]
  <2>1. /\ Tail(s) \in Seq(Piece) /\ Len(Tail(s)) = Len(s) - 1
        /\ \A i \in 1 .. Len(Tail(s)) : Tail(s)[i] = s[i + 1]
    BY <1>1, <1>3, HeadTailProperties
  <2>2. Len(s) \in Nat \ {0} /\ Len(t) \in Nat
    BY <1>1, <1>3, EmptySeq, LenProperties
  <2> QED
    BY <2>1, <2>2
<1>5. /\ s \o t \in Seq(Piece) /\ Len(s \o t) = Len(s) + Len(t)
      /\ \A i \in 1 .. Len(s) + Len(t) : (s \o t)[i] = IF i <= Len(s) THEN s[i] ELSE t[i - Len(s)]
  BY ONLY <1>1, ConcatProperties
<1>6. (s \o t) # <<>> /\ (s \o t)[1] = s[1]
  BY <1>4, <1>5, EmptySeq
<1>7. /\ Tail(s \o t) \in Seq(Piece) /\ Len(Tail(s \o t)) = Len(s) + Len(t) - 1
      /\ \A i \in 1 .. Len(s) + Len(t) - 1 : Tail(s \o t)[i] = (s \o t)[i + 1]
  <2>1. /\ Tail(s \o t) \in Seq(Piece) /\ Len(Tail(s \o t)) = Len(s \o t) - 1
        /\ \A i \in 1 .. Len(Tail(s \o t)) : Tail(s \o t)[i] = (s \o t)[i + 1]
    BY <1>5, <1>6, HeadTailProperties
  <2> QED
    BY <1>5, <2>1
<1>8. /\ Tail(s) \o t \in Seq(Piece) /\ Len(Tail(s) \o t) = Len(Tail(s)) + Len(t)
      /\ \A i \in 1 .. Len(Tail(s)) + Len(t) :
           (Tail(s) \o t)[i] = IF i <= Len(Tail(s)) THEN Tail(s)[i] ELSE t[i - Len(Tail(s))]
  BY ONLY <1>1, <1>4, ConcatProperties
<1>9. ASSUME NEW i \in 1 .. Len(s) + Len(t) - 1 PROVE (Tail(s) \o t)[i] = Tail(s \o t)[i]
  <2>1. Tail(s \o t)[i] = (s \o t)[i + 1] /\ i + 1 \in 1 .. Len(s) + Len(t) /\ i \in 1 .. Len(Tail(s)) + Len(t)
    BY <1>4, <1>7
  <2>2. CASE i <= Len(s) - 1
    BY <1>4, <1>5, <1>8, <2>1, <2>2
  <2>3. CASE ~(i <= Len(s) - 1)
    <3>1. i - Len(Tail(s)) = i + 1 - Len(s) /\ ~(i + 1 <= Len(s)) /\ ~(i <= Len(Tail(s)))
      BY <1>4, <2>3
    <3> QED
      BY <1>5, <1>8, <2>1, <3>1
  <2> QED
    BY <2>2, <2>3
<1>10. Tail(s) \o t = Tail(s \o t)
  <2>1. Len(Tail(s) \o t) = Len(s) + Len(t) - 1
    BY <1>4, <1>8
  <2> QED
    BY <1>7, <1>8, <1>9, <2>1, SeqEqual
<1>11. Rest(e) # <<>> /\ Rest(e)[1] = Head(s) /\ Rest(e)' = Tail(Rest(e))
  BY <1>2, <1>4, <1>6, <1>10
<1> QED
  BY <1>1, <1>11 DEF s

(* The state an end reads from: k stands for its expected nonce, R for the *)
(* stream, last for the number of frames issued.                           *)
LEMMA Reads ==
  ASSUME FInv, NEW e \in End, published[e]
  PROVE  /\ Good(Rest(e), sendNonce[Peer(e)]) /\ Marked(e) /\ Received(e)
         /\ (failed[e] => damaged[e] /\ Lost(e)) /\ (~failed[e] => Framed(e))
         /\ recvNonce[e] \in Nat /\ sendNonce[Peer(e)] \in Nat /\ Peer(e)' = Peer(e)
         /\ reading[e] \in [size : Int, got : Seq(Piece)]
         /\ (reading[e] # None => reading[e].size \in 1 .. FrameMax)
<1>1. Received(e)
  BY DEF FInv, Inbound
<1>2. Gathered /\ Typed
  BY DEF FInv, IInv
<1> QED
  BY <1>1, <1>2, Ends DEF Received, Gathered, Typed, Peer

(* The tail of the stream is good, and as marked as the whole.             *)
LEMMA HeadRead ==
  ASSUME FInv, NEW e \in End, published[e], Rest(e) # <<>>, Rest(e)' = Tail(Rest(e)),
         damaged[e] => damaged'[e], UNCHANGED sendNonce
  PROVE  Good(Rest(e)', sendNonce'[Peer(e)]) /\ Marked(e)'
<1>1. /\ Good(Tail(Rest(e)), sendNonce[Peer(e)])
      /\ \A i \in DOMAIN Tail(Rest(e)) : i + 1 \in DOMAIN Rest(e) /\ Tail(Rest(e))[i] = Rest(e)[i + 1]
  BY Reads, TailGood
<1>2. \A i \in DOMAIN Rest(e) : Rest(e)[i].size > FrameMax => damaged[e]
  BY Reads DEF Marked
<1>3. \A i \in DOMAIN Rest(e)' : Rest(e)'[i].size > FrameMax => damaged'[e]
  BY <1>1, <1>2
<1> QED
  BY <1>1, <1>3 DEF Marked

LEMMA LengthFlows ==
  ASSUME FInv, IInv', NEW e \in End, NEW k \in (0 .. FrameMax + 1) \cup Sizes, ReadLength(e, k)
  PROVE  FInv'
<1>1. /\ published[e] /\ reading[e] = None /\ pipe[e] # <<>>
      /\ (Head(pipe[e]).part = 0 => k = Head(pipe[e]).size)
      /\ pipe' = [pipe EXCEPT ![e] = Tail(pipe[e])]
      /\ UNCHANGED <<open, published, lock, todo, sendNonce, recvNonce, damaged>>
  BY DEF ReadLength, BetweenReceives
<1>2. IInv /\ Typed /\ Flags
  BY DEF FInv, IInv
<1>0. PICK last \in Nat, r \in Nat : last = sendNonce[Peer(e)] /\ r = recvNonce[e]
  BY <1>1, Reads
<1>3. PICK R, T : R = Rest(e) /\ T = Tail(R) /\ last = sendNonce[Peer(e)] /\ r = recvNonce[e]
  BY <1>0
<1>4. /\ R # <<>> /\ R[1] = Head(pipe[e]) /\ Rest(e)' = T
      /\ \A x \in End : x # e => pipe'[x] = pipe[x]
  BY <1>1, <1>2, <1>3, ReadsHead
<1>5. /\ Good(R, last) /\ Peer(e)' = Peer(e)
      /\ (failed[e] => damaged[e] /\ Lost(e)) /\ (~failed[e] => Framed(e))
  BY <1>1, <1>3, Reads
<1>6. /\ Good(T, last) /\ R[1] \in Piece /\ 1 \in DOMAIN R
      /\ \A i \in DOMAIN T : i + 1 \in DOMAIN R /\ i \in Nat \ {0} /\ T[i] = R[i + 1]
      /\ IF R[1].part < R[1].size
         THEN T # <<>> /\ T[1].n = R[1].n /\ T[1].part = R[1].part + 1 /\ T[1].size = R[1].size
         ELSE Starting(T, R[1].n + 1, last)
  BY <1>3, <1>4, <1>5, TailGood
<1>7. Good(Rest(e)', sendNonce'[Peer(e)]) /\ Marked(e)'
  BY <1>1, <1>3, <1>4, HeadRead
<1>8. failed' \in [End -> BOOLEAN] /\ \A x \in End : x # e => failed'[x] = failed[x]
  BY <1>2 DEF ReadLength, Fail, Flags
<1>9. \A x \in End : x # e => reading'[x] = reading[x]
  BY <1>2 DEF ReadLength, Fail, Typed
<1>10. \/ reading'[e] = [size |-> k, got |-> <<>>] /\ k \in 1 .. FrameMax /\ failed'[e] = failed[e]
       \/ reading'[e] = None /\ k \notin 1 .. FrameMax /\ failed'[e]
  BY <1>2 DEF ReadLength, Fail, Typed, Flags
<1>11. reading'[e].got = <<>> /\ DOMAIN reading'[e].got = {}
  BY <1>10, NoPieces
<1>12. CASE failed[e]
  <2>1. \A i \in DOMAIN R : R[i].n = r /\ R[i].part = 1 => i = 1
    BY <1>3, <1>5, <1>12 DEF Lost, FirstPiece
  <2>2. \A i \in DOMAIN T : ~(T[i].n = r /\ T[i].part = 1)
    BY <1>6, <2>1
  <2>3. r < last
    BY <1>3, <1>5, <1>12 DEF Lost
  <2>4. Lost(e)'
    BY <1>1, <1>3, <1>4, <1>5, <1>11, <2>2, <2>3 DEF Lost, FirstPiece
  <2>5. failed'[e] /\ damaged'[e]
    BY <1>1, <1>5, <1>10, <1>12
  <2>6. Received(e)'
    BY <1>1, <1>5, <1>7, <2>4, <2>5 DEF Received
  <2> QED
    BY <1>1, <1>2, <1>4, <1>8, <1>9, <2>5, <2>6, ReceiveFlows DEF Flags
<1>13. CASE ~failed[e]
  <2>1. R[1].n = r /\ R[1].part = 0 /\ k = R[1].size /\ r < last /\ k > 0 /\ k \in Nat
    BY <1>1, <1>3, <1>4, <1>5, <1>6, <1>13 DEF Framed, Starting, Good, Piece
  <2>2. T # <<>> /\ T[1].n = r /\ T[1].part = 1 /\ T[1].size = k
    BY <1>6, <2>1
  <2>3. CASE k \in 1 .. FrameMax
    <3>1. reading'[e] = [size |-> k, got |-> <<>>] /\ ~failed'[e]
      BY <1>10, <1>13, <2>3
    <3>2. reading'[e].size = k /\ Len(reading'[e].got) = 0 /\ reading'[e] # None
      BY <2>1, <3>1, NoPieces
    <3>3. Gathering(e)'
      BY <1>1, <1>3, <1>4, <2>1, <2>2, <3>2 DEF Gathering
    <3>4. Received(e)'
      BY <1>1, <1>5, <1>7, <3>1, <3>2, <3>3 DEF Received, Framed
    <3> QED
      BY <1>1, <1>2, <1>4, <1>8, <1>9, <3>1, <3>4, ReceiveFlows DEF Flags
  <2>4. CASE k \notin 1 .. FrameMax
    <3>1. reading'[e] = None /\ failed'[e]
      BY <1>10, <2>4
    <3>2. damaged[e]
      <4>1. k > FrameMax
        BY <2>1, <2>4, ChannelAssumption
      <4> QED
        BY <1>1, <1>3, <1>6, <2>1, <4>1, Reads DEF Marked
    <3>3. ASSUME NEW i \in DOMAIN T, T[i].n = r, T[i].part = 1 PROVE i = 1
      <4>1. CASE i > 1
        <5>1. 1 \in DOMAIN T
          BY <1>6, <4>1 DEF Good
        <5>2. Before(T[1], T[i])
          BY <1>6, <3>3, <4>1, <5>1 DEF Good
        <5> QED
          BY <2>2, <3>3, <5>2 DEF Before
      <4> QED
        BY <1>6, <4>1
    <3>4. Lost(e)'
      BY <1>1, <1>3, <1>4, <1>5, <1>11, <2>1, <3>1, <3>3 DEF Lost, FirstPiece
    <3>5. Received(e)'
      BY <1>1, <1>5, <1>7, <3>1, <3>2, <3>4 DEF Received
    <3> QED
      BY <1>1, <1>2, <1>4, <1>8, <1>9, <3>2, <3>5, ReceiveFlows DEF Flags
  <2> QED
    BY <2>3, <2>4
<1> QED
  BY <1>12, <1>13

(* A length that is cut short is passed over like one that is refused.     *)
LEMMA LengthTimeoutFlows == ASSUME FInv, IInv', NEW e \in End, LengthTimeout(e) PROVE FInv'
<1>1. /\ published[e] /\ reading[e] = None /\ pipe[e] # <<>>
      /\ pipe' = [pipe EXCEPT ![e] = Tail(pipe[e])]
      /\ damaged' = [damaged EXCEPT ![e] = TRUE] /\ Fail(e)
      /\ UNCHANGED <<open, published, lock, todo, sendNonce, recvNonce>>
  BY DEF LengthTimeout, BetweenReceives
<1>2. IInv /\ Typed /\ Flags
  BY DEF FInv, IInv
<1>3. PICK last \in Nat, r \in Nat : last = sendNonce[Peer(e)] /\ r = recvNonce[e]
  BY <1>1, Reads
<1>4. PICK R, T : R = Rest(e) /\ T = Tail(R)
  OBVIOUS
<1>5. /\ R # <<>> /\ Rest(e)' = T
      /\ \A x \in End : x # e => pipe'[x] = pipe[x]
  BY <1>1, <1>2, <1>4, ReadsHead
<1>6. /\ Good(R, last) /\ Peer(e)' = Peer(e)
      /\ (failed[e] => Lost(e)) /\ (~failed[e] => Framed(e))
  BY <1>1, <1>3, <1>4, Reads
<1>7. /\ Good(T, last) /\ R[1] \in Piece /\ 1 \in DOMAIN R
      /\ \A i \in DOMAIN T : i + 1 \in DOMAIN R /\ i \in Nat \ {0} /\ T[i] = R[i + 1]
      /\ R[1].part < R[1].size =>
           T # <<>> /\ T[1].n = R[1].n /\ T[1].part = R[1].part + 1
  BY <1>4, <1>5, <1>6, TailGood
<1>8. /\ failed'[e] /\ damaged'[e] /\ reading'[e] = None
      /\ failed' \in [End -> BOOLEAN] /\ damaged' \in [End -> BOOLEAN]
      /\ \A x \in End : x # e => /\ failed'[x] = failed[x] /\ damaged'[x] = damaged[x]
                                /\ reading'[x] = reading[x]
  BY <1>1, <1>2 DEF Fail, Flags, Typed
<1>9. Good(Rest(e)', sendNonce'[Peer(e)]) /\ Marked(e)'
  BY <1>1, <1>4, <1>5, <1>8, HeadRead
<1>10. r < last /\ \A i \in DOMAIN T : T[i].n = r /\ T[i].part = 1 => i = 1
  <2>1. CASE failed[e]
    <3>1. r < last /\ \A i \in DOMAIN R : R[i].n = r /\ R[i].part = 1 => i = 1
      BY <1>3, <1>4, <1>6, <2>1 DEF Lost, FirstPiece
    <3> QED
      BY <1>7, <3>1
  <2>2. CASE ~failed[e]
    <3>1. R[1].n = r /\ R[1].part = 0 /\ R[1].part < R[1].size /\ r < last
      BY <1>1, <1>3, <1>4, <1>5, <1>6, <1>7, <2>2 DEF Framed, Starting, Good, Piece
    <3>2. T # <<>> /\ T[1].n = r /\ T[1].part = 1
      BY <1>7, <3>1
    <3>3. ASSUME NEW i \in DOMAIN T, T[i].n = r, T[i].part = 1 PROVE i = 1
      <4>1. CASE i > 1
        <5>1. 1 \in DOMAIN T
          BY <1>7, <4>1 DEF Good
        <5>2. Before(T[1], T[i])
          BY <1>7, <3>3, <4>1, <5>1 DEF Good
        <5> QED
          BY <3>2, <3>3, <5>2 DEF Before
      <4> QED
        BY <1>7, <4>1
    <3> QED
      BY <3>1, <3>3
  <2> QED
    BY <2>1, <2>2
<1>11. Lost(e)'
  <2>1. reading'[e].got = <<>> /\ DOMAIN reading'[e].got = {}
    BY <1>8, NoPieces
  <2> QED
    BY <1>1, <1>3, <1>5, <1>6, <1>8, <1>10, <2>1 DEF Lost, FirstPiece
<1>12. Received(e)'
  BY <1>1, <1>6, <1>8, <1>9, <1>11 DEF Received
<1> QED
  BY <1>1, <1>5, <1>8, <1>12, ReceiveFlows

LEMMA ChunkFlows == ASSUME FInv, IInv', NEW e \in End, ReadChunk(e) PROVE FInv'
<1>1. /\ reading[e] # None /\ Len(reading[e].got) < reading[e].size /\ pipe[e] # <<>>
      /\ reading' = [reading EXCEPT ![e].got = Append(reading[e].got, Head(pipe[e]))]
      /\ pipe' = [pipe EXCEPT ![e] = Tail(pipe[e])]
      /\ UNCHANGED <<open, published, lock, todo, sendNonce, recvNonce, damaged, failed>>
  BY DEF ReadChunk
<1>2. IInv /\ Typed /\ Flags /\ published[e]
  BY <1>1 DEF FInv, IInv, Quiet
<1>3. PICK last \in Nat, r \in Nat, g \in Seq(Piece), size \in Nat \ {0} :
        /\ last = sendNonce[Peer(e)] /\ r = recvNonce[e]
        /\ g = reading[e].got /\ size = reading[e].size
  <2>1. reading[e].got \in Seq(Piece) /\ reading[e].size \in Nat \ {0}
    BY <1>1, <1>2, Reads, ChannelAssumption
  <2> QED
    BY <1>2, <2>1, Reads
<1>4. PICK R, T, h : R = Rest(e) /\ T = Tail(R) /\ h = R[1]
  OBVIOUS
<1>5. /\ R # <<>> /\ h = Head(pipe[e]) /\ Rest(e)' = T
      /\ \A x \in End : x # e => pipe'[x] = pipe[x]
  BY <1>1, <1>2, <1>4, ReadsHead
<1>6. /\ Good(R, last) /\ Peer(e)' = Peer(e)
      /\ (failed[e] => damaged[e] /\ Lost(e)) /\ (~failed[e] => Framed(e))
  BY <1>2, <1>3, <1>4, Reads
<1>7. /\ h \in Piece /\ 1 \in DOMAIN R
      /\ \A i \in DOMAIN T : i + 1 \in DOMAIN R /\ i \in Nat \ {0} /\ T[i] = R[i + 1]
      /\ IF h.part < h.size
         THEN T # <<>> /\ T[1].n = h.n /\ T[1].part = h.part + 1 /\ T[1].size = h.size
         ELSE Starting(T, h.n + 1, last)
  <2>1. /\ R[1] \in Piece /\ 1 \in DOMAIN R
        /\ \A i \in DOMAIN Tail(R) : i + 1 \in DOMAIN R /\ i \in Nat \ {0} /\ Tail(R)[i] = R[i + 1]
        /\ IF R[1].part < R[1].size
           THEN /\ Tail(R) # <<>> /\ Tail(R)[1].n = R[1].n
                /\ Tail(R)[1].part = R[1].part + 1 /\ Tail(R)[1].size = R[1].size
           ELSE Starting(Tail(R), R[1].n + 1, last)
    BY <1>5, <1>6, TailGood
  <2> QED
    BY <1>4, <2>1
<1>8. Good(Rest(e)', sendNonce'[Peer(e)]) /\ Marked(e)'
  BY <1>1, <1>2, <1>4, <1>5, HeadRead
<1>9. PICK a : a = Append(g, h)
  OBVIOUS
<1>10. /\ a \in Seq(Piece) /\ Len(a) = Len(g) + 1 /\ a[Len(g) + 1] = h /\ Len(g) \in Nat
       /\ \A i \in 1 .. Len(g) : a[i] = g[i]
       /\ DOMAIN a = 1 .. Len(g) + 1 /\ DOMAIN g = 1 .. Len(g)
  <2>1. /\ a \in Seq(Piece) /\ Len(a) = Len(g) + 1 /\ a[Len(g) + 1] = h
        /\ \A i \in 1 .. Len(g) : a[i] = g[i]
    BY <1>7, <1>9, AppendProperties
  <2> QED
    BY <2>1, LenProperties
<1>11. /\ reading'[e].got = a /\ reading'[e].size = size /\ reading'[e] # None
       /\ \A x \in End : x # e => reading'[x] = reading[x]
  <2>1. reading[e] \in [size : Int, got : Seq(Piece)]
    BY <1>2, Reads
  <2>2. reading'[e] = [reading[e] EXCEPT !.got = a] /\ \A x \in End : x # e => reading'[x] = reading[x]
    BY <1>1, <1>2, <1>3, <1>5, <1>9 DEF Typed
  <2>3. reading'[e].got = a /\ reading'[e].size = size
    BY <1>3, <2>1, <2>2
  <2> QED
    BY <2>2, <2>3, NoPieces
<1>12. CASE failed[e]
  <2>1. /\ r < last /\ \A i \in DOMAIN g : ~(g[i].n = r /\ g[i].part = 1)
        /\ \A i \in DOMAIN R : ~(R[i].n = r /\ R[i].part = 1)
    BY <1>1, <1>3, <1>4, <1>6, <1>12 DEF Lost, FirstPiece
  <2>2. \A i \in DOMAIN T : ~(T[i].n = r /\ T[i].part = 1)
    BY <1>7, <2>1
  <2>3. \A i \in DOMAIN a : ~(a[i].n = r /\ a[i].part = 1)
    BY <1>4, <1>7, <1>10, <2>1
  <2>4. Lost(e)'
    BY <1>1, <1>3, <1>5, <1>6, <1>11, <2>1, <2>2, <2>3 DEF Lost, FirstPiece
  <2>5. Received(e)'
    BY <1>1, <1>6, <1>8, <1>12, <2>4 DEF Received
  <2> QED
    BY <1>1, <1>2, <1>5, <1>6, <1>11, <1>12, <2>5, ReceiveFlows DEF Flags
<1>13. CASE ~failed[e]
  <2>1. Gathering(e)
    BY <1>1, <1>6, <1>13 DEF Framed
  <2>2. /\ Len(g) < size /\ h.n = r /\ h.part = Len(g) + 1 /\ h.size = size
        /\ \A i \in 1 .. Len(g) : g[i].n = r /\ g[i].part = i /\ g[i].size = size
    BY <1>1, <1>3, <1>4, <2>1 DEF Gathering
  <2>3. Len(a) <= size /\ \A i \in 1 .. Len(a) : a[i].n = r /\ a[i].part = i /\ a[i].size = size
    BY <1>10, <2>2
  <2>4. IF Len(a) < size THEN T # <<>> /\ T[1].n = r /\ T[1].part = Len(a) + 1 /\ T[1].size = size
                         ELSE Starting(T, r + 1, last)
    BY <1>7, <1>10, <2>2
  <2>5. Gathering(e)'
    BY <1>1, <1>3, <1>5, <1>6, <1>11, <2>3, <2>4 DEF Gathering
  <2>6. Received(e)'
    BY <1>1, <1>6, <1>8, <1>11, <1>13, <2>5 DEF Received, Framed
  <2> QED
    BY <1>1, <1>2, <1>5, <1>11, <1>13, <2>6, ReceiveFlows DEF Flags
<1> QED
  BY <1>12, <1>13

(* An end that gives up what it has read has lost the frame, if the stream *)
(* was damaged before or is now.                                           *)
LEMMA GiveUpFlows ==
  ASSUME FInv, IInv', NEW e \in End, reading[e] # None,
         failed[e] \/ (damaged'[e] /\ Len(reading[e].got) < reading[e].size),
         Fail(e), damaged' \in [End -> BOOLEAN], damaged[e] => damaged'[e],
         \A x \in End : x # e => damaged'[x] = damaged[x],
         UNCHANGED <<open, published, lock, todo, sendNonce, recvNonce, pipe>>
  PROVE  FInv'
<1>1. IInv /\ Typed /\ Flags /\ published[e]
  BY DEF FInv, IInv, Quiet
<1>2. /\ failed'[e] /\ failed' \in [End -> BOOLEAN] /\ reading'[e] = None
      /\ \A x \in End : x # e => failed'[x] = failed[x] /\ reading'[x] = reading[x]
  BY <1>1 DEF Fail, Flags, Typed
<1>3. PICK last \in Nat, r \in Nat : last = sendNonce[Peer(e)] /\ r = recvNonce[e]
  BY <1>1, Reads
<1>4. PICK R : R = Rest(e)
  OBVIOUS
<1>5. /\ Good(R, last) /\ Peer(e)' = Peer(e) /\ Marked(e)
      /\ (failed[e] => damaged[e] /\ Lost(e)) /\ (~failed[e] => Framed(e))
  BY <1>1, <1>3, <1>4, Reads
<1>6. Rest(e)' = R
  BY <1>4, <1>5 DEF Rest
<1>7. Marked(e)'
  BY <1>4, <1>5, <1>6 DEF Marked
<1>8. damaged'[e]
  BY <1>5
<1>9. r < last /\ \A i \in DOMAIN R : R[i].n = r /\ R[i].part = 1 => i = 1
  <2>1. CASE failed[e]
    BY <1>3, <1>4, <1>5, <2>1 DEF Lost, FirstPiece
  <2>2. CASE ~failed[e]
    <3>1. /\ Len(reading[e].got) \in Nat
          /\ R # <<>> /\ R[1].n = r /\ R[1].part = Len(reading[e].got) + 1
      <4>1. Gathering(e) /\ Len(reading[e].got) < reading[e].size
        BY <1>5, <2>2 DEF Framed
      <4>2. Len(reading[e].got) \in Nat
        BY <1>1, LenProperties, Reads
      <4> QED
        BY <1>3, <1>4, <4>1, <4>2 DEF Gathering
    <3>2. 1 \in DOMAIN R /\ R[1] \in Piece /\ r < last
      BY <1>5, <3>1, TailGood DEF Good
    <3>3. ASSUME NEW i \in DOMAIN R, R[i].n = r, R[i].part = 1 PROVE i = 1
      <4>1. i \in Nat \ {0}
        BY <1>5, LenProperties DEF Good
      <4>2. CASE i > 1
        <5>1. Before(R[1], R[i])
          BY <1>5, <3>2, <4>2 DEF Good
        <5> QED
          BY <3>1, <3>3, <5>1 DEF Before
      <4> QED
        BY <4>1, <4>2
    <3> QED
      BY <3>2, <3>3
  <2> QED
    BY <2>1, <2>2
<1>10. Lost(e)'
  <2>1. reading'[e].got = <<>> /\ DOMAIN reading'[e].got = {}
    BY <1>2, NoPieces
  <2> QED
    BY <1>2, <1>3, <1>5, <1>6, <1>9, <2>1 DEF Lost, FirstPiece
<1>11. Received(e)'
  BY <1>2, <1>3, <1>5, <1>6, <1>7, <1>8, <1>10 DEF Received
<1> QED
  BY <1>1, <1>2, <1>8, <1>11, ReceiveFlows

LEMMA TimeoutFlows == ASSUME FInv, IInv', NEW e \in End, FrameTimeout(e) PROVE FInv'
<1>1. /\ reading[e] # None /\ Len(reading[e].got) < reading[e].size /\ Fail(e)
      /\ damaged' = [damaged EXCEPT ![e] = TRUE]
      /\ UNCHANGED <<open, published, lock, todo, sendNonce, recvNonce, pipe>>
  BY DEF FrameTimeout
<1>2. /\ damaged' \in [End -> BOOLEAN] /\ damaged'[e]
      /\ \A x \in End : x # e => damaged'[x] = damaged[x]
  BY <1>1 DEF FInv, Flags
<1> QED
  BY <1>1, <1>2, GiveUpFlows

(* A frame that is complete is authentic exactly if nothing has failed.    *)
LEMMA NeverAfterError ==
  ASSUME FInv, NEW e \in End, reading[e] # None, Len(reading[e].got) = reading[e].size
  PROVE  Authentic(e) <=> ~failed[e]
<1>1. published[e] /\ Typed
  BY DEF FInv, IInv, Quiet
<1>2. PICK r \in Nat, g \in Seq(Piece), size \in Nat \ {0} :
        r = recvNonce[e] /\ g = reading[e].got /\ size = reading[e].size
  <2>1. reading[e].got \in Seq(Piece) /\ reading[e].size \in Nat \ {0}
    BY <1>1, Reads, ChannelAssumption
  <2> QED
    BY <1>1, <2>1, Reads
<1>3. /\ Chunks(r, size) \in Seq(Piece) /\ Len(Chunks(r, size)) = size
      /\ \A i \in 1 .. size : Chunks(r, size)[i] = [n |-> r, part |-> i, size |-> size]
  BY <1>2, ChunkPieces
<1>4. Len(g) = size /\ DOMAIN g = 1 .. size
  BY <1>2, LenProperties
<1>5. CASE failed[e]
  <2>1. Lost(e)
    BY <1>1, <1>5, Reads
  <2>2. ~(g[1].n = r /\ g[1].part = 1)
    BY <1>2, <1>4, <2>1 DEF Lost, FirstPiece
  <2>3. g # Chunks(r, size)
    <3>1. 1 \in 1 .. size
      BY <1>2
    <3>2. Chunks(r, size)[1].n = r /\ Chunks(r, size)[1].part = 1
      BY <1>3, <3>1
    <3> QED
      BY <2>2, <3>2
  <2> QED
    BY <1>2, <1>5, <2>3 DEF Authentic
<1>6. CASE ~failed[e]
  <2>1. Gathering(e)
    BY <1>1, <1>6, Reads DEF Framed
  <2>2. \A i \in 1 .. size : g[i].n = r /\ g[i].part = i /\ g[i].size = size
    BY <1>2, <1>4, <2>1 DEF Gathering
  <2>3. \A i \in 1 .. size : g[i] \in Piece
    BY <1>2, <1>4, ElementOfSeq
  <2>4. \A i \in 1 .. size : g[i] = [n |-> r, part |-> i, size |-> size]
    BY <2>2, <2>3 DEF Piece
  <2>5. g = Chunks(r, size)
    <3>1. Len(g) = Len(Chunks(r, size)) /\ \A i \in 1 .. Len(g) : g[i] = Chunks(r, size)[i]
      BY <1>3, <1>4, <2>4
    <3> QED
      BY <1>2, <1>3, <3>1, SeqEqual
  <2> QED
    BY <1>2, <1>6, <2>5 DEF Authentic
<1> QED
  BY <1>5, <1>6

LEMMA DecryptFlows == ASSUME FInv, IInv', NEW e \in End, Decrypt(e) PROVE FInv'
<1>1. /\ reading[e] # None /\ Len(reading[e].got) = reading[e].size
      /\ UNCHANGED <<open, published, lock, todo, sendNonce, pipe, damaged>>
  BY DEF Decrypt
<1>2. IInv /\ Typed /\ Flags /\ published[e]
  BY <1>1 DEF FInv, IInv, Quiet
<1>3. CASE failed[e]
  <2>1. Fail(e) /\ UNCHANGED recvNonce
    BY <1>1, <1>3, NeverAfterError DEF Decrypt
  <2> QED
    BY <1>1, <1>2, <1>3, <2>1, GiveUpFlows DEF Flags
<1>4. CASE ~failed[e]
  <2>1. /\ recvNonce' = [recvNonce EXCEPT ![e] = recvNonce[e] + 1]
        /\ reading' = [reading EXCEPT ![e] = None] /\ UNCHANGED failed
    BY <1>1, <1>4, NeverAfterError DEF Decrypt
  <2>2. /\ recvNonce'[e] = recvNonce[e] + 1 /\ reading'[e] = None
        /\ \A x \in End : x # e => recvNonce'[x] = recvNonce[x] /\ reading'[x] = reading[x]
    BY <1>2, <2>1 DEF Typed
  <2>3. /\ Framed(e) /\ Good(Rest(e), sendNonce[Peer(e)]) /\ Marked(e) /\ Peer(e)' = Peer(e)
    BY <1>2, <1>4, Reads
  <2>4. Rest(e)' = Rest(e)
    BY <1>1, <2>3 DEF Rest
  <2>5. Starting(Rest(e), recvNonce[e] + 1, sendNonce[Peer(e)])
    BY <1>1, <2>3 DEF Framed, Gathering
  <2>6. Framed(e)'
    BY <1>1, <2>2, <2>3, <2>4, <2>5 DEF Framed
  <2>7. Marked(e)'
    BY <1>1, <2>3, <2>4 DEF Marked
  <2>8. Received(e)'
    BY <1>1, <1>4, <2>1, <2>3, <2>4, <2>6, <2>7 DEF Received
  <2> QED
    BY <1>1, <1>2, <1>4, <2>1, <2>2, <2>8, ReceiveFlows DEF Flags
<1> QED
  BY <1>3, <1>4

-----------------------------------------------------------------------------
LEMMA FlowStarts == Init => FInv
<1> SUFFICES ASSUME Init PROVE FInv
  OBVIOUS
<1>1. IInv
  BY Starts
<1>2. Flags /\ Bound /\ Quiet /\ Unlocked /\ WholeFrames
  BY DEF Init, Flags, Bound, Quiet, Unlocked, WholeFrames
<1>3. ASSUME NEW e \in End PROVE Received(e)
  <2>1. pipe[e] = <<>> /\ todo[Peer(e)] = <<>> /\ ~failed[e] /\ reading[e] = None
        /\ recvNonce[e] = 0 /\ sendNonce[Peer(e)] = 0
    BY Ends DEF Init
  <2>2. Rest(e) = <<>> /\ DOMAIN Rest(e) = {}
    BY <2>1 DEF Rest
  <2>3. Good(Rest(e), 0)
    BY <2>2, EmptySeq DEF Good
  <2> QED
    BY <2>1, <2>2, <2>3 DEF Received, Marked, Framed, Starting
<1> QED
  BY <1>1, <1>2, <1>3 DEF FInv, Inbound

LEMMA Flows == FInv /\ [Next]_vars => FInv'
<1> SUFFICES ASSUME FInv, [Next]_vars PROVE FInv'
  OBVIOUS
<1>1. IInv'
  BY Keeps DEF FInv
<1>2. CASE UNCHANGED vars
  <2>1. lock' \in [End -> Thread \cup {"free"}] /\ \A e \in End : lock'[e] = "free" => todo[e] = <<>>
    BY <1>2 DEF vars, FInv, Flags, Unlocked
  <2> QED
    BY <1>1, <1>2, <2>1, FlowStill DEF vars
<1>3. CASE Next
  <2>1. PICK e \in End :
          \/ \E t \in Thread, k \in Sizes : BeginSend(e, t, k)
          \/ Sending(e) \/ Receiving(e) \/ FrameTimeout(e) \/ LengthTimeout(e)
          \/ Withdraw(e) \/ CloseSocket(e)
    BY <1>3 DEF Next
  <2>2. CASE (\E t \in Thread, k \in Sizes : BeginSend(e, t, k)) \/ RefuseSend(e) \/ Release(e)
    <3>1. lock' \in [End -> Thread \cup {"free"}]
      BY <2>2 DEF FInv, Flags, BeginSend, RefuseSend, Release
    <3>2. \A x \in End : lock'[x] = "free" => todo[x] = <<>>
      BY <2>2 DEF FInv, Flags, Unlocked, BeginSend, RefuseSend, Release
    <3>3. UNCHANGED <<open, published, todo, sendNonce, recvNonce, pipe, reading, damaged, failed>>
      BY <2>2 DEF BeginSend, RefuseSend, Release
    <3> QED
      BY <1>1, <3>1, <3>2, <3>3, FlowStill
  <2>3. CASE Sending(e)
    BY <1>1, <2>2, <2>3, AcquireFlows, WriteFlows, WriteFailsFlows DEF Sending
  <2>4. CASE Receiving(e)
    BY <1>1, <2>4, LengthFlows, ChunkFlows, DecryptFlows DEF Receiving
  <2>5. CASE FrameTimeout(e) \/ LengthTimeout(e) \/ Withdraw(e) \/ CloseSocket(e)
    BY <1>1, <2>5, TimeoutFlows, LengthTimeoutFlows, WithdrawFlows, CloseFlows
  <2> QED
    BY <2>1, <2>2, <2>3, <2>4, <2>5
<1> QED
  BY <1>2, <1>3

(* The two threads of an end never mix their frames, whatever they send    *)
(* and however the stream is cut: receive() fails only for a frame that    *)
(* took too long or is larger than it may be (tcp_server.cpp:276-284).     *)
THEOREM FramesStayWhole == Spec => []WholeFrames
<1>1. FInv => WholeFrames
  BY DEF FInv
<1> QED
  BY FlowStarts, Flows, <1>1, PTL DEF Spec

(* After its first error receive() never returns a message again           *)
(* (secure_channel.cpp:47-106, tcp_server.cpp:356).                        *)
THEOREM NothingAfterError == Spec => DeafAfterError
<1>1. FInv /\ [Next]_vars => [\A e \in End : failed[e] => UNCHANGED delivered[e]]_vars
  <2> SUFFICES ASSUME FInv, Next, NEW x \in End, failed[x] PROVE delivered'[x] = delivered[x]
    OBVIOUS
  <2>1. PICK e \in End :
          \/ \E t \in Thread, k \in Sizes : BeginSend(e, t, k)
          \/ Sending(e) \/ Receiving(e) \/ FrameTimeout(e) \/ LengthTimeout(e)
          \/ Withdraw(e) \/ CloseSocket(e)
    BY DEF Next
  <2>2. CASE Decrypt(e)
    <3>1. CASE failed[e]
      BY <2>2, <3>1, NeverAfterError DEF Decrypt
    <3>2. CASE ~failed[e]
      BY <2>2, <3>2 DEF Decrypt, FInv, IInv, Typed
    <3> QED
      BY <3>1, <3>2
  <2>3. CASE ~Decrypt(e)
    BY <2>1, <2>3 DEF BeginSend, Sending, Acquire, RefuseSend, Write, WriteFails, Release,
                      Receiving, ReadLength, ReadChunk, FrameTimeout, LengthTimeout, Withdraw,
                      CloseSocket
  <2> QED
    BY <2>2, <2>3
<1> QED
  BY FlowStarts, Flows, <1>1, PTL DEF Spec, DeafAfterError
=============================================================================
