---------------------------- MODULE SecureChannel ----------------------------
(* One session's encrypted byte stream: SecureChannel of both ends, the send_mutex_
   the main loop and the session thread of each end share, and the blocking sockets
   under them (src/discovery/secure_channel.cpp, platform_socket.cpp, and the session
   loops of tcp_server.cpp and tcp_client.cpp as far as they send and receive).

   A frame is its length and `size` chunks of ciphertext. What the sockets of both
   machines buffer in one direction is a FIFO of at most Cap such pieces. *)
EXTENDS Integers, Sequences, SequencesExt

CONSTANTS
  Sizes,      \* sizes of the messages that are sent
  FrameMax,   \* kMaxFrameLen
  Cap,        \* what the two socket buffers of a direction hold
  MaxFrames,  \* bound: messages sent, by all threads of both ends
  MaxSlow     \* bound: frames that take longer than kFrameTimeout

ASSUME ChannelAssumption ==
  /\ Sizes \subseteq Nat \ {0} /\ FrameMax \in Nat
  /\ Cap \in Nat \ {0} /\ {MaxFrames, MaxSlow} \subseteq Nat

End == {"master", "slave"}
Peer(e) == IF e = "master" THEN "slave" ELSE "master"
Thread == {"main", "session"}

VARIABLES
  open,       \* the socket of each end
  published,  \* active_channel_ of each end
  want,       \* the size of the message a thread is sending, 0 for none
  lock,       \* who holds send_mutex_, "free" for nobody
  todo,       \* what the holder has still to write
  sendNonce, recvNonce,
  pipe,       \* what is buffered on the way to each end
  reading,    \* what receive() of each end has of a frame; None between two calls
  begun,      \* messages sent so far
  slow,       \* frames that took too long
  damaged,    \* history: part of the stream to this end was given up or cannot be framed
  failed,     \* history: receive() returned Error
  delivered   \* history: the frames receive() returned, by the nonce they were sent with

vars == <<open, published, want, lock, todo, sendNonce, recvNonce, pipe, reading,
          begun, slow, damaged, failed, delivered>>

None == [size |-> -1, got |-> <<>>]
Piece == [n : Nat, part : Nat, size : Nat]

Frame(n, k)  == [i \in 1 .. k + 1 |-> [n |-> n, part |-> i - 1, size |-> k]]
Chunks(n, k) == Tail(Frame(n, k))

TypeOK ==
  /\ {open, published, failed, damaged} \subseteq [End -> BOOLEAN]
  /\ want \in [End -> [Thread -> Sizes \cup {0}]]
  /\ lock \in [End -> Thread \cup {"free"}]
  /\ \A e \in End : todo[e] \in Seq(Piece) /\ pipe[e] \in Seq(Piece) /\ Len(pipe[e]) <= Cap
  /\ {sendNonce, recvNonce} \subseteq [End -> Nat]
  /\ \A e \in End : reading[e] = None \/ /\ reading[e].size \in 1 .. FrameMax
                                         /\ Len(reading[e].got) \in 0 .. reading[e].size
  /\ begun \in 0 .. MaxFrames
  /\ slow \in 0 .. MaxSlow
  /\ \A e \in End : delivered[e] \in Seq(Nat)

Init ==
  /\ open = [e \in End |-> TRUE] /\ published = open
  /\ failed = [e \in End |-> FALSE] /\ damaged = failed
  /\ want = [e \in End |-> [t \in Thread |-> 0]] /\ begun = 0
  /\ lock = [e \in End |-> "free"]
  /\ todo = [e \in End |-> <<>>] /\ pipe = todo /\ delivered = todo
  /\ sendNonce = [e \in End |-> 0] /\ recvNonce = sendNonce
  /\ reading = [e \in End |-> None]
  /\ slow = 0

-----------------------------------------------------------------------------
(* Sending. *)

\* The session thread sends (heartbeat, ping, pong, lists) between two receives only.
BetweenReceives(e) == published[e] /\ reading[e] = None /\ want[e]["session"] = 0

\* A thread calls send and waits for send_mutex_.
BeginSend(e, t, k) ==
  /\ want[e][t] = 0 /\ begun < MaxFrames
  /\ t = "session" => BetweenReceives(e)
  /\ want' = [want EXCEPT ![e][t] = k]
  /\ begun' = begun + 1
  /\ UNCHANGED <<open, published, lock, todo, sendNonce, recvNonce, pipe, reading, slow, damaged, failed, delivered>>

\* A faulty variant: the mutex is not taken; one thread's writes fall between the other's.
AcquireUnlocked(e, t) ==
  /\ want[e][t] # 0 /\ lock[e] # t /\ published[e]
  /\ lock' = [lock EXCEPT ![e] = t]
  /\ todo' = [todo EXCEPT ![e] = Frame(sendNonce[e], want[e][t]) \o @]
  /\ sendNonce' = [sendNonce EXCEPT ![e] = @ + 1]
  /\ damaged' = [damaged EXCEPT ![Peer(e)] = @ \/ want[e][t] > FrameMax]
  /\ UNCHANGED <<open, published, want, recvNonce, pipe, reading, begun, slow, failed, delivered>>

\* The mutex is taken, the message encrypted under the next nonce.
Acquire(e, t) ==
  /\ want[e][t] # 0 /\ lock[e] = "free" /\ published[e]
  /\ lock' = [lock EXCEPT ![e] = t]
  /\ todo' = [todo EXCEPT ![e] = Frame(sendNonce[e], want[e][t])]
  /\ sendNonce' = [sendNonce EXCEPT ![e] = @ + 1]
  /\ damaged' = [damaged EXCEPT ![Peer(e)] = @ \/ want[e][t] > FrameMax]
  /\ UNCHANGED <<open, published, want, recvNonce, pipe, reading, begun, slow, failed, delivered>>

\* The channel is gone: false.
RefuseSend(e) ==
  /\ want[e]["main"] # 0 /\ lock[e] = "free" /\ ~published[e]
  /\ want' = [want EXCEPT ![e]["main"] = 0]
  /\ UNCHANGED <<open, published, lock, todo, sendNonce, recvNonce, pipe, reading, begun, slow, damaged, failed, delivered>>

\* send_all hands the kernel a piece, and blocks while there is no room.
Write(e) ==
  /\ todo[e] # <<>> /\ open[Peer(e)] /\ Len(pipe[Peer(e)]) < Cap
  /\ pipe' = [pipe EXCEPT ![Peer(e)] = Append(@, Head(todo[e]))]
  /\ todo' = [todo EXCEPT ![e] = Tail(@)]
  /\ UNCHANGED <<open, published, want, lock, sendNonce, recvNonce, reading, begun, slow, damaged, failed, delivered>>

\* The peer has closed: send_all gives up in the middle of the frame.
WriteFails(e) ==
  /\ todo[e] # <<>> /\ ~open[Peer(e)]
  /\ todo' = [todo EXCEPT ![e] = <<>>]
  /\ UNCHANGED <<open, published, want, lock, sendNonce, recvNonce, pipe, reading, begun, slow, damaged, failed, delivered>>

\* send returns.
Release(e) ==
  /\ lock[e] # "free" /\ todo[e] = <<>>
  /\ want' = [want EXCEPT ![e][lock[e]] = 0]
  /\ lock' = [lock EXCEPT ![e] = "free"]
  /\ UNCHANGED <<open, published, todo, sendNonce, recvNonce, pipe, reading, begun, slow, damaged, failed, delivered>>

-----------------------------------------------------------------------------
(* Receiving: only the session thread. *)

\* receive() returns Error; what it has read is gone, the session goes on.
Fail(e) ==
  /\ failed' = [failed EXCEPT ![e] = TRUE]
  /\ reading' = [reading EXCEPT ![e] = None]

\* A faulty variant: the largest length is refused.
ReadLengthStrict(e, k) ==
  /\ BetweenReceives(e) /\ pipe[e] # <<>>
  /\ Head(pipe[e]).part = 0 => k = Head(pipe[e]).size
  /\ pipe' = [pipe EXCEPT ![e] = Tail(@)]
  /\ IF k \in 1 .. FrameMax - 1
     THEN reading' = [reading EXCEPT ![e] = [size |-> k, got |-> <<>>]] /\ UNCHANGED failed
     ELSE Fail(e)
  /\ UNCHANGED <<open, published, want, lock, todo, sendNonce, recvNonce, begun, slow, damaged, delivered>>

\* Something is readable: four bytes are a length, whatever they were meant as.
ReadLength(e, k) ==
  /\ BetweenReceives(e) /\ pipe[e] # <<>>
  /\ Head(pipe[e]).part = 0 => k = Head(pipe[e]).size
  /\ pipe' = [pipe EXCEPT ![e] = Tail(@)]
  /\ IF k \in 1 .. FrameMax
     THEN reading' = [reading EXCEPT ![e] = [size |-> k, got |-> <<>>]] /\ UNCHANGED failed
     ELSE Fail(e)
  /\ UNCHANGED <<open, published, want, lock, todo, sendNonce, recvNonce, begun, slow, damaged, delivered>>

ReadChunk(e) ==
  /\ reading[e] # None /\ Len(reading[e].got) < reading[e].size /\ pipe[e] # <<>>
  /\ reading' = [reading EXCEPT ![e].got = Append(@, Head(pipe[e]))]
  /\ pipe' = [pipe EXCEPT ![e] = Tail(@)]
  /\ UNCHANGED <<open, published, want, lock, todo, sendNonce, recvNonce, begun, slow, damaged, failed, delivered>>

\* aead_decrypt accepts what was encrypted under the expected nonce, and nothing else.
Authentic(e) == reading[e].got = Chunks(recvNonce[e], reading[e].size)

\* A faulty variant: the nonce advances whether or not the frame was authentic.
DecryptCounts(e) ==
  /\ reading[e] # None /\ Len(reading[e].got) = reading[e].size
  /\ recvNonce' = [recvNonce EXCEPT ![e] = @ + 1]
  /\ IF Authentic(e)
     THEN /\ delivered' = [delivered EXCEPT ![e] = Append(@, Head(reading[e].got).n)]
          /\ reading' = [reading EXCEPT ![e] = None]
          /\ UNCHANGED failed
     ELSE Fail(e) /\ UNCHANGED delivered
  /\ UNCHANGED <<open, published, want, lock, todo, sendNonce, pipe, begun, slow, damaged>>

Decrypt(e) ==
  /\ reading[e] # None /\ Len(reading[e].got) = reading[e].size
  /\ IF Authentic(e)
     THEN /\ delivered' = [delivered EXCEPT ![e] = Append(@, Head(reading[e].got).n)]
          /\ recvNonce' = [recvNonce EXCEPT ![e] = @ + 1]
          /\ reading' = [reading EXCEPT ![e] = None]
          /\ UNCHANGED failed
     ELSE Fail(e) /\ UNCHANGED <<delivered, recvNonce>>
  /\ UNCHANGED <<open, published, want, lock, todo, sendNonce, pipe, begun, slow, damaged>>

\* The frame is not complete within kFrameTimeout, be it on its way or not.
FrameTimeout(e) ==
  /\ reading[e] # None /\ Len(reading[e].got) < reading[e].size
  /\ slow < MaxSlow
  /\ slow' = slow + 1
  /\ damaged' = [damaged EXCEPT ![e] = TRUE]
  /\ Fail(e)
  /\ UNCHANGED <<open, published, want, lock, todo, sendNonce, recvNonce, pipe, begun, delivered>>

\* Not even the four bytes of a length are: those that came are used up, and what is
\* left of them is read as part of another length.
LengthTimeout(e) ==
  /\ BetweenReceives(e) /\ pipe[e] # <<>>
  /\ slow < MaxSlow
  /\ slow' = slow + 1
  /\ damaged' = [damaged EXCEPT ![e] = TRUE]
  /\ pipe' = [pipe EXCEPT ![e] = Tail(@)]
  /\ Fail(e)
  /\ UNCHANGED <<open, published, want, lock, todo, sendNonce, recvNonce, begun, delivered>>

\* The session loop ends between two receives and withdraws the channel under the
\* mutex, because the user wants it to or the peer has closed (mid-frame as well) ...
Withdraw(e) ==
  /\ published[e] /\ want[e]["session"] = 0 /\ lock[e] = "free"
  /\ reading[e] # None => pipe[e] = <<>> /\ ~open[Peer(e)]
  /\ published' = [published EXCEPT ![e] = FALSE]
  /\ reading' = [reading EXCEPT ![e] = None]
  /\ UNCHANGED <<open, want, lock, todo, sendNonce, recvNonce, pipe, begun, slow, damaged, failed, delivered>>

\* ... then the socket is closed.
CloseSocket(e) ==
  /\ open[e] /\ ~published[e]
  /\ open' = [open EXCEPT ![e] = FALSE]
  /\ pipe' = [pipe EXCEPT ![e] = <<>>]
  /\ UNCHANGED <<published, want, lock, todo, sendNonce, recvNonce, reading, begun, slow, damaged, failed, delivered>>

Sending(e)   == (\E t \in Thread : Acquire(e, t)) \/ RefuseSend(e) \/ Write(e) \/ WriteFails(e) \/ Release(e)
Receiving(e) == (\E k \in (0 .. FrameMax + 1) \cup Sizes : ReadLength(e, k)) \/ ReadChunk(e) \/ Decrypt(e)

Next ==
  \E e \in End :
    \/ \E t \in Thread, k \in Sizes : BeginSend(e, t, k)
    \/ Sending(e) \/ Receiving(e) \/ FrameTimeout(e) \/ LengthTimeout(e)
    \/ Withdraw(e) \/ CloseSocket(e)

Spec == Init /\ [][Next]_vars

\* Every thread and both networks go on.
Runs == \A e \in End : WF_vars(Sending(e)) /\ WF_vars(Receiving(e))

FairSpec == Spec /\ Runs

-----------------------------------------------------------------------------
(* Properties. *)

\* Whatever happens to the stream, what receive() returns is what the peer sent, in
\* order and without a gap (secure_channel.cpp:47-106).
InOrder ==
  \A e \in End : /\ Len(delivered[e]) <= sendNonce[Peer(e)]
                 /\ \A i \in 1 .. Len(delivered[e]) : delivered[e][i] = i - 1

\* Two threads writing to one socket never mix their frames (tcp_server.cpp:276-284):
\* receive() fails only if a frame took too long or was larger than it may be.
WholeFrames == \A e \in End : failed[e] => damaged[e]

\* An end whose receive() has failed once never delivers anything again: the session
\* loops go on after an Error (tcp_server.cpp:356), but no later frame has the nonce.
DeafAfterError == [][\A e \in End : failed[e] => UNCHANGED delivered[e]]_vars

\* Both ends are stuck: someone waits in send_all for room in the peer's full buffers,
\* and neither session thread reads, since it is sending or waits for the mutex to.
Deadlocked ==
  \A e \in End : todo[e] # <<>> /\ Len(pipe[Peer(e)]) = Cap /\ want[e]["session"] # 0

AllArrived ==
  \A e \in End : /\ \A t \in Thread : want[e][t] = 0
                 /\ Len(delivered[e]) = sendNonce[Peer(e)]

\* As long as the session lasts and the stream is not damaged, every send returns and
\* every message is received, whatever is under way in both directions at once: the one
\* thing that can stop it is that all four threads wait for each other (tcp_server.cpp:
\* 301-385, tcp_client.cpp:262-361).
FramesArrive ==
  Runs => \/ <>(Deadlocked \/ \E e \in End : damaged[e] \/ ~published[e])
          \/ <>[]AllArrived

\* send_input is "safe to call concurrently with the background thread's own receive()
\* loop" (tcp_server.h:71): it returns. The code breaks it: with both directions full,
\* both session threads wait for the mutex of a main loop that waits for them to read.
SendReturns == \A e \in End : want[e]["main"] # 0 ~> want[e]["main"] = 0

=============================================================================
