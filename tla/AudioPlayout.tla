---------------------------- MODULE AudioPlayout ----------------------------
(***************************************************************************)
(* The audio path of a session around the jitter buffer: the Slave's       *)
(* capture callback sends numbered packets over UDP, the network drops,    *)
(* delays, reorders and duplicates them, the Master's main loop pushes     *)
(* what arrived, and the playback device's real-time callback cuts packets *)
(* into the byte counts the device asks for, carrying the rest of a packet *)
(* from one callback to the next.                                          *)
(***************************************************************************)
EXTENDS JitterBuffer

CONSTANTS PacketBytes,  \* bytes in a packet (5 ms of audio in the code)
          Requests,     \* the byte counts the device may ask for
          NetCapacity   \* bound: packets on the network at once

ASSUME PacketAssumption == PacketBytes \in Nat \ {0} /\ Requests \subseteq Nat \ {0}
ASSUME NetAssumption    == NetCapacity \in Nat

VARIABLES sendSeq,    \* send_seq_ of the Slave's AudioChannel
          net,        \* packets sent and neither delivered nor lost
          carry,      \* carry.size() - carry_pos: bytes left of the last packet
          remaining   \* bytes the running callback still owes, 0 between two

playoutVars == <<vars, sendSeq, net, carry, remaining>>

PlayoutInit == /\ Init
               /\ sendSeq = 0 /\ net = {} /\ carry = 0 /\ remaining = 0

(* The capture callback: encode under the next number and send.            *)
Send == /\ Cardinality(net) < NetCapacity
        /\ net' = net \cup {sendSeq}
        /\ sendSeq' = After(sendSeq)
        /\ UNCHANGED <<vars, carry, remaining>>

Lose(s) == /\ s \in net
           /\ net' = net \ {s}
           /\ UNCHANGED <<vars, sendSeq, carry, remaining>>

(* pump_master: receive_nonblocking, then push_frame.                      *)
Deliver(s) == /\ s \in net
              /\ net' = net \ {s}
              /\ Push(s)
              /\ UNCHANGED <<sendSeq, carry, remaining>>

DeliverCopy(s) == /\ s \in net
                  /\ Push(s)
                  /\ UNCHANGED <<sendSeq, net, carry, remaining>>

BeginCallback == /\ remaining = 0
                 /\ remaining' \in Requests
                 /\ UNCHANGED <<vars, sendSeq, net, carry>>

(* The carry is used up: pop.  Without a frame the rest is silence.        *)
Starved_KeepAsking(bytes) == bytes
Starved(bytes) == 0

PullFrame == /\ remaining > 0 /\ carry = 0
             /\ Pop
             /\ IF out' # Silence
                THEN carry' = PacketBytes /\ UNCHANGED remaining
                ELSE remaining' = Starved(remaining) /\ UNCHANGED carry
             /\ UNCHANGED <<sendSeq, net>>

CopyBytes == /\ remaining > 0 /\ carry > 0
             /\ LET n == IF remaining < carry THEN remaining ELSE carry
                IN  carry' = carry - n /\ remaining' = remaining - n
             /\ UNCHANGED <<vars, sendSeq, net>>

Callback == BeginCallback \/ PullFrame \/ CopyBytes

PlayoutNext == \/ Send \/ Callback
               \/ \E s \in Seqs : Lose(s) \/ Deliver(s) \/ DeliverCopy(s)

(* The playback device's thread finishes what it began.  Of everything     *)
(* else nothing is assumed.                                                *)
PlayoutSpec ==
  /\ PlayoutInit /\ [][PlayoutNext]_playoutVars
  /\ WF_playoutVars(PullFrame \/ CopyBytes)

(* The capture and playback devices keep calling back, and the network     *)
(* does not drop every copy of one sequence number for ever; but whenever  *)
(* it delivers, it may do so too late.  The last number before the wrap is *)
(* never behind any position, and the wrap is 2^32 packets away in the     *)
(* code: nothing is asked for that number, so that a position which laps   *)
(* the sender is no help, and each turn of it may be as silent as the last. *)
StreamFlows ==
  /\ WF_playoutVars(Send) /\ WF_playoutVars(BeginCallback)
  /\ \A s \in Seqs \ {SeqMod - 1} : SF_playoutVars(Deliver(s))

(* A position that raced ahead of the sender makes every later packet look *)
(* too late, "forever": still sound comes back while the stream flows,     *)
(* since the count of misses starts playback over (jitter_buffer.h:107-115 *)
(* and jitter_buffer.cpp:100-113).                                         *)
SoundReturns == StreamFlows => []<>(out # Silence)

(* The real-time callback returns whatever the buffer holds: it never      *)
(* waits for a packet (playback.cpp:51-71).                                *)
CallbackReturns == (remaining > 0) ~> (remaining = 0)
=============================================================================
