------------------------------ MODULE Presence ------------------------------
(***************************************************************************)
(* Who is on the network: each device's Announcer broadcasts its device     *)
(* id, role and TCP port once per period, the network loses, delays,        *)
(* reorders and duplicates the packets, and one machine's Listener keeps a  *)
(* PeerTable of what it heard, without entries older than kPeerTimeout.     *)
(* Devices stop and come back, under another role or port, at any moment.   *)
(* Time passes in ticks; ages stand for time points.                        *)
(***************************************************************************)
EXTENDS Naturals

CONSTANTS Devices,    \* device ids
          Own,        \* the one of the machine that listens
          Ads,        \* what an announcement says: role, port and name
          MinPeriod, MaxPeriod,  \* ticks between two announcements
          Timeout,    \* kPeerTimeout
          Poll,       \* the receive timeout of the listener's socket
          MaxDelay,   \* bound: ticks a packet may travel
          MaxLost     \* bound: announcements lost in a row

ASSUME DeviceAssumption == Own \in Devices /\ Ads # {}
ASSUME PeriodAssumption ==
  MinPeriod \in Nat \ {0} /\ MaxPeriod \in Nat /\ MinPeriod <= MaxPeriod
ASSUME ListenerAssumption == Timeout \in Nat /\ Poll \in Nat \ {0}
ASSUME NetworkAssumption == MaxDelay \in Nat /\ MaxLost \in Nat

(* The timeout outlasts the losses in a row: 5 s in the code, where a       *)
(* period takes about 1 s.                                                  *)
ASSUME LossAssumption == (MaxLost + 1) * MaxPeriod + MaxDelay <= Timeout

VARIABLES
  on,        \* another device's Announcer runs
  ad,        \* what it announces
  sinceSent, \* ticks since its last announcement
  net,       \* packets on their way, and how long they have been
  listening, \* the Listener runs
  sinceLoop, \* ticks since its loop last came round
  table,     \* peers_: {} or the one entry of a device
  (* history *)
  lost,      \* announcements of a device lost in a row
  upFor,     \* ticks since a device began to announce ad
  heardFor   \* ticks since the listener started

vars == <<on, ad, sinceSent, net, listening, sinceLoop, table, lost, upFor, heardFor>>

(* Beyond these ages nothing tells two ages apart.                         *)
Silence == Timeout + Poll + MaxDelay
Settling == 2 * MaxDelay + (MaxLost + 1) * MaxPeriod
Older(age, limit) == IF age > limit THEN age ELSE age + 1

Others == Devices \ {Own}
Packet(d, a, age) == [from |-> d, ad |-> a, age |-> age]
Entry(a, age) == [ad |-> a, age |-> age]
Listed(d) == table[d] # {}

Init == /\ on = [d \in Others |-> FALSE] /\ ad \in [Others -> Ads]
        /\ sinceSent = [d \in Others |-> Silence + 1]
        /\ net = {} /\ table = [d \in Devices |-> {}]
        /\ listening = FALSE /\ sinceLoop = 0
        /\ lost = [d \in Others |-> 0]
        /\ upFor = [d \in Others |-> 0] /\ heardFor = 0

-----------------------------------------------------------------------------
(* Announcer::run: one round of sendto, of which nothing or something      *)
(* gets through.                                                           *)
Sends(d, a) ==
  /\ sinceSent' = [sinceSent EXCEPT ![d] = 0]
  /\ \/ net' = net \cup {Packet(d, a, 0)} /\ lost' = [lost EXCEPT ![d] = 0]
     \/ lost[d] < MaxLost /\ lost' = [lost EXCEPT ![d] = @ + 1] /\ UNCHANGED net

(* start(): the thread announces at once.  A restart takes a tick at least. *)
Appear(d, a) ==
  /\ ~on[d] /\ sinceSent[d] > 0
  /\ on' = [on EXCEPT ![d] = TRUE]
  /\ ad' = [ad EXCEPT ![d] = a]
  /\ upFor' = [upFor EXCEPT ![d] = 0]
  /\ Sends(d, a)
  /\ UNCHANGED <<listening, sinceLoop, table, heardFor>>

Announce(d) ==
  /\ on[d] /\ sinceSent[d] >= MinPeriod
  /\ Sends(d, ad[d])
  /\ UNCHANGED <<on, ad, listening, sinceLoop, table, upFor, heardFor>>

(* stop(), or the end of the process: nobody is told.                      *)
Vanish(d) ==
  /\ on[d]
  /\ on' = [on EXCEPT ![d] = FALSE]
  /\ UNCHANGED <<ad, sinceSent, net, listening, sinceLoop, table, lost, upFor, heardFor>>

-----------------------------------------------------------------------------
(* Listener::run: what one turn of the loop hears, then prune.             *)
Upserted_First(p) ==
  IF p.from = Own \/ Listed(p.from) THEN table
  ELSE [table EXCEPT ![p.from] = {Entry(p.ad, 0)}]
Upserted(p) ==
  IF p.from = Own THEN table
  ELSE [table EXCEPT ![p.from] = {Entry(p.ad, 0)}]

Pruned_Never(t) == t
Pruned(t) == [d \in Devices |-> {e \in t[d] : e.age <= Timeout}]

Hear(p) ==
  /\ listening /\ p \in net
  /\ table' = Pruned(Upserted(p))
  /\ sinceLoop' = 0
  /\ \/ net' = net \ {p}
     \/ UNCHANGED net    \* sent on several interfaces, it comes again
  /\ UNCHANGED <<on, ad, sinceSent, listening, lost, upFor, heardFor>>

(* This machine's own announcements come back on its own broadcast.        *)
HearOwn(a) ==
  /\ listening
  /\ table' = Pruned(Upserted(Packet(Own, a, 0)))
  /\ sinceLoop' = 0
  /\ UNCHANGED <<on, ad, sinceSent, net, listening, lost, upFor, heardFor>>

HearNothing ==
  /\ listening /\ sinceLoop = Poll
  /\ table' = Pruned(table)
  /\ sinceLoop' = 0
  /\ UNCHANGED <<on, ad, sinceSent, net, listening, lost, upFor, heardFor>>

(* A new Listener begins with an empty table.                              *)
StartListening ==
  /\ ~listening /\ listening' = TRUE
  /\ table' = [d \in Devices |-> {}]
  /\ sinceLoop' = 0 /\ heardFor' = 0
  /\ UNCHANGED <<on, ad, sinceSent, net, lost, upFor>>

StopListening ==
  /\ listening /\ listening' = FALSE
  /\ table' = [d \in Devices |-> {}]
  /\ UNCHANGED <<on, ad, sinceSent, net, sinceLoop, lost, upFor, heardFor>>

Unheard(p) ==
  /\ ~listening /\ p \in net
  /\ net' = net \ {p}
  /\ UNCHANGED <<on, ad, sinceSent, listening, sinceLoop, table, lost, upFor, heardFor>>

-----------------------------------------------------------------------------
(* A tick passes only when no deadline is due.                             *)
Tick ==
  /\ \A d \in Others : on[d] => sinceSent[d] < MaxPeriod
  /\ \A p \in net : p.age < MaxDelay
  /\ listening => sinceLoop < Poll
  /\ sinceSent' = [d \in Others |-> Older(sinceSent[d], Silence)]
  /\ net' = {Packet(p.from, p.ad, p.age + 1) : p \in net}
  /\ sinceLoop' = IF listening THEN sinceLoop + 1 ELSE sinceLoop
  /\ table' = [d \in Devices |-> {Entry(e.ad, e.age + 1) : e \in table[d]}]
  /\ upFor' = [d \in Others |-> IF on[d] THEN Older(upFor[d], Settling) ELSE upFor[d]]
  /\ heardFor' = IF listening THEN Older(heardFor, Settling) ELSE heardFor
  /\ UNCHANGED <<on, ad, listening, lost>>

Next == \/ \E d \in Others : Announce(d) \/ Vanish(d) \/ \E a \in Ads : Appear(d, a)
        \/ \E p \in net : Hear(p) \/ Unheard(p)
        \/ \E a \in Ads : HearOwn(a)
        \/ HearNothing \/ StartListening \/ StopListening \/ Tick

Spec == Init /\ [][Next]_vars
-----------------------------------------------------------------------------
(* Properties.                                                             *)

TypeOK ==
  /\ on \in [Others -> BOOLEAN] /\ ad \in [Others -> Ads]
  /\ sinceSent \in [Others -> 0 .. Silence + 1]
  /\ net \subseteq [from : Others, ad : Ads, age : 0 .. MaxDelay]
  /\ listening \in BOOLEAN /\ sinceLoop \in 0 .. Poll
  /\ table \in [Devices -> SUBSET [ad : Ads, age : 0 .. Timeout + Poll]]
  /\ lost \in [Others -> 0 .. MaxLost]
  /\ upFor \in [Others -> 0 .. Settling + 1] /\ heardFor \in 0 .. Settling + 1

(* A device that fell silent is off the list within the timeout, one turn  *)
(* of the listener's loop and the time its last packet travelled; the      *)
(* machine itself is never on it (listener.cpp:55,68).                     *)
NoGhosts == \A d \in Devices : Listed(d) => d # Own /\ sinceSent[d] <= Silence

(* A device that announces itself is on the list, as what it is now and    *)
(* not what it was before it came back, after a bounded time and without a *)
(* gap from then on, whatever single packets are lost or overtaken         *)
(* (peer_table.cpp:5-16).                                                  *)
Current == \A d \in Others :
  on[d] /\ listening /\ upFor[d] > Settling /\ heardFor > Settling
    => Listed(d) /\ \A e \in table[d] : e.ad = ad[d]
=============================================================================
