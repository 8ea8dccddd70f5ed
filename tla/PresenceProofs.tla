--------------------------- MODULE PresenceProofs ---------------------------
(***************************************************************************)
(* For every number of devices, every period, delay, timeout and number of *)
(* losses in a row that the timeout outlasts: the list of peers holds no    *)
(* ghosts, and after the settling time it is current and stays so.          *)
(***************************************************************************)
EXTENDS Presence, TLAPS

(* The bounds on the ages, and with them the types.                        *)
Typed ==
  /\ on \in [Others -> BOOLEAN] /\ ad \in [Others -> Ads]
  /\ sinceSent \in [Others -> Nat]
  /\ net \subseteq [from : Others, ad : Ads, age : 0 .. MaxDelay]
  /\ listening \in BOOLEAN /\ sinceLoop \in 0 .. Poll
  /\ table \in [Devices -> SUBSET [ad : Ads, age : Nat]]
  /\ lost \in [Others -> 0 .. MaxLost]
  /\ upFor \in [Others -> Nat] /\ heardFor \in Nat

OnTime == \A d \in Others : on[d] => sinceSent[d] <= MaxPeriod

(* A device sent nothing since its youngest packet or entry.               *)
PacketsRecent == \A p \in net : sinceSent[p.from] <= p.age
EntriesRecent ==
  \A d \in Devices : \A e \in table[d] :
    /\ d \in Others /\ listening
    /\ sinceSent[d] <= e.age + MaxDelay
    /\ e.age <= Timeout + sinceLoop

OneEntry == \A d \in Devices : \A e, f \in table[d] : e = f

(* What a device announced before it came back is as old as its return.    *)
OldPackets == \A p \in net : p.ad # ad[p.from] => upFor[p.from] <= p.age
OldEntries ==
  \A d \in Others : \A e \in table[d] : e.ad # ad[d] => upFor[d] <= e.age + MaxDelay

(* The longest a device that runs gets nothing through, and how long it    *)
(* has been at it.                                                         *)
Window == (MaxLost + 1) * MaxPeriod
Unsent(d) == lost[d] * MaxPeriod + sinceSent[d]

(* x ticks ago is no longer than it may take: nothing got through since,   *)
(* or what did is still on its way.                                        *)
Excused(d, x) == \/ x <= Unsent(d)
                 \/ \E p \in net : p.from = d /\ x <= Window + p.age

(* A device is on the list, with an entry that is young enough, unless it  *)
(* or the listener has not been there for long.                            *)
Heard == \A d \in Others : on[d] /\ listening =>
           \/ Excused(d, upFor[d])
           \/ Excused(d, heardFor)
           \/ \E e \in table[d] : Excused(d, e.age)

IInv == /\ Typed /\ OnTime /\ PacketsRecent /\ EntriesRecent /\ OneEntry
        /\ OldPackets /\ OldEntries /\ Heard

-----------------------------------------------------------------------------
(* The constants.                                                          *)

LEMMA Constants ==
  /\ MinPeriod \in Nat /\ MaxPeriod \in Nat /\ Timeout \in Nat /\ Poll \in Nat
  /\ MaxDelay \in Nat /\ MaxLost \in Nat /\ Window \in Nat
  /\ MaxPeriod <= Window /\ Window + MaxDelay <= Timeout
  /\ Settling = 2 * MaxDelay + Window
  /\ \A l \in 0 .. MaxLost : /\ l * MaxPeriod \in Nat
                             /\ (l + 1) * MaxPeriod = l * MaxPeriod + MaxPeriod
                             /\ l * MaxPeriod + MaxPeriod <= Window
<1>1. /\ MinPeriod \in Nat /\ MaxPeriod \in Nat /\ Timeout \in Nat /\ Poll \in Nat
      /\ MaxDelay \in Nat /\ MaxLost \in Nat
  BY PeriodAssumption, ListenerAssumption, NetworkAssumption
<1>2. ASSUME NEW l \in 0 .. MaxLost
      PROVE  /\ l * MaxPeriod \in Nat
             /\ (l + 1) * MaxPeriod = l * MaxPeriod + MaxPeriod
             /\ l * MaxPeriod + MaxPeriod <= (MaxLost + 1) * MaxPeriod
  <2>1. l * MaxPeriod \in Nat /\ (MaxLost - l) * MaxPeriod \in Nat
    BY <1>1
  <2>2. (l + 1) * MaxPeriod = l * MaxPeriod + MaxPeriod
    BY <1>1
  <2>3. (MaxLost + 1) * MaxPeriod = l * MaxPeriod + MaxPeriod + (MaxLost - l) * MaxPeriod
    BY <1>1
  <2> QED
    BY <1>1, <2>1, <2>2, <2>3
<1>3. (MaxLost + 1) * MaxPeriod \in Nat /\ MaxPeriod <= (MaxLost + 1) * MaxPeriod
  BY <1>1, <1>2
<1> QED
  BY <1>1, <1>2, <1>3, LossAssumption DEF Window, Settling

LEMMA OlderByOne ==
  ASSUME NEW age \in Nat, NEW limit \in Nat
  PROVE  Older(age, limit) \in Nat /\ Older(age, limit) <= age + 1
         /\ (age <= limit => Older(age, limit) = age + 1)
BY DEF Older

(* While a device runs, something of it gets through within the window.    *)
LEMMA UnsentBounded ==
  ASSUME Typed, OnTime, NEW d \in Others
  PROVE  Unsent(d) \in Nat /\ (on[d] => Unsent(d) <= Window)
<1>1. lost[d] \in 0 .. MaxLost /\ sinceSent[d] \in Nat
  BY DEF Typed
<1>2. lost[d] * MaxPeriod \in Nat /\ lost[d] * MaxPeriod + MaxPeriod <= Window
  BY <1>1, Constants
<1>3. on[d] => sinceSent[d] <= MaxPeriod
  BY DEF OnTime
<1> QED
  BY <1>1, <1>2, <1>3, Constants DEF Unsent

(* What is excused is no older than the window and the delay.              *)
LEMMA ExcusedBounded ==
  ASSUME Typed, OnTime, NEW d \in Others, on[d], NEW x \in Nat, Excused(d, x)
  PROVE  x <= Window + MaxDelay
<1>1. CASE x <= Unsent(d)
  BY <1>1, UnsentBounded, Constants
<1>2. CASE \E p \in net : p.from = d /\ x <= Window + p.age
  BY <1>2, Constants DEF Typed
<1> QED
  BY <1>1, <1>2 DEF Excused

-----------------------------------------------------------------------------
(* A turn of the listener's loop.                                          *)

LEMMA PrunedKeeps ==
  ASSUME NEW t \in [Devices -> SUBSET [ad : Ads, age : Nat]]
  PROVE  /\ Pruned(t) \in [Devices -> SUBSET [ad : Ads, age : Nat]]
         /\ \A d \in Devices : \A e : e \in Pruned(t)[d] <=> e \in t[d] /\ e.age <= Timeout
BY DEF Pruned

LEMMA UpsertedIs ==
  ASSUME Typed, NEW p \in [from : Devices, ad : Ads, age : 0 .. MaxDelay]
  PROVE  /\ Upserted(p) \in [Devices -> SUBSET [ad : Ads, age : Nat]]
         /\ \A d \in Devices : \/ Upserted(p)[d] = table[d]
                               \/ /\ d = p.from /\ d \in Others
                                  /\ Upserted(p)[d] = {Entry(p.ad, 0)}
         /\ p.from \in Others => Upserted(p)[p.from] = {Entry(p.ad, 0)}
BY DEF Typed, Upserted, Others, Entry

-----------------------------------------------------------------------------
(* Time.                                                                   *)

LEMMA TickKeeps == IInv /\ Tick => IInv'
<1> SUFFICES ASSUME IInv, Tick PROVE IInv'
  OBVIOUS
<1>0. Silence \in Nat /\ MaxPeriod <= Silence /\ Settling \in Nat
  BY Constants DEF Silence
<1>1. Typed'
  <2>1. (sinceSent \in [Others -> Nat] /\ upFor \in [Others -> Nat] /\ heardFor \in Nat)'
    BY <1>0, OlderByOne DEF IInv, Typed, Tick
  <2>2. (net \subseteq [from : Others, ad : Ads, age : 0 .. MaxDelay])'
    BY Constants DEF IInv, Typed, Tick, Packet
  <2>3. sinceLoop' \in 0 .. Poll
    BY Constants DEF IInv, Typed, Tick
  <2>4. (table \in [Devices -> SUBSET [ad : Ads, age : Nat]])'
    BY DEF IInv, Typed, Tick, Entry
  <2> QED
    BY <2>1, <2>2, <2>3, <2>4 DEF IInv, Typed, Tick
<1>2. ASSUME NEW d \in Others
      PROVE  /\ sinceSent[d] \in Nat /\ sinceSent'[d] \in Nat /\ sinceSent'[d] <= sinceSent[d] + 1
             /\ upFor[d] \in Nat /\ upFor'[d] \in Nat /\ upFor'[d] <= upFor[d] + 1
             /\ on[d] => sinceSent'[d] = sinceSent[d] + 1 /\ sinceSent'[d] <= MaxPeriod
  <2>1. sinceSent[d] \in Nat /\ upFor[d] \in Nat /\ on[d] \in BOOLEAN
    BY DEF IInv, Typed
  <2>2. sinceSent'[d] = Older(sinceSent[d], Silence) /\ (on[d] => sinceSent[d] < MaxPeriod)
    BY DEF Tick
  <2>3. upFor'[d] = Older(upFor[d], Settling) \/ upFor'[d] = upFor[d]
    BY DEF Tick
  <2>4. /\ Older(sinceSent[d], Silence) \in Nat
        /\ Older(sinceSent[d], Silence) <= sinceSent[d] + 1
        /\ sinceSent[d] <= Silence => Older(sinceSent[d], Silence) = sinceSent[d] + 1
    BY <1>0, <2>1, OlderByOne
  <2>5. Older(upFor[d], Settling) \in Nat /\ Older(upFor[d], Settling) <= upFor[d] + 1
    BY <1>0, <2>1, OlderByOne
  <2> QED
    BY <1>0, <2>1, <2>2, <2>3, <2>4, <2>5, Constants
<1>3. heardFor' \in Nat /\ heardFor' <= heardFor + 1
  <2>1. heardFor \in Nat
    BY DEF IInv, Typed
  <2>2. heardFor' = Older(heardFor, Settling) \/ heardFor' = heardFor
    BY DEF Tick
  <2>3. Older(heardFor, Settling) \in Nat /\ Older(heardFor, Settling) <= heardFor + 1
    BY <1>0, <2>1, OlderByOne
  <2> QED
    BY <2>1, <2>2, <2>3
<1>4. OnTime'
  BY <1>2 DEF OnTime, Tick
<1>5. \A q \in net' : \E p \in net : q.from = p.from /\ q.ad = p.ad /\ q.age = p.age + 1
                                    /\ p.from \in Others /\ p.age \in 0 .. MaxDelay
  BY DEF IInv, Typed, Tick, Packet
<1>6. \A d \in Devices : \A f \in table'[d] : \E e \in table[d] : f.ad = e.ad /\ f.age = e.age + 1
                                                                 /\ e.age \in Nat
  BY DEF IInv, Typed, Tick, Entry
<1>7. PacketsRecent'
  BY <1>2, <1>5, Constants DEF IInv, PacketsRecent
<1>8. EntriesRecent'
  <2> SUFFICES ASSUME NEW d \in Devices, NEW f \in table'[d]
               PROVE  /\ d \in Others /\ listening'
                      /\ sinceSent'[d] <= f.age + MaxDelay /\ f.age <= Timeout + sinceLoop'
    BY DEF EntriesRecent
  <2>1. PICK e \in table[d] : f.age = e.age + 1 /\ e.age \in Nat
    BY <1>6
  <2>2. d \in Others /\ listening /\ sinceSent[d] <= e.age + MaxDelay /\ e.age <= Timeout + sinceLoop
    BY DEF IInv, EntriesRecent
  <2>3. sinceLoop \in Nat /\ sinceLoop' = sinceLoop + 1 /\ listening'
    BY <2>2, Constants DEF IInv, Typed, Tick
  <2> QED
    BY <1>2, <2>1, <2>2, <2>3, Constants
<1>9. OneEntry'
  BY DEF IInv, OneEntry, Tick
<1>10. OldPackets'
  <2> SUFFICES ASSUME NEW q \in net', q.ad # ad'[q.from] PROVE upFor'[q.from] <= q.age
    BY DEF OldPackets
  <2>1. PICK p \in net : q.from = p.from /\ q.ad = p.ad /\ q.age = p.age + 1
                         /\ p.from \in Others /\ p.age \in 0 .. MaxDelay
    BY <1>5
  <2>2. upFor[p.from] <= p.age
    BY <2>1 DEF IInv, OldPackets, Tick
  <2> QED
    BY <1>2, <2>1, <2>2, Constants
<1>11. OldEntries'
  <2> SUFFICES ASSUME NEW d \in Others, NEW f \in table'[d], f.ad # ad'[d]
               PROVE  upFor'[d] <= f.age + MaxDelay
    BY DEF OldEntries
  <2>0. d \in Devices
    BY DEF Others
  <2>1. PICK e \in table[d] : f.ad = e.ad /\ f.age = e.age + 1 /\ e.age \in Nat
    BY <1>6, <2>0
  <2>2. upFor[d] <= e.age + MaxDelay
    BY <2>1 DEF IInv, OldEntries, Tick
  <2> QED
    BY <1>2, <2>1, <2>2, Constants
<1>12. Heard'
  <2> SUFFICES ASSUME NEW d \in Others, on'[d], listening'
               PROVE  \/ Excused(d, upFor[d])'
                      \/ Excused(d, heardFor)'
                      \/ \E f \in table'[d] : Excused(d, f.age)'
    BY DEF Heard
  <2>1. on[d] /\ listening
    BY DEF Tick
  <2>2. Unsent(d) \in Nat /\ Unsent(d)' = Unsent(d) + 1
    <3>1. lost[d] * MaxPeriod \in Nat /\ lost' = lost
      BY Constants DEF IInv, Typed, Tick
    <3> QED
      BY <1>2, <2>1, <3>1 DEF Unsent
  <2>3. ASSUME NEW x \in Nat, NEW y \in Nat, y <= x + 1, Excused(d, x)
        PROVE  Excused(d, y)'
    <3>1. CASE x <= Unsent(d)
      BY <2>2, <2>3, <3>1 DEF Excused
    <3>2. CASE \E p \in net : p.from = d /\ x <= Window + p.age
      <4>1. PICK p \in net : p.from = d /\ x <= Window + p.age
        BY <3>2
      <4>2. Packet(p.from, p.ad, p.age + 1) \in net'
        BY DEF Tick
      <4>3. p \in [from : Others, ad : Ads, age : 0 .. MaxDelay]
        BY DEF IInv, Typed
      <4>4. \E q \in net' : q.from = d /\ q.age = p.age + 1
        BY <4>1, <4>2, <4>3 DEF Packet
      <4>5. \E q \in net' : q.from = d /\ y <= Window + q.age
        BY <2>3, <4>1, <4>3, <4>4, Constants
      <4> QED
        BY <4>5 DEF Excused
    <3> QED
      BY <2>3, <3>1, <3>2 DEF Excused
  <2>4. CASE Excused(d, upFor[d])
    BY <1>2, <2>3, <2>4
  <2>5. CASE Excused(d, heardFor)
    BY <1>3, <2>3, <2>5 DEF IInv, Typed
  <2>6. CASE \E e \in table[d] : Excused(d, e.age)
    <3>1. PICK e \in table[d] : Excused(d, e.age)
      BY <2>6
    <3>2. d \in Devices /\ e \in [ad : Ads, age : Nat]
      BY DEF IInv, Typed, Others
    <3>3. Entry(e.ad, e.age + 1) \in table'[d]
      BY <3>2 DEF Tick
    <3>4. PICK f \in table'[d] : f.age = e.age + 1
      BY <3>2, <3>3 DEF Entry
    <3> QED
      BY <2>3, <3>1, <3>2, <3>4
  <2> QED
    BY <2>1, <2>4, <2>5, <2>6 DEF IInv, Heard
<1> QED
  BY <1>1, <1>4, <1>7, <1>8, <1>9, <1>10, <1>11, <1>12 DEF IInv

-----------------------------------------------------------------------------
(* The devices.                                                            *)

(* One announcement of a device whose last one was due.                    *)
LEMMA SendsKeeps ==
  ASSUME IInv, NEW d \in Others, NEW a \in Ads, Sends(d, a),
         on' \in [Others -> BOOLEAN], \A c \in Others : c # d => on'[c] = on[c],
         ad' = [ad EXCEPT ![d] = a],
         UNCHANGED <<listening, sinceLoop, table, heardFor>>,
         \/ on[d] /\ a = ad[d] /\ upFor' = upFor
         \/ upFor' = [upFor EXCEPT ![d] = 0]
  PROVE  IInv'
<1>1. Typed
  BY DEF IInv
<1>2. /\ net \subseteq net'
      /\ \A p \in net' : p \in net \/ p = Packet(d, a, 0)
      /\ sinceSent' = [sinceSent EXCEPT ![d] = 0]
      /\ \/ Packet(d, a, 0) \in net' /\ lost' = [lost EXCEPT ![d] = 0]
         \/ lost[d] < MaxLost /\ lost' = [lost EXCEPT ![d] = @ + 1] /\ net' = net
  BY DEF Sends
<1>3. /\ Packet(d, a, 0) \in [from : Others, ad : Ads, age : 0 .. MaxDelay]
      /\ Packet(d, a, 0).from = d /\ Packet(d, a, 0).ad = a /\ Packet(d, a, 0).age = 0
  BY Constants DEF Packet
<1>4. lost' \in [Others -> 0 .. MaxLost]
  BY <1>1, <1>2, Constants DEF Typed
<1>5. \A p \in net : p.from \in Others /\ p.age \in 0 .. MaxDelay
  BY <1>1 DEF Typed
<1>6. \A c \in Others : sinceSent'[c] \in Nat /\ sinceSent'[c] <= sinceSent[c]
                        /\ upFor'[c] \in Nat /\ upFor'[c] <= upFor[c]
  BY <1>1, <1>2 DEF Typed
<1>7. Typed'
  <2>1. (net \subseteq [from : Others, ad : Ads, age : 0 .. MaxDelay])'
    BY <1>1, <1>2, <1>3 DEF Typed
  <2>2. sinceSent' \in [Others -> Nat] /\ upFor' \in [Others -> Nat] /\ ad' \in [Others -> Ads]
    BY <1>1, <1>2 DEF Typed
  <2> QED
    BY <1>1, <1>4, <2>1, <2>2 DEF Typed
<1>8. OnTime'
  BY <1>1, <1>2, Constants DEF IInv, OnTime, Typed
<1>9. PacketsRecent'
  BY <1>1, <1>2, <1>3, <1>5, <1>6 DEF IInv, PacketsRecent, Typed
<1>10. EntriesRecent'
  <2> SUFFICES ASSUME NEW c \in Devices, NEW e \in table[c]
               PROVE  /\ c \in Others /\ listening
                      /\ sinceSent'[c] <= e.age + MaxDelay /\ e.age <= Timeout + sinceLoop
    BY DEF EntriesRecent
  <2>1. /\ c \in Others /\ listening
        /\ sinceSent[c] <= e.age + MaxDelay /\ e.age <= Timeout + sinceLoop
    BY DEF IInv, EntriesRecent
  <2>2. e.age \in Nat /\ sinceSent[c] \in Nat
    BY <1>1, <2>1 DEF Typed
  <2> QED
    BY <1>6, <2>1, <2>2, Constants
<1>11. OneEntry'
  BY DEF IInv, OneEntry
<1>12. OldPackets'
  <2> SUFFICES ASSUME NEW q \in net', q.ad # ad'[q.from] PROVE upFor'[q.from] <= q.age
    BY DEF OldPackets
  <2>1. q \in net
    BY <1>1, <1>2, <1>3 DEF Typed
  <2>2. CASE q.from # d
    BY <1>1, <1>5, <2>1, <2>2 DEF IInv, OldPackets, Typed
  <2>3. CASE q.from = d /\ on[d] /\ a = ad[d] /\ upFor' = upFor
    BY <1>1, <2>1, <2>3 DEF IInv, OldPackets, Typed
  <2>4. CASE q.from = d /\ upFor' = [upFor EXCEPT ![d] = 0]
    BY <1>1, <1>5, <2>1, <2>4 DEF Typed
  <2> QED
    BY <2>2, <2>3, <2>4
<1>13. OldEntries'
  <2> SUFFICES ASSUME NEW c \in Others, NEW e \in table[c], e.ad # ad'[c]
               PROVE  upFor'[c] <= e.age + MaxDelay
    BY DEF OldEntries
  <2>1. e.age \in Nat /\ upFor[c] \in Nat
    BY <1>1 DEF Typed, Others
  <2>2. CASE c # d
    BY <1>1, <2>1, <2>2 DEF IInv, OldEntries, Typed
  <2>3. CASE c = d /\ on[d] /\ a = ad[d] /\ upFor' = upFor
    BY <1>1, <2>1, <2>3 DEF IInv, OldEntries, Typed
  <2>4. CASE c = d /\ upFor' = [upFor EXCEPT ![d] = 0]
    BY <1>1, <2>1, <2>4, Constants DEF Typed
  <2> QED
    BY <2>2, <2>3, <2>4
<1>14. Heard'
  <2> SUFFICES ASSUME NEW c \in Others, on'[c], listening
               PROVE  \/ Excused(c, upFor[c])'
                      \/ Excused(c, heardFor)'
                      \/ \E e \in table[c] : Excused(c, e.age)'
    BY DEF Heard
  <2>1. Unsent(c)' \in Nat
    <3>1. lost'[c] \in 0 .. MaxLost /\ sinceSent'[c] \in Nat
      BY <1>4, <1>6
    <3>2. lost'[c] * MaxPeriod \in Nat
      BY <3>1, Constants
    <3> QED
      BY <3>1, <3>2 DEF Unsent
  <2>2. CASE ~on[c] \/ (c = d /\ upFor' = [upFor EXCEPT ![d] = 0])
    <3>1. upFor'[c] = 0
      BY <1>1, <2>2 DEF Typed
    <3> QED
      BY <2>1, <3>1 DEF Excused
  <2>3. CASE on[c] /\ (c # d \/ (a = ad[d] /\ upFor' = upFor))
    <3>1. upFor'[c] = upFor[c]
      BY <1>1, <2>3 DEF Typed
    <3>2. ASSUME NEW x \in Nat, Excused(c, x) PROVE Excused(c, x)'
      <4>1. CASE \E p \in net : p.from = c /\ x <= Window + p.age
        BY <1>2, <4>1 DEF Excused
      <4>2. CASE x <= Unsent(c) /\ c # d
        BY <1>1, <1>2, <4>2 DEF Excused, Unsent, Typed
      <4>3. CASE x <= Unsent(c) /\ c = d /\ Packet(d, a, 0) \in net'
        <5>1. x <= Window
          BY <1>1, <2>3, <4>3, UnsentBounded, Constants DEF IInv
        <5> QED
          BY <1>3, <4>3, <5>1, Constants DEF Excused
      <4>4. CASE /\ x <= Unsent(c) /\ c = d
                 /\ lost[d] < MaxLost /\ lost' = [lost EXCEPT ![d] = @ + 1]
        <5>1. lost[d] \in 0 .. MaxLost /\ sinceSent[d] \in Nat /\ sinceSent[d] <= MaxPeriod
          BY <1>1, <2>3, <4>4 DEF IInv, OnTime, Typed
        <5>2. lost'[d] = lost[d] + 1 /\ sinceSent'[d] = 0
          BY <1>1, <1>2, <4>4 DEF Typed
        <5>3. /\ lost[d] * MaxPeriod \in Nat
              /\ (lost[d] + 1) * MaxPeriod = lost[d] * MaxPeriod + MaxPeriod
          BY <5>1, Constants
        <5>4. Unsent(d)' = lost[d] * MaxPeriod + MaxPeriod
          BY <5>2, <5>3, Constants DEF Unsent
        <5>5. Unsent(d) = lost[d] * MaxPeriod + sinceSent[d]
          BY DEF Unsent
        <5>6. x <= Unsent(d)'
          BY <4>4, <5>1, <5>3, <5>4, <5>5, Constants
        <5> QED
          BY <4>4, <5>6 DEF Excused
      <4> QED
        BY <1>2, <3>2, <4>1, <4>2, <4>3, <4>4 DEF Excused
    <3>3. upFor[c] \in Nat /\ heardFor \in Nat /\ \A e \in table[c] : e.age \in Nat
      BY <1>1 DEF Typed, Others
    <3>4. CASE Excused(c, upFor[c])
      BY <3>1, <3>2, <3>3, <3>4
    <3>5. CASE Excused(c, heardFor)
      BY <3>2, <3>3, <3>5
    <3>6. CASE \E e \in table[c] : Excused(c, e.age)
      BY <3>2, <3>3, <3>6
    <3> QED
      BY <2>3, <3>4, <3>5, <3>6 DEF IInv, Heard
  <2> QED
    BY <1>1, <2>2, <2>3 DEF Typed
<1> QED
  BY <1>7, <1>8, <1>9, <1>10, <1>11, <1>12, <1>13, <1>14 DEF IInv

LEMMA AppearKeeps == ASSUME IInv, NEW d \in Others, NEW a \in Ads, Appear(d, a) PROVE IInv'
<1>1. on' \in [Others -> BOOLEAN] /\ \A c \in Others : c # d => on'[c] = on[c]
  BY DEF Appear, IInv, Typed
<1> QED
  BY <1>1, SendsKeeps DEF Appear

LEMMA AnnounceKeeps == ASSUME IInv, NEW d \in Others, Announce(d) PROVE IInv'
<1>1. on' \in [Others -> BOOLEAN] /\ ad[d] \in Ads /\ ad' = [ad EXCEPT ![d] = ad[d]]
  BY DEF Announce, IInv, Typed
<1> QED
  BY <1>1, SendsKeeps DEF Announce

LEMMA VanishKeeps == ASSUME IInv, NEW d \in Others, Vanish(d) PROVE IInv'
<1> USE DEF IInv, Vanish
<1>1. Typed' /\ \A c \in Others : on'[c] => on[c]
  BY DEF Typed
<1>2. OnTime' /\ PacketsRecent' /\ EntriesRecent' /\ OneEntry' /\ OldPackets' /\ OldEntries'
  BY <1>1 DEF OnTime, PacketsRecent, EntriesRecent, OneEntry, OldPackets, OldEntries
<1>3. Heard'
  <2> SUFFICES ASSUME NEW c \in Others, on'[c], listening
               PROVE  \/ Excused(c, upFor[c])'
                      \/ Excused(c, heardFor)'
                      \/ \E e \in table[c] : Excused(c, e.age)'
    BY DEF Heard
  <2>1. \A x : Excused(c, x) => Excused(c, x)'
    BY DEF Excused, Unsent
  <2> QED
    BY <1>1, <2>1 DEF Heard
<1> QED
  BY <1>1, <1>2, <1>3

-----------------------------------------------------------------------------
(* The listener.                                                           *)

devices == <<on, ad, sinceSent, lost, upFor>>

(* A turn of the loop, which hears p or, as p is its own, nothing.         *)
LEMMA TurnKeeps ==
  ASSUME IInv, listening, listening', NEW t,
         sinceLoop' = 0, table' = Pruned(t), UNCHANGED <<devices, heardFor>>,
         \/ t = table /\ net' = net
         \/ \E p \in net : /\ t = Upserted(p)
                           /\ net' = net \/ net' = net \ {p}
         \/ \E a \in Ads : t = Upserted(Packet(Own, a, 0)) /\ net' = net
  PROVE  IInv'
<1>0. Typed /\ Own \in Devices /\ Own \notin Others
  BY DeviceAssumption DEF IInv, Others
<1>1. /\ t \in [Devices -> SUBSET [ad : Ads, age : Nat]] /\ net' \subseteq net
      /\ \A d \in Devices :
           \/ t[d] = table[d] /\ \A q \in net : q.from = d => q \in net'
           \/ /\ d \in Others
              /\ \E p \in net : p.from = d /\ t[d] = {Entry(p.ad, 0)}
  <2>1. CASE t = table /\ net' = net
    BY <1>0, <2>1 DEF Typed
  <2>2. CASE \E p \in net : t = Upserted(p) /\ (net' = net \/ net' = net \ {p})
    <3>1. PICK p \in net : t = Upserted(p) /\ (net' = net \/ net' = net \ {p})
      BY <2>2
    <3>2. p \in [from : Others, ad : Ads, age : 0 .. MaxDelay]
      BY <1>0 DEF Typed
    <3>3. p \in [from : Devices, ad : Ads, age : 0 .. MaxDelay] /\ p.from \in Others
      BY <3>2 DEF Others
    <3>4. /\ t \in [Devices -> SUBSET [ad : Ads, age : Nat]]
          /\ t[p.from] = {Entry(p.ad, 0)}
          /\ \A d \in Devices : d # p.from => t[d] = table[d]
      BY <1>0, <3>1, <3>3, UpsertedIs
    <3> QED
      BY <3>1, <3>3, <3>4
  <2>3. CASE \E a \in Ads : t = Upserted(Packet(Own, a, 0)) /\ net' = net
    <3>1. PICK a \in Ads : t = Upserted(Packet(Own, a, 0)) /\ net' = net
      BY <2>3
    <3>2. Packet(Own, a, 0) \in [from : Devices, ad : Ads, age : 0 .. MaxDelay]
          /\ Packet(Own, a, 0).from = Own
      BY <1>0, Constants DEF Packet
    <3> QED
      BY <1>0, <3>1, <3>2, UpsertedIs
  <2> QED
    BY <2>1, <2>2, <2>3
<1>2. /\ table' \in [Devices -> SUBSET [ad : Ads, age : Nat]]
      /\ \A d \in Devices : \A e : e \in table'[d] <=> e \in t[d] /\ e.age <= Timeout
  BY <1>1, PrunedKeeps
<1>3. ASSUME NEW d \in Devices, NEW e \in table'[d]
      PROVE  /\ e.age \in Nat /\ e.age <= Timeout
             /\ \/ e \in table[d]
                \/ d \in Others /\ \E p \in net : p.from = d /\ e.ad = p.ad /\ e.age = 0
  BY <1>1, <1>2 DEF Entry
<1>4. \A d \in Others : d \in Devices /\ sinceSent[d] \in Nat /\ upFor[d] \in Nat
  BY <1>0 DEF Typed, Others
<1>5. \A p \in net : p.from \in Others /\ p.age \in 0 .. MaxDelay
  BY <1>0 DEF Typed
<1>6. Typed' /\ OnTime' /\ PacketsRecent' /\ OldPackets'
  BY <1>0, <1>1, <1>2, Constants
  DEF IInv, Typed, OnTime, PacketsRecent, OldPackets, devices
<1>7. EntriesRecent'
  <2> SUFFICES ASSUME NEW d \in Devices, NEW e \in table'[d]
               PROVE  /\ d \in Others /\ listening'
                      /\ sinceSent'[d] <= e.age + MaxDelay /\ e.age <= Timeout + sinceLoop'
    BY DEF EntriesRecent
  <2>1. CASE e \in table[d]
    BY <1>3, <2>1, Constants DEF IInv, EntriesRecent, devices
  <2>2. CASE d \in Others /\ \E p \in net : p.from = d /\ e.ad = p.ad /\ e.age = 0
    <3>1. sinceSent[d] <= MaxDelay
      BY <1>4, <1>5, <2>2, Constants DEF IInv, PacketsRecent
    <3> QED
      BY <1>3, <2>2, <3>1, Constants DEF devices
  <2> QED
    BY <1>3, <2>1, <2>2
<1>8. OneEntry'
  BY <1>1, <1>2 DEF IInv, OneEntry
<1>9. OldEntries'
  <2> SUFFICES ASSUME NEW d \in Others, NEW e \in table'[d], e.ad # ad'[d]
               PROVE  upFor'[d] <= e.age + MaxDelay
    BY DEF OldEntries
  <2>1. CASE e \in table[d]
    BY <2>1 DEF IInv, OldEntries, devices
  <2>2. CASE \E p \in net : p.from = d /\ e.ad = p.ad /\ e.age = 0
    BY <1>4, <1>5, <2>2, Constants DEF IInv, OldPackets, devices
  <2> QED
    BY <1>3, <1>4, <2>1, <2>2
<1>10. Heard'
  <2> SUFFICES ASSUME NEW d \in Others, on[d]
               PROVE  \/ Excused(d, upFor[d])'
                      \/ Excused(d, heardFor)'
                      \/ \E e \in table'[d] : Excused(d, e.age)'
    BY DEF Heard, devices
  <2>1. d \in Devices /\ Unsent(d)' = Unsent(d) /\ Unsent(d) \in Nat
    BY <1>0, <1>4, UnsentBounded DEF IInv, Unsent, devices
  <2>2. CASE t[d] = table[d] /\ \A q \in net : q.from = d => q \in net'
    <3>1. ASSUME NEW x \in Nat, Excused(d, x) PROVE Excused(d, x)'
      BY <2>1, <2>2, <3>1 DEF Excused
    <3>2. upFor[d] \in Nat /\ heardFor \in Nat /\ upFor' = upFor /\ heardFor' = heardFor
      BY <1>0, <1>4 DEF Typed, devices
    <3>3. CASE Excused(d, upFor[d])
      BY <3>1, <3>2, <3>3
    <3>4. CASE Excused(d, heardFor)
      BY <3>1, <3>2, <3>4
    <3>5. CASE \E e \in table[d] : Excused(d, e.age)
      <4>1. PICK e \in table[d] : Excused(d, e.age)
        BY <3>5
      <4>2. e.age \in Nat
        BY <1>0, <2>1 DEF Typed
      <4>3. e.age <= Timeout
        BY <1>0, <4>1, <4>2, ExcusedBounded, Constants DEF IInv
      <4> QED
        BY <1>2, <2>1, <2>2, <3>1, <4>1, <4>2, <4>3
    <3> QED
      BY <3>3, <3>4, <3>5 DEF IInv, Heard
  <2>3. CASE \E p \in net : p.from = d /\ t[d] = {Entry(p.ad, 0)}
    <3>1. PICK p \in net : t[d] = {Entry(p.ad, 0)}
      BY <2>3
    <3>2. Entry(p.ad, 0).age = 0 /\ Entry(p.ad, 0) \in table'[d]
      BY <1>2, <2>1, <3>1, Constants DEF Entry
    <3>3. Excused(d, 0)'
      BY <2>1 DEF Excused
    <3> QED
      BY <3>2, <3>3
  <2> QED
    BY <1>1, <2>1, <2>2, <2>3
<1> QED
  BY <1>6, <1>7, <1>8, <1>9, <1>10 DEF IInv

LEMMA HearKeeps == ASSUME IInv, NEW p \in net, Hear(p) PROVE IInv'
<1>1. listening /\ listening' /\ sinceLoop' = 0 /\ table' = Pruned(Upserted(p))
      /\ UNCHANGED <<devices, heardFor>> /\ (net' = net \/ net' = net \ {p})
  BY DEF Hear, devices
<1> QED
  BY <1>1, TurnKeeps

LEMMA HearOwnKeeps == ASSUME IInv, NEW a \in Ads, HearOwn(a) PROVE IInv'
<1>1. listening /\ listening' /\ sinceLoop' = 0 /\ net' = net
      /\ table' = Pruned(Upserted(Packet(Own, a, 0))) /\ UNCHANGED <<devices, heardFor>>
  BY DEF HearOwn, devices
<1> QED
  BY <1>1, TurnKeeps

LEMMA HearNothingKeeps == ASSUME IInv, HearNothing PROVE IInv'
<1>1. listening /\ listening' /\ sinceLoop' = 0 /\ net' = net
      /\ table' = Pruned(table) /\ UNCHANGED <<devices, heardFor>>
  BY DEF HearNothing, devices
<1> QED
  BY <1>1, TurnKeeps

LEMMA StartListeningKeeps == IInv /\ StartListening => IInv'
<1> SUFFICES ASSUME IInv, StartListening PROVE IInv'
  OBVIOUS
<1>1. Typed' /\ OnTime' /\ PacketsRecent' /\ OldPackets'
  BY Constants DEF IInv, StartListening, Typed, OnTime, PacketsRecent, OldPackets
<1>2. EntriesRecent' /\ OneEntry' /\ OldEntries'
  BY DEF StartListening, EntriesRecent, OneEntry, OldEntries, Others
<1>3. ASSUME NEW d \in Others PROVE Excused(d, heardFor)'
  <2>1. heardFor' = 0 /\ Unsent(d)' = Unsent(d) /\ Unsent(d) \in Nat
    BY UnsentBounded DEF IInv, StartListening, Unsent
  <2> QED
    BY <2>1 DEF Excused
<1> QED
  BY <1>1, <1>2, <1>3 DEF IInv, Heard

LEMMA StopListeningKeeps == IInv /\ StopListening => IInv'
BY DEF IInv, StopListening, Typed, OnTime, PacketsRecent, OldPackets, EntriesRecent,
       OneEntry, OldEntries, Heard, Others

LEMMA UnheardKeeps == ASSUME IInv, NEW p \in net, Unheard(p) PROVE IInv'
BY DEF IInv, Unheard, Typed, OnTime, PacketsRecent, OldPackets, EntriesRecent,
       OneEntry, OldEntries, Heard

-----------------------------------------------------------------------------
(* The invariant and what follows from it.                                 *)

LEMMA InitEstablishes == Init => IInv
<1> SUFFICES ASSUME Init PROVE IInv
  OBVIOUS
<1>1. Typed
  <2>1. Silence + 1 \in Nat /\ 0 \in 0 .. MaxLost /\ 0 \in 0 .. Poll
    BY Constants DEF Silence
  <2>2. sinceSent \in [Others -> Nat] /\ lost \in [Others -> 0 .. MaxLost]
    BY <2>1 DEF Init
  <2>3. on \in [Others -> BOOLEAN] /\ upFor \in [Others -> Nat]
        /\ table \in [Devices -> SUBSET [ad : Ads, age : Nat]]
    BY DEF Init
  <2> QED
    BY <2>1, <2>2, <2>3 DEF Init, Typed
<1>2. OnTime /\ PacketsRecent /\ EntriesRecent /\ OneEntry /\ OldPackets /\ OldEntries /\ Heard
  BY DEF Init, OnTime, PacketsRecent, EntriesRecent, OneEntry, OldPackets, OldEntries, Heard, Others
<1> QED
  BY <1>1, <1>2 DEF IInv

LEMMA StepKeeps == IInv /\ [Next]_vars => IInv'
<1> SUFFICES ASSUME IInv, [Next]_vars PROVE IInv'
  OBVIOUS
<1>1. CASE \E d \in Others : Announce(d)
  BY <1>1, AnnounceKeeps
<1>2. CASE \E d \in Others : Vanish(d)
  BY <1>2, VanishKeeps
<1>3. CASE \E d \in Others : \E a \in Ads : Appear(d, a)
  BY <1>3, AppearKeeps
<1>4. CASE \E p \in net : Hear(p)
  BY <1>4, HearKeeps
<1>5. CASE \E p \in net : Unheard(p)
  BY <1>5, UnheardKeeps
<1>6. CASE \E a \in Ads : HearOwn(a)
  BY <1>6, HearOwnKeeps
<1>7. CASE HearNothing
  BY <1>7, HearNothingKeeps
<1>8. CASE StartListening
  BY <1>8, StartListeningKeeps
<1>9. CASE StopListening
  BY <1>9, StopListeningKeeps
<1>10. CASE Tick
  BY <1>10, TickKeeps
<1>11. CASE UNCHANGED vars
  BY <1>11 DEF IInv, vars, Typed, OnTime, PacketsRecent, OldPackets, EntriesRecent,
               OneEntry, OldEntries, Heard, Excused, Unsent
<1> QED
  BY <1>1, <1>2, <1>3, <1>4, <1>5, <1>6, <1>7, <1>8, <1>9, <1>10, <1>11 DEF Next

(* No step of an announcer, the network, the listener or the clock breaks  *)
(* the invariant (announcer.cpp, listener.cpp, peer_table.cpp).            *)
THEOREM Inductive == Spec => []IInv
BY InitEstablishes, StepKeeps, PTL DEF Spec

(* For every timing: a device that fell silent leaves the list within the  *)
(* timeout, a turn of the loop and a packet's travel, and the machine      *)
(* itself is never on it (listener.cpp:55,68).                             *)
THEOREM GhostsLeave == Spec => []NoGhosts
<1>1. IInv => NoGhosts
  <2> SUFFICES ASSUME IInv, NEW d \in Devices, NEW e \in table[d]
               PROVE  d # Own /\ sinceSent[d] <= Silence
    BY DEF NoGhosts, Listed
  <2>1. /\ d \in Others /\ sinceSent[d] <= e.age + MaxDelay
        /\ e.age <= Timeout + sinceLoop
    BY DEF IInv, EntriesRecent
  <2>2. e.age \in Nat /\ sinceSent[d] \in Nat /\ sinceLoop \in 0 .. Poll
    BY <2>1 DEF IInv, Typed
  <2> QED
    BY <2>1, <2>2, Constants DEF Others, Silence
<1> QED
  BY <1>1, Inductive, PTL

(* For every timing whose losses in a row the timeout outlasts: after the  *)
(* settling time a device that announces itself is on the list without a   *)
(* gap, as what it is now (peer_table.cpp:5-16).                           *)
THEOREM StaysCurrent == Spec => []Current
<1>1. IInv => Current
  <2> SUFFICES ASSUME IInv, NEW d \in Others, on[d], listening,
                      upFor[d] > Settling, heardFor > Settling
               PROVE  Listed(d) /\ \A e \in table[d] : e.ad = ad[d]
    BY DEF Current
  <2>1. upFor[d] \in Nat /\ heardFor \in Nat /\ d \in Devices
    BY DEF IInv, Typed, Others
  <2>2. ~Excused(d, upFor[d]) /\ ~Excused(d, heardFor)
    BY <2>1, ExcusedBounded, Constants DEF IInv
  <2>3. PICK e \in table[d] : Excused(d, e.age)
    BY <2>2 DEF IInv, Heard
  <2>4. e.age \in Nat
    BY <2>1 DEF IInv, Typed
  <2>5. e.age <= Window + MaxDelay
    BY <2>3, <2>4, ExcusedBounded DEF IInv
  <2>6. e.ad = ad[d]
    BY <2>1, <2>4, <2>5, Constants DEF IInv, OldEntries
  <2> QED
    BY <2>1, <2>6 DEF IInv, OneEntry, Listed
<1> QED
  BY <1>1, Inductive, PTL
=============================================================================
