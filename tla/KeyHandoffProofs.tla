--------------------------- MODULE KeyHandoffProofs ---------------------------
(***************************************************************************)
(* For any keyboard, any escape combination and any number of sessions:    *)
(* what the Master's OS believes to be down has not been let go, and what  *)
(* is down on the Slave is held, or known to be left there.                *)
(***************************************************************************)
EXTENDS KeyHandoff, FiniteSetTheorems, SequenceTheorems, TLAPS

Event == [key : Keys, down : BOOLEAN]

Typed == pendingKeys \in Seq(Event) /\ held \subseteq Keys

(* A hook that is not there has given the input back.                      *)
Unhooked == ~hooked => mine

(* What the OS believes in while the Master has the input is known to the  *)
(* pump, or about to be: crossing out tells the OS to forget it.           *)
HomeHeld == hooked /\ mine => osDown \cap Keys \subseteq HeldAfter \cup early

(* While a Slave has it, nothing the hook saw is left.                     *)
AwayForgotten == hooked /\ ~mine => osDown \cap Keys \subseteq early

IInv == Typed /\ Unhooked /\ HomeHeld /\ AwayForgotten /\ NoGhostKeys

-----------------------------------------------------------------------------
(* held over one more event, and over none.                                *)

LEMMA HeldKeys == ASSUME Typed PROVE HeldAfter \subseteq Keys
<1>1. \A i \in DOMAIN pendingKeys : pendingKeys[i] \in Event
  BY DEF Typed
<1> QED
  BY <1>1 DEF Typed, Event, HeldAfter

LEMMA EventAdded ==
  ASSUME Typed, NEW k \in Keys, NEW down \in BOOLEAN, UNCHANGED held,
         pendingKeys' = Append(pendingKeys, [key |-> k, down |-> down])
  PROVE  /\ pendingKeys' \in Seq(Event)
         /\ HeldAfter \ {k} \subseteq HeldAfter'
         /\ down => k \in HeldAfter'
<1> USE DEF Typed
<1> DEFINE e == [key |-> k, down |-> down]
<1>1. e \in Event /\ e.key = k /\ e.down = down
  BY DEF Event
<1>2. /\ Len(pendingKeys) \in Nat /\ DOMAIN pendingKeys = 1 .. Len(pendingKeys)
      /\ DOMAIN pendingKeys' = 1 .. Len(pendingKeys) + 1
      /\ pendingKeys'[Len(pendingKeys) + 1] = e
      /\ \A i \in DOMAIN pendingKeys : pendingKeys'[i] = pendingKeys[i]
      /\ pendingKeys' \in Seq(Event)
  BY <1>1
<1> HIDE DEF e
<1>3. ASSUME NEW x \in HeldAfter \ {k} PROVE x \in HeldAfter'
  <2>1. CASE x \in held /\ Untouched(x)
    <3>1. Untouched(x)'
      BY <1>1, <1>2, <1>3, <2>1 DEF Untouched
    <3> QED
      BY <2>1, <3>1 DEF HeldAfter
  <2>2. ASSUME NEW i \in DOMAIN pendingKeys, x = pendingKeys[i].key,
               pendingKeys[i].down, LastOf(i)
        PROVE  x \in HeldAfter'
    <3>1. i \in DOMAIN pendingKeys' /\ pendingKeys'[i] = pendingKeys[i]
      BY <1>2
    <3>2. \A j \in DOMAIN pendingKeys' : j > i => pendingKeys'[j].key # pendingKeys'[i].key
      BY <1>1, <1>2, <1>3, <2>2, <3>1 DEF LastOf
    <3> QED
      BY <2>2, <3>1, <3>2 DEF HeldAfter, LastOf
  <2> QED
    BY <1>3, <2>1, <2>2 DEF HeldAfter
<1>4. ASSUME down PROVE k \in HeldAfter'
  <2> DEFINE n == Len(pendingKeys) + 1
  <2>1. n \in DOMAIN pendingKeys' /\ pendingKeys'[n].key = k /\ pendingKeys'[n].down
    BY <1>1, <1>2, <1>4
  <2>2. \A j \in DOMAIN pendingKeys' : ~(j > n)
    BY <1>2
  <2> HIDE DEF n
  <2> QED
    BY <1>4, <2>1, <2>2 DEF HeldAfter, LastOf
<1> QED
  BY <1>2, <1>3, <1>4

LEMMA FramePolled == ASSUME Typed, PollKeys PROVE Typed' /\ HeldAfter' = HeldAfter
BY HeldKeys DEF PollKeys, Typed, HeldAfter, Untouched

LEMMA HeldStill == ASSUME UNCHANGED <<held, pendingKeys>> PROVE HeldAfter' = HeldAfter
BY DEF HeldAfter, LastOf, Untouched

-----------------------------------------------------------------------------
(* The fingers.                                                            *)

(* What the hook queues of a key or a button.                              *)
LEMMA QueueDoes ==
  ASSUME Typed, NEW k \in Inputs, NEW down \in BOOLEAN, Queue(k, down), hooked,
         UNCHANGED held
  PROVE  /\ pendingKeys' \in Seq(Event)
         /\ HeldAfter \ {k} \subseteq HeldAfter'
         /\ down /\ k \in Keys => k \in HeldAfter'
<1>1. CASE k \in Keys
  <2>1. pendingKeys' = Append(pendingKeys, [key |-> k, down |-> down])
    BY <1>1 DEF Queue
  <2> QED
    BY <1>1, <2>1, EventAdded
<1>2. CASE k \notin Keys
  <2>1. UNCHANGED pendingKeys
    BY <1>2 DEF Queue
  <2> QED
    BY <1>2, <2>1, HeldStill DEF Typed
<1> QED
  BY <1>1, <1>2

LEMMA PressKeeps == ASSUME IInv, NEW k \in Inputs, Press(k) PROVE IInv'
<1> USE DEF IInv
<1>1. UNCHANGED <<held, hooked, mine, early>>
  BY DEF Press, hands, history
<1>2. NoGhostKeys' /\ AwayForgotten'
  BY <1>1 DEF Press, NoGhostKeys, AwayForgotten, Suppressed
<1>3. CASE hooked
  <2>1. pendingKeys' \in Seq(Event) /\ HeldAfter \ {k} \subseteq HeldAfter'
        /\ (k \in Keys => k \in HeldAfter')
    BY <1>1, <1>3, QueueDoes DEF Press
  <2>2. osDown' \subseteq osDown \cup {k}
    BY DEF Press
  <2> QED
    BY <1>1, <1>2, <2>1, <2>2 DEF Typed, Unhooked, HomeHeld
<1>4. CASE ~hooked
  BY <1>1, <1>2, <1>4 DEF Press, Queue, pending, Typed, Unhooked, HomeHeld
<1> QED
  BY <1>3, <1>4

LEMMA ReleaseKeeps == ASSUME IInv, NEW k \in Inputs, Release(k) PROVE IInv'
<1> USE DEF IInv
<1>1. UNCHANGED <<held, hooked, mine, early>>
  BY DEF Release, hands, history
<1>2. NoGhostKeys' /\ AwayForgotten'
  BY <1>1 DEF Release, NoGhostKeys, AwayForgotten, Suppressed
<1>3. CASE hooked
  <2>1. pendingKeys' \in Seq(Event) /\ HeldAfter \ {k} \subseteq HeldAfter'
    BY <1>1, <1>3, QueueDoes DEF Release
  <2>2. mine => osDown' \subseteq osDown \ {k}
    BY DEF Release, Suppressed
  <2> QED
    BY <1>1, <1>2, <2>1, <2>2 DEF Typed, Unhooked, HomeHeld
<1>4. CASE ~hooked
  BY <1>1, <1>2, <1>4 DEF Release, Queue, pending, Typed, Unhooked, HomeHeld
<1> QED
  BY <1>3, <1>4

-----------------------------------------------------------------------------
(* A frame that polls the hook leaves the input where it is, or gives it   *)
(* back; only CrossOut gives it away.                                      *)

LEMMA PolledKeeps ==
  ASSUME IInv, PollKeys, mine' \in {mine, TRUE},
         UNCHANGED <<phys, osDown, hooked, early>>
  PROVE  IInv'
<1> USE DEF IInv
<1>1. Typed' /\ HeldAfter' = HeldAfter
  BY FramePolled
<1> QED
  BY <1>1 DEF Unhooked, HomeHeld, AwayForgotten, NoGhostKeys

LEMMA CrossOutKeeps == ASSUME IInv, CrossOut PROVE IInv'
<1> USE DEF IInv
<1>1. Typed'
  BY FramePolled DEF CrossOut
<1>2. UNCHANGED <<phys, hooked, early>> /\ hooked /\ mine /\ ~mine'
      /\ osDown' = osDown \ HeldAfter
  BY DEF CrossOut, Running, ForgottenLocally, history
<1> QED
  BY <1>1, <1>2 DEF Unhooked, HomeHeld, AwayForgotten, NoGhostKeys

LEMMA InstallKeeps == ASSUME IInv, Install PROVE IInv'
<1> USE DEF IInv
<1>1. osDown' = osDown /\ osDown \cap Keys \subseteq early' /\ early \subseteq early'
  BY DEF Install, NoGhostKeys
<1> QED
  BY <1>1, HeldStill DEF Install, pending, Typed, Unhooked, HomeHeld, AwayForgotten, NoGhostKeys

(* What touches neither the keyboard nor the hook.                         *)
LEMMA StillKeeps ==
  ASSUME IInv, mine' \in {mine, TRUE},
         UNCHANGED <<phys, osDown, pendingKeys, held, hooked, early>>
  PROVE  IInv'
<1> USE DEF IInv
<1>1. HeldAfter' = HeldAfter
  BY HeldStill
<1> QED
  BY <1>1 DEF Typed, Unhooked, HomeHeld, AwayForgotten, NoGhostKeys

LEMMA StepKeeps == IInv /\ [Next]_vars => IInv'
<1> SUFFICES ASSUME IInv, [Next]_vars PROVE IInv'
  OBVIOUS
<1>1. CASE LinkUp \/ LinkDrops \/ SlaveReads \/ ReturnInTheDark \/ UNCHANGED vars
  BY <1>1, StillKeeps DEF LinkUp, LinkDrops, SlaveReads, ReturnInTheDark, vars, pending, hands, history
<1>2. CASE Deactivate
  BY <1>2 DEF Deactivate, pending, history, IInv, Typed, Unhooked, HomeHeld, AwayForgotten, NoGhostKeys
<1>3. CASE Escape \/ StayHome \/ StayAway \/ CrossBack
  BY <1>3, PolledKeeps DEF Escape, StayHome, StayAway, CrossBack, hands, history
<1> QED
  BY <1>1, <1>2, <1>3, PressKeeps, ReleaseKeeps, InstallKeeps, CrossOutKeeps DEF Next

-----------------------------------------------------------------------------
(* Whoever owned the input when a key was let go, and however the sessions *)
(* came and went: the Master's OS does not believe in it any more, unless  *)
(* it was down before the hook was there (input_pump.cpp:61-90).           *)
THEOREM NoGhosts == Spec => []NoGhostKeys
<1>1. Init => IInv
  BY DEF Init, IInv, Typed, Unhooked, HomeHeld, AwayForgotten, NoGhostKeys
<1>2. IInv => NoGhostKeys
  BY DEF IInv
<1> QED
  BY <1>1, <1>2, StepKeeps, PTL DEF Spec
-----------------------------------------------------------------------------
(* The Slave.  What decides whether a key will be down there once          *)
(* everything under way has been read is the last message about it.        *)
Loose == Keys \ Twins

Sets(m, k) == (m.t = "key" /\ m.key = k) \/ (m.t = "sync" /\ k \in Mods)
Presses(m, k) == (m.t = "key" /\ m.key = k /\ m.down) \/ (m.t = "sync" /\ k \in Mods /\ k \in m.mask)

Silent(w, k) == \A i \in DOMAIN w : ~Sets(w[i], k)
Down(w, k) ==
  \E i \in DOMAIN w : Presses(w[i], k) /\ \A j \in DOMAIN w : j > i => ~Sets(w[j], k)

Will(k) == Down(wire, k) \/ (k \in injected /\ Silent(wire, k))

LEMMA Concatenated ==
  ASSUME NEW S, NEW u \in Seq(S), NEW v \in Seq(S), NEW k
  PROVE  /\ Silent(u \o v, k) => Silent(u, k) /\ Silent(v, k)
         /\ Down(u \o v, k) => Down(v, k) \/ (Down(u, k) /\ Silent(v, k))
<1> DEFINE w == u \o v
           n == Len(u)
<1>1. /\ n \in Nat /\ Len(v) \in Nat
      /\ DOMAIN u = 1 .. n /\ DOMAIN v = 1 .. Len(v) /\ DOMAIN w = 1 .. n + Len(v)
      /\ \A i \in DOMAIN u : w[i] = u[i]
      /\ \A i \in DOMAIN v : w[n + i] = v[i]
  BY ConcatProperties
<1> HIDE DEF w, n
<1>2. ASSUME Silent(w, k) PROVE Silent(u, k) /\ Silent(v, k)
  <2>1. ASSUME NEW i \in DOMAIN u PROVE ~Sets(u[i], k)
    BY <1>1, <1>2 DEF Silent
  <2>2. ASSUME NEW i \in DOMAIN v PROVE ~Sets(v[i], k)
    <3>1. n + i \in DOMAIN w /\ w[n + i] = v[i]
      BY <1>1
    <3> QED
      BY <1>2, <3>1 DEF Silent
  <2> QED
    BY <2>1, <2>2 DEF Silent
<1>3. ASSUME Down(w, k) PROVE Down(v, k) \/ (Down(u, k) /\ Silent(v, k))
  <2>1. PICK i \in DOMAIN w : Presses(w[i], k) /\ \A j \in DOMAIN w : j > i => ~Sets(w[j], k)
    BY <1>3 DEF Down
  <2>2. CASE i > n
    <3>1. i - n \in DOMAIN v /\ w[i] = v[i - n]
      BY <1>1, <2>2
    <3>2. ASSUME NEW j \in DOMAIN v, j > i - n PROVE ~Sets(v[j], k)
      <4>1. n + j \in DOMAIN w /\ n + j > i /\ w[n + j] = v[j]
        BY <1>1, <2>2, <3>2
      <4> QED
        BY <2>1, <4>1
    <3> QED
      BY <2>1, <3>1, <3>2 DEF Down
  <2>3. CASE i <= n
    <3>1. i \in DOMAIN u /\ w[i] = u[i]
      BY <1>1, <2>3
    <3>2. ASSUME NEW j \in DOMAIN u, j > i PROVE ~Sets(u[j], k)
      <4>1. j \in DOMAIN w /\ w[j] = u[j]
        BY <1>1
      <4> QED
        BY <2>1, <3>2, <4>1
    <3>3. ASSUME NEW j \in DOMAIN v PROVE ~Sets(v[j], k)
      <4>1. n + j \in DOMAIN w /\ n + j > i /\ w[n + j] = v[j]
        BY <1>1, <2>3
      <4> QED
        BY <2>1, <4>1
    <3> QED
      BY <2>1, <3>1, <3>2, <3>3 DEF Down, Silent
  <2> QED
    BY <1>1, <2>2, <2>3
<1> QED
  BY <1>2, <1>3 DEF w

(* What is sent decides, and where it says nothing, what was sent before.  *)
LEMMA SentLast ==
  ASSUME wire \in Seq(Messages), NEW v \in Seq(Messages), wire' = wire \o v,
         injected' = injected, NEW k
  PROVE  Will(k)' => Down(v, k) \/ (Will(k) /\ Silent(v, k))
<1>1. /\ Silent(wire', k) => Silent(wire, k) /\ Silent(v, k)
      /\ Down(wire', k) => Down(v, k) \/ (Down(wire, k) /\ Silent(v, k))
  BY Concatenated
<1> QED
  BY <1>1 DEF Will, Down, Silent

(* The message that is read, and the others.                               *)
LEMMA ReadFirst ==
  ASSUME wire \in Seq(Messages), wire # <<>>, wire' = Tail(wire), NEW k,
         k \in injected' => Presses(Head(wire), k) \/ (k \in injected /\ ~Sets(Head(wire), k))
  PROVE  Will(k)' => Will(k)
<1>1. /\ Len(wire) \in Nat \ {0} /\ DOMAIN wire = 1 .. Len(wire)
      /\ DOMAIN wire' = 1 .. Len(wire) - 1
      /\ \A i \in DOMAIN wire' : wire'[i] = wire[i + 1]
      /\ Head(wire) = wire[1]
  BY HeadTailProperties
<1>2. \A j \in DOMAIN wire : j > 1 => j - 1 \in DOMAIN wire' /\ wire'[j - 1] = wire[j]
  BY <1>1
<1>3. ASSUME Down(wire, k)' PROVE Down(wire, k)
  <2>1. PICK i \in DOMAIN wire' :
          Presses(wire'[i], k) /\ \A j \in DOMAIN wire' : j > i => ~Sets(wire'[j], k)
    BY <1>3 DEF Down, Presses, Sets
  <2>2. i + 1 \in DOMAIN wire /\ wire[i + 1] = wire'[i]
    BY <1>1
  <2>3. ASSUME NEW j \in DOMAIN wire, j > i + 1 PROVE ~Sets(wire[j], k)
    <3>1. j - 1 \in DOMAIN wire' /\ j - 1 > i /\ wire'[j - 1] = wire[j]
      BY <1>1, <1>2, <2>3
    <3> QED
      BY <2>1, <3>1
  <2> QED
    BY <2>1, <2>2, <2>3 DEF Down
<1>4. ASSUME Silent(wire, k)' PROVE \A j \in DOMAIN wire : j > 1 => ~Sets(wire[j], k)
  BY <1>2, <1>4 DEF Silent, Sets
<1>5. ASSUME Silent(wire, k)', Presses(Head(wire), k) PROVE Down(wire, k)
  BY <1>1, <1>4, <1>5 DEF Down
<1>6. ASSUME Silent(wire, k)', ~Sets(Head(wire), k) PROVE Silent(wire, k)
  <2>1. \A j \in DOMAIN wire : j = 1 \/ j > 1
    BY <1>1
  <2> QED
    BY <1>1, <1>4, <1>6, <2>1 DEF Silent
<1> QED
  BY <1>3, <1>5, <1>6 DEF Will
-----------------------------------------------------------------------------
(* What the pump sends.                                                    *)
LEMMA EachOnce ==
  ASSUME NEW S, IsFiniteSet(S)
  PROVE  SetToSeq(S) \in Seq(S) /\ \A x \in S : \E i \in DOMAIN SetToSeq(S) : SetToSeq(S)[i] = x
<1> DEFINE n == Cardinality(S)
           f == SetToSeq(S)
<1>1. n \in Nat /\ ExistsBijection(1 .. n, S)
  BY FS_CardinalityType
<1>2. \E g \in [1 .. n -> S] : IsInjective(g)
  BY <1>1 DEF ExistsBijection, Bijection, Injection, IsInjective
<1>3. f \in [1 .. n -> S] /\ IsInjective(f)
  BY <1>2 DEF SetToSeq
<1>4. f \in Injection(1 .. n, S)
  BY <1>3 DEF Injection, IsInjective
<1>5. Cardinality(1 .. n) = n
  BY <1>1, FS_Interval
<1>6. f \in Surjection(1 .. n, S)
  BY <1>4, <1>5, FS_Injection
<1> HIDE DEF n, f
<1>7. f \in Seq(S) /\ DOMAIN f = 1 .. n
  BY <1>1, <1>3
<1> QED
  BY <1>6, <1>7 DEF Surjection, f

LEMMA UpsAre ==
  ASSUME NEW S \in SUBSET Keys
  PROVE  /\ Ups(S) \in Seq(Messages)
         /\ \A i \in DOMAIN Ups(S) : Ups(S)[i].t = "key" /\ Ups(S)[i].down = FALSE
         /\ \A x \in S : \E i \in DOMAIN Ups(S) : Ups(S)[i].key = x
<1> DEFINE f == SetToSeq(S)
<1>1. IsFiniteSet(S)
  BY FS_Subset, InputAssumption
<1>2. f \in Seq(S) /\ \A x \in S : \E i \in DOMAIN f : f[i] = x
  BY <1>1, EachOnce
<1> HIDE DEF f
<1>3. Len(f) \in Nat /\ DOMAIN f = 1 .. Len(f) /\ \A i \in DOMAIN f : f[i] \in Keys
  BY <1>2
<1>4. Ups(S) = [i \in 1 .. Len(f) |-> KeyMessage(f[i], FALSE)]
  BY DEF Ups, f
<1>5. /\ DOMAIN Ups(S) = DOMAIN f
      /\ \A i \in DOMAIN f : Ups(S)[i] = [t |-> "key", key |-> f[i], down |-> FALSE]
  BY <1>3, <1>4 DEF KeyMessage
<1>6. \A i \in DOMAIN f : [t |-> "key", key |-> f[i], down |-> FALSE] \in Messages
  BY <1>3 DEF Messages, Inputs
<1>7. Ups(S) \in Seq(Messages)
  BY <1>3, <1>4, <1>6 DEF KeyMessage
<1> QED
  BY <1>2, <1>5, <1>7

LEMMA UpsDo ==
  ASSUME NEW S \in SUBSET Keys, NEW k \in Keys
  PROVE  ~Down(Ups(S), k) /\ (Silent(Ups(S), k) => k \notin S)
BY UpsAre DEF Down, Silent, Sets, Presses

LEMMA SyncDoes ==
  ASSUME NEW mask \in SUBSET Mods, NEW k
  PROVE  /\ <<Sync(mask)>> \in Seq(Messages)
         /\ Down(<<Sync(mask)>>, k) => k \in mask
         /\ Silent(<<Sync(mask)>>, k) => k \notin Mods
<1> DEFINE m == Sync(mask)
<1>1. m \in Messages /\ m.t = "sync" /\ m.mask = mask
  BY DEF Messages, Sync
<1> HIDE DEF m
<1>2. DOMAIN <<m>> = {1} /\ <<m>>[1] = m /\ <<m>> \in Seq(Messages)
  BY <1>1
<1> QED
  BY <1>1, <1>2 DEF Down, Silent, Sets, Presses, m

(* Releasing a set of keys leaves neither one of them nor a modifier.      *)
LEMMA ReleasesTyped ==
  ASSUME NEW S \in SUBSET Keys
  PROVE  ReleasesOnSlave(S) \in Seq(Messages)
BY UpsAre, SyncDoes, ConcatProperties DEF ReleasesOnSlave

LEMMA ReleasesDo ==
  ASSUME NEW S \in SUBSET Keys, NEW k \in Keys
  PROVE  /\ ~Down(ReleasesOnSlave(S), k)
         /\ Silent(ReleasesOnSlave(S), k) => k \notin S /\ k \notin Mods
<1>1. Ups(S) \in Seq(Messages) /\ ~Down(Ups(S), k) /\ (Silent(Ups(S), k) => k \notin S)
  BY UpsAre, UpsDo
<1>2. /\ <<Sync({})>> \in Seq(Messages) /\ ~Down(<<Sync({})>>, k)
      /\ Silent(<<Sync({})>>, k) => k \notin Mods
  BY SyncDoes
<1> QED
  BY <1>1, <1>2, Concatenated DEF ReleasesOnSlave

Click == [key : Buttons, down : BOOLEAN]

ClickMessages ==
  [i \in DOMAIN pendingButtons |-> KeyMessage(pendingButtons[i].key, pendingButtons[i].down)]
EventMessages ==
  [i \in DOMAIN pendingKeys |-> KeyMessage(pendingKeys[i].key, pendingKeys[i].down)]

LEMMA ForwardedTyped ==
  ASSUME pendingKeys \in Seq(Event), pendingButtons \in Seq(Click)
  PROVE  /\ ClickMessages \in Seq(Messages) /\ EventMessages \in Seq(Messages)
         /\ Forwarded = ClickMessages \o EventMessages /\ Forwarded \in Seq(Messages)
<1>1. /\ \A i \in DOMAIN pendingButtons : pendingButtons[i] \in Click
      /\ \A i \in DOMAIN pendingKeys : pendingKeys[i] \in Event
      /\ DOMAIN pendingButtons = 1 .. Len(pendingButtons) /\ Len(pendingButtons) \in Nat
      /\ DOMAIN pendingKeys = 1 .. Len(pendingKeys) /\ Len(pendingKeys) \in Nat
  OBVIOUS
<1>2. \A e \in Click \cup Event : KeyMessage(e.key, e.down) \in Messages
  BY DEF Click, Event, KeyMessage, Messages, Inputs
<1>3. ClickMessages \in Seq(Messages)
  BY <1>1, <1>2 DEF ClickMessages
<1>4. EventMessages \in Seq(Messages)
  BY <1>1, <1>2 DEF EventMessages
<1>5. Forwarded = ClickMessages \o EventMessages
  BY DEF Forwarded, ClickMessages, EventMessages
<1> QED
  BY <1>3, <1>4, <1>5, ConcatProperties

(* Of a frame's events, the last one of a key decides.                     *)
LEMMA ForwardedDo ==
  ASSUME pendingKeys \in Seq(Event), pendingButtons \in Seq(Click), NEW k \in Keys
  PROVE  /\ Down(Forwarded, k) => \E i \in DOMAIN pendingKeys :
               pendingKeys[i].key = k /\ pendingKeys[i].down /\ LastOf(i)
         /\ Silent(Forwarded, k) => Untouched(k)
<1> DEFINE u == ClickMessages
           v == EventMessages
<1>1. u \in Seq(Messages) /\ v \in Seq(Messages) /\ Forwarded = u \o v
  BY ForwardedTyped
<1>2. \A i \in DOMAIN pendingButtons : pendingButtons[i].key # k
  <2>1. \A i \in DOMAIN pendingButtons : pendingButtons[i] \in Click
    OBVIOUS
  <2> QED
    BY <2>1, InputAssumption DEF Click
<1>5. DOMAIN u = DOMAIN pendingButtons /\ DOMAIN v = DOMAIN pendingKeys
  BY DEF ClickMessages, EventMessages
<1>7. \A i \in DOMAIN u : ~Sets(u[i], k) /\ ~Presses(u[i], k)
  BY <1>2 DEF Sets, Presses, KeyMessage, ClickMessages
<1>8. \A i \in DOMAIN pendingKeys :
         /\ ~Sets(v[i], k) => pendingKeys[i].key # k
         /\ Presses(v[i], k) => pendingKeys[i].key = k /\ pendingKeys[i].down
  BY DEF Sets, Presses, KeyMessage, EventMessages
<1> HIDE DEF u, v
<1>9. ~Down(u, k)
  BY <1>7 DEF Down
<1>10. ASSUME Down(v, k)
       PROVE  \E i \in DOMAIN pendingKeys :
                pendingKeys[i].key = k /\ pendingKeys[i].down /\ LastOf(i)
  <2>1. PICK i \in DOMAIN v : Presses(v[i], k) /\ \A j \in DOMAIN v : j > i => ~Sets(v[j], k)
    BY <1>10 DEF Down
  <2>2. i \in DOMAIN pendingKeys /\ pendingKeys[i].key = k /\ pendingKeys[i].down
    BY <1>5, <1>8, <2>1
  <2>3. LastOf(i)
    BY <1>5, <1>8, <2>1, <2>2 DEF LastOf
  <2> QED
    BY <2>2, <2>3
<1>11. Silent(v, k) => Untouched(k)
  BY <1>5, <1>8 DEF Silent, Untouched
<1> QED
  BY <1>1, <1>9, <1>10, <1>11, Concatenated
-----------------------------------------------------------------------------
(* The invariant of the Slave's side.                                      *)
SlaveTyped ==
  /\ wire \in Seq(Messages) /\ shadow \subseteq Mods
  /\ pendingButtons \in Seq(Click)

(* The injector's bit of a modifier says whether it is down, unless two    *)
(* keys share it: a sync is as good as a message for each modifier.        *)
Agree == \A k \in Mods \ Twins : k \in shadow <=> k \in injected

(* Without a session nothing is under way, and what is down stays down.    *)
Unlinked == ~linked => wire = <<>> /\ injected \subseteq stale

Excused == stale \cup swallowed

(* While the Master has the input, everything has been released.           *)
HomeReleased == mine => \A k \in Loose : Will(k) => k \in Excused

(* While the Slave has it, what will be down there can be released when it *)
(* is given back, and is held unless the frame to come says otherwise.     *)
AwayHeld ==
  ~mine => \A k \in Loose : Will(k) =>
             \/ k \in Excused
             \/ k \in held \cup Mods /\ (Untouched(k) => k \in phys \cup early)

FreshEvents ==
  ~mine => \A i \in DOMAIN pendingKeys :
             LastOf(i) /\ pendingKeys[i].down => pendingKeys[i].key \in phys

FarInv == SlaveTyped /\ Agree /\ Unlinked /\ HomeReleased /\ AwayHeld /\ FreshEvents

LEMMA WillStill == ASSUME UNCHANGED <<wire, injected>>, NEW k PROVE Will(k)' <=> Will(k)
BY DEF Will, Down, Silent, Sets, Presses

-----------------------------------------------------------------------------
(* The fingers, over the events the hook has queued.                       *)
LEMMA QueuedEvents ==
  ASSUME Typed, NEW k \in Inputs, NEW down \in BOOLEAN, Queue(k, down), hooked
  PROVE  /\ \A x \in Keys : Untouched(x)' => Untouched(x) /\ x # k
         /\ \A i \in DOMAIN pendingKeys' : LastOf(i)' /\ pendingKeys'[i].down =>
              \/ down /\ pendingKeys'[i].key = k
              \/ \E j \in DOMAIN pendingKeys :
                   /\ LastOf(j) /\ pendingKeys[j].down /\ pendingKeys[j].key # k
                   /\ pendingKeys'[i].key = pendingKeys[j].key
<1>1. CASE k \in Keys
  <2> DEFINE e == [key |-> k, down |-> down]
             n == Len(pendingKeys)
  <2>1. pendingKeys' = Append(pendingKeys, e) /\ e \in Event /\ e.key = k /\ e.down = down
    BY <1>1 DEF Queue, Event
  <2>2. /\ n \in Nat /\ DOMAIN pendingKeys = 1 .. n /\ DOMAIN pendingKeys' = 1 .. n + 1
        /\ pendingKeys'[n + 1] = e
        /\ \A i \in DOMAIN pendingKeys : pendingKeys'[i] = pendingKeys[i]
    BY <2>1 DEF Typed
  <2> HIDE DEF e, n
  <2>3. ASSUME NEW x \in Keys, Untouched(x)' PROVE Untouched(x) /\ x # k
    BY <2>1, <2>2, <2>3 DEF Untouched
  <2>4. ASSUME NEW i \in DOMAIN pendingKeys', LastOf(i)', pendingKeys'[i].down, i # n + 1
        PROVE  \E j \in DOMAIN pendingKeys :
                   /\ LastOf(j) /\ pendingKeys[j].down /\ pendingKeys[j].key # k
                   /\ pendingKeys'[i].key = pendingKeys[j].key
    <3>1. i \in DOMAIN pendingKeys /\ pendingKeys'[i] = pendingKeys[i] /\ n + 1 > i
          /\ n + 1 \in DOMAIN pendingKeys'
      BY <2>2, <2>4
    <3>2. pendingKeys[i].key # k
      BY <2>1, <2>2, <2>4, <3>1 DEF LastOf
    <3>3. LastOf(i)
      BY <2>2, <2>4, <3>1 DEF LastOf
    <3> QED
      BY <2>4, <3>1, <3>2, <3>3
  <2> QED
    BY <2>1, <2>2, <2>3, <2>4
<1>2. CASE k \notin Keys
  <2>1. UNCHANGED pendingKeys
    BY <1>2 DEF Queue
  <2>2. \A i \in DOMAIN pendingKeys : pendingKeys[i].key \in Keys
    <3>1. \A i \in DOMAIN pendingKeys : pendingKeys[i] \in Event
      BY DEF Typed
    <3> QED
      BY <3>1 DEF Event
  <2> QED
    BY <1>2, <2>1, <2>2 DEF Untouched, LastOf
<1> QED
  BY <1>1, <1>2

LEMMA FingersKeepFar ==
  ASSUME IInv, FarInv, NEW k \in Inputs, Press(k) \/ Release(k)
  PROVE  FarInv'
<1> USE DEF IInv, FarInv
<1>1. UNCHANGED <<held, hooked, mine, linked, wire, injected, shadow, early, stale, swallowed>>
  BY DEF Press, Release, hands, far, history
<1>2. PICK down \in BOOLEAN : Queue(k, down) /\ phys' = IF down THEN phys \cup {k} ELSE phys \ {k}
  BY DEF Press, Release
<1>3. Agree' /\ Unlinked' /\ HomeReleased'
  BY <1>1, WillStill DEF Agree, Unlinked, HomeReleased, Excused
<1>4. SlaveTyped'
  <2>1. CASE UNCHANGED pendingButtons
    BY <1>1, <2>1 DEF SlaveTyped
  <2>2. CASE pendingButtons' = Append(pendingButtons, [key |-> k, down |-> down]) /\ k \in Buttons
    <3>1. [key |-> k, down |-> down] \in Click
      BY <2>2 DEF Click
    <3> QED
      BY <1>1, <2>2, <3>1 DEF SlaveTyped
  <2> QED
    BY <1>2, <2>1, <2>2 DEF Queue, pending, Inputs
<1>5. CASE mine
  BY <1>1, <1>3, <1>4, <1>5 DEF AwayHeld, FreshEvents
<1>6. CASE ~mine
  <2>1. hooked
    BY <1>6 DEF Unhooked
  <2>2. AwayHeld'
    <3> SUFFICES ASSUME NEW x \in Loose, Will(x), x \notin Excused
                 PROVE  /\ x \in held \cup Mods
                        /\ Untouched(x)' => x \in phys' \cup early
      BY <1>1, WillStill DEF AwayHeld, Excused
    <3>1. x \in held \cup Mods /\ (Untouched(x) => x \in phys \cup early)
      BY <1>6 DEF AwayHeld
    <3>2. Untouched(x)' => Untouched(x) /\ x # k
      BY <1>2, <2>1, QueuedEvents DEF Loose
    <3> QED
      BY <1>2, <3>1, <3>2
  <2>3. FreshEvents'
    <3> SUFFICES ASSUME NEW i \in DOMAIN pendingKeys', LastOf(i)', pendingKeys'[i].down
                 PROVE  pendingKeys'[i].key \in phys'
      BY <1>1 DEF FreshEvents
    <3>1. CASE down /\ pendingKeys'[i].key = k
      BY <1>2, <3>1
    <3>2. ASSUME NEW j \in DOMAIN pendingKeys, LastOf(j), pendingKeys[j].down,
                 pendingKeys[j].key # k, pendingKeys'[i].key = pendingKeys[j].key
          PROVE  pendingKeys'[i].key \in phys'
      <4>1. pendingKeys[j].key \in phys
        BY <1>6, <3>2 DEF FreshEvents
      <4> QED
        BY <1>2, <3>2, <4>1
    <3> QED
      BY <1>2, <2>1, <3>1, <3>2, QueuedEvents
  <2> QED
    BY <1>3, <1>4, <2>2, <2>3
<1> QED
  BY <1>5, <1>6

-----------------------------------------------------------------------------
(* The session, and the Slave's injector.                                  *)
LEMMA SessionKeepsFar ==
  ASSUME IInv, FarInv, LinkUp \/ LinkDrops \/ Install \/ Deactivate
  PROVE  FarInv'
<1> USE DEF IInv, FarInv
<1>1. UNCHANGED <<phys, pendingKeys, pendingButtons, injected, shadow, swallowed>>
  BY DEF LinkUp, LinkDrops, Install, Deactivate, hands, far, history, pending
<1>2. CASE LinkDrops
  <2>1. UNCHANGED <<mine, held, early>> /\ wire' = <<>> /\ stale' = stale \cup injected
    BY <1>2 DEF LinkDrops, hands
  <2>2. \A k : Will(k)' => k \in stale'
    BY <1>1, <2>1 DEF Will, Down
  <2> QED
    BY <1>1, <2>1, <2>2 DEF SlaveTyped, Agree, Unlinked, HomeReleased, AwayHeld, FreshEvents,
                            Excused, LastOf
<1>3. CASE LinkUp
  <2>1. UNCHANGED <<mine, held, early, wire, stale>> /\ linked'
    BY <1>3 DEF LinkUp, hands
  <2> QED
    BY <1>1, <2>1, WillStill DEF SlaveTyped, Agree, Unlinked, HomeReleased, AwayHeld,
       FreshEvents, Excused, LastOf, Untouched
<1>4. CASE Install \/ Deactivate
  <2>1. (mine \/ ~linked) /\ mine'
    BY <1>4 DEF Install, Deactivate, Unhooked
  <2>2. UNCHANGED <<wire, stale, linked>>
    BY <1>4 DEF Install, Deactivate, history
  <2>3. ASSUME ~linked, NEW k PROVE Will(k) => k \in stale
    BY <2>3 DEF Unlinked, Will, Down
  <2>4. HomeReleased'
    BY <1>1, <2>1, <2>2, <2>3, WillStill DEF HomeReleased, Excused
  <2> QED
    BY <1>1, <2>1, <2>2, <2>4 DEF SlaveTyped, Agree, Unlinked, AwayHeld, FreshEvents
<1> QED
  BY <1>2, <1>3, <1>4

(* One message, read.                                                      *)
LEMMA InjectorDoes ==
  ASSUME FarInv, SlaveReads
  PROVE  /\ shadow' \subseteq Mods /\ Agree'
         /\ \A k \in Loose : k \in injected' =>
              Presses(Head(wire), k) \/ (k \in injected /\ ~Sets(Head(wire), k))
<1> DEFINE m == Head(wire)
<1>1. m \in Messages /\ shadow \subseteq Mods /\ Agree
  BY DEF FarInv, SlaveTyped, SlaveReads
<1> HIDE DEF m
<1>2. /\ Mods \cap Rights = {} /\ Plain \cap Mods = {} /\ Buttons \cap Mods = {}
      /\ \A r \in Rights : RightMods[r] \in Mods /\ RightMods[r] \in Twins
  BY InputAssumption DEF Keys, Twins
<1>3. CASE m.t = "sync"
  <2>1. m.mask \subseteq Mods
    BY <1>1, <1>3 DEF Messages
  <2>2. shadow' = m.mask /\ injected' = (injected \ (shadow \ m.mask)) \cup (m.mask \ shadow)
    BY <1>3 DEF SlaveReads, SetModifiers, m
  <2>3. \A k \in Mods \ Twins : k \in injected' <=> k \in m.mask
    BY <1>1, <2>2 DEF Agree
  <2>4. \A k \in Loose : k \in injected' /\ k \notin Mods => k \in injected
    BY <2>1, <2>2
  <2> QED
    BY <1>3, <2>1, <2>2, <2>3, <2>4 DEF Agree, Loose, Presses, Sets, m
<1>4. CASE m.t = "key"
  <2>1. m.key \in Inputs /\ m.down \in BOOLEAN
    BY <1>1, <1>4 DEF Messages
  <2>2. InjectKey(m.key, m.down)
    BY <1>4 DEF SlaveReads, m
  <2>3. BitOf(m.key) \subseteq Mods
        /\ \A k \in Mods \ Twins : k \in BitOf(m.key) <=> k = m.key
    BY <1>2 DEF BitOf
  <2>4. shadow' \subseteq Mods /\ Agree'
    BY <1>1, <2>1, <2>2, <2>3 DEF InjectKey, Agree
  <2> QED
    BY <1>4, <2>1, <2>2, <2>4 DEF InjectKey, Presses, Sets, m
<1> QED
  BY <1>1, <1>3, <1>4 DEF Messages

LEMMA ReadsKeepFar == ASSUME IInv, FarInv, SlaveReads PROVE FarInv'
<1> USE DEF IInv, FarInv
<1>1. /\ UNCHANGED <<phys, pendingKeys, pendingButtons, held, mine, linked, early, stale, swallowed>>
      /\ wire \in Seq(Messages) /\ wire # <<>> /\ wire' = Tail(wire)
  BY DEF SlaveReads, hands, history, pending, SlaveTyped
<1>2. \A k \in Loose : Will(k)' => Will(k)
  BY <1>1, InjectorDoes, ReadFirst
<1>3. wire' \in Seq(Messages)
  BY <1>1, HeadTailProperties
<1>4. SlaveTyped' /\ Agree'
  BY <1>1, <1>3, InjectorDoes DEF SlaveTyped
<1>5. linked
  BY <1>1 DEF Unlinked
<1> QED
  BY <1>1, <1>2, <1>4, <1>5
  DEF Unlinked, HomeReleased, AwayHeld, FreshEvents, Excused, LastOf, Untouched
-----------------------------------------------------------------------------
(* A frame.                                                                *)

(* The input comes home: the last that is sent leaves nothing behind.      *)
LEMMA ComesHome ==
  ASSUME FarInv, linked, linked', mine', NEW v \in Seq(Messages), wire' = wire \o v,
         pendingButtons' \in Seq(Click), UNCHANGED <<injected, shadow, stale>>,
         swallowed \subseteq swallowed',
         \A k \in Loose : ~Down(v, k) /\ (Silent(v, k) /\ Will(k) => k \in Excused')
  PROVE  FarInv'
<1>1. SlaveTyped' /\ Agree'
  BY ConcatProperties DEF FarInv, SlaveTyped, Agree
<1>2. HomeReleased'
  BY SentLast DEF FarInv, SlaveTyped, HomeReleased
<1> QED
  BY <1>1, <1>2 DEF FarInv, Unlinked, AwayHeld, FreshEvents

(* What a key that is down, or will be, is known by before a frame that is *)
(* polled while the Slave has the input.                                   *)
LEMMA AwayKnown ==
  ASSUME FarInv, ~mine, NEW k \in Loose, Will(k), Untouched(k), k \notin Excused
  PROVE  /\ k \in HeldAfter \cup Mods /\ k \in phys \cup early
         /\ k \notin Mods => k \in held
BY DEF FarInv, AwayHeld, HeldAfter

LEMMA ReturnKeepsFar == ASSUME IInv, FarInv, ReturnInTheDark PROVE FarInv'
<1> DEFINE v == ReleasesOnSlave(held)
<1>1. held \subseteq Keys
  BY DEF IInv, Typed
<1>2. /\ linked /\ linked' /\ ~mine /\ mine' /\ wire' = wire \o v
      /\ UNCHANGED <<pendingButtons, injected, shadow, stale, swallowed>>
  BY DEF ReturnInTheDark, Running, Send, far, history, pending
<1>3. \A k \in Keys : ~Down(v, k) /\ (Silent(v, k) => k \notin held /\ k \notin Mods)
  BY <1>1, ReleasesDo
<1>4. v \in Seq(Messages)
  BY <1>1, ReleasesTyped
<1> HIDE DEF v
<1>5. ASSUME NEW k \in Loose, Silent(v, k), Will(k) PROVE k \in Excused'
  BY <1>2, <1>3, <1>5 DEF FarInv, AwayHeld, Excused, Loose
<1> QED
  BY <1>2, <1>3, <1>4, <1>5, ComesHome DEF FarInv, SlaveTyped, Loose

LEMMA EscapeKeepsFar == ASSUME IInv, FarInv, Escape PROVE FarInv'
<1> DEFINE v == ReleasesOnSlave(HeldAfter)
<1>1. HeldAfter \subseteq Keys
  BY HeldKeys DEF IInv
<1>2. /\ linked /\ linked' /\ ~mine /\ mine' /\ wire' = wire \o v /\ pendingButtons' = <<>>
      /\ UNCHANGED <<injected, shadow, stale>> /\ swallowed' = swallowed \cup (held \ HeldAfter)
  BY DEF Escape, Running, Send, far, PollKeys
<1>3. \A k \in Keys : ~Down(v, k) /\ (Silent(v, k) => k \notin HeldAfter /\ k \notin Mods)
  BY <1>1, ReleasesDo
<1>4. v \in Seq(Messages)
  BY <1>1, ReleasesTyped
<1> HIDE DEF v
<1>5. ASSUME NEW k \in Loose, Silent(v, k), Will(k) PROVE k \in Excused'
  BY <1>2, <1>3, <1>5 DEF FarInv, AwayHeld, Excused, Loose
<1> QED
  BY <1>2, <1>3, <1>4, <1>5, ComesHome DEF Loose

LEMMA CrossBackKeepsFar == ASSUME IInv, FarInv, CrossBack PROVE FarInv'
<1> DEFINE u == Forwarded
           r == ReleasesOnSlave(HeldAfter)
           v == u \o r
<1>1. HeldAfter \subseteq Keys
  BY HeldKeys DEF IInv
<1>2. /\ linked /\ linked' /\ ~mine /\ mine' /\ wire' = wire \o v /\ pendingButtons' = <<>>
      /\ UNCHANGED <<injected, shadow, stale, swallowed>>
  BY DEF CrossBack, Running, Send, far, history, PollKeys
<1>3. \A k \in Keys : ~Down(r, k) /\ (Silent(r, k) => k \notin HeldAfter /\ k \notin Mods)
  BY <1>1, ReleasesDo
<1>4. pendingKeys \in Seq(Event) /\ pendingButtons \in Seq(Click)
  BY DEF IInv, Typed, FarInv, SlaveTyped
<1>a. \A k \in Keys : (Down(u, k) => k \in HeldAfter) /\ (Silent(u, k) => Untouched(k))
  BY <1>4, ForwardedDo DEF HeldAfter
<1>5. u \in Seq(Messages) /\ r \in Seq(Messages)
  BY <1>1, <1>4, ReleasesTyped, ForwardedTyped
<1> HIDE DEF u, r
<1>b. v \in Seq(Messages)
  BY <1>5, ConcatProperties
<1>6. ASSUME NEW k \in Loose
      PROVE  /\ ~Down(v, k)
             /\ Silent(v, k) => Untouched(k) /\ k \notin HeldAfter /\ k \notin Mods
  BY <1>3, <1>a, <1>5, Concatenated DEF Loose
<1> HIDE DEF v
<1>7. ASSUME NEW k \in Loose, Silent(v, k), Will(k) PROVE k \in Excused'
  BY <1>2, <1>6, <1>7, AwayKnown DEF Excused
<1> QED
  BY <1>2, <1>b, <1>6, <1>7, ComesHome

LEMMA StayHomeKeepsFar == ASSUME IInv, FarInv, StayHome PROVE FarInv'
<1>1. /\ UNCHANGED <<mine, linked, wire, injected, shadow, stale, swallowed>> /\ mine
      /\ pendingButtons' = <<>>
  BY DEF StayHome, PollKeys, hands, far, history
<1> QED
  BY <1>1, WillStill DEF FarInv, SlaveTyped, Agree, Unlinked, HomeReleased, AwayHeld,
     FreshEvents, Excused

(* The input goes away, or stays there: what the last message about a key  *)
(* leaves down is known.                                                   *)
LEMMA GoesAway ==
  ASSUME FarInv, linked, linked', ~mine', NEW v \in Seq(Messages), wire' = wire \o v,
         pendingKeys' = <<>>, pendingButtons' = <<>>,
         UNCHANGED <<injected, shadow, stale, swallowed>>,
         \A k \in Loose : Down(v, k) \/ (Silent(v, k) /\ Will(k)) =>
           k \in Excused \/ (k \in held' \cup Mods /\ k \in phys' \cup early')
  PROVE  FarInv'
<1>1. SlaveTyped' /\ Agree'
  BY ConcatProperties DEF FarInv, SlaveTyped, Agree
<1>2. AwayHeld'
  BY SentLast DEF FarInv, SlaveTyped, AwayHeld, Excused
<1>3. FreshEvents'
  BY DEF FreshEvents
<1> QED
  BY <1>1, <1>2, <1>3 DEF FarInv, Unlinked, HomeReleased

LEMMA CrossOutKeepsFar == ASSUME IInv, FarInv, CrossOut PROVE FarInv'
<1> DEFINE v == <<Sync(Mask)>>
<1>1. /\ linked /\ linked' /\ mine /\ ~mine' /\ wire' = wire \o v
      /\ pendingKeys' = <<>> /\ pendingButtons' = <<>>
      /\ UNCHANGED <<injected, shadow, stale, swallowed, phys, early>>
  BY DEF CrossOut, Running, Send, far, history, PollKeys
<1>2. Mask \subseteq Mods /\ \A k \in Loose : k \in Mask => k \in phys \cup early
  <2>1. \A k \in Loose : k \in Mask => k \in osDown \cap Keys
    BY DEF Loose, Mask, Twins
  <2> QED
    BY <2>1 DEF Mask, IInv, NoGhostKeys
<1>3. v \in Seq(Messages)
  BY <1>2, SyncDoes
<1>4. \A k : (Down(v, k) => k \in Mask) /\ (Silent(v, k) => k \notin Mods)
  BY <1>2, SyncDoes
<1> HIDE DEF v
<1>5. ASSUME NEW k \in Loose, Down(v, k) \/ (Silent(v, k) /\ Will(k))
      PROVE  k \in Excused \/ (k \in held' \cup Mods /\ k \in phys' \cup early')
  <2>1. CASE Down(v, k)
    BY <1>1, <1>2, <1>4, <2>1
  <2>2. CASE Will(k)
    BY <1>1, <2>2 DEF FarInv, HomeReleased
  <2> QED
    BY <1>5, <2>1, <2>2
<1> QED
  BY <1>1, <1>3, <1>5, GoesAway

LEMMA StayAwayKeepsFar == ASSUME IInv, FarInv, StayAway PROVE FarInv'
<1> DEFINE v == Forwarded
<1>1. /\ linked /\ linked' /\ ~mine /\ ~mine' /\ wire' = wire \o v
      /\ pendingKeys' = <<>> /\ pendingButtons' = <<>> /\ held' = HeldAfter
      /\ UNCHANGED <<injected, shadow, stale, swallowed, phys, early>>
  BY DEF StayAway, Running, Send, hands, far, history, PollKeys
<1>2. pendingKeys \in Seq(Event) /\ pendingButtons \in Seq(Click)
  BY DEF IInv, Typed, FarInv, SlaveTyped
<1>3. v \in Seq(Messages)
  BY <1>2, ForwardedTyped
<1>4. \A k \in Loose :
        /\ Down(v, k) => \E i \in DOMAIN pendingKeys :
             pendingKeys[i].key = k /\ pendingKeys[i].down /\ LastOf(i)
        /\ Silent(v, k) => Untouched(k)
  BY <1>2, ForwardedDo DEF Loose
<1> HIDE DEF v
<1>5. ASSUME NEW k \in Loose, Down(v, k) \/ (Silent(v, k) /\ Will(k))
      PROVE  k \in Excused \/ (k \in held' \cup Mods /\ k \in phys' \cup early')
  <2>1. CASE Down(v, k)
    <3>1. PICK i \in DOMAIN pendingKeys :
            pendingKeys[i].key = k /\ pendingKeys[i].down /\ LastOf(i)
      BY <1>4, <2>1
    <3>2. k \in phys /\ k \in HeldAfter
      BY <1>1, <3>1 DEF FarInv, FreshEvents, HeldAfter
    <3> QED
      BY <1>1, <3>2
  <2>2. CASE Silent(v, k) /\ Will(k)
    BY <1>1, <1>4, <2>2, AwayKnown
  <2> QED
    BY <1>5, <2>1, <2>2
<1> QED
  BY <1>1, <1>3, <1>5, GoesAway

LEMMA FarStepKeeps == IInv /\ FarInv /\ [Next]_vars => FarInv'
<1> SUFFICES ASSUME IInv, FarInv, [Next]_vars PROVE FarInv'
  OBVIOUS
<1>1. CASE UNCHANGED vars
  BY <1>1, WillStill DEF vars, pending, hands, far, history, FarInv, SlaveTyped, Agree, Unlinked,
     HomeReleased, AwayHeld, FreshEvents, Excused, LastOf, Untouched
<1> QED
  BY <1>1, FingersKeepFar, SessionKeepsFar, ReadsKeepFar, ReturnKeepsFar, EscapeKeepsFar,
     StayHomeKeepsFar, CrossOutKeepsFar, StayAwayKeepsFar, CrossBackKeepsFar DEF Next

(* Whatever was pressed, forwarded or let go around a handoff: once the    *)
(* Slave has read everything, the only keys down there are those held on   *)
(* the keyboard while it has the input (input_pump.cpp:61-80), and those   *)
(* the code is known to leave.                                             *)
THEOREM NothingSticks == Spec => []NothingStuckOnSlave
<1>1. Init => IInv /\ FarInv
  <2>1. Init => IInv
    BY DEF Init, IInv, Typed, Unhooked, HomeHeld, AwayForgotten, NoGhostKeys
  <2>2. Init => FarInv
    BY DEF Init, FarInv, SlaveTyped, Agree, Unlinked, HomeReleased, AwayHeld, FreshEvents,
           Will, Down
  <2> QED
    BY <2>1, <2>2
<1>2. FarInv => NothingStuckOnSlave
  <2> SUFFICES ASSUME FarInv, Settled, NEW k \in injected \cap Loose, k \notin Excused
               PROVE  ~mine /\ k \in phys \cup early
    BY DEF NothingStuckOnSlave, Excused, Loose
  <2>1. Will(k) /\ Untouched(k)
    BY DEF Settled, Will, Silent, Untouched
  <2> QED
    BY <2>1 DEF FarInv, HomeReleased, AwayHeld
<1> QED
  BY <1>1, <1>2, StepKeeps, FarStepKeeps, PTL DEF Spec
=============================================================================
