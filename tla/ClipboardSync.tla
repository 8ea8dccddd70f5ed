---------------------------- MODULE ClipboardSync ----------------------------
(* The clipboards of a Master and a Slave kept in step: pump_clipboard of both
   main loops (src/app/clipboard_pump.cpp) over the Windows and the X11 clipboard
   (src/clipboard/clipboard.cpp) and the pending_clipboard_ slots the session
   threads fill. Each machine is either kind of system.

   A content is what goes over the wire. `gen` counts what happened to it on the
   way: the lossy generations of an image, or what became of a text's encoding. *)
EXTENDS Integers, Sequences, SequencesExt, FiniteSets

CONSTANTS
  Texts, Images,   \* what users copy
  None,            \* an empty optional
  MaxGen,          \* re-encoding a JPEG reaches a fixed point after so many generations
  MaxEvents        \* bound: sessions, user copies and X11 requests that time out, together

ASSUME ClipboardAssumption ==
  /\ {MaxGen, MaxEvents} \subseteq Nat
  /\ Texts \cap Images = {}
  /\ None \notin Texts \cup Images

Machine == {"master", "slave"}
Peer(m) == IF m = "master" THEN "slave" ELSE "master"

\* A text is as copied, not UTF-8 at all, or UTF-8 of other characters.
AsCopied   == 0
IllFormed  == 1
WrongText  == 2

Content == [kind : {"text"}, id : Texts \cup Images, gen : AsCopied .. WrongText]
             \cup [kind : {"image"}, id : Images, gen : 0 .. MaxGen]

Copyable == {c \in Content : c.gen = 0 /\ (c.kind = "text" => c.id \in Texts)}

VARIABLES
  os,        \* what each machine runs
  clip,      \* what other programs offer on its clipboard
  changed,   \* Windows: the sequence number moved since clipboard_changed() looked
  own,       \* X11: the X server names our window the owner of CLIPBOARD
  have,      \* X11: have_owned
  wire,      \* X11: what we offer as the owner
  clear,     \* X11: a SelectionClear waits in the event queue
  late,      \* X11: replies on their way whose request was given up
  clipLink,      \* the session as status() and active_channel_ show it
  net,       \* clipboard messages on their way to each machine
  slot,      \* pending_clipboard_
  seen,      \* clipboard_last_seen, None when not valid
  applied,   \* clipboard_last_applied, None when not valid
  pc,        \* where each main loop is in pump_clipboard
  from,      \* history: the session whose content is on the clipboard, 0 for a user's
  missed,    \* history: a write of this session did not reach the clipboard
  got,       \* history: the last message of this session
  sess,      \* number of the session
  copies,    \* number of user copies
  timeouts      \* number of X11 requests that timed out

osVars   == <<clip, changed, own, have, wire, clear, late, from>>
pumpVars == <<seen, applied, pc>>
clipVars ==
  <<os, osVars, clipLink, net, slot, pumpVars, missed, got, sess, copies, timeouts>>

Windows(m) == os[m] = "windows"
X11(m)     == os[m] = "x11"

\* status().state is Connected before the channel is published.
Connected(m) == clipLink[m] # "down"

ClipTypeOK ==
  /\ os \in [Machine -> {"windows", "x11"}]
  /\ clip \in [Machine -> Content \cup {None}]
  /\ {changed, own, have, clear, missed} \subseteq [Machine -> BOOLEAN]
  /\ wire \in [Machine -> Content \cup {None}]
  /\ \A m \in Machine : /\ late[m] \in Seq([form : {"utf8", "latin1", "png"}, id : Texts \cup Images]
                                              \cup {None})
                        /\ net[m] \in Seq(Content)
  /\ clipLink \in [Machine -> {"down", "opening", "open"}]
  /\ {slot, seen, applied, got} \subseteq [Machine -> Content \cup {None}]
  /\ pc \in [Machine -> {"idle", "own", "read"}]
  /\ from \in [Machine -> 0 .. sess]
  /\ {sess, copies, timeouts} \subseteq Nat /\ sess + copies + timeouts <= MaxEvents

\* last_seq starts at -1: the first look always finds the clipboard changed.
ClipInit ==
  /\ os \in [Machine -> {"windows", "x11"}]
  /\ clip = [m \in Machine |-> None]
  /\ changed = [m \in Machine |-> TRUE]
  /\ own = [m \in Machine |-> FALSE] /\ have = own /\ clear = own /\ missed = own
  /\ wire = [m \in Machine |-> None]
  /\ late = [m \in Machine |-> <<>>] /\ net = late
  /\ clipLink = [m \in Machine |-> "down"]
  /\ slot = wire /\ seen = wire /\ applied = wire /\ got = wire
  /\ pc = [m \in Machine |-> "idle"]
  /\ from = [m \in Machine |-> 0]
  /\ sess = 0 /\ copies = 0 /\ timeouts = 0

-----------------------------------------------------------------------------
(* The conversions. *)

\* decode_jpeg, then encode_jpeg.
Reencoded(c) == [c EXCEPT !.gen = IF @ < MaxGen THEN @ + 1 ELSE MaxGen]

\* write_clipboard then read_clipboard on Windows: an image is decoded and encoded
\* again, ill-formed UTF-8 comes back with replacement characters.
ThroughWindows(c) ==
  IF c.kind = "image" THEN Reencoded(c)
  ELSE IF c.gen = IllFormed THEN [c EXCEPT !.gen = WrongText]
  ELSE c

Form == [utf8 |-> "utf8", string |-> "latin1", png |-> "png"]

\* What another X11 program answers when asked for a target; None is a refusal.
Answer(c, target) ==
  IF c # None /\ (c.kind = "image" <=> target = "png")
  THEN [form |-> Form[target], id |-> c.id]
  ELSE None

\* read_clipboard takes a reply for one to the target it asked for last.
Understood(reply, target) ==
  IF target = "png"
  THEN IF reply.form = "png" THEN [kind |-> "image", id |-> reply.id, gen |-> 0] ELSE None
  ELSE [kind |-> "text", id |-> reply.id,
        gen |-> IF reply.form = Form[target] THEN AsCopied
                ELSE IF target = "utf8" THEN IllFormed ELSE WrongText]

\* One convert_selection and what read_clipboard makes of it: in 300 ms a reply
\* arrives, the first in the queue and so perhaps one to an earlier request; or none
\* does, and the answer comes later or never. A refusal or no reply leads to the next
\* target.
Ask(reading, target, how, offer) ==
  IF reading.done THEN reading
  ELSE LET asked == IF how = "never" THEN reading.queue
                    ELSE Append(reading.queue, Answer(offer, target))
       IN IF how # "in time" THEN [reading EXCEPT !.queue = asked]
          ELSE [queue   |-> Tail(asked),
                done    |-> Head(asked) # None,
                content |-> IF Head(asked) = None THEN None ELSE Understood(Head(asked), target)]

\* The three targets in turn.
Reading(queue, hows, offer) ==
  LET Then(reading, target) == Ask(reading, target, hows[target], offer)
  IN Then(Then(Then([queue |-> queue, done |-> FALSE, content |-> None],
                     "utf8"), "string"), "png")

\* What our window answers another X11 program that asks the owner of the selection.
Offered(m) == IF have[m] THEN wire[m] ELSE None

-----------------------------------------------------------------------------
(* Users and sessions. *)

\* A program on machine m takes the clipboard.
Copy(m, c) ==
  /\ sess + copies + timeouts < MaxEvents
  /\ copies' = copies + 1
  /\ clip' = [clip EXCEPT ![m] = c]
  /\ from' = [from EXCEPT ![m] = 0]
  /\ changed' = [changed EXCEPT ![m] = TRUE]
  /\ own' = [own EXCEPT ![m] = FALSE]
  /\ clear' = [clear EXCEPT ![m] = @ \/ own[m]]
  /\ UNCHANGED <<os, have, wire, late, clipLink, net, slot, pumpVars, missed, got, sess, timeouts>>

\* A session starts. The server object outlives its sessions, the client object may
\* (a retry) or may not (the user connects again); what is in a slot stays there.
Dial(newClient) ==
  /\ sess + copies + timeouts < MaxEvents
  /\ \A m \in Machine : clipLink[m] = "down"
  /\ sess' = sess + 1
  /\ clipLink' = [m \in Machine |-> "opening"]
  /\ slot' = [slot EXCEPT !["slave"] = IF newClient THEN None ELSE @]
  /\ missed' = [m \in Machine |-> FALSE]
  /\ got' = [m \in Machine |-> None]
  /\ UNCHANGED <<os, osVars, net, pumpVars, copies, timeouts>>

Publish(m) ==
  /\ clipLink[m] = "opening"
  /\ clipLink' = [clipLink EXCEPT ![m] = "open"]
  /\ UNCHANGED <<os, osVars, net, slot, pumpVars, missed, got, sess, copies, timeouts>>

\* The session loop ends, for whatever reason; the channel is withdrawn and the status
\* says so. (What a pump does in between is undone by its next call.)
Hangup(m) ==
  /\ clipLink[m] = "open"
  /\ clipLink' = [clipLink EXCEPT ![m] = "down"]
  /\ net' = [net EXCEPT ![m] = <<>>]
  /\ UNCHANGED <<os, osVars, slot, pumpVars, missed, got, sess, copies, timeouts>>

\* A faulty variant: the slot keeps what the pump has not taken yet.
ReceiveIfEmpty(m) ==
  /\ clipLink[m] = "open" /\ net[m] # <<>>
  /\ slot' = [slot EXCEPT ![m] = IF @ = None THEN Head(net[m]) ELSE @]
  /\ got' = [got EXCEPT ![m] = Head(net[m])]
  /\ net' = [net EXCEPT ![m] = Tail(@)]
  /\ UNCHANGED <<os, osVars, clipLink, pumpVars, missed, sess, copies, timeouts>>

\* The session thread receives a clipboard message: only the latest is kept.
Receive(m) ==
  /\ clipLink[m] = "open" /\ net[m] # <<>>
  /\ slot' = [slot EXCEPT ![m] = Head(net[m])]
  /\ got' = [got EXCEPT ![m] = Head(net[m])]
  /\ net' = [net EXCEPT ![m] = Tail(@)]
  /\ UNCHANGED <<os, osVars, clipLink, pumpVars, missed, sess, copies, timeouts>>

-----------------------------------------------------------------------------
(* pump_clipboard, call after call: events, then a message from the slot, then, once
   a second, a look at the clipboard. *)

\* service_pending_events: a SelectionClear gives up what is offered.
Service(m) ==
  /\ have' = [have EXCEPT ![m] = @ /\ ~clear[m]]
  /\ clear' = [clear EXCEPT ![m] = FALSE]

\* A faulty variant: what was applied is not remembered.
TrackNothing(m, c) == UNCHANGED <<seen, applied>>

\* take_pending_clipboard finds something.
Pending(m) == slot[m] # None

\* apply_and_track, but for the writing itself.
Track(m, c) ==
  /\ seen' = [seen EXCEPT ![m] = c]
  /\ applied' = [applied EXCEPT ![m] = c]

\* Nothing is connected: both contents are forgotten.
PumpOffline(m) ==
  /\ pc[m] = "idle" /\ ~Connected(m)
  /\ Service(m)
  /\ seen' = [seen EXCEPT ![m] = None]
  /\ applied' = [applied EXCEPT ![m] = None]
  /\ UNCHANGED <<os, clip, changed, own, wire, late, from, clipLink, net, slot, pc, missed, got, sess, copies, timeouts>>

\* pump_events: other programs' requests are answered, connected or not.
PumpEvents(m) ==
  /\ pc[m] = "idle" /\ clear[m]
  /\ Service(m)
  /\ UNCHANGED <<os, clip, changed, own, wire, late, from, clipLink, net, slot, pumpVars, missed, got, sess, copies, timeouts>>

\* Windows: the message goes to the clipboard, unless another program has it open.
PumpApplyWindows(m, ok) ==
  /\ pc[m] = "idle" /\ Connected(m) /\ Pending(m) /\ Windows(m)
  /\ IF ok
     THEN /\ clip' = [clip EXCEPT ![m] = ThroughWindows(slot[m])]
          /\ changed' = [changed EXCEPT ![m] = TRUE]
          /\ from' = [from EXCEPT ![m] = sess]
          /\ UNCHANGED missed
     ELSE /\ missed' = [missed EXCEPT ![m] = TRUE]
          /\ UNCHANGED <<clip, changed, from>>
  /\ Track(m, slot[m])
  /\ slot' = [slot EXCEPT ![m] = None]
  /\ UNCHANGED <<os, own, have, wire, clear, late, clipLink, net, pc, got, sess, copies, timeouts>>

\* X11: the events are serviced and the offer is prepared (an image is converted to
\* PNG, which takes its time) ...
PumpOffer(m) ==
  /\ pc[m] = "idle" /\ Connected(m) /\ Pending(m) /\ X11(m)
  /\ wire' = [wire EXCEPT ![m] = slot[m]]
  /\ have' = [have EXCEPT ![m] = TRUE]
  /\ clear' = [clear EXCEPT ![m] = FALSE]
  /\ Track(m, slot[m])
  /\ slot' = [slot EXCEPT ![m] = None]
  /\ pc' = [pc EXCEPT ![m] = "own"]
  /\ UNCHANGED <<os, clip, changed, own, late, from, clipLink, net, missed, got, sess, copies, timeouts>>

\* ... before the selection is taken.
PumpOwn(m) ==
  /\ pc[m] = "own"
  /\ own' = [own EXCEPT ![m] = TRUE]
  /\ from' = [from EXCEPT ![m] = sess]
  /\ pc' = [pc EXCEPT ![m] = "idle"]
  /\ UNCHANGED <<os, clip, changed, have, wire, clear, late, clipLink, net, slot, seen, applied, missed, got, sess, copies, timeouts>>

\* clipboard_changed(): on X11 it always says yes.
ClipboardChanged(m) == Windows(m) => changed[m]

\* The interval has passed: clipboard_changed() forgets the change it reports.
Poll(m) ==
  /\ pc[m] = "idle" /\ Connected(m)
  /\ ClipboardChanged(m)
  /\ changed' = [changed EXCEPT ![m] = X11(m)]
  /\ pc' = [pc EXCEPT ![m] = "read"]
  /\ UNCHANGED <<os, clip, own, have, wire, clear, late, from, clipLink, net, slot, seen, applied, missed, got, sess, copies, timeouts>>

\* send_input / send_message: false, and nothing is sent, without a channel; what is
\* sent to an end that has gone is lost.
Send(m, c) ==
  net' = IF clipLink[m] = "open" /\ clipLink[Peer(m)] \in {"opening", "open"}
         THEN [net EXCEPT ![Peer(m)] = Append(@, c)]
         ELSE net

\* A faulty variant: what was read before goes out again.
DigestAgain(m, c) ==
  /\ pc' = [pc EXCEPT ![m] = "idle"]
  /\ seen' = IF c = None THEN seen ELSE [seen EXCEPT ![m] = c]
  /\ IF c \in {None, applied[m]} THEN UNCHANGED net ELSE Send(m, c)
  /\ UNCHANGED <<os, clip, changed, own, wire, from, clipLink, slot, applied, missed, got, sess, copies>>

\* What sync_clipboard does with what read_clipboard returned.
Digest(m, c) ==
  /\ pc' = [pc EXCEPT ![m] = "idle"]
  /\ seen' = IF c = None THEN seen ELSE [seen EXCEPT ![m] = c]
  /\ IF c \in {None, seen[m], applied[m]} THEN UNCHANGED net ELSE Send(m, c)
  /\ UNCHANGED <<os, clip, changed, own, wire, from, clipLink, slot, applied, missed, got, sess, copies>>

\* Windows: OpenClipboard may fail.
ReadWindows(m, ok) ==
  /\ pc[m] = "read" /\ Windows(m)
  /\ Digest(m, IF ok THEN clip[m] ELSE None)
  /\ UNCHANGED <<have, clear, late, timeouts>>

\* X11: we are the owner, no round trip.
ReadOwn(m) ==
  /\ pc[m] = "read" /\ X11(m) /\ own[m]
  /\ Service(m)
  /\ Digest(m, IF have'[m] THEN wire[m] ELSE None)
  /\ UNCHANGED <<late, timeouts>>

\* X11: the owner, or nobody, is asked.
ReadOther(m, hows) ==
  /\ pc[m] = "read" /\ X11(m) /\ ~own[m]
  /\ Service(m)
  /\ LET reading == Reading(late[m], hows, clip[m])
     IN /\ timeouts' = timeouts + Cardinality({t \in DOMAIN hows : hows[t] # "in time"})
        /\ sess + copies + timeouts' <= MaxEvents
        /\ late' = [late EXCEPT ![m] = reading.queue]
        /\ Digest(m, reading.content)

Pump(m) ==
  \/ PumpOffline(m) \/ PumpEvents(m) \/ PumpOffer(m) \/ PumpOwn(m)
  \/ \E ok \in BOOLEAN : PumpApplyWindows(m, ok) \/ ReadWindows(m, ok)
  \/ Poll(m) \/ ReadOwn(m)
  \/ \E hows \in [DOMAIN Form -> {"in time", "late", "never"}] : ReadOther(m, hows)

SessionThread(m) == Publish(m) \/ Receive(m)

ClipNext ==
  \/ \E m \in Machine : Pump(m) \/ SessionThread(m) \/ Hangup(m)
                          \/ \E c \in Copyable : Copy(m, c)
  \/ \E newClient \in BOOLEAN : Dial(newClient)

ClipSpec == ClipInit /\ [][ClipNext]_clipVars

-----------------------------------------------------------------------------
(* Properties. *)

\* What the peer sent is not sent back in the same session, for texts on any system
\* and images on X11 (clipboard_pump.cpp:49-53): only what Windows re-encodes, or
\* what an unsuccessful write left standing, goes out without a user having copied it.
NoEcho ==
  [][\A m \in Machine :
       Len(net'[Peer(m)]) > Len(net[Peer(m)])
         => LET c == Last(net'[Peer(m)])
            IN \/ from[m] # sess
               \/ missed[m]
               \/ Windows(m) /\ (c.kind = "image" \/ c.gen = WrongText)]_clipVars

\* Between two pumps the content applied last is the one received last: a slot that
\* is overwritten and taken by two threads loses only what is outdated
\* (tcp_server.cpp:344-352, tcp_server.cpp:115-121).
LatestWins ==
  \A m \in Machine :
    clipLink[m] = "open" /\ pc[m] = "idle" /\ slot[m] = None /\ got[m] # None
      => applied[m] = got[m]

\* Once the users stop copying, the programs stop exchanging (clipboard_pump.cpp:49-52):
\* no content goes to and fro for ever because a reply was late or a write failed. For
\* images between two Windows machines this rests on an assumption: that re-encoding
\* comes to a fixed point, after MaxGen generations (Reencoded). The code has no bound.
\* The session threads go on receiving; the main loops may do what they like.
Quiet ==
  (\A m \in Machine : WF_clipVars(SessionThread(m))) => <>[](\A m \in Machine : net[m] = <<>>)

\* What is held back as "not a new local copy" (clipboard_pump.cpp:49) is what was
\* applied, never (for a text) a user's own copy of it made after the peer was sent something else.
\* The code breaks it: clipboard_last_applied stays valid for the rest of the session.
OnlyEchoHeldBack ==
  [][\A m \in Machine :
       seen'[m] # seen[m] /\ applied[m] # None /\ UNCHANGED applied /\ seen'[m] = applied[m]
         => \/ applied[m].kind = "image"
            \/ from[m] # 0
            \/ applied[Peer(m)] \in {None, applied[m]}]_clipVars

\* The owner of the X11 selection offers what it applied (clipboard.cpp:422-424).
\* The code breaks it: a SelectionClear that arrives while the offer is prepared is
\* taken for the loss of the selection that was set after it.
OwnerOffers == \A m \in Machine : own[m] /\ pc[m] # "own" => Offered(m) # None

\* A text arrives as it was copied (clipboard.cpp:395-399). The code breaks it: the
\* late reply to one target is taken for the reply to another.
TextsIntact ==
  \A m \in Machine : \A i \in 1 .. Len(net[m]) : net[m][i].kind = "text" => net[m][i].gen = AsCopied

=============================================================================
