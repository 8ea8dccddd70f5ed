# A specification of NoCapKVM

NoCapKVM shares one keyboard and mouse (the **Master**'s) with other computers
(the **Slaves**) over a LAN, plays a Slave's audio on the Master and keeps the
clipboards in step. This directory holds TLA+ modules for the parts of it whose
correctness depends on order, failure and concurrency, TLC configurations that
check them on small instances, and TLAPS proofs that hold for every instance.

Paths below are relative to the repository root.

## 1. The system

Every machine runs one process: a main loop (`src/app/main.cpp:204-262`) that
calls one *pump* after another each frame and then draws the UI, and background
threads owned by the objects the pumps talk to.

| Part | State it keeps | Operations | Talks to |
| --- | --- | --- | --- |
| Session server (`tcp_server.cpp`, Master) | `running_`, `status_`, `pairing_decision_`, `disconnect_requested_`, `kicked_this_session_`, `active_channel_` | background `run()`: accept, handshake, prompt, session loop; UI calls: approve, reject, disconnect, stop | TCP stream to one Slave; trust store; UI through atomics and a mutex |
| Session client (`tcp_client.cpp`, Slave) | `running_`, `status_`, `active_channel_` | `run_once`, retry loop, stop | TCP stream; trust store; UI |
| Trust store (`known_peers.cpp`, `static_keys.cpp`) | device id -> public key, own key pair, both on disk | remember, forget, load, save | both session ends, UI |
| Secure channel (`secure_channel.cpp`, `platform_socket.cpp`) | nonces of both directions | send, receive one frame | the socket |
| Auto-connect (`auto_connect_pump.cpp`) | suppressed devices | one look per frame | discovery, client, trust store |
| Discovery (`announcer.cpp`, `listener.cpp`, `peer_table.cpp`) | peers with the time they were last heard | announce, receive, prune | UDP broadcast |
| Audio path (`audio/*.cpp`) | jitter buffer, send sequence number, carry | capture callback, receive drain, playback callback | UDP |
| Audio settings (`audio_pump.cpp`) | desired, sent, reported, applied settings of both sides | one pump per frame on each side | session messages |
| Input (`input_pump.cpp`, `hook.cpp`, `inject.cpp`) | owner of the input, held keys, pending events | hook callbacks, pump, inject | session messages, OS |
| Topology (`crossing.cpp`, `arrangement.cpp`) | monitor rectangles | pure geometry | input pump |
| Clipboard (`clipboard_pump.cpp`, `clipboard.cpp`) | content last seen, content last applied; on X11 the offer as selection owner | poll, send, apply, answer requests | session messages, OS |
| Main loop and UI (`main.cpp`, `ui.cpp`, `app_state.h`, tray) | screen and the one before, role, which objects exist, window visible, quit | the buttons, hide and restore, the loop's fixed order of pumps, the end of `main()` | all |
| Telemetry (`telemetry/*`, the two window headers) | counters, rotating logs, sample windows | record, prune | all |

### What is hard here

* **Threads and atomics.** The UI acts on a status it read a moment ago, while
  the background thread goes on; flags set by one and cleared by the other.
* **Two programs that remember different things.** Either side may have
  forgotten the other, been restarted, or hold another key.
* **Lossy ends.** TCP ends with or without a reason ahead of the FIN; UDP loses,
  delays, reorders and duplicates.
* **Deadlines everywhere.** Every read of the handshake has one, prompts have
  two minutes, silence ends a session, backoffs run in between.
* **Counters that wrap and buffers that fill** in the audio path, between two
  clocks that never agree.

PROJECT.json lists the hazards with the line each one bites at.

## 2. Plan

In order of importance to the user. Modules that are to be proved about use no
RECURSIVE operators, one action per operation and invariants in named parts.

| Module | Abstract or base module | State |
| --- | --- | --- |
| `Session` -- who may hold the session | refines `Admission` | checked, proved (`SessionProofs`) |
| `JitterBuffer` -- the receive buffer | refines `PlayoutQueue` | checked, proved (`JitterBufferProofs`) |
| `AudioPlayout` -- capture to loudspeaker over UDP | extends `JitterBuffer` | checked, proved (`JitterBufferProofs`) |
| `AudioControl` -- who decides the audio settings | | checked, proved (`AppProofs`) |
| `Pointer` -- who owns the mouse | extends `Crossing` (geometry) | checked, proved (`PointerProofs`) |
| `KeyHandoff` -- keys held over a hand-off | | checked, proved (`KeyHandoffProofs`) |
| `AutoConnect` -- the Slave that dials by itself | | checked, proved (`AppProofs`) |
| `SecureChannel` -- frames, nonces, partial reads, blocking sends | | checked, proved (`SecureChannelProofs`) |
| `ClipboardSync` -- both clipboards over one session | | checked, proved (`AppProofs`) |
| `TrustStore` -- known_peers and its file | | checked, proved through `Pairing` |
| `Pairing` -- two trust stores and the handshake that changes both | extends `TrustStore` | checked, proved (`PairingProofs`) |
| `Presence` -- announce, hear, expire | | checked, proved (`PresenceProofs`) |
| `AppLifecycle` -- screens, main loop, devices, exit | | checked, proved (`AppProofs`) |

Every safety property that a passing run checks is also a theorem (section 6).
Still worth proving: the type invariants no run lists, that the frames of `keys`
and of `pointer` agree on who owns the input, and stronger forms of the properties
that leave something out because the code does (`NothingStuckOnSlave` over buttons,
`NoEcho` over images) for code that no longer does.

`AppProofs` is one module for the four components of the main loop: it extends all
of them, so their definitions have names of their own (`ConnectSpec`,
`ControlSpec`, `ClipSpec` beside the `Spec` of `AppLifecycle`), and each keeps an
invariant of its own.

## 3. The modules

### Session, Admission, MCSession, MCSessionRaces, SessionProofs

`Admission` is the promise: a device holds the Master's one session only with a
key its user accepted, and not after the user threw it out until the user
accepts it again. `Session` is both threads (`TcpServer::run`,
`TcpClient::run_once`), the two byte streams and the buttons of both users.

* `spc`/`cpc` say where a thread is; the names are those of the read it is in.
  A step reads one message, computes what the code computes up to the next
  blocking read, and sends what the code sends on the way. Where the code
  publishes something the UI can see in between (`status_` before
  `pairing_decision_ = Pending`, `Connected` before the reset of
  `disconnect_requested_`), the step is split there, because the order is the
  point: `ServerPubKey` then `ArmPrompt`, `ServerIk` then `OpenSession`.
* `strust` and `crs` are the copies of the trust store a handshake works with;
  `sKnown` and `cKnown` the stores, which Forget changes underneath it.
* `s2c`, `c2s` are FIFO streams of messages; `"eof"` is the FIN. A deadline is
  a step that is enabled while nothing has arrived: the model has no clock.
* Keys are opaque. That `run_ik_responder` authenticates the initiator's static
  key, and that only the owner has it, is taken from the Noise pattern.
* History: `approved` (pairs the user accepted and has not forgotten) and
  `owed` (devices thrown out), which `Admission` is refined with. Forget
  withdraws every approval at once. What survives it is the copy `strust` of the
  connection being served, which `Admission` calls its `visitor`: that device may
  still come in, this once, and needs a new Accept when it has left. So does an
  Accept that was pressed before the Forget and that `run()` has not yet found
  (`answer`): the key is stored when it is found (`tcp_server.cpp:206`).
* `PressAccept` and `PressReject` read the status and store the answer in one
  step. The code has a few instructions between the two (`ui.cpp:285-289`), in
  which a prompt may end or another's be armed; that is not modelled. An answer
  stored between two prompts is erased when the next one is armed (`Armed`).

`StreamAgreement` is the hazard of the comment at `tcp_server.cpp:155-159`: with
any combination of what the two sides remember, neither ever parses a message
meant for another step. `KickedSlaveTold`: the reason stays ahead of the FIN.

### JitterBuffer, PlayoutQueue, AudioPlayout, JitterBufferProofs

A frame is its sequence number, `0 .. SeqMod - 1` (2^32 in the code); `++` wraps.
`push` and `pop` run under one mutex, so each is one step; their early returns
are the separate actions `PushLate`/`PushFits`/`PushOver` and
`PopFilling`/`PopFrame`/`PopMiss`/`PopResync`. `AudioPlayout` adds the Slave's
send counter, the UDP network as a set of packets that may be lost, delivered in
any order and more than once, and the playback callback with its byte carry.
`AfterStall` is what the resync leaves: nothing started, nothing waiting.

`PlayoutQueue` is what a listener may rely on: in order, at most once, only the
oldest is discarded, and no going back to a passed position unless everything is
given up. `-1` is a position before every number.

### AudioControl

`mpc`/`spc` separate "handshake done", "status says Connected" and "channel
published", the two publications in between which a frame of either main loop
may fall. `master` and `slave` are the audio fields of the two `AppState`s;
`mView`, `sPort`, `sReq` those of the two `ConnectionInfo`s. `MasterFrame` and
`SlaveFrame` are whole calls of `pump_audio`. A capture or playback device may
fail to start (nondeterministic), and `RetryDue` is the passing of the backoff.
`session` doubles as the session's audio key.

### Crossing, Pointer, MCPointer, PointerProofs

`Crossing` is `crossing.cpp` on integers, exclusive maxima treated as inclusive
exactly as the code does. `Pointer` is `pump_input` over it: `x`, `y` are the
logical position in the coordinates of whoever owns the input, `landed` is
`input_just_handed_off`, `moved` what the hook gathered since the last poll. The
environment starts and ends sessions, changes the Slave's displays (down to none),
and drags its block in the arrangement.

### KeyHandoff, MCKeyHandoff, KeyHandoffProofs

The same pump seen from the keyboard: `phys` (fingers), `osDown` (what the
Master's OS believes), `held` (`input_held_keys`), `injected` and `shadow` (the
Slave's virtual devices and its injector's modifier bits). When the hand-off
happens is left open (any frame), which covers every motion `Pointer` allows.
Keys and buttons wait in a queue each (`pending_.keys`, `pending_.buttons`), in
order, and are forwarded buttons first; the sync mask is asked of the OS
(`GetAsyncKeyState`), not of the keyboard, because that is what the code asks.
`early`, `stale` and `swallowed` are history: keys down before a hook was there,
down on the Slave when a session was lost, and let go in the frame of an escape.
With `Twins`, the left modifiers whose bit a right one shares, they name what the
code is known to leave down, each with a row in section 5 but for `stale`: nothing
in the code releases what an injector still holds when its session ends.

### AutoConnect

`tcpClient` is the one `TcpClient` or none, with the phase of its thread, the state
it shows and the unread GoAway; `Frame` is `pump_auto_connect`. The Masters are
the environment: an attempt may end in any way at any phase. Waits are not
timed: a backoff ends at any moment.

### SecureChannel, SecureChannelProofs

One step writes or reads one *piece* (a length, or a chunk of ciphertext), so
the frames of two threads could mix if `send_mutex_` (`lock`) did not keep them
apart. `pipe` is what the kernels of both machines buffer; a send that finds no
room waits, with the mutex. `reading` is what `receive()` holds of a frame.
After a frame that was given up, in its ciphertext (`FrameTimeout`) or within the
four bytes of its length (`LengthTimeout`), or refused for its length, the reader
takes whatever comes next for a length: any value (`ReadLength`).
Decryption is ideal: it accepts what was sealed under the expected nonce.

### ClipboardSync

Each machine is Windows or X11, in every combination. On Windows `changed` is
the sequence number's edge, opening the clipboard may fail, and a content that
is written and read back may differ (an image is re-encoded, ill-formed text
replaced). On X11 `own`, `have`, `wire` and `clear` are the selection as the
server and as the program see it, with the SelectionClear still in the queue;
writing is two steps, the offer (`PumpOffer`) and taking the selection
(`PumpOwn`). `ReadOther` is one `read_clipboard` with its three requests, each
answered in time, late or never; `late` is the queue of replies nobody waits
for any more. `from`, `missed` and `got` are history.

### TrustStore, Pairing, PairingProofs

`TrustStore` is `KnownPeers` on each machine: the map `mem`, the file's whole
lines `file`, the device `torn` on a line that was cut short, and `doing`, where
`save()` is. `save()` truncates (`OpenStore`) and then writes (`WriteStore`,
`WriteShort`); the process may die between the two, or the open be refused
(`OpenRefused`), which nobody is told. `Start` reads what is left.

`Pairing` composes two stores with one connection: `handshake` is `{}` or its
step, the ends still working on it and the copies each took of its store
(`trusted_pubkey`, `rs`). It keeps of the handshake what the stores depend on;
`Session` has the messages, prompts and deadlines. `dialing` is the Slave's
thread: it dials again after a failure (`Dial`), but returns after a rejection, a
prompt nobody answered on the Master included (`PromptEnds`), and when its
`give_up_deadline` passes (`GivesUp`). Another is started by the Slave's user
(`PressConnect`) or, for a trusted Master, by the pump (`AutoConnect`). `ident` is the own key pair: a
machine outside `Writable` gets a new one with each `TcpServer` or `TcpClient`,
because `get_or_create_static_keypair` returns a pair whether or not it was
stored. `word` (what was accepted and not taken off the disk since) and `intact`
(the last save went well) are history.

### Presence, PresenceProofs

One machine's `Listener` and `PeerTable` among announcers that appear, vanish
and come back as something else (`Ads`: role, port, name). A packet and an entry
carry their age instead of a time stamp, and `Tick` passes only when no deadline
is due: that is how the period, the receive timeout and the delay bound what may
happen. A packet may be heard again (an interface each), never (lost, at most
`MaxLost` in a row) or after a younger one. `Hear` is a whole turn of the loop,
upsert and prune.

### AppLifecycle

`at` is where `main()` is: events, `pump_audio`, `pump_auto_connect`, the tray,
drawing, and then the steps of the end. `server` and `client` are the objects a
button makes and drops; their sessions change at any moment, on their own
threads. `playback`, `recv`, `window` and `capture`, `sendChannel` are the audio
objects of the two roles, named by what would go stale: the playback generation,
the socket, the format. `inCallback` is the capture device's thread;
`AudioCapture::stop()` waits for it. The members of `AppState` go in the reverse
of their declaration.

## 4. The runs

| Run | Instance | Distinct states | Shows |
| --- | --- | --- | --- |
| `session_one` | 1 Slave, 2 keys, all buttons, 1 message of session data in flight | 120,372 | `TypeOK`, `StreamAgreement`, `KickedSlaveTold`, refinement `OnlyAdmitted`; `ServerNeverWedged`, `ServerStops`, `ClientStops` |
| `audio_playout` | target 2, ceiling asked 1, 5 sequence numbers, packets of 2, requests of 1 and 3 bytes, 2 packets under way | 51,500 | `BoundedDepth`, `NothingStranded`, refinement `HeardInOrder` over the lossy network; `SoundReturns`, `CallbackReturns` |
| `audio_control` | 2 formats, 2 edits, 2 sessions | 580,073 | `ReportsArrive`, `CaptureFollows`, `EditsStick`, `Settles` |
| `auto_connect` | 2 Masters | 74,880 | `LeaveIsFinal`, `KeepsTrying` |
| `pointer` | a 4x3 Master, two Slaves with no, one or two screens, drops on three sides, moves of up to 3 pixels, return margin 2 | 214,592 | `SuppressedForSlave`, `HomeInside`, `PinnedElsewhere`, `RestStays` |
| `keys` | a letter and a modifier that form the combination, a button, 2 events per frame, 2 sessions | 4,573,044 | `NothingStuckOnSlave`, `NoGhostKeys` |
| `secure_channel` | 4 messages, of the largest size and larger, 3 pieces (a frame and a half) buffered each way, one frame that takes too long | 550,081 | `InOrder`, `WholeFrames`, `DeafAfterError`, `FramesArrive` |
| `clipboard` | a text, an image, both systems, 4 events (sessions, copies, late replies) | 2,023,766 | `LatestWins`, `NoEcho`, `Quiet` |
| `trust_store` | a Master, a Slave and another Slave; 3 faults out of crash, short write, refused open, Forget, lost connection, new object | 117,784 | `OnlyTrusted`, `OnDisk`; `Heals` |
| `presence` | one other device under two announcements, periods of 1 or 2 ticks, delay up to 2, 1 loss in a row, timeout 6 | 128,122 | `NoGhosts`, `Current` |
| `lifecycle` | both roles, 2 formats, 2 sockets, 3 playback generations | 111,564 | `DiscoveryServed`, `AudioBelongs`, `OneSource`, `CallbackSafe` |
| `race_disconnect` | 1 Slave | | violated: section 5 |

Two larger configurations stand beside the runs: `MCSession_two.cfg` (2 symmetric
Slaves, 2,475,461 states) shows that the prompts and kicks of one Slave never
answer for the other, and `JitterBuffer.cfg` (2,920 states) checks the buffer
alone, with `CapClears`. Every module states its type invariant `TypeOK`; where
no run lists it, its configuration can.

**Why the bounds are enough.** One Slave with two keys covers every mismatch
between what two sides remember; a second Slave adds only the competition for
the one prompt and the one session, and a third would compete in the same way.
Session data carries no state of the handshake, so one or two frames in flight
let it be ahead of, or behind, every control message. Eight sequence numbers at
a ceiling of four let the position wrap with a full buffer on either side of the
boundary; `audio_playout` does the same with five numbers
under a network. Three pieces each way let both directions carry a whole frame at
once without being full; four messages then fill both, so that the traffic that
`FramesArrive` is about and the state it excepts are both reached. Two sessions are what it takes to carry a value from one into the
next; two edits, to have one overtake the other. The screens are small, but
every move can exceed every edge, both at once at a corner, by less than and by
more than the return margin. Two messages of each end are what a deadlock of four
threads takes; four clipboard events allow a copy, a crossing copy and a re-copy in
one session, or one content carried into a second. `MaxWire = 0` lets the pump run only when the Slave
has read everything: TCP keeps the order, so a backlog changes when a message is
injected and not after which. Three faults
are a crash in the middle of the repair of another one, and one more while that
is repaired. In `presence` the timeout is exactly `(MaxLost + 1) * MaxPeriod +
MaxDelay`, the least that `LossAssumption` allows: with one tick less `Current`
fails. The code's 5 s at a period of about 1 s outlast three losses in a row.
Three generations tell the playback that runs from the one before and from a
number that came round. Every other bound is in the guards and named there.

**Fairness.** `ServerRuns`, `ClientRuns(c)`, `StreamFlows` are stated inside the
properties that need them, so that each assumes no more than it uses. The thread
of a server or client is scheduled, and each of its waits has a deadline in the
code (`wait_readable`, `recv_all`, the prompt's two minutes), hence weak fairness
of the union of its steps; the peer and the users owe nothing. `ClientStops`
holds of a Master that never sends another byte. `CallbackReturns` needs the
device's thread only. `SoundReturns` needs devices that keep calling and a
network that does not drop every copy of one number for ever (strong fairness of
each delivery; UDP promises less, and a network that drops everything is silent).
Five numbers wrap soon, and in the code the position does not come round for more
than half a year. So that a lap of the position cannot stand in for the resync, nothing is
asked of the deliveries of the last number, the only one that no position before
the wrap is past: without the resync the sound then stays away.
`KeepsTrying` and `Settles` need the main loops, which draw a frame for ever, and
the threads they start.

`Heals` assumes of the code that the threads run: one that still dials makes its
next attempt. The rest it asks of the users, because the code does not promise
it: that a program that died is started again; that Connect is pressed on a Slave
whose thread has stopped, after a rejection (`tcp_client.cpp:203-210,393`) or at
its deadline (398-399, 417), since auto-connect dials trusted Masters only and may
be off or suppressed (it is in the model, with no fairness); and that a prompt
shown over and over is accepted one day (strong fairness of `MasterApproves`).
What it shows is that no trust left on one end stands in their way. Faults are
bounded, so they end.

`FramesArrive` assumes that every thread runs. It excepts one state, `Deadlocked`,
in which all four threads wait for each other, and damaged or ended sessions.
`Quiet` assumes that the session threads run.

Deadlock is checked in every run but those of `SecureChannel` and
`ClipboardSync`, where everything may have been sent and copied that the bounds
allow, and that of `AppLifecycle`, which stops where the program has ended.

## 5. Where the code and its comments part

One is a run, with the trace TLC prints. `race_disconnect`: `Connected` is
visible (`tcp_server.cpp:264-268`) before `disconnect_requested_` is cleared
(288): a Disconnect pressed in between is lost.

The others are stated as definitions in their modules, each with the comment it
quotes and a configuration that refutes it (`tlc -config <cfg> <module>`; a
configuration named `refuted` lists several, and TLC stops at the first it meets:
keep the line of the one to see):

| Definition | Configuration | What happens |
| --- | --- | --- |
| `SendReturns` | `SecureChannel_SendReturns.cfg` | `send_input` is called safe next to the session thread, as "the only caller of send()" (`tcp_server.h:69-75`); the session thread sends heartbeats, pings and pongs under the same mutex and reads nothing while it waits for it: when both ends write more than the sockets hold, four threads wait for each other, and `stop()` for them |
| `AnswerKept` | `MCSessionRaces_Answer.cfg` | Accept or Reject pressed between the prompt showing and `pairing_decision_ = Pending` is overwritten |
| `FastForwards` | `JitterBuffer_doc.cfg` | `jitter_buffer.h:68-73` describes a fast-forward `pop()` does not have |
| `GoAwayStopsDialing` | `AutoConnect_refuted.cfg` | a GoAway suppresses the Master for *new* clients; the one that received it dials again a second later (`tcp_client.cpp:376,391-415`) |
| `RejectionIsFinal` | `AutoConnect_refuted.cfg` | the pump starts a new client for a Master that rejected the Slave |
| `RetriesWait` | `AutoConnect_refuted.cfg` | the pump replaces a client that is waiting between attempts |
| `NeverStuck` | `AudioControl_NeverStuck.cfg` | a report sent between `Connected` and the channel is dropped and counts as reported |
| `RequestsApplied` | `AudioControl_refuted.cfg` | the last applied number outlives the connection whose counter restarts: the first request of a second session is ignored (`audio_pump.cpp:206`) |
| `SameAudioKey` | `AudioControl_refuted.cfg` | two sessions without a frame in between: playback keeps the old key |
| `ChoiceHolds` | `AudioControl_refuted.cfg` | the Master's saved choice is dropped with the connection |
| `FormatsChosen` | `AudioControl_refuted.cfg` | a control touched before the first report requests rate 0 |
| `ReturnNeedsPush` | `MCPointer_refuted.cfg` | a push *along* the return edge past a corner hands control back |
| `ReportsExceededEdge` | `MCPointer_refuted.cfg` | touching Left while exceeding Up is reported as Left |
| `StartsFromCursor` | `MCPointer_refuted.cfg` | motion gathered by the previous hook moves the new start |
| `EscapeFrees` | `MCKeyHandoff_EscapeFrees.cfg` | the frame that completes Ctrl+Alt+Shift+Esc drops its own key releases: a key let go in that frame stays down (`input_pump.cpp:290-331`) |
| `ButtonsReleased` | `MCKeyHandoff_ButtonsReleased.cfg` | a mouse button held over a hand-off stays down |
| `EarlyKeysReleased` | `MCKeyHandoff_EarlyKeysReleased.cfg` | a key held since before the hook stays down |
| `ModifiersFreed` | `MCKeyHandoff_ModifiersFreed.cfg` | a right modifier leaves its left twin down on the Slave |
| `ForgetPersists` | `Pairing_ForgetPersists.cfg` | "a fresh instance should not see it either" (`test_crypto.cpp:294`): a save whose open is refused (`known_peers.cpp:78-82`) leaves the forgotten peer on disk, and a restart trusts it again |
| `Heals` | `Pairing_KeysKept.cfg` | "generating and storing one on first run" (`static_keys.h:6-7`): where the file cannot be stored every new client has another key, and the IK handshake with a Master that remembers the first one fails until a user presses Forget |
| `NeverDestroyed` | `AppLifecycle_refuted.cfg` | "the capture callback can never touch a channel that's already been destroyed" (`audio_pump.cpp:160-162`) holds of `stop_slave_audio`, which the end of `main()` (`main.cpp:264-302`) does not call: `audio_send_channel` is declared after `audio_capture` (`app_state.h:91-92`) and so destroyed before it |
| `HiddenCanQuit` | `AppLifecycle_refuted.cfg` | "Closing the window hides it; quitting is handled by the tray action" (`main.cpp:42`): where no panel shows the icon (`tray_linux.cpp:384-387`) the hidden window has neither |
| `OnlyEchoHeldBack` | `ClipboardSync_refuted.cfg` | a text that was received, replaced and copied again is taken for the received one and never sent |
| `OwnerOffers` | `ClipboardSync_refuted.cfg` | a SelectionClear read after the selection was taken again withdraws the new offer: pastes are refused |
| `TextsIntact` | `ClipboardSync_refuted.cfg` | the late reply to one target is taken for another: mojibake is sent to the peer |

Two more facts follow from the modules without contradicting a comment. An end
whose `receive()` has failed once delivers nothing again (`DeafAfterError`) but
the session goes on, for every failure counts as a sign of life
(`tcp_server.cpp:307`); a copied text above 8 MB is enough, since only images
are kept below `kMaxFrameLen`. And images between two Windows machines do travel
back and forth until re-encoding reaches a fixed point (`NoEcho` excepts them;
`Quiet` assumes the fixed point, `MaxGen`).

## 6. The proofs

`JitterBufferProofs` (489 obligations): for every target depth >= 1, every
requested ceiling, every miss limit >= 1 and every width of the sequence number,
`Spec => []` of the four invariants and `Spec => Queue!Spec`. The inductive
invariant is the conjunction of the four: `BoundedDepth` alone is not inductive
because `PushOver` removes *one* frame, which is enough only if there was room
for one before; `NothingStranded` is what makes the frame that is played the
oldest one waiting, which the refinement needs of `PopFrame`, and what makes a
wrap harmless: position 0 follows the last number only when nothing else waits.
`PlayoutUsesBuffer` lifts this to the whole path: every step of `AudioPlayout` is a
step of `JitterBuffer` or leaves it alone, so with any network, any packet size and
any requests of the device (`PacketAssumption`, `NetAssumption`) the same buffer is
found (`PlayoutKeepsBuffer`) and the same order heard (`PlayoutHeardInOrder`).
`CallbackWorksOff` is the half of `CallbackReturns` that is no liveness: each turn
of the callback's loop lowers a natural number that nothing else raises.

`PointerProofs` (549 obligations): for any screens, arrangements, motions, Slaves
and return margins >= 1 (`MarginAssumption`, `MoveAssumption`, `EntryAssumption`,
`ScreenAssumption`: the Master has a screen, and monitors are finitely many and have
a size), `TypeOK`, `SuppressedForSlave`, `HomeInside`, `RestStays` and
`PinnedElsewhere`. `IInv == TypeInv /\ FlagInv /\ HomeInv` adds that without a hook
the Master owns the input: `Deactivate` resets both, and without it the step
`Install` could break the suppression. Three facts of the geometry are theorems of
their own: `BoundsProper` (what `compute_bounds` returns has a size and encloses
every monitor), `LandingInside` (a crossing lands on the peer's bounds, for every
offset) and `RoundTrip` (straight back leads to where the cursor left).
`BoundsProper` needs that a finite set of integers has a least element (`HasLeast`).
That is an induction over the set; it is done without an induction theorem, by a
smallest counterexample (`WFMin` over the strict subsets).

`PresenceProofs` (691 obligations): `NoGhosts` and `Current` for any number of
devices and every period, delay, receive timeout and number of losses in a row
that `LossAssumption` allows. `NoGhosts` needs that an entry is hardly younger
than the device's last announcement (`EntriesRecent`, and `PacketsRecent` for
those under way). `Current` has two halves. That an entry says what the device
is now needs the same of the announcements from before it came back
(`OldPackets`, `OldEntries`). That there is an entry at all needs `Heard`: the
time since the youngest entry is `Excused` either by what was lost in a row
(`Unsent`) or by a packet still under way, so that it stays below the timeout
when `prune` looks; both disjuncts are needed, since a loss may come before or
after a packet that is overtaken.

`PairingProofs` (155 obligations): `OnlyTrusted` and `OnDisk` for any
machines, devices and keys and any number of faults, from `DeviceAssumption`,
`KeyAssumption` and `MishapAssumption`. `OnlyTrusted` needs `FileTrusted` (what a
restart would read was accepted too) and `LeavingOut`: while `forget()` saves, the
device is out of the map and the mutex keeps every `remember()` from it, so that
what the write revokes is not in what it wrote.

`SessionProofs` (2536 obligations): `OnlyAdmitted`, the refinement of `Admission`,
for any number of Slaves, keys and messages and any set of buttons, from
`KeyAssumption` and `NobodyAssumption` (no device, and no device with its key, is
the empty session). The handshake decides by a copy of the trust store that
Forget may have overtaken, so the copy is the abstract `visitor`, and `CopyServed`
says that there is one only while a connection is served.
`PromptShown` ties what the user sees to the device and the key that wait, without
which an Accept could be about another; `AnswerIsOwn` says that an Accept left
over from before is gone once `run()` looks for one, because arming the prompt
erases it; `OwedKicked` that the kick list catches whoever owes a new approval.

`StreamAgreement`, `KickedSlaveTold` and `TypeOK` of `Session` rest on a second
invariant, `SInv`, for the same constants. No property of one side is inductive
here: what a side may read next depends on how far the other one is, and on what
both remember. `Together` therefore lists, for each place of the Master's thread,
where the served Slave can be and how many messages are then under way in each
direction (`FlagStage` .. `SessionStage`); `Readable` and `MasterReadable` say what
they are. The two copies of the question who remembers whom are tied to the flags
under way, for both sides compute `NeedPairing` from them. A Slave that is not
served either has no connection yet or reads the rest of one that the FIN ends
(`Alone`), which is where a stream of any length comes in. For `KickedSlaveTold`
the copy must still be the stored key, or the key forgotten (`CopyKnown`), so that
a session with a Slave on the kick list cannot be (`KickedOut`), and whoever is put
there has the reason on its stream, ahead of the FIN, or has read it
(`ReasonGiven`).

`KeyHandoffProofs` (738 obligations): `NoGhostKeys` and `NothingStuckOnSlave` for any
finite keyboard, any combination, any backlog on the wire and any number of sessions
and events in a frame (`InputAssumption`). `NoGhostKeys` needs where the
OS's belief comes from: at home every key it believes in is one the pump knows or
will know of once it has polled (`HomeHeld`; `EventAdded` is the step for one more
event), so that crossing out can take them all back; away nothing is left
(`AwayForgotten`); without a hook the Master owns the input (`Unhooked`).
`NothingStuckOnSlave` is about what has been read, so its invariant `FarInv` is
about what is still under way: `Will(k)`, whether a key will be down once all of it
has been read, depends on the last message about `k` only. While the Master has the
input nothing will (`HomeReleased`); while the Slave has it, what will is in the
pump's list, so that the return can release it, and on the keyboard, unless the
frame to come says otherwise (`AwayHeld`, `FreshEvents`). A sync sets modifiers by
the injector's shadow, so the shadow must agree with what is down (`Agree`): it
does but for a left modifier whose bit a right one shares, which is why `Twins` are
left out. The model had to say more for this proof than TLC had asked of it: keys
let go in the frame of an escape stay down (`swallowed`), and keys and buttons are
queues of their own.

`AppProofs` (1432 obligations), main loop: `DiscoveryServed`, `AudioBelongs`,
`OneSource`, `CallbackSafe` and `TypeOK` of `AppLifecycle` for any formats and
sockets and any number of generations. `AInv` needs what no button tests: which
screen *Back* leads to (`Place`) decides whether the role's objects are there
(`Served`), and between the *Back* that drops a role and the next `pump_audio` the
audio of that role is left with `audio_active` set, never without (`Torn`). The
capture device and its channel come and go together (`Paired`), which the end of
`main()` breaks: `CallbackSafe` speaks of the running program.

`AppProofs`, auto-connect: `LeaveIsFinal` for any number of Masters. What lifts a
suppression is a client that shows `Connected`, so `ShowsTarget` is needed: it shows
the Master it was made for, never another's.

`AppProofs`, audio settings: the action properties `CaptureFollows`, `EditsStick`
and `ReportsArrive` for any formats, edits and sessions. `CaptureFollows` needs only
that the backoff is armed with the device closed (`Backoff`). `EditsStick` needs that
a request not yet applied has come since the last frame (`Unapplied`): the applied
number survives the session, the request's does not. `ReportsArrive` needs that from
the first accepted report on, what the Master believes or has still to read is what
the Slave remembers to have sent (`Reported`), and that both ends of a live
connection are up (`LinkUp`).

`AppProofs`, clipboard: `LatestWins` and `NoEcho` for any texts and images, both
systems on either side, any number of copies, sessions and late replies. `Newest`
relates the slot, the content received last and the content applied last; `NoEcho`
needs in addition that content of this session which stands on a clipboard is what
the pump applied, as X11 offers it (`Owning`, `Offering`) or as Windows made it
(`Written`), so that a poll that finds a difference has found the user's. Whatever
reply is taken for whatever answer, the queue of late ones stays a queue of replies.

`SecureChannelProofs` (1794 obligations): `InOrder`, `WholeFrames` and
`DeafAfterError` for messages and buffers of any size and any number of messages
and of frames given up, from `ChannelAssumption`. `InOrder` needs only that no
piece is under way that was not encrypted (`Outgoing`, `Buffered`, `Gathered`) and
that the two nonces count (`Counted`, `Behind`). The other two need the shape of
the stream. `Rest` is what is buffered and what the mutex's holder has still to
write: an unbroken, strictly ordered run of frames that ends with the last one
issued (`Good`). The mutex keeps it so: `Acquire` finds nothing left to write
(`Unlocked`) and adds a whole frame at the end (`FrameGood`), every read takes
from its head (`TailGood`), and a write moves a piece from one half to the other
(`HandedOver`). Until the first error the reader is at the start of a frame or
holds the beginning of one (`Framed`), so that what it completes is authentic;
after it, the first piece of the frame it expects is gone or about to be taken
for a length (`Lost`), so that nothing it completes is (`NeverAfterError`).

Every safety property of a passing run is thus proved, each from a specification
without fairness. Only model-checked are the liveness properties
(`ServerNeverWedged`, `ServerStops`, `ClientStops`, `FramesArrive`, `KeepsTrying`,
`Settles`, `Quiet`, `Heals`, `SoundReturns`, `CallbackReturns`), which need fairness
and ENABLED and stay with TLC for good, and the type invariants of the modules
whose theorems keep typing facts of their own instead.

## 7. Not modelled

* Cryptographic primitives: their results are opaque values that only the right
  key makes. Byte layout of messages: pure functions with tests of their own.
* The settings, last-role and device-id files: one reader at the start, one
  writer, no other party. Reading them shows two things no module states: a value
  cut short still parses (`connection_timeout_s 30` torn to `3`), and after one
  value that does not parse all later ones keep their defaults.
* Telemetry records and the logger, which decide nothing.
* Drawing, icons, image decoding, D-Bus messages; the miniaudio device glue,
  the codecs, process statistics, network interfaces and displays of the
  platforms. They compute no state of a protocol, or are the environment of what
  does.

PROJECT.json lists each part with its reason.
