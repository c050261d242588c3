# Verification of nanokvm-rdp

TLA+ specifications of the gateway and the NanoKVM agent, TLC configurations
that check them on small instances, and TLAPS proofs of the most important
invariants. Every definition that models code keeps the name of the function it
models where it can; `PROJECT.json` maps each one to its source lines.

## 1. The system

    RDP client <-> gateway (main, listener, peer thread, video and output threads)
                      |  control connection (TCP)      ^ RTP/H.264 (UDP)
                      v                                |
                   agent (control thread, video thread) -> USB HID gadget -> host

| Part | Source | State | Operations | Model |
|---|---|---|---|---|
| HID output | `hid.c` | held keys and buttons, two report queues, in-flight endpoint | one per control message, flush, keepalive, release | `AgentInput` |
| Agent control thread | `agent.c` | connection, phase of the loop, stream flags | handle_control, connect, disconnect, stop | `AgentInput`, `AgentTransport`, `VideoPath` |
| Agent capture and RTP sender | `agent.c`, `rtp_h264.c` | image in hand, failure counters, sequence number | video_loop, packetizer, send_packet | `VideoPath` |
| Control transport | `agent_transport.c`, `protocol.c` | fd, pending_fd, epoch, stream request, key wait | accept, run, heartbeat, send, shutdown, destroy | `AgentTransport`, abstractly `ControlLink` |
| Gateway process, RDP peer | `main.c`, `gateway_server.c`, `rdp_peer.c` | active client, closing, shutdown event | admission, claim, teardown, timeout event, stop | `GatewayStream` |
| Input: RDP callbacks, HTTP handlers, router, keepalive | `rdp_input.c`, `http_api.c`, `input_router.c`, `gateway_server.c` | buttons, modifiers, Control+Space, input_busy | one per event, release, keepalive | `GatewayInput` |
| RTP receiver and video source | `rtp_client.c`, `rtp_h264.c`, `h264.c`, `video_source.c` | expected sequence, fragments, access unit, gate | open, read, close | `VideoPath`, abstractly `VideoFeed` |
| Device session, readers, snapshots | `device_session.c`, `gateway_server.c`, `http_api.c`, `rdp_gfx.c`, `rdp_bitmap.c` | lease, generation, yield event, newest frame, cached JPEG | acquire, release, read, publish, snapshot, stop | `VideoReaders` |
| Output of decoded frames | `rdp_bitmap.c` | pending frame, output thread | on_decoded_frame, output_thread, flush, send | `BitmapOutput` |
| Flow control | `frame_flow.h` | frames in flight, bytes, suspension | sent, ready, admit, ack | `FrameFlow` |
| AVC output | `rdp_gfx.c` | need_idr, frame ids, ack event | read, admit, wait, submit, register, ack | `AvcOutput` |
| Decoder, configuration, logging, frame trace, FoldVNC client, probes | | | | not modelled (section 5) |

How the models fit together:

    AvcOutput, readers of VideoReaders     GatewayInput (routers, handlers, keepalive)
            | reads units of                       | sends on
        VideoFeed                              ControlLink
            ^ implemented by                       ^ implemented by
        VideoPath                              AgentTransport <- extended by GatewayStream

What makes it hard: two USB endpoints the host polls on its own schedule behind
one queue; writes that answer EAGAIN, stall or lose the device; a control
connection whose descriptor number is reused while other threads hold it; three
gateway threads that start and stop the stream; two clients that drive one
keyboard and one mouse; datagrams that are lost, repeated and overtaken; one RTP
socket for two readers; acknowledgements handled by a different thread from the
one that sends the frames. The hazards, each at its
line, are listed in `PROJECT.json`.

## 2. Modules

**AgentInput** is the agent's control thread and its HID output. `modifiers`,
`usages`, `buttons` and `position` are `HidState`. `reports`, `delayed`,
`blocked` and `inflight` are the two `HidReportQueue`s. A handler changes
`HidState` and puts the calls it makes (`queue_report`, a flush, the
cancellation) into `todo`; they are then carried out one at a time, and every
pass of the loop in `flush_reports` is one step, so that the USB host can take a
report between any two. `onfail` says what the handler does with a false result.
`up`, `pending` and `host` are the gadget and the host. A report carries what is
held, the position and whether it moves relatively; the bytes of a report, the
scancode tables and the text tables are abstracted to keys and to items that are
typed, composed or pasted. Times are abstracted to "not due yet" and "blocked
for too long". The keyboard LED feedback and the counters are left out. A
descriptor is assumed to stay valid when the gadget function is disabled and
enabled again.

`hid_release_all` runs at start, so the queue for the pointer is never idle with
`inflight_endpoint = 0`; the direct write of `write_absolute_now` (`MayBypass`)
is modelled, but its condition is never met (theorem `DirectWriteNeverTaken`). Its
motion goes through the queue instead, which submits it in the same call when
USB is idle.

**AgentTransport** is the gateway's end of the control connection with one agent.
Descriptors (`sock`) are numbers that are reused; connections (`conn`) are not.
A send has the code's steps: capture fd and epoch, check them and `dup` under the
lock, write on the duplicate. A write delivers a frame, or leaves a torn one and
shuts the socket down. The clock is read in one step and compared in a later one
(`lag`); `activity_age` is the time since `last_activity_at`. The agent's side
holds `streaming`. `agent_transport_begin_key_ack` has no caller but the tests;
it is an action of the callers.

**GatewayStream** extends it with the main thread and a peer thread, in the order
of `client_context_free` and `gateway_stop`. The HTTP API always runs (the gateway
does not start without it) and wants the stream from the start; the STOP_STREAM of
a client's teardown takes it away and `restore_http_stream` asks for it again.
`lapsed` is a history variable: a heartbeat timeout has cleared the request and
nobody has made it since. **FrameFlow** holds the operators of
`frame_flow.h` on a record; `uint32_t` arithmetic is kept, modulo a width that
holds every legitimate sum. **AvcOutput** is the video thread with the
acknowledgements of the client and its end; `decodable` and `received` are
history variables of what the client has. The pacing by acknowledgement time is
left out: whether an acknowledgement is late is a free choice.

**ControlLink** is what the rest of the gateway may rely on in the control
connection: connections are numbered, the newest is published, a frame goes to
the connection that was published when it was composed or nowhere, frames arrive
in order, and nothing follows a frame that was cut. AgentTransport implements it
(`ImplementsLink`, an INSTANCE with a refinement mapping from descriptors, epochs
and socket buffers to numbered wires).

**GatewayInput** extends ControlLink, so that it can have the RDP callbacks, the
HTTP handlers and the pointer keepalive in it without the descriptors. A handler
changes its router under the lock and leaves a message in `todo`; sending it,
without the lock, is a second step. The keepalive looks at both routers in the
first step and sends in the second. `hid` is what the agent holds, `held` is what
each client itself has pressed and not released: the gateway does not know it,
and the properties compare the two. Positions and amounts of the wheel are left
out; a wheel or text event only passes by.

**VideoFeed** is what the video path promises to those who read units from it: a
unit without the packet_loss mark is whole, a picture comes only after an SPS
and a PPS, and a P picture only whole, unmarked and directly after the picture
it refers to. AvcOutput's `Units` is chosen accordingly. **VideoPath** is the
detailed specification: the flags of the agent's control thread, `video_loop`
with both looks at them, the packetizer, datagrams, the reassembler, the access
units of `rtp_client.c` and the gate of `video_source.c`. An image is one NAL
unit or several, each of one or more fragments. Assumed of what lies outside:
the encoder starts with SPS, PPS and IDR after each initialisation, and may
repeat them or send an IDR at any time; datagrams do not outlive a restart of the agent.
`raced` records that a P picture was sent between the two stores of START_STREAM
(streaming, then wait_for_idr); from then on VideoFeed promises nothing
(`Forfeit`). `mistaken` records another such moment: a restarted agent counts
sequence numbers and timestamps from 1 again, and the reassembler does not look at
the SSRC, so that a datagram of the new life that carries the expected number is
taken for the next one of the old life, and fragments of the two can be joined.
Without `mistaken` the refinement is false on instances a little larger than that
of the run, which came out when it was to be proved. Such a datagram must meet one
of 65,536 numbers, and only the first one read after a restart can. STAP-A packets,
which the agent never sends, and allocation failures are left out.

**VideoReaders** has the HTTP reader and the RDP reader (either kind), the lease
with its generations, the yield event, publication and the snapshot cache, and
`gateway_stop`. Starting a decoder and pushing into it succeed or fail.
`client_context_free` waits three seconds for each thread and goes on whether or
not it has ended; a read, which lasts as long as units arrive that are discarded,
or a write to the client may outlast the wait. The thread is then in `left`, with
the lease it holds. When it comes back it uses a client that has been freed: it
ends and gives its lease back, or the process ends (`crashed`).
**BitmapOutput** extends it with the pending frame and the output thread. The
sending branch for Progressive and the classic one are not in the model, because
no execution reaches them: an output thread exists in bitmap mode only, and a
client with neither RemoteFX nor NSCodec is refused. The conversion, the
comparison of frames and the codecs are one step.

`MC*` modules give the constants their values. The proofs are in modules of
their own: `AgentInputProofs` and `AgentInputOrder` (which extends it),
`AgentTransportProofs` and `GatewayStreamProofs` (which extends it),
`GatewayInputProofs`, `VideoPathProofs`, `BitmapOutputProofs` and
`AvcOutputProofs`. Definitions marked "Mutant" in a comment are plausible bugs;
no specification uses them. They are what each property was checked to catch.

## 3. Runs

| Run | Configuration | Result |
|---|---|---|
| `input` | 2 inputs, queue of 2, both endpoints | TypeOK, NoStuckInput, PointerEndpointsInOrder, InputNeverLostOrReordered, PasteKeepsOrder hold |
| `input_faults` | 1 input, 1 fault, fairness | NoStuckInput, LastReportIsCurrent, ReleaseFindsRoom, ReleaseReachesHost hold |
| `transport` | 2 connections, a caller, clock read up to 1 tick early, fairness | TypeOK, KeyWaitDiesWithConnection, SilentConnectionDropped, ShutdownCompletes, ImplementsLink hold |
| `gateway_stream` | 2 clients, 2 connections | GatewayTypeOK, StreamOutlivesClient, StreamStartNeverLost, SendsStayInEpoch, NothingFollowsTornFrame, DescriptorsClosedAtExit hold |
| `gateway_timeout` | 1 client, 2 connections | WantedStreamIsRequested is violated |
| `gateway_input` | an RDP and an HTTP client, 2 connections, fairness | InputTypeOK, NoPhantomInput, IdleWhenNothingHeld, ReleasedAtAgent hold |
| `keepalive_race` | an RDP client, 1 button | KeepaliveNeverReleases is violated |
| `video_path` | 6 images, 1 fault, sequence numbers modulo 4 | VideoTypeOK, NothingWithheld, ImplementsFeed hold |
| `bitmap_output` | HTTP reader, 2 clients of any mode, 1 failure or wait that runs out, fairness | OutputTypeOK, OneReader, BitmapReaderGetsLease, SnapshotMatchesId, DestroyedUnlessLeft, HttpReaderReturns, PendingFrameTaken hold |
| `final_frame` | a Progressive or a bitmap client, 1 frame | DecodedFrameShown is violated |
| `avc_output` | 5 access units, window 3, budget 2 | AvcTypeOK, PFramesDecodable, UnacknowledgedFramesTracked, InflightBytesExact, BudgetExceededOnlyByIdr hold |
| `avc_ack_race` | as avc_output | AcknowledgingClientIsServed is violated |

The four violations are disagreements between the code and what a comment, a
test or the README says; `findings` in `PROJECT.json` quotes both.

`final_frame` has two findings. TLC prints the shorter behaviour, that of a
Progressive client, which has no output thread. `BitmapOutputFinalFrame.cfg` is the
same instance with bitmap clients only and prints the other one: the connection
blocks between the two looks of the output thread, and the frame that was taken is
dropped.

Two more disagreements have no run of their own:

* `TimeoutOnlyAfterSilence` (AgentTransport): the heartbeat compares a clock read
  before it takes the lock with `last_activity_at`, which the control thread may
  have set later; the unsigned difference is then huge, and an agent that has
  just spoken is dropped. It is violated with `Timeout = MaxLag = 1` and no
  callers. Nothing is lost but the connection, and the agent reconnects.
* `device_session.h` asks that "All lease/read threads must likewise be joined
  before destroying the session". `client_context_free` ignores whether its wait
  has succeeded, so `gateway_stop` can destroy the session while a reader that was
  left running holds its lease. `DestroyedUnlessLeft` says that this is the only
  case. It takes a read of more than three seconds, that is, units that keep
  arriving and are all discarded, although STOP_STREAM has been sent.

*Bounds.* A queue of two is the smallest that holds the two pointer reports of a
release and it is full after one click, so overflow and merging happen with two
inputs (the code has 256). One fault and one input suffice for a report that is
queued, submitted or taken when the fault comes. Two connections are the least
for a replaced agent and a reused descriptor; a socket buffer of one frame makes
writes fail at once. With the HTTP API on, the two clients have two events between them, such as
a press by each; alone the RDP client has four, enough for Control and Space up and
down in any order. Six images are SPS, PPS and IDR, a P picture, and what follows
it; with sequence numbers modulo four every behaviour wraps, and three datagrams
in flight hold a picture and part of the next. The path was also checked once
with two faults and sequence numbers modulo five. `SequenceAssumption` keeps the
faults below half the range of the sequence numbers, so that no number can be
mistaken for another one within a life of the agent; in the code that allows 32,767
faults in all. The bitmap reader needs five attempts against a
HTTP reader that takes one step between two of them (four fail); the code has
ten. The one failure of the run may also be a wait of `client_context_free` that
runs out, and the second client meets the reader that the first has left behind.
Five access units fill the window of three and go on after it; the sizes lie
on both sides of the budget. Every bound is a constant and guards an input or a
fault, never a step of the code, with one exception: in VideoPath an image is
sent when the datagrams on their way leave room for it (`MaxInFlight`). Deadlock
is checked in `video_path` and `bitmap_output`; in the other runs, with the inputs used up or after an exit,
the system rightly stops.

*Fairness.* `AgentInput!FairSpec`: the control thread keeps running its loop (it
never blocks for longer than its poll timeout), delays pass, and the
USB host takes submitted reports and re-enumerates a lost gadget. A stall uses
up a fault and need not happen. `AgentTransport!FairSpec`: the control and
main threads and started sends go on, and time passes; nothing is assumed of the
agent or the network. `GatewayInput!FairInputSpec`: a message that
the HTTP thread has composed is sent, and the agent reads what has arrived or gives
up a connection that is shut. Nothing is assumed of the clients, the RDP threads or
the keepalive.
`BitmapOutput!BitmapSpec`: both readers and the output thread run, because every
wait of theirs is bounded (a receive by its timeout of a second, the output
thread's by its own) and the units that a read discards stop coming in the end; a
client that is stopping is freed; and a blocked client reads again in the end.
That a frame is decoded, a client leaves or a thread that was left running returns
is not assumed.

## 4. Proofs

Proved with TLAPS for every value of the constants that the named assumptions
allow. The bounds on inputs, faults, clients and connections are constants too,
so the theorems hold for any number of them. What is assumed:

| Module | Assumption |
|---|---|
| AgentInput | a queue of at least two reports; keys and buttons are disjoint sets of numbers |
| AgentTransport | descriptors are numbers; a caller is not one of the transport's own threads; a socket buffer holds at least one frame |
| GatewayStream | the peer thread is one of the callers |
| GatewayInput | no key is a button; Alt and Command, which swap_alt_command exchanges, are modifiers |
| VideoReaders | each kind of reader tries at least once; there are at least two generations, so that one is not 0 |
| VideoPath | fewer faults than half the range of the sequence numbers; an image is one or more NAL units of one or more packets; an SPS and a PPS are one packet each |
| FrameFlow, AvcOutput | a window of at least one frame; a full window and one frame more take at most half of the integer type (`Uint32`, 2^32 in the code) |

**Input at the agent** (AgentInputProofs; `InputStaysInOrder` in AgentInputOrder).

* `TypeCorrect`: `Spec => []TypeOK`, one lemma per action.
* `ReportsAgree`: `Spec => []LastReportIsCurrent`. The
  invariant that matters, `NoStuckInput`, speaks of quiescent states only. The
  inductive one says for each endpoint that the last report in the chain calls
  to be made, queue, submitted report, host carries the current state
  (`Agrees`), unless a failure is about to be answered by a release. Three facts
  keep it inductive: the queues hold only reports of their own endpoints
  (`QueuesSorted`), what is left of a release is a suffix of
  `hid_release_all`'s calls that still fits (`ReleaseShape`, `ReleaseRoom`), and
  a handler that ignores failures is a release (`CallsSane`).
* `InputIsNeverStuck` and `ReleaseAlwaysFits` follow from it:
  `Spec => []NoStuckInput` and `Spec => []ReleaseFindsRoom`.
* `InputStaysInOrder`: `Spec => InputNeverLostOrReordered`. No new invariant is
  needed, but the property compares what is on its way to an endpoint before and after a
  step, and `ReportsFor` picks that out of USB, a queue and the calls. Lemmas say
  what it picks when a call is appended (`ForAppend`) or taken off the front
  (`ForHead`), by a least counterexample; the rest is concatenation. A report moves from
  the calls to the end of the queue and from its head to USB, and the backlog stays the
  same; merging takes one motion report out of it. Only a call whose failure is
  ignored could drop a report silently, and `ReleaseAlwaysFits` excludes it.
* `PointerQueueOrdered`: `Spec => []PointerOrder`, from which
  `PointerEndpointsOrdered` (`Spec => []PointerEndpointsInOrder`) and
  `DirectWriteNeverTaken` follow. PointerEndpointsInOrder speaks of what is
  outstanding on the two pointer endpoints only; the invariant adds the queue and
  `inflight_endpoint`. While the latter names an endpoint, the other one has
  nothing outstanding, or the next report waits for both. Only `hid_release_all`
  forgets it with something outstanding; its neutral mouse report is then the next
  one (`MouseDue`) or at the head of the queue, and its touch report the one after
  that (`TouchDue`).
* `PasteOrderKept`: `Spec => PasteKeepsOrder`. The invariant `PasteOrder` says that
  every paste, still to be made or queued, comes directly behind a report that
  releases all keys, and that only `hid_type_utf8` makes pastes, whose first failure
  cancels them all. A dropped report is therefore never the release in front of a
  paste that is still made.

  `PointerOrder` and `PasteOrder` were checked with TLC on the configurations of
  `input` and `input_faults` before they were proved.

**Control connection** (AgentTransportProofs). The invariant `TransportInv` says
which descriptors the control thread owns at each of its places (`ControlOwns`),
what a connection may hold (`ConnectionsSound`) and what a caller inside
send_for_epoch knows about the connection it has duplicated (`CallsKnow`): the
last is what makes a write after the unlock safe, although the descriptor may
have been closed and reused in between.

* `TransportTypeCorrect`, `KeyWaitSafe`: `Spec => []TypeOK` and
  `Spec => []KeyWaitDiesWithConnection`.
* `TransportImplementsLink`: `Spec => ImplementsLink`. Under the invariant every
  step maps to a step of ControlLink or to a stutter, one lemma per action. The
  lemmas speak of actions and not of `Next`, so that GatewayStream can cite them.

**Who asks for video** (GatewayStreamProofs). The composition keeps
`TransportInv`, because each of its steps is a step of the transport or leaves it
alone. `StreamInv` adds where START_STREAM is while a stream is requested and the
agent does not stream yet: still to be sent by the control thread, inside
send_for_epoch, or on the wire with no STOP_STREAM behind it (`StartOnItsWay`).
`RequestStands` says that the request itself is there whenever no client is between
its STOP_STREAM and the restoration, unless it has lapsed or the gateway stops.

* `GatewayTypeCorrect`, `StartNeverLost`, `StreamAlwaysOutlivesClient`: the
  invariants GatewayTypeOK, StreamStartNeverLost, StreamOutlivesClient. The last
  follows from StreamStartNeverLost and `RequestStands`.
* `SendsAlwaysInEpoch`, `NothingEverFollowsTornFrame`, `DescriptorsAlwaysClosed`:
  SendsStayInEpoch, NothingFollowsTornFrame and DescriptorsClosedAtExit.
* `GatewayImplementsLink`: the composition still implements ControlLink.

**Input at the gateway** (GatewayInputProofs). NoPhantomInput speaks of settled
states. `InputInv` looks at each key and button at every place where it is down,
held by the agent or pressed by a frame on the agent's connection, and says that
it is `Covered`: a client holds it, or a later frame frees it, or a message that a
client's thread has composed for the same connection does. The last case is the
one that a failed send could break; it cannot, because a send fails only when the
connection is not the one the message was composed for, or by cutting it
(`RefusedKeeps`). `RouterKnows` relates a router to what its client holds.

* `InputTypeCorrect`, `NoInputStuckAtAgent`, `RouterIdleWhenReleased`: the
  invariants InputTypeOK, NoPhantomInput, IdleWhenNothingHeld.

**The video path** (VideoPathProofs). What the reader knows of the agent is a
sequence number modulo 2^16, so the invariant has to say which packet a number
stands for. `Tracked` does, with a `log` of all packets that the agent has
numbered since it was started: the packet at position k carries k modulo 2^16,
neighbours in the log are neighbours in an image or the end of one and the start
of a later one (`LogOK`), the datagrams under way are packets of the log
(`NetOK`), and the reader stands at one of its positions (`InStep`). Without a
fault the datagrams under way are the last ones of the log, and the reader is
directly before them; every fault moves each position by at most one (`Near`).
With fewer faults than half the range, the datagram whose number is the expected one is
therefore the next one in the log and not a multiple of 2^16 away (`PlaceTold`).
`ReaderAfter` and `ReaderBefore` say what the reassembler holds at a
position: a consecutive part of the payloads of one image, and all of
them from the first on unless a loss is still to be reported or nothing has been
handed over since the opening. `AgentOK` relates the flags and the picture in hand to
the last picture sent. The log is not a variable of the model: the invariant says
that there is one. It was checked with TLC, with the log and the
positions as history variables, before it was proved.

* `VideoInvariant`: `VideoSpec => []VideoInv`, the inductive invariant.
* `VideoTyped`, `PicturesNotWithheld`: the invariants VideoTypeOK and
  NothingWithheld.
* `VideoImplementsFeed`: `VideoSpec => ImplementsFeed`. A read hands over a unit, or
  changes nothing the reader sees, or is where the promise ends; opening and closing are
  `Reopen`, and all other steps stutter or end the promise.

The payloads of an image are those of its NAL units, one after the other;
`PayloadsWhole` (whole units in order, the marker on the last packet) is proved by a
least counterexample.

That an SPS and a PPS are one packet each is needed: a reader that is opened while
a parameter set of several packets is being sent would be given its end without a
mark, because the gate passes parameter sets while it waits for an IDR, and a
first datagram is not a loss. They are a few dozen bytes long.

**Readers and decoded output** (BitmapOutputProofs). `BitmapInv` says at which of
its places a reader has a lease, and counts how many attempts the HTTP reader can
have cost the bitmap reader by the time it has reached each of its own places.

* `OutputTypeCorrect`, `OneReaderAtATime`, `SnapshotsMatch`,
  `DestroyedOnlyUnlessLeft`: the invariants OutputTypeOK, OneReader,
  SnapshotMatchesId, DestroyedUnlessLeft. A reader that outlives its client keeps
  its lease, so the invariant counts it as a third holder.
* `LeaseLostOnlyToFailures`: a bitmap reader that gives up has lost all of its
  attempts but three to failures: opens, decoder starts, reads of the HTTP reader
  that do not return within a second, and a reader that outlived its client.
* `BitmapReaderIsServed`: BitmapReaderGetsLease, provided
  `Attempts["bitmap"] > MaxFailures + 3`. The code has ten attempts, so this
  covers up to six failures; the run has five attempts and one failure.

**AVC output** (AvcOutputProofs).

* `PFramesAlwaysDecodable`: `Spec => []PFramesDecodable`. The
  inductive invariant `ReferencesKnown` relates need_idr, stopping and the place
  of the video thread: whenever it is about to read, the client has every
  reference, or an IDR is needed, or the client is ending.
* `AvcTypeCorrect`, `UnacknowledgedAlwaysTracked`, `InflightBytesAlwaysExact`,
  `BudgetHolds`: the invariants AvcTypeOK, UnacknowledgedFramesTracked,
  InflightBytesExact, BudgetExceededOnlyByIdr. `AvcInv` holds the window
  (`FlowSound`) together with the thread between admission and registration
  (`Admitted`): what frame_flow_ready has seen is still true when the frame is
  registered, because acknowledgements only shrink the window. Entries leave the
  window in any order, so the sums are taken by lemmas on a total over any
  function (`TotalRemove`, `TotalAppend`). These few are proved by a least
  counterexample, from the well-foundedness of the natural numbers.

Only model-checked:

* the liveness properties (ReleaseReachesHost, SilentConnectionDropped,
  ShutdownCompletes, ReleasedAtAgent, HttpReaderReturns, PendingFrameTaken), since
  the prover has neither fairness nor ENABLED.

## 5. Not modelled

* Bytes: the layout of control messages, RTP headers and HID reports, the
  incremental reader of `protocol.c`, scancode and text tables beyond what makes
  a key a modifier, HTTP and JSON parsing. They are sequential conversions, and
  the repository's unit tests reach them.
* Codecs and conversions: `ffmpeg_decoder.c`, the JPEG encoder, `bitmap_diff.h`,
  RemoteFX, NSCodec, Progressive. Their calls succeed or fail.
* Wall-clock time: whether a wait of `client_context_free` succeeds where it may
  run out, and pacing by acknowledgement time, are free choices,
  and the race of the AVC reader's 20 attempts of 50 ms with a receive timeout
  of a second is not decided either way.
* Allocation failures, malformed packets and STAP-A packets in the RTP
  receiver, and the copying of parameter sets in `h264.c`.
* The negotiation of capabilities and the settings of FreeRDP.
* Frame trace, statistics, configuration, logging, `musl_compat.c`, the FoldVNC
  client and the probes under `tools/`: no protocol state.

## 6. Plan

1. Time, where two of the code's timeouts race: the AVC reader's 20 attempts of 50 ms
   with the receive timeout of a second.
