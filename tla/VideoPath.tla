------------------------------ MODULE VideoPath ------------------------------
(***************************************************************************)
(* The way of the video from the encoder to the gateway: the capture       *)
(* thread of the agent and the flags its control thread sets (agent.c),    *)
(* the RTP packetizer and reassembler (rtp_h264.c), the datagrams between  *)
(* them, the access units of rtp_client.c and the gate of video_source.c.  *)
(*                                                                         *)
(* An image is what read_image returns: parameter sets or one picture,     *)
(* made of NAL units of one or more fragments each.  Its content is        *)
(* abstracted to its identity.  The encoder is external: it numbers its    *)
(* pictures, a P picture refers to the one before, and it starts with SPS, *)
(* PPS and IDR; later it may send these three, or an IDR alone, any time.  *)
(* Datagrams are lost, duplicated and reordered, and a send may fail in    *)
(* the middle of an image.  A restarted agent counts from 1 again, so the  *)
(* reader may take its datagram for the next one of the earlier life       *)
(* (Mistakes); nothing is promised from then on.  Left out: the aggregated *)
(* packets (STAP-A) that the reassembler accepts and the agent does not    *)
(* send, and allocation failures.                                          *)
(***************************************************************************)
EXTENDS Naturals, Sequences, FiniteSets

CONSTANTS
    Shapes,                \* kind of image -> fragments of each of its NAL units
    Uint16,                \* RTP sequence numbers are taken modulo this (2^16)
    CAPTURE_FAIL_LIMIT, CAPTURE_REINIT_LIMIT,
    MaxImages,             \* bound: images captured
    MaxInFlight,           \* bound: datagrams between agent and reader
    MaxFaults              \* bound: lost, repeated, overtaken or failed sends

\* So few faults never make the sequence numbers come round.
ASSUME SequenceAssumption ==
    /\ Uint16 \in Nat /\ MaxFaults \in Nat /\ 2 * MaxFaults < Uint16
    /\ MaxImages \in Nat /\ MaxInFlight \in Nat
    /\ CAPTURE_FAIL_LIMIT \in Nat /\ CAPTURE_REINIT_LIMIT \in Nat

\* A parameter set, a few dozen bytes, is one NAL unit in one packet.
ASSUME ShapesAssumption ==
    /\ Shapes \in [{"SPS", "PPS", "IDR", "P"} ->
                      SUBSET (Seq(Nat \ {0}) \ {<<>>})]
    /\ Shapes["SPS"] = {<<1>>} /\ Shapes["PPS"] = {<<1>>}

VARIABLES
    streaming,             \* agent->streaming
    wait_for_idr,          \* agent->wait_for_idr
    starting,              \* START_STREAM has stored the first flag only
    capture,               \* the capture thread: "check", "read", "send"
    image,                 \* the image it has in hand
    fails, reinits,        \* capture_fail_count, capture_reinit_count
    sequence,              \* packetizer.sequence
    timestamp,             \* agent->timestamp
    encoder,               \* external: kind of the last image, its picture
    net,                   \* datagrams under way
    source,                \* VideoSource with its RtpClient and reassembler
    unit, last, params,    \* the units handed to the reader (VideoFeed)
    sent,                  \* history: the last picture sent as a whole
    raced,                 \* history: a P picture passed between the two stores
    restarted,             \* history: the agent restarted after the last datagram read
    mistaken,              \* history: a datagram was taken for the next of its earlier life
    images, faults         \* bound counters

flagVars == <<streaming, wait_for_idr, starting>>
captureVars == <<capture, image, fails, reinits, sequence, timestamp, encoder>>
readerVars == <<source, unit, last, params>>
historyVars == <<sent, raced, restarted, mistaken>>
vars == <<flagVars, captureVars, net, readerVars, historyVars, images, faults>>

Feed == INSTANCE VideoFeed WITH assured <- ~raced /\ ~mistaken

NoImage == [kind |-> "none", picture |-> 0, timestamp |-> 0, shape |-> <<1>>]

(***************************************************************************)
(* Packetizer (rtp_h264.c)                                                 *)
(***************************************************************************)
Fragment(i, nal, k) ==
    [image |-> i, nal |-> nal, fragment |-> k,
     start |-> k = 1, end |-> k = i.shape[nal],
     marker |-> nal = Len(i.shape) /\ k = i.shape[nal]]

\* The payloads rtp_h264_packetize_marker makes of one NAL unit.
NalPayloads(i, nal) == [k \in 1..i.shape[nal] |-> Fragment(i, nal, k)]

\* The payloads of all packets of an image: the loop over its NAL units in
\* rtp_h264_packetize_access_unit.
Payloads(i) ==
    LET upto[nal \in 1..Len(i.shape)] ==
            IF nal = 1 THEN NalPayloads(i, nal) ELSE upto[nal - 1] \o NalPayloads(i, nal)
    IN  upto[Len(i.shape)]

\* Mutant: the number is not cut to 16 bits.
SequenceAfterUncut(n) == sequence + n

SequenceAfter(n) == (sequence + n) % Uint16

Packet(payload, seq) == [payload |-> payload, sequence |-> seq]

\* The first n packets of the image, numbered from `sequence' on.
Packets(i, n) ==
    [k \in 1..n |-> Packet(Payloads(i)[k], SequenceAfter(k - 1))]

(***************************************************************************)
(* The agent's control thread                                              *)
(***************************************************************************)
START_STREAM ==
    /\ ~starting
    /\ streaming' = TRUE /\ starting' = TRUE
    /\ UNCHANGED <<wait_for_idr, captureVars, net, readerVars, historyVars, images, faults>>

start_waits_for_idr ==
    /\ starting
    /\ wait_for_idr' = TRUE /\ starting' = FALSE
    /\ UNCHANGED <<streaming, captureVars, net, readerVars, historyVars, images, faults>>

STOP_STREAM ==
    /\ ~starting /\ streaming
    /\ streaming' = FALSE
    /\ UNCHANGED <<wait_for_idr, starting, captureVars, net, readerVars, historyVars, images, faults>>

IDR_REQUEST ==
    /\ ~starting /\ ~wait_for_idr
    /\ wait_for_idr' = TRUE
    /\ UNCHANGED <<streaming, starting, captureVars, net, readerVars, historyVars, images, faults>>

disconnect_control ==
    /\ ~starting
    /\ streaming' = FALSE /\ wait_for_idr' = TRUE
    /\ UNCHANGED <<starting, captureVars, net, readerVars, historyVars, images, faults>>

(***************************************************************************)
(* The agent's capture thread (video_loop)                                 *)
(***************************************************************************)
check_streaming ==
    /\ capture = "check" /\ streaming
    /\ capture' = "read"
    /\ UNCHANGED <<flagVars, image, fails, reinits, sequence, timestamp,
                   encoder, net, readerVars, historyVars, images, faults>>

\* External: the kinds of image that may follow.
Following(kind) == CASE kind = "SPS" -> {"PPS"}
                     [] kind = "PPS" -> {"IDR"}
                     [] kind = "none" -> {"SPS"}
                     [] OTHER -> {"SPS", "IDR", "P"}

NewImage(kind) ==
    {[kind |-> kind, timestamp |-> timestamp, shape |-> s,
      picture |-> IF kind \in Feed!Pictures THEN encoder.picture + 1 ELSE 0] :
        s \in Shapes[kind]}

read_image ==
    /\ capture = "read" /\ images < MaxImages
    /\ \E kind \in Following(encoder.kind) : \E i \in NewImage(kind) :
         /\ image' = i
         /\ encoder' = [kind |-> kind,
                        picture |-> IF kind \in Feed!Pictures THEN i.picture
                                    ELSE encoder.picture]
         /\ wait_for_idr' = (wait_for_idr /\ kind # "IDR")
    /\ capture' = "send"
    /\ fails' = 0 /\ reinits' = 0
    /\ images' = images + 1
    /\ UNCHANGED <<streaming, starting, sequence, timestamp, net, readerVars,
                   historyVars, faults>>

\* The state of a process that has just been started.
Rebooted ==
    /\ streaming' = FALSE /\ wait_for_idr' = TRUE /\ starting' = FALSE
    /\ capture' = "check" /\ image' = NoImage
    /\ fails' = 0 /\ reinits' = 0
    /\ sequence' = 1 % Uint16 /\ timestamp' = 1
    /\ encoder' = [encoder EXCEPT !.kind = "none"]
    /\ restarted' = source.have_sequence

\* Too many failures in a row start the pipeline anew; too many new starts
\* without an image between them end the process.
read_image_fails ==
    /\ capture = "read" /\ faults < MaxFaults
    /\ faults' = faults + 1
    /\ IF fails + 1 < CAPTURE_FAIL_LIMIT
       THEN /\ fails' = fails + 1 /\ capture' = "check"
            /\ UNCHANGED <<flagVars, image, reinits, sequence, timestamp,
                           encoder, net, restarted>>
       ELSE IF reinits + 1 <= CAPTURE_REINIT_LIMIT
       THEN /\ fails' = 0 /\ reinits' = reinits + 1 /\ capture' = "check"
            /\ encoder' = [encoder EXCEPT !.kind = "none"]
            /\ UNCHANGED <<flagVars, image, sequence, timestamp, net, restarted>>
       ELSE Rebooted /\ net' = <<>>
    /\ UNCHANGED <<readerVars, sent, raced, mistaken, images>>

\* The process ends and is started again by its service; no datagram stays
\* under way for as long as that takes.
agent_restarts ==
    /\ faults < MaxFaults
    /\ faults' = faults + 1
    /\ Rebooted /\ net' = <<>>
    /\ UNCHANGED <<readerVars, sent, raced, mistaken, images>>

\* The streaming flag is looked at again; a P picture also has to be allowed.
Sendable == streaming /\ (image.kind = "P" => ~wait_for_idr)

\* The image is done with, sent or not.
NextImage == /\ image' = NoImage /\ capture' = "check"
             /\ timestamp' = timestamp + 1
             /\ UNCHANGED <<streaming, starting, fails, reinits, encoder,
                            readerVars, images>>

image_not_sent ==
    /\ capture = "send" /\ ~Sendable
    /\ NextImage
    /\ UNCHANGED <<wait_for_idr, sequence, net, historyVars, faults>>

send_image ==
    LET n == Len(Payloads(image))
    IN  /\ capture = "send" /\ Sendable
        /\ Len(net) + n <= MaxInFlight
        /\ net' = net \o Packets(image, n)
        /\ sequence' = SequenceAfter(n)
        /\ sent' = IF image.kind \in Feed!Pictures THEN image.picture ELSE sent
        /\ raced' = (raced \/ (starting /\ image.kind = "P"))
        /\ NextImage
        /\ UNCHANGED <<wait_for_idr, restarted, mistaken, faults>>

\* The n-th packet has its number but is not accepted before the deadline, or
\* not at all; the rest of the image is given up.
send_packet_fails ==
    /\ capture = "send" /\ Sendable /\ faults < MaxFaults
    /\ faults' = faults + 1
    /\ \E n \in 1..Len(Payloads(image)) :
         /\ Len(net) + n <= MaxInFlight
         /\ net' = net \o Packets(image, n - 1)
         /\ sequence' = SequenceAfter(n)
    /\ wait_for_idr' = TRUE
    /\ raced' = (raced \/ (starting /\ image.kind = "P"))
    /\ NextImage
    /\ UNCHANGED <<sent, restarted, mistaken>>

(***************************************************************************)
(* Reassembler and access units (rtp_h264.c, rtp_client.c)                 *)
(***************************************************************************)
Closed == [opened |-> FALSE, have_sequence |-> FALSE, expected |-> 0,
           assembling |-> <<>>, access_unit |-> <<>>, losses |-> FALSE,
           awaiting_idr |-> FALSE, have_sps |-> FALSE, have_pps |-> FALSE,
           pending_packet_loss |-> FALSE]

Timestamp(payloads) == payloads[1].image.timestamp

\* A gap gives up the NAL unit and the access unit under construction.
\* `losses' stands for losses # observed_losses.
count_loss(s) == [s EXCEPT !.assembling = <<>>, !.access_unit = <<>>,
                           !.losses = TRUE]

\* Mutant: the expected number does not come round to 0.
SequencedNoWrap(s, seq) ==
    [IF s.have_sequence /\ seq # s.expected THEN count_loss(s) ELSE s
        EXCEPT !.have_sequence = TRUE, !.expected = seq + 1]

Sequenced(s, seq) ==
    [IF s.have_sequence /\ seq # s.expected THEN count_loss(s) ELSE s
        EXCEPT !.have_sequence = TRUE, !.expected = (seq + 1) % Uint16]

save_nal(s, nal) ==
    [s EXCEPT !.access_unit = IF @ # <<>> /\ Timestamp(@) = Timestamp(nal)
                              THEN @ \o nal ELSE nal]

\* A fragment is accepted if it starts a NAL unit or continues the one under
\* construction.
Continues(s, f) ==
    f.start \/ (s.assembling # <<>> /\ Timestamp(s.assembling) = Timestamp(<<f>>))

Assembled(s, f) == IF f.start THEN <<f>> ELSE Append(s.assembling, f)

\* A NAL unit in one packet leaves a NAL unit under construction alone.
rtp_h264_reassembler_push(s, f) ==
    IF f.start /\ f.end THEN save_nal(s, <<f>>)
    ELSE IF ~Continues(s, f) THEN s
    ELSE IF ~f.end THEN [s EXCEPT !.assembling = Assembled(s, f)]
    ELSE save_nal([s EXCEPT !.assembling = <<>>], Assembled(s, f))

\* rtp_client_read_h264 returns after a marker on a packet that was accepted.
Completes(s, f) == f.marker /\ Continues(s, f)

(***************************************************************************)
(* The gate (video_source_read)                                            *)
(***************************************************************************)
Kind(payloads) == payloads[1].image.kind

\* Mutant: a loss is marked but does not close the gate.
NoticedOnlyMarked(s) == [s EXCEPT !.pending_packet_loss = @ \/ s.losses,
                                  !.losses = FALSE]

\* Losses are noticed with the unit that follows them.
Noticed(s) == [s EXCEPT !.pending_packet_loss = @ \/ s.losses,
                        !.awaiting_idr = @ \/ s.losses,
                        !.losses = FALSE]

Gated(s, kind) ==
    LET sps == s.have_sps \/ kind = "SPS"
        pps == s.have_pps \/ kind = "PPS"
    IN  [s EXCEPT !.have_sps = sps, !.have_pps = pps,
                  !.awaiting_idr = @ /\ ~(kind = "IDR" /\ sps /\ pps)]

Passes(s, kind) == ~s.awaiting_idr \/ kind \in Feed!ParameterSets

UnitOf(au, loss) ==
    [kind |-> Kind(au), picture |-> au[1].image.picture,
     whole |-> au = Payloads(au[1].image), packet_loss |-> loss]

\* A datagram of the agent's new life has the number that follows the last one of
\* its earlier life: the restart goes unnoticed.
Mistakes(p) == restarted /\ p.sequence = source.expected

\* One datagram, up to the hand-over of the unit it completes.
Received(p) ==
    LET f == p.payload
        s0 == Sequenced(source, p.sequence)
        s1 == rtp_h264_reassembler_push(s0, f)
        au == s1.access_unit
        s2 == Gated(Noticed([s1 EXCEPT !.access_unit = <<>>]), Kind(au))
        hands_over == Passes(s2, Kind(au))
    IN  IF ~Completes(s0, f)
        THEN source' = s1 /\ UNCHANGED <<unit, last, params>>
        ELSE IF ~hands_over
        THEN source' = s2 /\ UNCHANGED <<unit, last, params>>
        ELSE /\ source' = [s2 EXCEPT !.pending_packet_loss = FALSE]
             /\ unit' = UnitOf(au, s2.pending_packet_loss)
             /\ last' = IF Kind(au) \in Feed!Pictures
                        THEN unit'.picture ELSE last
             /\ params' = params \cup ({Kind(au)} \cap Feed!ParameterSets)

\* A datagram arrives in order, ahead of an earlier one, or once more.
video_source_read ==
    /\ source.opened /\ net # <<>>
    /\ Received(Head(net))
    /\ restarted' = FALSE /\ mistaken' = (mistaken \/ Mistakes(Head(net)))
    /\ net' = Tail(net)
    /\ UNCHANGED <<flagVars, captureVars, sent, raced, images, faults>>

Fault(n) == /\ faults < MaxFaults
            /\ faults' = faults + 1
            /\ net' = n
            /\ UNCHANGED <<flagVars, captureVars, historyVars, images>>

datagram_lost == net # <<>> /\ Fault(Tail(net)) /\ UNCHANGED readerVars

datagram_overtaken ==
    Len(net) > 1 /\ Fault(<<net[2], net[1]>> \o SubSeq(net, 3, Len(net)))
                 /\ UNCHANGED readerVars

datagram_repeated == net # <<>> /\ Fault(<<net[1]>> \o net) /\ UNCHANGED readerVars

\* No socket is bound to the port.
datagram_refused ==
    /\ ~source.opened /\ net # <<>>
    /\ net' = Tail(net)
    /\ UNCHANGED <<flagVars, captureVars, readerVars, historyVars, images, faults>>

\* The IDR request the opening sends is an IDR_REQUEST that may come later, or
\* never if the control connection is down.
video_source_open ==
    /\ ~source.opened
    /\ source' = [Closed EXCEPT !.opened = TRUE, !.awaiting_idr = TRUE]
    /\ unit' = Feed!NoUnit /\ last' = 0 /\ params' = {} /\ restarted' = FALSE
    /\ UNCHANGED <<flagVars, captureVars, net, sent, raced, mistaken, images, faults>>

video_source_close ==
    /\ source.opened
    /\ source' = Closed
    /\ unit' = Feed!NoUnit /\ last' = 0 /\ params' = {} /\ restarted' = FALSE
    /\ UNCHANGED <<flagVars, captureVars, net, sent, raced, mistaken, images, faults>>

(***************************************************************************)
(* Specification                                                           *)
(***************************************************************************)
Init ==
    /\ streaming = FALSE /\ wait_for_idr = TRUE /\ starting = FALSE
    /\ capture = "check" /\ image = NoImage /\ fails = 0 /\ reinits = 0
    /\ sequence = 1 % Uint16 /\ timestamp = 1
    /\ encoder = [kind |-> "none", picture |-> 0]
    /\ net = <<>> /\ source = Closed
    /\ unit = Feed!NoUnit /\ last = 0 /\ params = {}
    /\ sent = 0 /\ raced = FALSE /\ restarted = FALSE /\ mistaken = FALSE
    /\ images = 0 /\ faults = 0

Control == START_STREAM \/ start_waits_for_idr \/ STOP_STREAM \/ IDR_REQUEST
           \/ disconnect_control

Capture == check_streaming \/ read_image \/ read_image_fails \/ image_not_sent
           \/ send_image \/ send_packet_fails \/ agent_restarts

Network == datagram_lost \/ datagram_overtaken \/ datagram_repeated
           \/ datagram_refused

Reader == video_source_read \/ video_source_open \/ video_source_close

Next == Control \/ Capture \/ Network \/ Reader

VideoSpec == Init /\ [][Next]_vars

(***************************************************************************)
(* Properties                                                              *)
(***************************************************************************)
\* Type invariant: among others, sequence numbers stay in the 16 bits of the RTP
\* header and a NAL unit under construction begins with its first fragment.
VideoTypeOK ==
    /\ {streaming, wait_for_idr, starting, raced, restarted, mistaken} \subseteq BOOLEAN
    /\ capture \in {"check", "read", "send"}
    /\ fails \in 0..CAPTURE_FAIL_LIMIT /\ reinits \in 0..CAPTURE_REINIT_LIMIT
    /\ {sequence, source.expected} \cup {net[k].sequence : k \in DOMAIN net}
           \subseteq 0..(Uint16 - 1)
    /\ \A k \in DOMAIN source.assembling :
         source.assembling[k].start <=> k = 1
    /\ unit \in Feed!Units \cup {Feed!NoUnit}

\* The video path implements VideoFeed: whatever is lost, repeated, overtaken,
\* given up half sent, skipped by the agent or cut off by a restart of either
\* side, a unit without packet_loss is whole, and a P picture comes only
\* directly after the picture it refers to.
ImplementsFeed == Feed!FeedSpec

\* Without a fault nothing is held back: once a reader has been given a
\* picture, it is given every picture the agent sends from then on.
NothingWithheld ==
    source.opened /\ last # 0 /\ faults = 0 /\ net = <<>> => last = sent
=============================================================================
