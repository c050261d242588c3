------------------------------ MODULE AvcOutput ------------------------------
(***************************************************************************)
(* The direct H.264 output of the gateway (rdp_gfx.c): the video thread    *)
(* reads access units, admits them to the window of unacknowledged frames, *)
(* submits them on the RDPGFX channel and registers them; the peer thread  *)
(* handles the client's frame acknowledgements at the same time.           *)
(*                                                                         *)
(* An access unit is an IDR frame, a P frame or parameter sets alone.      *)
(* `lost' is the packet_loss flag: something between the previous access   *)
(* unit and this one, or a part of this one, is missing.  frame_trace,     *)
(* the statistics, the IDR_REQUEST messages (they only make the agent skip *)
(* P frames) and gfx_ready, set before the thread starts and never reset,  *)
(* are left out.                                                           *)
(***************************************************************************)
EXTENDS FrameFlow, FiniteSets

CONSTANTS
    Sizes,       \* access unit sizes, in units of the byte budget
    MaxUnits     \* bound: access units read

ASSUME UnitsAssumption ==
    /\ Sizes \subseteq 1..(Uint32 \div (2 * (FRAME_FLOW_LIMIT + 1)))
    /\ MaxUnits \in Nat

VARIABLES
    flow,            \* client->frame_flow
    need_idr,        \* client->need_idr
    stopping,        \* client->stopping
    next_frame_id,   \* client->next_frame_id
    ack_event,       \* client->avc_ack_event
    pc,              \* where the video thread is
    unit,            \* the access unit it works on
    wait,            \* wait_started_at: "no", "waiting", "elapsed"
    received,        \* frames the client has received and not acknowledged
    decodable,       \* history: the client can decode a P frame that follows
    suspended_once,  \* history: the client has suspended its acknowledgements
    units            \* bound counter

threadVars == <<pc, unit, wait, units>>
clientVars == <<received, decodable, suspended_once>>
vars == <<flow, need_idr, stopping, next_frame_id, ack_event,
          threadVars, clientVars>>

Units == [nal : {"idr", "p", "params"}, bytes : Sizes, lost : BOOLEAN]

Idr == unit.nal = "idr"

(***************************************************************************)
(* The video thread                                                        *)
(***************************************************************************)
\* Mutant: packet_loss does not set need_idr.
LossForgotten(u) == need_idr

\* The flag after packet_loss has been looked at.
NeedIdrAfter(u) == need_idr \/ u.lost

\* video_thread: read one access unit and decide whether it is to be sent.
\* A frame that is not sent breaks the chain of references at the client.
read_unit ==
    /\ pc = "read"
    /\ units < MaxUnits
    /\ units' = units + 1
    /\ \E u \in Units :
         LET need == NeedIdrAfter(u)
             should_send == /\ ~u.lost /\ ~stopping
                            /\ frame_flow_avc_should_send(need, u.nal = "idr",
                                                          u.nal = "p")
         IN  /\ unit' = u
             /\ need_idr' = need
             /\ pc' = IF should_send THEN "admit" ELSE "read"
             /\ decodable' = (decodable /\ ~u.lost /\
                                  (should_send \/ u.nal = "params"))
    /\ wait' = "no"
    /\ UNCHANGED <<flow, stopping, next_frame_id, ack_event,
                   received, suspended_once>>

\* The source fails, or no parameter sets can be put before an IDR frame: the
\* thread stops the client and returns.
read_fails ==
    /\ pc = "read" /\ ~stopping
    /\ need_idr' \in {need_idr, TRUE}
    /\ stopping' = TRUE /\ ack_event' = TRUE
    /\ pc' = "exit"
    /\ UNCHANGED <<flow, next_frame_id, unit, wait, units,
                   clientVars>>

\* One pass through the loop of client_accept_avc_frame.
client_accept_avc_frame ==
    LET admission == frame_flow_avc_admit(flow, unit.bytes, Idr,
                                          wait = "elapsed")
        skipped == stopping \/ admission = "resync"
    IN  /\ pc = "admit"
        /\ pc' = IF skipped THEN "read"
                 ELSE IF admission = "send" THEN "submit" ELSE "wait"
        /\ wait' = IF ~skipped /\ admission = "wait" THEN "waiting" ELSE wait
        /\ need_idr' = (need_idr \/ (~stopping /\ admission = "resync"))
        /\ decodable' = (decodable /\ ~skipped)
        /\ UNCHANGED <<flow, stopping, next_frame_id, ack_event, unit, units,
                       received, suspended_once>>

\* The wait ends with the event, which it resets, or with the timeout; the
\* clock is read again afterwards.
wait_ends ==
    /\ pc = "wait"
    /\ pc' = "admit"
    /\ \/ ack_event /\ ack_event' = FALSE /\ wait' \in {wait, "elapsed"}
       \/ wait' = "elapsed" /\ UNCHANGED ack_event
    /\ UNCHANGED <<flow, need_idr, stopping, next_frame_id,
                   unit, units, clientVars>>

\* send_avc420_frame up to and including SurfaceFrameCommand.  The client has
\* the frame, and may acknowledge it, from here on.
submit ==
    /\ pc = "submit"
    /\ IF stopping
       THEN /\ pc' = "read"
            /\ decodable' = FALSE
            /\ UNCHANGED <<next_frame_id, received>>
       ELSE /\ next_frame_id' = next_frame_id + 1
            /\ received' = received \cup {next_frame_id}
            /\ decodable' = (decodable \/ Idr)
            /\ pc' = "register"
    /\ UNCHANGED <<flow, need_idr, stopping, ack_event, unit, wait, units,
                   suspended_once>>

\* SurfaceFrameCommand fails: the client is stopped.
submit_fails ==
    /\ pc = "submit" /\ ~stopping
    /\ next_frame_id' = next_frame_id + 1
    /\ need_idr' = TRUE
    /\ stopping' = TRUE /\ ack_event' = TRUE
    /\ decodable' = FALSE
    /\ pc' = "read"
    /\ UNCHANGED <<flow, unit, wait, units, received, suspended_once>>

\* The last critical section of send_avc420_frame.
register ==
    /\ pc = "register"
    /\ flow' = frame_flow_sent(flow, next_frame_id - 1, unit.bytes, Idr)
    /\ need_idr' = (need_idr /\ ~Idr)
    /\ pc' = "read"
    /\ UNCHANGED <<stopping, next_frame_id, ack_event, unit,
                   wait, units, clientVars>>

\* The thread returns once the client is stopping.
thread_exits ==
    /\ pc = "read" /\ stopping
    /\ pc' = "exit"
    /\ UNCHANGED <<flow, need_idr, stopping, next_frame_id, ack_event,
                   unit, wait, units, clientVars>>

VideoThread ==
    \/ read_unit
    \/ read_fails
    \/ client_accept_avc_frame
    \/ wait_ends
    \/ submit
    \/ submit_fails
    \/ register
    \/ thread_exits

(***************************************************************************)
(* The peer thread: acknowledgements and the end of the client             *)
(***************************************************************************)
\* on_gfx_frame_ack for a frame the client has received, or once more for one
\* it has acknowledged before.
on_gfx_frame_ack ==
    \E id \in 0..(next_frame_id - 1) :
      /\ flow' = frame_flow_ack(flow, id)
      /\ received' = received \ {id}
      /\ ack_event' = TRUE
      /\ UNCHANGED <<need_idr, stopping, next_frame_id,
                     threadVars, decodable, suspended_once>>

\* The client suspends acknowledgements: it answers for everything it has.
on_gfx_ack_suspended ==
    /\ received # {}
    /\ flow' = frame_flow_suspend(flow)
    /\ ack_event' = TRUE
    /\ suspended_once' = TRUE
    /\ UNCHANGED <<need_idr, stopping, next_frame_id,
                   threadVars, received, decodable>>

client_stop ==
    /\ ~stopping
    /\ stopping' = TRUE
    /\ ack_event' = TRUE
    /\ UNCHANGED <<flow, need_idr, next_frame_id, threadVars,
                   clientVars>>

\* 250 ms without an acknowledgement.
ack_goes_stale ==
    /\ flow.acked /\ ~flow.stale
    /\ flow' = GoStale(flow)
    /\ UNCHANGED <<need_idr, stopping, next_frame_id, ack_event,
                   threadVars, clientVars>>

(***************************************************************************)
(* The specification                                                       *)
(***************************************************************************)
\* on_gfx_caps_advertise creates the thread with need_idr set.
Init ==
    /\ flow = EmptyFlow
    /\ need_idr = TRUE /\ stopping = FALSE /\ ack_event = FALSE
    /\ next_frame_id = 0
    /\ pc = "read" /\ wait = "no" /\ units = 0
    /\ unit = [nal |-> "params", bytes |-> 0, lost |-> FALSE]
    /\ received = {} /\ decodable = FALSE /\ suspended_once = FALSE

Next ==
    \/ VideoThread
    \/ on_gfx_frame_ack
    \/ on_gfx_ack_suspended
    \/ client_stop
    \/ ack_goes_stale

Spec == Init /\ [][Next]_vars

(***************************************************************************)
(* Properties                                                              *)
(***************************************************************************)
\* The window has at most FRAME_FLOW_LIMIT entries (the arrays' length).
AvcTypeOK ==
    /\ flow.frames \in Seq([id : 0..MaxUnits, bytes : Sizes, idr : BOOLEAN])
    /\ Len(flow.frames) <= FRAME_FLOW_LIMIT
    /\ flow.inflight_bytes \in 0..(Uint32 - 1)
    /\ {need_idr, stopping, ack_event, decodable, suspended_once,
        flow.suspended, flow.acked, flow.stale} \subseteq BOOLEAN
    /\ pc \in {"read", "admit", "wait", "submit", "register", "exit"}
    /\ wait \in {"no", "waiting", "elapsed"}
    /\ next_frame_id \in 0..MaxUnits /\ units \in 0..MaxUnits
    /\ received \subseteq 0..MaxUnits

\* A P frame is submitted only when every access unit since the last submitted
\* IDR frame was submitted too, whatever was lost, skipped by the flow control
\* or refused in between.
PFramesDecodable ==
    pc = "submit" /\ ~stopping /\ ~Idr => decodable

\* While the client acknowledges, a frame it has received and not acknowledged
\* is in the window, or about to be: registration after the submission is never
\* refused, so the limit holds for what is really on its way.
UnacknowledgedFramesTracked ==
    ~suspended_once =>
        /\ received \subseteq TrackedIds(flow) \cup
             (IF pc = "register" THEN {next_frame_id - 1} ELSE {})
        /\ Cardinality(received) <= FRAME_FLOW_LIMIT

\* inflight_bytes is the sum over the window: releasing one entry of several,
\* in any order, neither leaks nor wraps.
InflightBytesExact == flow.inflight_bytes = TrackedBytes(flow)

\* Only an IDR frame, or a frame that was alone in the window, takes the bytes in
\* flight past the budget.
BudgetExceededOnlyByIdr ==
    flow.inflight_bytes > FRAME_FLOW_MAX_INFLIGHT_BYTES =>
        \/ \E i \in DOMAIN flow.frames : flow.frames[i].idr
        \/ flow.frames[1].bytes > FRAME_FLOW_MAX_INFLIGHT_BYTES

\* A client that has acknowledged every frame it received is not held back by
\* the window: an acknowledgement always finds the entry it is for ("register
\* before sending because ACKs can race").
AcknowledgingClientIsServed ==
    ~suspended_once /\ received = {} /\ pc # "register" =>
        frame_flow_ready_keyframe(flow)
=============================================================================
