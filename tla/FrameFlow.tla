------------------------------ MODULE FrameFlow ------------------------------
(***************************************************************************)
(* The window of unacknowledged RDPGFX frames (frame_flow.h), as operators *)
(* on a FrameFlow value.  The three parallel arrays ids, bytes and sent_at *)
(* with their count are one sequence of records; inflight_bytes is kept    *)
(* beside it, as in the code, in uint32_t arithmetic.  Times are reduced   *)
(* to the two comparisons the window makes: `stale' says that the last     *)
(* acknowledgement is FRAME_FLOW_SLOW_ACK_MS old.  The pacing interval     *)
(* (interval_ms, fast_acks, fast_sends, last_slow_at) is not part of it.   *)
(***************************************************************************)
EXTENDS Integers, Sequences

CONSTANTS
    FRAME_FLOW_LIMIT,
    FRAME_FLOW_MAX_INFLIGHT_BYTES,
    Uint32                 \* sums of bytes are taken modulo this (2^32)

ASSUME FlowAssumption ==
    /\ FRAME_FLOW_LIMIT \in Nat \ {0}
    /\ FRAME_FLOW_MAX_INFLIGHT_BYTES \in Nat
    /\ Uint32 \in Nat \ {0}

\* A zeroed FrameFlow.
EmptyFlow == [suspended |-> FALSE, frames |-> <<>>, inflight_bytes |-> 0,
              acked |-> FALSE, stale |-> FALSE]

\* Mutant: the limit is off by one.
frame_flow_blocked_late(flow) ==
    ~flow.suspended /\ Len(flow.frames) = FRAME_FLOW_LIMIT + 1

frame_flow_blocked(flow) ==
    ~flow.suspended /\ Len(flow.frames) = FRAME_FLOW_LIMIT

Track(flow, id, bytes, idr) ==
    [flow EXCEPT !.frames = Append(@, [id |-> id, bytes |-> bytes, idr |-> idr]),
                 !.inflight_bytes = (@ + bytes) % Uint32]

\* Mutant: the bytes in flight are not counted.
OverBudgetAlone(flow, bytes) == bytes > FRAME_FLOW_MAX_INFLIGHT_BYTES

OverBudget(flow, bytes) ==
    flow.inflight_bytes + bytes > FRAME_FLOW_MAX_INFLIGHT_BYTES

\* frame_flow_sent_sized and, for an IDR frame, frame_flow_sent_keyframe_sized;
\* a refused registration leaves the flow as it is and the caller goes on.
frame_flow_sent(flow, id, bytes, idr) ==
    IF \/ flow.suspended
       \/ frame_flow_blocked(flow)
       \/ ~idr /\ flow.frames # <<>> /\ OverBudget(flow, bytes)
    THEN flow
    ELSE Track(flow, id, bytes, idr)

NotStalled(flow) == ~frame_flow_blocked(flow) /\ ~(flow.acked /\ flow.stale)

\* Mutant: the byte budget is not looked at.
frame_flow_ready_any_size(flow, bytes) ==
    \/ flow.suspended
    \/ flow.frames = <<>>
    \/ NotStalled(flow)

frame_flow_ready(flow, bytes) ==
    \/ flow.suspended
    \/ flow.frames = <<>>
    \/ NotStalled(flow) /\ ~OverBudget(flow, bytes)

frame_flow_ready_keyframe(flow) ==
    \/ flow.suspended
    \/ flow.frames = <<>>
    \/ NotStalled(flow)

frame_flow_avc_admit(flow, bytes, idr, waited) ==
    IF waited THEN "resync"
    ELSE IF (IF idr THEN frame_flow_ready_keyframe(flow)
                    ELSE frame_flow_ready(flow, bytes))
         THEN "send"
         ELSE "wait"

frame_flow_avc_should_send(need_idr, idr, p_frame) ==
    idr \/ (~need_idr /\ p_frame)

\* Index of the entry with this id, 0 when there is none; the scan stops at the
\* first match.
IndexOf(flow, id) ==
    LET hits == {i \in DOMAIN flow.frames : flow.frames[i].id = id}
    IN  IF hits = {} THEN 0 ELSE CHOOSE i \in hits : \A j \in hits : i <= j

\* The later entries move up by one.
CloseUp(frames, i) == SubSeq(frames, 1, i - 1) \o SubSeq(frames, i + 1, Len(frames))

\* Mutant: the bytes of an acknowledged frame are not given back.
ReleaseKeepsBytes(flow, i) == [flow EXCEPT !.frames = CloseUp(@, i)]

\* The entry is taken out and its bytes are given back.
Release(flow, i) ==
    [flow EXCEPT !.frames = CloseUp(@, i),
                 !.inflight_bytes = (@ - flow.frames[i].bytes) % Uint32]

\* frame_flow_ack for an ordinary queue depth.
frame_flow_ack(flow, id) ==
    LET heard == [flow EXCEPT !.suspended = FALSE, !.acked = TRUE, !.stale = FALSE]
        i == IndexOf(heard, id)
    IN  IF i = 0 THEN heard ELSE Release(heard, i)

\* frame_flow_ack with queueDepth = UINT32_MAX: the client stops acknowledging.
frame_flow_suspend(flow) == [EmptyFlow EXCEPT !.suspended = TRUE]

\* FRAME_FLOW_SLOW_ACK_MS pass without an acknowledgement.
GoStale(flow) == [flow EXCEPT !.stale = TRUE]

TrackedIds(flow) == {flow.frames[i].id : i \in DOMAIN flow.frames}

TrackedBytes(flow) ==
    LET sum[i \in 0..Len(flow.frames)] ==
          IF i = 0 THEN 0 ELSE sum[i - 1] + flow.frames[i].bytes
    IN  sum[Len(flow.frames)]
=============================================================================
