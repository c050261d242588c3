---------------------------- MODULE BitmapOutput -----------------------------
(***************************************************************************)
(* The output of decoded frames (rdp_bitmap.c), composed with the readers  *)
(* that decode them: on_decoded_frame leaves the newest frame of the       *)
(* client's reader in pending_decoded, the output thread takes it from     *)
(* there, converts it and writes it to the client.                         *)
(*                                                                         *)
(* Frames are numbered in the order in which they are decoded.  The output *)
(* thread is created by client_prepare_bitmap, that is in bitmap mode      *)
(* only: in Progressive mode on_gfx_caps_advertise starts the reader and   *)
(* nothing else, so the Progressive branches of the output functions are   *)
(* not reached.  Neither is the classic path: client_prepare_bitmap        *)
(* refuses a client that supports neither RemoteFX nor NSCodec.            *)
(***************************************************************************)
EXTENDS VideoReaders

CONSTANTS
    MaxDecoded,      \* bound: frames decoded for a client
    MaxBlocked       \* bound: times the client's connection blocks

VARIABLES
    decoded,         \* frames decoded for this client
    pending,         \* client->pending_decoded (0: none)
    output,          \* the output thread: "none", "look", "flush", "send", "wait"
    taken,           \* the frame it sends (0: none)
    paced,           \* the interval since the last frame has passed
    blocked,         \* the client's connection takes no more data
    shown,           \* the newest frame the client has been sent
    blocks           \* bound counter

outputVars == <<decoded, pending, output, taken, paced, blocked, shown, blocks>>
vars == <<readersVars, outputVars>>

Unblocked == blocked' = FALSE /\ blocks' = 0

(***************************************************************************)
(* The client                                                              *)
(***************************************************************************)
client_connects ==
    /\ \E mode \in Modes :
         /\ client_starts(mode)
         /\ output' = IF mode = "bitmap" THEN "look" ELSE "none"
    /\ decoded' = 0 /\ pending' = 0 /\ taken' = 0 /\ paced' = TRUE
    /\ shown' = 0 /\ Unblocked

client_stops == client_stop /\ UNCHANGED outputVars

\* peer_thread and client_context_free wait for the output thread as well; a write
\* to the client is what may outlast the waits.
client_freed ==
    /\ output \in {"none", "send", "exit"}
    /\ client_context_free(output = "send")
    /\ output' = "none"
    /\ decoded' = 0 /\ pending' = 0 /\ taken' = 0 /\ paced' = TRUE
    /\ shown' = 0 /\ Unblocked

\* External: the client stops reading, and reads again.  Only the output thread
\* takes notice.
connection_blocks ==
    /\ output # "none" /\ ~blocked /\ blocks < MaxBlocked
    /\ blocked' = TRUE /\ blocks' = blocks + 1
    /\ UNCHANGED <<readersVars, decoded, pending, output, taken, paced,
                   shown>>

connection_drains ==
    /\ blocked /\ blocked' = FALSE
    /\ UNCHANGED <<readersVars, decoded, pending, output, taken, paced,
                   shown, blocks>>

(***************************************************************************)
(* The decoder callback and the output thread                              *)
(***************************************************************************)
\* The reader pushes a unit to the decoder, which may return a frame.  The
\* newest frame replaces one that is still pending.
on_decoded_frame ==
    /\ rdp_reads /\ client # "avc" /\ decoded < MaxDecoded
    /\ decoded' = decoded + 1 /\ pending' = decoded + 1
    /\ UNCHANGED <<output, taken, paced, blocked, shown, blocks>>

write_ready == ~blocked /\ ~stopping

\* Mutant: the interval is compared the wrong way round.
DueTooEarly == pending # 0 /\ ~paced

Due == pending # 0 /\ paced

\* The top of output_thread's loop.
output_looks ==
    /\ output = "look"
    /\ output' = IF stopping THEN "exit"
                 ELSE IF Due THEN "flush" ELSE "wait"
    /\ UNCHANGED <<readersVars, decoded, pending, taken, paced, blocked,
                   shown, blocks>>

\* Mutant: the frame that is taken also stays pending.
TakenStays == UNCHANGED pending /\ taken' = IF write_ready THEN pending ELSE 0

Taken == IF write_ready THEN pending' = 0 /\ taken' = pending
                        ELSE UNCHANGED <<pending, taken>>

\* client_flush_pending_bitmap up to the conversion.  It returns to the loop
\* at once if the connection takes no data.
client_flush_pending_bitmap ==
    /\ output = "flush"
    /\ Taken
    /\ paced' = (paced /\ ~write_ready)
    /\ output' = IF write_ready THEN "send" ELSE "wait"
    /\ UNCHANGED <<readersVars, decoded, blocked, shown, blocks>>

\* send_bitmap_frame: the frame is written, or given up because the connection
\* has blocked in the meantime.
send_bitmap_frame ==
    /\ output = "send" /\ ~stopping
    /\ shown' = IF write_ready THEN taken ELSE shown
    /\ taken' = 0
    /\ output' = "look"
    /\ UNCHANGED <<readersVars, decoded, pending, paced, blocked, blocks>>

\* The client is stopping, or the conversion or the write fails.
send_fails ==
    /\ output = "send"
    /\ IF stopping THEN UNCHANGED failures ELSE Fails
    /\ stopping' = TRUE
    /\ taken' = 0 /\ output' = "exit"
    /\ UNCHANGED <<session, yield, http, rdp, rested, client, left, gateway,
                   clients, snapshotVars, decoded, pending, paced, blocked,
                   shown, blocks>>

\* The wait ends after 50 ms or the rest of the interval; output_wakeup ends it
\* earlier.
output_wait_ends ==
    /\ output = "wait"
    /\ output' = "look"
    /\ UNCHANGED <<readersVars, decoded, pending, taken, paced, blocked, shown,
                   blocks>>

interval_passes ==
    /\ ~paced /\ paced' = TRUE
    /\ UNCHANGED <<readersVars, decoded, pending, output, taken, blocked,
                   shown, blocks>>

OutputThread == output_looks \/ client_flush_pending_bitmap
                \/ send_bitmap_frame \/ send_fails \/ output_wait_ends

(***************************************************************************)
(* Specification                                                           *)
(***************************************************************************)
Init ==
    /\ ReadersInit
    /\ decoded = 0 /\ pending = 0 /\ output = "none" /\ taken = 0
    /\ paced = TRUE /\ blocked = FALSE
    /\ shown = 0 /\ blocks = 0

Running == gateway \notin {"destroyed", "leaked", "crashed"}

HttpReads == Running /\ HttpReader /\ UNCHANGED outputVars
RdpReads == Running /\ RdpReader /\ UNCHANGED outputVars
Serves == Running /\ Snapshots /\ UNCHANGED outputVars
Stops == Running /\ gateway_stop /\ UNCHANGED outputVars
Decodes == Running /\ on_decoded_frame
Outputs == Running /\ OutputThread
ClientMoves == Running /\ (client_connects \/ client_stops \/ connection_blocks)
ClientFreed == Running /\ client_freed
LeftReturns == Running /\ left_thread_returns /\ UNCHANGED outputVars
Drains == Running /\ connection_drains
TimePasses == Running /\ interval_passes
ProcessGone == ~Running /\ UNCHANGED vars

Next == HttpReads \/ RdpReads \/ Serves \/ Stops \/ Decodes \/ Outputs
        \/ ClientMoves \/ ClientFreed \/ LeftReturns \/ Drains \/ TimePasses
        \/ ProcessGone

\* The threads run, every read ends sooner or later (with a unit that is not
\* discarded or a second without any), every wait ends with its timeout, time
\* passes, and a client that has stopped reading reads again.  Nothing is asked of
\* a thread that was left running.
Fairness == /\ WF_vars(HttpReads) /\ WF_vars(RdpReads) /\ WF_vars(Outputs)
            /\ WF_vars(ClientFreed) /\ WF_vars(Drains) /\ WF_vars(TimePasses)

BitmapSpec == Init /\ [][Next]_vars /\ Fairness

(***************************************************************************)
(* Properties                                                              *)
(***************************************************************************)
\* Type invariant of the output; frames move on from pending to taken to shown.
OutputTypeOK ==
    /\ ReadersTypeOK
    /\ output \in {"none", "look", "flush", "send", "wait", "exit"}
    /\ {paced, blocked} \subseteq BOOLEAN
    /\ taken # 0 <=> output = "send"
    /\ {pending, taken, shown} \subseteq 0..decoded
    /\ pending # 0 => pending = decoded /\ pending > taken
    /\ taken # 0 => taken > shown

Connected == client # "none" /\ ~stopping /\ Running

\* client_flush_pending_bitmap: when the picture stands still (MaxDecoded is
\* reached), the last frame does not stay pending: the output thread takes it
\* sooner or later, however the interval and the client's connection hold it up.
PendingFrameTaken == []<>(Connected /\ client = "bitmap" => pending = 0)

\* "Even when capture stops, the final frame survives until pacing/ACK/transport
\* allows it" (rdp_bitmap.c): when the picture stands still, the last frame is sent
\* in every mode that decodes frames.
DecodedFrameShown == []<>(Connected => decoded = shown)
=============================================================================
