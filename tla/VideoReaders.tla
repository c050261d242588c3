---------------------------- MODULE VideoReaders -----------------------------
(***************************************************************************)
(* The readers of the device session: the HTTP snapshot thread             *)
(* (http_video_thread) and the video thread of the RDP client, video_thread*)
(* for AVC output and bitmap_video_thread for the decoded modes.  One RTP  *)
(* socket serves both, so a reader needs the lease of the device session   *)
(* (device_session.c); the RDP reader makes the HTTP reader give it up     *)
(* with http_yield_event.  The snapshots of http_api.c and the order of    *)
(* gateway_stop belong to the picture.                                     *)
(*                                                                         *)
(* What is in the access units is the subject of VideoPath; here a read    *)
(* yields a decoded frame, nothing (a timeout, a unit that is skipped) or  *)
(* an error.  Generations are taken modulo Generations.                    *)
(***************************************************************************)
EXTENDS Naturals, FiniteSets

CONSTANTS
    Modes,           \* output modes of clients: "avc", "bitmap", "progressive"
    Attempts,        \* attempts to get the lease: reader -> 20 (avc), 10
    Generations,     \* generations are taken modulo this (2^64)
    MaxPublished,    \* bound: frames published for snapshots
    MaxClients,      \* bound: RDP clients
    MaxFailures      \* bound: failed opens, decoder starts and reads, and waits
                     \* that run out

ASSUME ReadersAssumption ==
    /\ Modes \subseteq {"avc", "bitmap", "progressive"}
    /\ Attempts \in [{"avc", "bitmap"} -> Nat \ {0}]
    /\ Generations \in Nat \ {0, 1}
    /\ MaxPublished \in Nat /\ MaxClients \in Nat /\ MaxFailures \in Nat

VARIABLES
    session,         \* DeviceSession: leased, generation
    yield,           \* server->http_yield_event
    http,            \* the HTTP reader: where it is, the generation of its lease
    rdp,             \* the RDP reader: the same, and its attempts
    rested,          \* the HTTP reader has moved since the last attempt
    client,          \* "none" or the mode of the connected client
    stopping,        \* client->stopping
    left,            \* threads that still run although their client is freed:
                     \* the lease of a reader (0: none), an output thread
    gateway,         \* gateway_stop: "running", "http", "peer", "destroyed",
                     \* "leaked"; "crashed"
    frame_id,        \* api->frame_id, and with it the newest frame (0: none)
    jpeg,            \* api->jpeg: its frame and jpeg_frame_id
    request,         \* the snapshot being encoded: its X-Frame-Id and its frame
    clients, failures

snapshotVars == <<frame_id, jpeg, request>>
clientVars == <<client, stopping, left, gateway, clients>>
readersVars == <<session, yield, http, rdp, rested, clientVars, snapshotVars,
                 failures>>

Threads == {"http", "rdp", "left"}

Snapshot(id, frame) == [id |-> id, frame |-> frame]

stop_requested == gateway # "running"

Fails == failures < MaxFailures /\ failures' = failures + 1

(***************************************************************************)
(* device_session.c                                                        *)
(***************************************************************************)
\* Mutant: the lease is given out although it is taken.
free_to_lease_always == TRUE

free_to_lease == ~session.leased

\* 0 marks a lease that is not held; the generations skip it.
NextGeneration == IF (session.generation + 1) % Generations = 0 THEN 1
                  ELSE (session.generation + 1) % Generations

device_session_acquire ==
    session' = [leased |-> TRUE, generation |-> NextGeneration]

\* A lease of an earlier generation releases nothing.
device_session_release(lease) ==
    session' = [session EXCEPT !.leased = @ /\ session.generation # lease]

(***************************************************************************)
(* The HTTP reader                                                         *)
(***************************************************************************)
Http(pc, lease) == /\ http' = [pc |-> pc, lease |-> lease]
                   /\ rested' = (rdp.pc = "try")

\* The top of the outer loop; while the event is set, the thread sleeps here.
http_begins ==
    /\ http.pc = "top" /\ (stop_requested \/ ~yield)
    /\ Http(IF stop_requested THEN "done" ELSE "acquire", 0)
    /\ UNCHANGED <<session, yield, rdp, clientVars, snapshotVars, failures>>

http_acquires ==
    /\ http.pc = "acquire" /\ free_to_lease
    /\ device_session_acquire
    /\ Http("start", session'.generation)
    /\ UNCHANGED <<yield, rdp, clientVars, snapshotVars, failures>>

\* The lease is taken, or the socket cannot be opened.
http_gets_no_lease ==
    /\ http.pc = "acquire"
    /\ IF session.leased THEN UNCHANGED failures ELSE Fails
    /\ Http("top", 0)
    /\ UNCHANGED <<session, yield, rdp, clientVars, snapshotVars>>

http_starts_decoder ==
    /\ http.pc = "start"
    /\ \/ Http("check", http.lease) /\ UNCHANGED failures
       \/ Http("release", http.lease) /\ Fails
    /\ UNCHANGED <<session, yield, rdp, clientVars, snapshotVars>>

\* Mutant: the reader does not look at the event before the next read.
YieldIgnored == stop_requested

GivesWay == stop_requested \/ yield

\* The top of the inner loop.
http_checks ==
    /\ http.pc = "check"
    /\ Http(IF GivesWay THEN "release" ELSE "read", http.lease)
    /\ UNCHANGED <<session, yield, rdp, clientVars, snapshotVars, failures>>

\* The newest frame replaces the one before, whether or not it was encoded.
http_api_publish_frame ==
    /\ ~stop_requested /\ frame_id < MaxPublished
    /\ frame_id' = frame_id + 1

\* The read returns: nothing to show, a frame to publish, or an error.
http_reads ==
    /\ http.pc = "read"
    /\ \/ Http("check", http.lease) /\ UNCHANGED <<frame_id, failures>>
       \/ /\ Http("check", http.lease) /\ UNCHANGED failures
          /\ http_api_publish_frame
       \/ Http("release", http.lease) /\ Fails /\ UNCHANGED frame_id
    /\ UNCHANGED <<session, yield, rdp, clientVars, jpeg, request>>

http_releases ==
    /\ http.pc = "release"
    /\ device_session_release(http.lease)
    /\ Http("top", 0)
    /\ UNCHANGED <<yield, rdp, clientVars, snapshotVars, failures>>

HttpReader == http_begins \/ http_acquires \/ http_gets_no_lease
              \/ http_starts_decoder \/ http_checks \/ http_reads
              \/ http_releases

(***************************************************************************)
(* The RDP reader                                                          *)
(***************************************************************************)
Rdp(pc, attempt, lease) ==
    rdp' = [pc |-> pc, attempt |-> attempt, lease |-> lease]

NoReader == [pc |-> "exit", attempt |-> 0, lease |-> 0]

Reader == IF client = "avc" THEN "avc" ELSE "bitmap"

rdp_signals ==
    /\ rdp.pc = "signal"
    /\ yield' = TRUE
    /\ Rdp("try", 0, 0)
    /\ UNCHANGED <<session, http, rested, clientVars, snapshotVars, failures>>

Trying == /\ rdp.pc = "try" /\ ~stopping
          /\ rdp.attempt < Attempts[Reader]

\* The HTTP reader has ended, or it sleeps until the event is reset.
HttpWaits == http.pc = "done" \/ (http.pc = "top" /\ yield /\ ~stop_requested)

\* Between two attempts the bitmap reader sleeps for a second, and within a
\* second the HTTP reader moves; the AVC reader sleeps for 50 ms.
Slept == rdp.attempt = 0 \/ Reader = "avc" \/ rested \/ HttpWaits

rdp_acquires ==
    /\ Trying /\ Slept /\ free_to_lease
    /\ device_session_acquire
    /\ Rdp(IF Reader = "avc" THEN "reset" ELSE "start", rdp.attempt,
           session'.generation)
    /\ rested' = FALSE
    /\ UNCHANGED <<yield, http, clientVars, snapshotVars, failures>>

\* The HTTP reader has the lease, or the attempt is a failure: the socket cannot
\* be opened, a reader that was left running has the lease, or a read of the HTTP
\* reader goes on for more than the second.
rdp_gets_no_lease ==
    /\ Trying /\ (Slept \/ http.pc = "read")
    /\ IF Slept /\ session.leased /\ left.lease = 0 THEN UNCHANGED failures ELSE Fails
    /\ Rdp("try", rdp.attempt + 1, 0)
    /\ rested' = FALSE
    /\ UNCHANGED <<session, yield, http, clientVars, snapshotVars>>

rdp_starts_decoder ==
    /\ rdp.pc = "start"
    /\ \/ /\ Rdp("reset", rdp.attempt, rdp.lease)
          /\ UNCHANGED <<session, failures>>
       \/ /\ device_session_release(rdp.lease)
          /\ Rdp("try", rdp.attempt + 1, 0)
          /\ Fails
    /\ UNCHANGED <<yield, http, rested, clientVars, snapshotVars>>

rdp_ends_attempts ==
    /\ rdp.pc = "try" /\ (stopping \/ rdp.attempt = Attempts[Reader])
    /\ Rdp("reset", rdp.attempt, 0)
    /\ UNCHANGED <<session, yield, http, rested, clientVars, snapshotVars,
                   failures>>

\* Mutant: the event is reset only by a reader that has the lease.
ResetWithLease == rdp.lease = 0

YieldAfterAttempts == FALSE

\* Without a lease the client is stopped.
rdp_resets ==
    /\ rdp.pc = "reset"
    /\ yield' = YieldAfterAttempts
    /\ Rdp(IF rdp.lease = 0 THEN "out" ELSE "read", 0, rdp.lease)
    /\ stopping' = (stopping \/ rdp.lease = 0)
    /\ UNCHANGED <<session, http, rested, client, left, gateway, clients,
                   snapshotVars, failures>>

\* A unit arrives; what the decoder makes of it is up to the output mode.
rdp_reads ==
    /\ rdp.pc = "read" /\ ~stopping
    /\ UNCHANGED readersVars

\* Reading or decoding fails.
rdp_read_fails ==
    /\ rdp.pc = "read" /\ ~stopping /\ Fails
    /\ stopping' = TRUE
    /\ Rdp("out", 0, rdp.lease)
    /\ UNCHANGED <<session, yield, http, rested, client, left, gateway, clients,
                   snapshotVars>>

rdp_stops_reading ==
    /\ rdp.pc = "read" /\ stopping
    /\ Rdp("out", 0, rdp.lease)
    /\ UNCHANGED <<session, yield, http, rested, clientVars, snapshotVars,
                   failures>>

rdp_releases ==
    /\ rdp.pc = "out"
    /\ device_session_release(rdp.lease)
    /\ rdp' = NoReader
    /\ UNCHANGED <<yield, http, rested, clientVars, snapshotVars, failures>>

RdpReader == rdp_signals \/ rdp_acquires \/ rdp_gets_no_lease
             \/ rdp_starts_decoder \/ rdp_ends_attempts \/ rdp_resets
             \/ rdp_read_fails \/ rdp_stops_reading \/ rdp_releases

(***************************************************************************)
(* Snapshots (http_api.c)                                                  *)
(***************************************************************************)
NoRequest == Snapshot(0, 0)

\* get_snapshot up to the first unlock: the frame is cloned with its number,
\* unless there is none (503) or the cached JPEG is the answer.
get_snapshot ==
    /\ gateway = "running" /\ request = NoRequest
    /\ frame_id # 0 /\ jpeg.id # frame_id
    /\ request' = Snapshot(frame_id, frame_id)
    /\ UNCHANGED <<session, yield, http, rdp, rested, clientVars, frame_id, jpeg,
                   failures>>

\* Mutant: the JPEG is kept under the number of the newest frame.
CacheNewest == Snapshot(frame_id, request.frame)

Cached == request

\* Frames may have been published while this one was encoded.
snapshot_encoded ==
    /\ request # NoRequest
    /\ jpeg' = Cached
    /\ request' = NoRequest
    /\ UNCHANGED <<session, yield, http, rdp, rested, clientVars, frame_id,
                   failures>>

snapshot_fails ==
    /\ request # NoRequest /\ Fails
    /\ request' = NoRequest
    /\ UNCHANGED <<session, yield, http, rdp, rested, clientVars, frame_id, jpeg>>

Snapshots == get_snapshot \/ snapshot_encoded \/ snapshot_fails

(***************************************************************************)
(* The life cycle of the client and of the gateway                         *)
(***************************************************************************)
\* on_gfx_caps_advertise and client_prepare_bitmap start the reader.
client_starts(mode) ==
    /\ client = "none" /\ clients < MaxClients
    /\ gateway = "running"
    /\ client' = mode /\ stopping' = FALSE
    /\ clients' = clients + 1
    /\ Rdp("signal", 0, 0)
    /\ UNCHANGED <<session, yield, http, rested, left, gateway, snapshotVars,
                   failures>>

\* The peer loop ends: the client disconnects, or gateway_stop sets its
\* shutdown event.
client_stop ==
    /\ client # "none" /\ ~stopping
    /\ stopping' = TRUE
    /\ UNCHANGED <<session, yield, http, rdp, rested, client, left, gateway,
                   clients, snapshotVars, failures>>

NothingLeft == [lease |-> 0, output |-> FALSE]

StillRunning(output_runs) ==
    [lease |-> IF rdp.lease = 0 THEN left.lease ELSE rdp.lease,
     output |-> left.output \/ output_runs]

\* client_context_free waits three seconds for each thread of the client and goes
\* on whether or not it has ended.  A read is over when a unit arrives that is not
\* discarded, or when none arrives for a second: there the reader may outlast the
\* wait, elsewhere it takes less.
client_context_free(output_runs) ==
    /\ client # "none" /\ stopping
    /\ rdp.pc \in {"read", "exit"}
    /\ IF rdp.pc = "read" \/ output_runs THEN Fails ELSE UNCHANGED failures
    /\ left' = StillRunning(output_runs)
    /\ rdp' = NoReader
    /\ client' = "none" /\ stopping' = FALSE
    /\ UNCHANGED <<session, yield, http, rested, gateway, clients, snapshotVars>>

\* A thread that was left running comes back to a client that has been freed.  It
\* may find that it is to stop, and end, or bring the process down.
left_thread_returns ==
    /\ \/ /\ left.lease # 0
          /\ device_session_release(left.lease)
          /\ left' = [left EXCEPT !.lease = 0]
          /\ UNCHANGED gateway
       \/ /\ left.output
          /\ left' = [left EXCEPT !.output = FALSE]
          /\ UNCHANGED <<session, gateway>>
       \/ /\ left # NothingLeft
          /\ gateway' = "crashed"
          /\ UNCHANGED <<session, left>>
    /\ UNCHANGED <<yield, http, rdp, rested, client, stopping, clients,
                   snapshotVars, failures>>

\* Mutant: gateway_stop does not wait for the HTTP reader.
HttpNotJoined == TRUE

HttpJoined == http.pc = "done" /\ request = NoRequest

\* gateway_stop: the HTTP threads first, then the peer, whose join may time
\* out, in which case everything it may use is left alone.
gateway_stop ==
    /\ \/ gateway = "running" /\ gateway' = "http"
       \/ gateway = "http" /\ HttpJoined /\ gateway' = "peer"
       \/ /\ gateway = "peer"
          /\ gateway' = IF client = "none" THEN "destroyed" ELSE "leaked"
    /\ UNCHANGED <<session, yield, http, rdp, rested, client, stopping, left,
                   clients, snapshotVars, failures>>

ReadersInit ==
    /\ session = [leased |-> FALSE, generation |-> 0]
    /\ yield = FALSE /\ rested = FALSE
    /\ http = [pc |-> "top", lease |-> 0] /\ rdp = NoReader
    /\ client = "none" /\ stopping = FALSE /\ left = NothingLeft
    /\ gateway = "running"
    /\ frame_id = 0 /\ jpeg = NoRequest /\ request = NoRequest
    /\ clients = 0 /\ failures = 0

(***************************************************************************)
(* Properties                                                              *)
(***************************************************************************)
Lease(t) == CASE t = "http" -> http.lease
              [] t = "rdp" -> rdp.lease
              [] OTHER -> left.lease

\* Type invariant of the readers.
ReadersTypeOK ==
    /\ session \in [leased : BOOLEAN, generation : 0..(Generations - 1)]
    /\ http \in [pc : {"top", "acquire", "start", "check", "read", "release",
                       "done"}, lease : 0..(Generations - 1)]
    /\ rdp.pc \in {"signal", "try", "start", "reset", "read", "out", "exit"}
    /\ rdp.attempt \in 0..Attempts[Reader]
    /\ left \in [lease : 0..(Generations - 1), output : BOOLEAN]
    /\ frame_id \in 0..MaxPublished
    /\ client \in Modes \cup {"none"}

\* device_session.c: one reader at a time has the RTP socket.  The session is
\* leased exactly if a thread holds a lease of the current generation, and no
\* thread is left holding one of an earlier generation.  A reader that outlives
\* its client still holds its lease: nobody is given the socket it reads.
OneReader ==
    LET holders == {t \in Threads : Lease(t) # 0}
    IN  /\ Cardinality(holders) = IF session.leased THEN 1 ELSE 0
        /\ \A t \in holders : Lease(t) = session.generation

\* http_video_thread yields: the bitmap reader does not run out of attempts
\* because the HTTP reader holds the lease or takes it again.
BitmapReaderGetsLease ==
    rdp.pc = "reset" /\ rdp.lease = 0 /\ Reader = "bitmap" => stopping

\* get_snapshot: the picture a snapshot shows is the one X-Frame-Id names,
\* however many frames are published while it is encoded.
SnapshotMatchesId == \A answer \in {jpeg, request} : answer.id = answer.frame

\* gateway_stop: the device session, the yield event and the HTTP API are
\* destroyed when the HTTP threads have ended and every lease has been given back,
\* save the lease of a reader that client_context_free has given up waiting for.
DestroyedUnlessLeft ==
    gateway = "destroyed" => /\ http.pc = "done" /\ request = NoRequest
                             /\ session.leased => left.lease = session.generation

\* The HTTP reader comes back: after each yield it gets the lease again, unless
\* a client is connected, a reader was left running or the gateway stops.
HttpReaderReturns ==
    []<>(http.pc = "read" \/ client # "none" \/ left.lease # 0 \/ stop_requested)
=============================================================================
