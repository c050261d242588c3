---------------------------- MODULE GatewayStream ----------------------------
(***************************************************************************)
(* Who asks the agent for video, and for how long (gateway_server.c,       *)
(* rdp_peer.c, main.c over agent_transport.c).  The RDP peer thread claims *)
(* server->active, requests the stream, serves, and takes the request back *)
(* in client_context_free.  The HTTP API requests it once, at start, and   *)
(* client_context_free puts that request back.  The main thread admits     *)
(* peers, runs the heartbeat and its timeout callback and, at the end,     *)
(* gateway_stop.                                                           *)
(*                                                                         *)
(* The transport's actions are AgentTransport's own; the peer thread is    *)
(* its caller "peer".                                                      *)
(***************************************************************************)
EXTENDS AgentTransport

CONSTANTS
    DirectGfx,   \* config.direct_gfx: the stream is requested by the RDPGFX
                 \* capability callback, which ignores a failed send
    MaxPeers     \* bound: RDP connections

ASSUME GatewayAssumption ==
    /\ DirectGfx \in BOOLEAN /\ MaxPeers \in Nat
    /\ "peer" \in Callers

VARIABLES
    peer,            \* the peer thread
    active,          \* server->active # NULL
    closing,         \* server->active_closing
    shutdown_event,  \* the active client's shutdown event is set
    peers,           \* bound counter
    lapsed           \* history: a heartbeat timeout has cleared the request
                     \* and nobody has made it again

peerVars == <<peer, active, closing, shutdown_event, peers>>
gatewayVars == <<vars, peerVars, lapsed>>

\* The transport moves and the peer thread's state does not.
OnlyTransport == UNCHANGED peerVars

\* The peer thread moves without a call of the transport.
OnlyPeer == UNCHANGED vars

\* Where the main thread is from gateway_stop's http_api_destroy on.
Stopped == {"join_peer", "leaked", "stopping", "destroyed"}

(***************************************************************************)
(* The main thread                                                         *)
(***************************************************************************)
\* server_reap_finished_peer_thread leaves no handle unless the thread is running.
NoPeerThread == peer \in {"none", "finished"}

\* peer_accepted, with the reaping of a finished peer thread in front.
peer_accepted ==
    /\ main = "idle" /\ Free("main")
    /\ peers < MaxPeers
    /\ NoPeerThread /\ ~active /\ ~closing
    /\ peer' = "connecting"
    /\ peers' = peers + 1
    /\ UNCHANGED <<active, closing, shutdown_event>>
    /\ OnlyPeer

\* on_transport_event, first half: agent_transport_is_current_epoch.  The timed
\* out connection is the current one until the control thread leaves
\* agent_transport_run; a later accept clears heartbeat_timed_out.
IsCurrentEpoch == ~stopping /\ fd # NoFd /\ heartbeat_timed_out

check_event ==
    /\ main = "event"
    /\ main' = IF IsCurrentEpoch THEN "notify" ELSE "idle"
    /\ UNCHANGED <<transportVars, keyVars, timeVars, control, calls, sendVars,
                   agentVars, netVars>>
    /\ OnlyTransport

SignalActive == shutdown_event' = (shutdown_event \/ active)

\* Second half, under server->lock.
notify_active ==
    /\ main = "notify"
    /\ main' = "idle"
    /\ SignalActive
    /\ UNCHANGED <<transportVars, keyVars, timeVars, control, calls, sendVars,
                   agentVars, netVars, peer, active, closing, peers>>

\* gateway_stop up to the join of the peer thread (server_join_peer_thread).
gateway_stop ==
    /\ main = "idle" /\ Free("main")
    /\ main' = "join_peer"
    /\ SignalActive
    /\ UNCHANGED <<transportVars, keyVars, timeVars, control, calls, sendVars,
                   agentVars, netVars, peer, active, closing, peers>>

\* The join has returned.
peer_joined ==
    /\ NoPeerThread
    /\ agent_transport_shutdown("join_peer")
    /\ OnlyTransport

\* PEER_SHUTDOWN_JOIN_TIMEOUT_MS has passed: the state is leaked and main
\* returns; the other threads end wherever they are.
peer_not_joined ==
    /\ main = "join_peer"
    /\ ~NoPeerThread
    /\ main' = "leaked"
    /\ UNCHANGED <<transportVars, keyVars, timeVars, control, calls, sendVars,
                   agentVars, netVars>>
    /\ OnlyTransport

GatewayMain ==
    \/ peer_accepted
    \/ read_clock /\ OnlyTransport
    \/ heartbeat /\ OnlyTransport
    \/ check_event
    \/ notify_active
    \/ gateway_stop
    \/ peer_joined
    \/ peer_not_joined
    \/ agent_transport_destroy /\ OnlyTransport

(***************************************************************************)
(* The peer thread                                                         *)
(***************************************************************************)
At(pc, next) == peer = pc /\ peer' = next /\ UNCHANGED <<closing, peers>>

\* peer_thread ends before post_connect: no client to release.
peer_refused == /\ At("connecting", "finished")
                /\ UNCHANGED <<active, shutdown_event>>
                /\ OnlyPeer

client_claim_active == /\ At("connecting", "claimed")
                       /\ ~active /\ ~closing
                       /\ active' = TRUE
                       /\ UNCHANGED shutdown_event
                       /\ OnlyPeer

\* client_prepare_bitmap or on_gfx_caps_advertise.
request_stream == /\ At("claimed", "starting")
                  /\ agent_transport_set_stream_requested("peer", TRUE)
                  /\ UNCHANGED <<active, shutdown_event, calls>>

\* The graphics channel is not ready in time, or the client leaves first.
prepare_fails == /\ At("claimed", "leaving")
                 /\ UNCHANGED <<active, shutdown_event>>
                 /\ OnlyPeer

stream_started == /\ Free("peer")
                  /\ At("starting", IF DirectGfx \/ call["peer"].sent
                                    THEN "serving" ELSE "leaving")
                  /\ UNCHANGED <<active, shutdown_event>>
                  /\ OnlyPeer

\* The RDP client disconnects.
client_disconnects == /\ At("serving", "leaving")
                      /\ UNCHANGED <<active, shutdown_event>>
                      /\ OnlyPeer

\* The loop of peer_thread sees the event within its 50 ms wait.
client_shut_down == /\ shutdown_event
                    /\ At("serving", "leaving")
                    /\ UNCHANGED <<active, shutdown_event>>
                    /\ OnlyPeer

\* client_context_free: RELEASE_ALL, STOP_STREAM, the HTTP API's request, and
\* the end of the client in the server's state.
release_inputs == /\ At("leaving", "released")
                  /\ agent_transport_send("peer", "RELEASE_ALL")
                  /\ UNCHANGED <<active, shutdown_event, calls>>

withdraw_stream == /\ At("released", "withdrawn")
                   /\ agent_transport_set_stream_requested("peer", FALSE)
                   /\ UNCHANGED <<active, shutdown_event, calls>>

\* Mutant: the HTTP API's request goes with the client's.
restore_forgotten ==
    /\ Free("peer")
    /\ At("withdrawn", "restored")
    /\ UNCHANGED <<active, shutdown_event>>
    /\ OnlyPeer

\* gateway_stop destroys server->http_api before it joins the peer thread.
restore_http_stream ==
    /\ Free("peer")
    /\ At("withdrawn", "restored")
    /\ IF main \notin Stopped
       THEN agent_transport_set_stream_requested("peer", TRUE) /\ UNCHANGED calls
       ELSE OnlyPeer
    /\ UNCHANGED <<active, shutdown_event>>

\* Mutant: the event of a client that is gone stays set.
client_gone_event_left ==
    /\ Free("peer")
    /\ peer = "restored" /\ peer' = "joining"
    /\ active' = FALSE /\ closing' = TRUE
    /\ UNCHANGED <<peers, shutdown_event>>
    /\ OnlyPeer

client_gone == /\ Free("peer")
               /\ peer = "restored" /\ peer' = "joining"
               /\ active' = FALSE /\ closing' = TRUE /\ shutdown_event' = FALSE
               /\ UNCHANGED peers
               /\ OnlyPeer

client_freed == /\ peer = "joining" /\ peer' = "finished"
                /\ closing' = FALSE
                /\ UNCHANGED <<active, shutdown_event, peers>>
                /\ OnlyPeer

PeerStep ==
    \/ peer_refused
    \/ client_claim_active
    \/ request_stream
    \/ prepare_fails
    \/ stream_started
    \/ client_disconnects
    \/ client_shut_down
    \/ release_inputs
    \/ withdraw_stream
    \/ restore_http_stream
    \/ client_gone
    \/ client_freed

(***************************************************************************)
(* The specification                                                       *)
(***************************************************************************)
\* http_api_start requests the stream before the control thread exists; without
\* the API the gateway does not start.
GatewayInit ==
    /\ InitWith(TRUE)
    /\ peer = "none" /\ peers = 0
    /\ active = FALSE /\ closing = FALSE /\ shutdown_event = FALSE
    /\ lapsed = FALSE

\* The history of the request: only the heartbeat's timeout lets it lapse.
Lapses ==
    lapsed' = (/\ ~stream_requested'
               /\ lapsed \/ (stream_requested /\ ~heartbeat_timed_out /\ heartbeat_timed_out'))

GatewayNext ==
    \/ GatewayMain /\ Lapses
    \/ PeerStep /\ Lapses
    \/ ControlStep /\ OnlyTransport /\ Lapses
    \/ \E t \in Threads : SendStep(t) /\ OnlyTransport /\ Lapses
    \/ AgentStep /\ OnlyTransport /\ Lapses
    \/ Tick /\ OnlyTransport /\ Lapses

GatewaySpec == GatewayInit /\ [][GatewayNext]_gatewayVars

(***************************************************************************)
(* Properties                                                              *)
(***************************************************************************)
PeerStates == {"none", "connecting", "claimed", "starting", "serving",
               "leaving", "released", "withdrawn", "restored", "joining",
               "finished"}

\* The peer thread's place agrees with what it has claimed in the server.
GatewayTypeOK ==
    /\ peer \in PeerStates /\ peers \in 0..MaxPeers /\ lapsed \in BOOLEAN
    /\ active = (peer \in {"claimed", "starting", "serving", "leaving",
                           "released", "withdrawn", "restored"})
    /\ closing = (peer = "joining")
    /\ shutdown_event => active

\* The HTTP API's video outlives the RDP clients (restore_http_stream).  Before the
\* first client and after each one, however it left and whatever connections came
\* and went meanwhile, the connected agent streams once nothing is on its way, unless
\* a heartbeat timeout has dropped the request since.
StreamOutlivesClient ==
    NoPeerThread /\ main \notin Stopped /\ ~lapsed =>
        (Quiet /\ fd # NoFd /\ Healthy(sock[fd]) => streaming)

\* Between heartbeats, whoever wants the stream still has it requested: the HTTP
\* API while no client is connected (README: snapshots without an RDP client),
\* and a client that is being served and has not been told to leave.
WantedStreamIsRequested ==
    main = "idle" =>
        /\ peer = "none" => stream_requested
        /\ peer = "serving" /\ ~shutdown_event => stream_requested
=============================================================================
