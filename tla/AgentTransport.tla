--------------------------- MODULE AgentTransport ---------------------------
(***************************************************************************)
(* The gateway's end of the control connection (agent_transport.c) between *)
(* the threads that use it and the agent at the other end of the wire.     *)
(*                                                                         *)
(* The control thread accepts a connection, waits for HELLO, publishes the *)
(* descriptor under the transport lock and then reads messages until the   *)
(* connection is lost.  The main thread runs the heartbeat.  The callers   *)
(* (the RDP peer thread, a user of the key acknowledgement) send through   *)
(* send_for_epoch, which takes send_lock, checks under lock that the       *)
(* descriptor AND the epoch are still current, and writes to a duplicate   *)
(* of the descriptor after it has released lock.                           *)
(*                                                                         *)
(* One action is one critical section of transport->lock (plus the private *)
(* receive in front of it) or one write to the socket.                     *)
(*                                                                         *)
(* A descriptor is a number the kernel reuses; the connection behind it is *)
(* not.  `sock' is the descriptor table, `conn' the connections.           *)
(*                                                                         *)
(* Time is kept as an age: activity_age is the ticks elapsed since         *)
(* last_activity_at was stored, `lag' the ticks since the main thread read *)
(* the clock for this heartbeat.  The code's `now - last_activity_at' is   *)
(* then activity_age - lag, which wraps around when the stored time is     *)
(* younger than the main thread's `now'.  When a PING falls due            *)
(* (last_ping_at) is left open: any heartbeat may or may not send one.     *)
(***************************************************************************)
EXTENDS Integers, Sequences, FiniteSets

CONSTANTS
    Fds,             \* the descriptors the kernel may hand out
    Callers,         \* threads other than the control and the main thread
    Hellos,          \* first messages an incoming connection may send
    AgentMessages,   \* what the agent sends by itself
    Buffer,          \* messages a socket buffer holds
    Timeout,         \* AGENT_TRANSPORT_HEARTBEAT_TIMEOUT_MS, in ticks
    MaxLag,          \* bound: ticks the main thread may lose before it locks
    MaxConnections,  \* bound: connections made to the gateway
    MaxCalls         \* bound: calls of the callers

ASSUME FdsAssumption == Fds # {} /\ Fds \subseteq Nat
ASSUME CallersAssumption == Callers \cap {"control", "main", "nobody"} = {}
ASSUME MessagesAssumption ==
    /\ Hellos \subseteq {"HELLO", "HELLO_KEY_ACK", "OTHER"}
    /\ AgentMessages \subseteq {"PING", "STATS"}
ASSUME BoundsAssumption ==
    /\ Buffer \in Nat \ {0}
    /\ Timeout \in Nat /\ MaxLag \in Nat /\ MaxConnections \in Nat /\ MaxCalls \in Nat

VARIABLES
    fd, pending_fd, epoch, stopping, stream_requested, supports_key_ack,
    heartbeat_timed_out, waiting_key, key_ack_received,
    activity_age,
    send_lock,       \* the thread inside send_for_epoch
    call,            \* [Threads -> the send_for_epoch a thread is in]
    control,         \* the control thread: where it is and its locals
    main, lag,       \* the main thread, and how old its `now' is
    sock,            \* descriptor -> connection (0: not open)
    conn,            \* the connections
    accepted,        \* connections the control thread has taken so far
    agent,           \* the connection the agent is using (0: none)
    streaming,       \* the agent's streaming flag
    wait_conn,       \* history: the connection the key wait was begun on
    calls            \* bound counter

transportVars == <<fd, pending_fd, epoch, stopping, stream_requested,
                   supports_key_ack, heartbeat_timed_out>>
keyVars == <<waiting_key, key_ack_received, wait_conn>>
timeVars == <<activity_age, lag>>
threadVars == <<control, main, calls>>
sendVars == <<send_lock, call>>
agentVars == <<agent, streaming>>
netVars == <<sock, conn, accepted>>
vars == <<transportVars, keyVars, timeVars, threadVars, sendVars, agentVars,
          netVars>>

NoFd == -1
Threads == {"control", "main"} \cup Callers
Connections == 1..Len(conn)
AgeCap == Timeout + MaxLag + 1

\* The age matters while a descriptor is published; accept resets it.
Older(age) == IF fd # NoFd /\ age < AgeCap THEN age + 1 ELSE age

ConnectionRecord(hello) ==
    [inbox |-> <<hello>>, outbox |-> <<>>, epoch |-> 0,
     hung_up |-> FALSE, shut |-> FALSE]

(***************************************************************************)
(* The calls                                                               *)
(***************************************************************************)
Returned(sent) == [step |-> "returned", fd |-> NoFd, epoch |-> 0,
                   type |-> "none", conn |-> 0, sent |-> sent]

Sending(f, e, type) == [step |-> "send", fd |-> f, epoch |-> e,
                        type |-> type, conn |-> 0, sent |-> FALSE]

Free(t) == call[t].step = "returned"

\* Mutant: the epoch is not compared.
is_current_fd_only(f, e) == ~stopping /\ fd = f

is_current_locked(f, e) == ~stopping /\ fd = f /\ epoch = e

\* shutdown(fd, SHUT_RDWR) on whatever connection the descriptor names.
ShutDown(cs, f) == IF f = NoFd \/ sock[f] = 0 THEN cs
                   ELSE [cs EXCEPT ![sock[f]].shut = TRUE]

\* Mutant: a descriptor is shut down and not closed.
CloseLeaks(f) == /\ conn' = [conn EXCEPT ![sock[f]].shut = TRUE, ![sock[f]].inbox = <<>>]
                 /\ UNCHANGED sock

\* close(fd): the connection is gone for both ends, with what it still held.
Close(f) == /\ conn' = [conn EXCEPT ![sock[f]].shut = TRUE, ![sock[f]].inbox = <<>>]
            /\ sock' = [sock EXCEPT ![f] = 0]

\* send_for_epoch, first half: both locks, the check, dup().
send_for_epoch(t) ==
    /\ call[t].step = "send"
    /\ send_lock = "nobody"
    /\ IF is_current_locked(call[t].fd, call[t].epoch)
       THEN /\ call' = [call EXCEPT ![t].step = "write",
                                    ![t].conn = sock[call[t].fd]]
            /\ send_lock' = t
       ELSE /\ call' = [call EXCEPT ![t] = Returned(FALSE)]
            /\ UNCHANGED send_lock
    /\ UNCHANGED <<transportVars, keyVars, timeVars, threadVars, agentVars,
                   netVars>>

\* The connection the duplicated descriptor names.
Target(t) == call[t].conn

\* Mutant: a frame that was cut short leaves the connection open.
FailedWriteLeftOpen(c) ==
    [conn EXCEPT ![c].outbox = Append(@, [type |-> "torn", epoch |-> 0])]

\* A frame that does not fit within SO_SNDTIMEO is cut short.
FailedWrite(c) ==
    LET torn == ~conn[c].shut /\ ~conn[c].hung_up
    IN  [conn EXCEPT ![c].shut = TRUE,
                     ![c].outbox = IF torn
                                   THEN Append(@, [type |-> "torn", epoch |-> 0])
                                   ELSE @]

\* send_for_epoch, second half: protocol_send on the duplicate, then unlock.
protocol_send(t) ==
    /\ call[t].step = "write"
    /\ LET c == Target(t)
           fits == ~conn[c].shut /\ ~conn[c].hung_up
                   /\ Len(conn[c].outbox) < Buffer
           frame == [type |-> call[t].type, epoch |-> call[t].epoch]
       IN  /\ conn' = IF fits THEN [conn EXCEPT ![c].outbox = Append(@, frame)]
                      ELSE FailedWrite(c)
           /\ call' = [call EXCEPT ![t] = Returned(fits /\ t \in Callers)]
    /\ send_lock' = "nobody"
    /\ UNCHANGED <<transportVars, keyVars, timeVars, threadVars, agentVars,
                   sock, accepted>>

(***************************************************************************)
(* The control thread                                                      *)
(***************************************************************************)
Control(pc, f, e, start) == [pc |-> pc, fd |-> f, epoch |-> e, start |-> start]

\* accept() and the pending_fd gate of agent_transport_accept.
accept_pending ==
    /\ control.pc = "accept"
    /\ accepted < Len(conn)
    /\ accepted' = accepted + 1
    /\ \E f \in Fds :
         /\ sock[f] = 0
         /\ IF ~stopping /\ pending_fd = NoFd
            THEN /\ pending_fd' = f
                 /\ sock' = [sock EXCEPT ![f] = accepted']
                 /\ control' = Control("hello", f, 0, FALSE)
                 /\ UNCHANGED conn
            ELSE /\ conn' = [conn EXCEPT ![accepted'].shut = TRUE]
                 /\ UNCHANGED <<pending_fd, sock, control>>
    /\ UNCHANGED <<fd, epoch, stopping, stream_requested, supports_key_ack,
                   heartbeat_timed_out, keyVars, timeVars, main, calls,
                   sendVars, agentVars>>

\* Mutant: a new connection keeps the key wait of the old one.
keep_key_ack == UNCHANGED keyVars

cancel_key_ack_locked ==
    waiting_key' = 0 /\ key_ack_received' = FALSE /\ wait_conn' = 0

MayPublish(hello) == hello \in {"HELLO", "HELLO_KEY_ACK"} /\ ~stopping

\* Mutant: only the first connection is started.
SendStartOnce == stream_requested /\ epoch = 0

\* send_start, sampled in the critical section that publishes the descriptor.
SendStart == stream_requested

\* The rest of agent_transport_accept: HELLO has been received (or the one
\* second timeout, a hang-up or a shutdown has ended the wait), then the second
\* critical section and, without the lock, START_STREAM.
publish(hello) ==
    LET f == control.fd
        c == sock[f]
    IN  /\ pending_fd' = NoFd
        /\ IF MayPublish(hello)
           THEN /\ fd' = f
                /\ epoch' = epoch + 1
                /\ supports_key_ack' = (hello = "HELLO_KEY_ACK")
                /\ activity_age' = 0
                /\ heartbeat_timed_out' = FALSE
                /\ cancel_key_ack_locked
                /\ conn' = [ShutDown(conn, fd) EXCEPT
                              ![c].inbox = Tail(@), ![c].epoch = epoch']
                /\ control' = Control("start", f, epoch', SendStart)
                /\ UNCHANGED sock
           ELSE /\ Close(f)
                /\ control' = Control("accept", NoFd, 0, FALSE)
                /\ UNCHANGED <<fd, epoch, supports_key_ack, activity_age,
                               heartbeat_timed_out, keyVars>>
        /\ UNCHANGED <<stopping, stream_requested, lag, main, calls, sendVars,
                       agentVars, accepted>>

\* What was buffered before a shutdown can still be read after it.
ReceiveHello ==
    /\ control.pc = "hello"
    /\ conn[sock[control.fd]].inbox # <<>>
    /\ publish(Head(conn[sock[control.fd]].inbox))

\* No HELLO in time, or the connection was hung up or shut down meanwhile.
HelloTimesOut ==
    /\ control.pc = "hello"
    /\ publish("nothing")

StartCall == Sending(control.fd, control.epoch, "START_STREAM")

\* accept's last statement and the entry of agent_transport_run.
send_start ==
    /\ control.pc = "start"
    /\ control' = [control EXCEPT !.pc = "run"]
    /\ call' = IF control.start
               THEN [call EXCEPT !["control"] = StartCall]
               ELSE call
    /\ UNCHANGED <<transportVars, keyVars, timeVars, main, calls, send_lock,
                   agentVars, netVars>>

\* protocol_receive and handle_message; a PING is answered before the loop's
\* second check.
handle_message ==
    /\ control.pc = "run" /\ Free("control")
    /\ LET c == sock[control.fd]
           m == Head(conn[c].inbox)
           current == is_current_locked(control.fd, control.epoch)
           acks == current /\ m = "KEY_ACK" /\ waiting_key # 0
       IN  /\ conn[c].inbox # <<>>
           /\ conn' = [conn EXCEPT ![c].inbox = Tail(@)]
           /\ activity_age' = IF current THEN 0 ELSE activity_age
           /\ key_ack_received' = (key_ack_received \/ acks)
           /\ call' = IF current /\ m = "PING"
                      THEN [call EXCEPT !["control"] =
                              Sending(control.fd, control.epoch, "PONG")]
                      ELSE call
    /\ control' = [control EXCEPT !.pc = "check"]
    /\ UNCHANGED <<transportVars, waiting_key, wait_conn, lag, main,
                   calls, send_lock, agentVars, sock, accepted>>

\* agent_transport_run after its loop: unpublish, close, DISCONNECTED (a log).
leave_run ==
    /\ IF fd = control.fd /\ epoch = control.epoch
       THEN /\ fd' = NoFd
            /\ supports_key_ack' = FALSE
            /\ cancel_key_ack_locked
       ELSE UNCHANGED <<fd, supports_key_ack, keyVars>>
    /\ Close(control.fd)
    /\ control' = Control("accept", NoFd, 0, FALSE)
    /\ activity_age' = 0
    /\ UNCHANGED <<pending_fd, epoch, stopping, stream_requested,
                   heartbeat_timed_out, lag, main, calls, sendVars,
                   agentVars, accepted>>

\* The loop's check after each message.
check_current ==
    /\ control.pc = "check" /\ Free("control")
    /\ \/ /\ is_current_locked(control.fd, control.epoch)
          /\ control' = [control EXCEPT !.pc = "run"]
          /\ UNCHANGED <<transportVars, keyVars, timeVars, main, calls,
                         sendVars, agentVars, netVars>>
       \/ /\ ~is_current_locked(control.fd, control.epoch)
          /\ leave_run

\* protocol_receive fails: end of stream once nothing is buffered, or at once
\* when the gateway has shut the connection down.
receive_fails ==
    /\ control.pc = "run" /\ Free("control")
    /\ LET c == sock[control.fd]
       IN  conn[c].shut \/ (conn[c].hung_up /\ conn[c].inbox = <<>>)
    /\ leave_run

\* The listener is closed on shutdown and the loop ends.
control_exits ==
    /\ control.pc = "accept" /\ stopping
    /\ control' = [control EXCEPT !.pc = "exit"]
    /\ UNCHANGED <<transportVars, keyVars, timeVars, main, calls, sendVars,
                   agentVars, netVars>>

ControlStep ==
    \/ accept_pending
    \/ ReceiveHello
    \/ HelloTimesOut
    \/ send_start
    \/ handle_message
    \/ check_current
    \/ receive_fails
    \/ control_exits

(***************************************************************************)
(* The main thread: heartbeat and shutdown                                 *)
(***************************************************************************)
\* server_heartbeat reads the clock before it takes the lock.
read_clock ==
    /\ main = "idle" /\ Free("main")
    /\ main' = "heartbeat"
    /\ lag' = 0
    /\ UNCHANGED <<transportVars, keyVars, activity_age, control,
                   calls, sendVars, agentVars, netVars>>

\* now - stored in uint64_t: a stored time younger than now wraps around.
Wrapped == AgeCap + 1

Elapsed(age) == IF age < lag THEN Wrapped ELSE age - lag

\* Mutant: the silent connection is not shut down.
HeartbeatLeavesOpen == conn

HeartbeatShutDown == ShutDown(conn, fd)

\* The critical section of agent_transport_heartbeat.
heartbeat ==
    LET live == ~stopping /\ fd # NoFd /\ ~heartbeat_timed_out
        timeout == live /\ Elapsed(activity_age) > Timeout
    IN  /\ main = "heartbeat"
        /\ main' = IF timeout THEN "event" ELSE "idle"
        /\ heartbeat_timed_out' = (heartbeat_timed_out \/ timeout)
        /\ stream_requested' = (stream_requested /\ ~timeout)
        /\ conn' = IF timeout THEN HeartbeatShutDown ELSE conn
        /\ \E due \in BOOLEAN :
             call' = IF live /\ ~timeout /\ due
                     THEN [call EXCEPT !["main"] = Sending(fd, epoch, "PING")]
                     ELSE call
        /\ lag' = 0
        /\ UNCHANGED <<fd, pending_fd, epoch, stopping, supports_key_ack,
                       keyVars, activity_age, control, calls, send_lock,
                       agentVars, sock, accepted>>

\* The HEARTBEAT_TIMEOUT callback.
event_delivered ==
    /\ main = "event"
    /\ main' = "idle"
    /\ UNCHANGED <<transportVars, keyVars, timeVars, control, calls, sendVars,
                   agentVars, netVars>>

\* Mutant: the published descriptor is not shut down.
ShutdownPendingOnly == ShutDown(conn, pending_fd)

\* Both the published and the pending descriptor are shut down.
ShutdownBoth == ShutDown(ShutDown(conn, fd), pending_fd)

\* gateway_stop's call, made by the main thread once its loop has ended.
agent_transport_shutdown(from) ==
    /\ main = from /\ Free("main")
    /\ main' = "stopping"
    /\ stopping' = TRUE
    /\ conn' = ShutdownBoth
    /\ UNCHANGED <<fd, pending_fd, epoch, stream_requested, supports_key_ack,
                   heartbeat_timed_out, keyVars, timeVars, control, calls,
                   sendVars, agentVars, sock, accepted>>

\* Called once the control thread has been joined.
agent_transport_destroy ==
    /\ main = "stopping"
    /\ control.pc = "exit"
    /\ main' = "destroyed"
    /\ fd' = NoFd /\ pending_fd' = NoFd
    /\ conn' = ShutDown(ShutDown(conn, fd), pending_fd)
    /\ sock' = [f \in Fds |-> IF f \in {fd, pending_fd} THEN 0 ELSE sock[f]]
    /\ UNCHANGED <<epoch, stopping, stream_requested, supports_key_ack,
                   heartbeat_timed_out, keyVars, timeVars, control, calls,
                   sendVars, agentVars, accepted>>

MainStep ==
    \/ read_clock
    \/ heartbeat
    \/ event_delivered
    \/ agent_transport_shutdown("idle")
    \/ agent_transport_destroy

(***************************************************************************)
(* The callers                                                             *)
(***************************************************************************)
\* The descriptor and epoch are captured under lock, the send comes after.
Captured(type) == IF ~stopping /\ fd # NoFd THEN Sending(fd, epoch, type)
                  ELSE Returned(FALSE)

MayCall(t) == Free(t) /\ calls < MaxCalls /\ main \notin {"stopping", "destroyed"}

agent_transport_set_stream_requested(t, requested) ==
    /\ Free(t)
    /\ stream_requested' = requested
    /\ call' = [call EXCEPT ![t] = Captured(IF requested THEN "START_STREAM"
                                            ELSE "STOP_STREAM")]
    /\ UNCHANGED <<fd, pending_fd, epoch, stopping, supports_key_ack,
                   heartbeat_timed_out, keyVars, timeVars, control, main,
                   send_lock, agentVars, netVars>>

agent_transport_send(t, type) ==
    /\ Free(t)
    /\ call' = [call EXCEPT ![t] = Captured(type)]
    /\ UNCHANGED <<transportVars, keyVars, timeVars, control, main, send_lock,
                   agentVars, netVars>>

\* begin_key_ack registers the wait under the lock; the KEY that asks for the
\* acknowledgement is sent afterwards.
agent_transport_begin_key_ack(t) ==
    /\ Free(t)
    /\ ~stopping /\ fd # NoFd /\ supports_key_ack
    /\ waiting_key' = 1
    /\ key_ack_received' = FALSE
    /\ wait_conn' = sock[fd]
    /\ UNCHANGED <<transportVars, timeVars, control, main, sendVars,
                   agentVars, netVars>>

CallerStep(t) ==
    /\ MayCall(t)
    /\ calls' = calls + 1
    /\ \/ \E requested \in BOOLEAN :
            agent_transport_set_stream_requested(t, requested)
       \/ agent_transport_begin_key_ack(t)
       \/ agent_transport_send(t, "KEY")

(***************************************************************************)
(* The agent's end (agent.c) and the passage of time                       *)
(***************************************************************************)
\* connect_control sends HELLO with the connection; other peers of the
\* listener may send something else.
connect_control ==
    /\ agent = 0
    /\ Len(conn) < MaxConnections
    /\ \E hello \in Hellos : conn' = Append(conn, ConnectionRecord(hello))
    /\ agent' = Len(conn')
    /\ UNCHANGED <<transportVars, keyVars, timeVars, threadVars, sendVars,
                   streaming, sock, accepted>>

\* disconnect_control: the agent sees an end of stream or a bad frame, loses
\* the network, or stops.
disconnect_control ==
    /\ agent # 0
    /\ conn' = [conn EXCEPT ![agent].hung_up = TRUE, ![agent].outbox = <<>>]
    /\ agent' = 0
    /\ streaming' = FALSE
    /\ UNCHANGED <<transportVars, keyVars, timeVars, threadVars, sendVars,
                   sock, accepted>>

Reply(type) == CASE type = "PING" -> <<"PONG">>
                 [] type = "KEY" -> <<"KEY_ACK">>
                 [] OTHER -> <<>>

\* handle_control, as far as the stream and the answers are concerned.
handle_control ==
    /\ agent # 0
    /\ conn[agent].outbox # <<>>
    /\ LET m == Head(conn[agent].outbox).type
       IN  /\ m # "torn"
           /\ Len(conn[agent].inbox) + Len(Reply(m)) <= Buffer
           /\ conn' = [conn EXCEPT ![agent].outbox = Tail(@),
                                   ![agent].inbox = @ \o Reply(m)]
           /\ streaming' = (m = "START_STREAM" \/ (streaming /\ m # "STOP_STREAM"))
    /\ UNCHANGED <<transportVars, keyVars, timeVars, threadVars, sendVars,
                   agent, sock, accepted>>

\* The agent's own PING and STATS.
agent_sends ==
    /\ agent # 0
    /\ Len(conn[agent].inbox) < Buffer
    /\ \E m \in AgentMessages :
         conn' = [conn EXCEPT ![agent].inbox = Append(@, m)]
    /\ UNCHANGED <<transportVars, keyVars, timeVars, threadVars, sendVars,
                   agentVars, sock, accepted>>

AgentStep == connect_control \/ disconnect_control \/ handle_control \/ agent_sends

Tick ==
    /\ main = "heartbeat" => lag < MaxLag
    /\ activity_age' = Older(activity_age)
    /\ lag' = IF main = "heartbeat" THEN lag + 1 ELSE lag
    /\ UNCHANGED <<transportVars, keyVars, threadVars, sendVars, agentVars,
                   netVars>>

(***************************************************************************)
(* The specification                                                       *)
(***************************************************************************)
\* agent_transport_init, and whether a stream is requested before any agent
\* can connect.
InitWith(requested) ==
    /\ fd = NoFd /\ pending_fd = NoFd /\ epoch = 0
    /\ stopping = FALSE /\ stream_requested = requested
    /\ supports_key_ack = FALSE /\ heartbeat_timed_out = FALSE
    /\ waiting_key = 0 /\ key_ack_received = FALSE /\ wait_conn = 0
    /\ activity_age = 0 /\ lag = 0
    /\ send_lock = "nobody"
    /\ call = [t \in Threads |-> Returned(FALSE)]
    /\ control = Control("accept", NoFd, 0, FALSE)
    /\ main = "idle" /\ calls = 0
    /\ sock = [f \in Fds |-> 0] /\ conn = <<>> /\ accepted = 0
    /\ agent = 0 /\ streaming = FALSE

Init == InitWith(FALSE)

SendStep(t) == send_for_epoch(t) \/ protocol_send(t)

Next ==
    \/ ControlStep
    \/ MainStep
    \/ \E t \in Threads : SendStep(t)
    \/ \E t \in Callers : CallerStep(t)
    \/ AgentStep
    \/ Tick

Spec == Init /\ [][Next]_vars

\* The gateway's threads run and time passes; nothing is asked of the agent.
\* The main thread is fair in its loop, not in deciding to shut down.
Fairness ==
    /\ WF_vars(ControlStep)
    /\ WF_vars(read_clock) /\ WF_vars(heartbeat) /\ WF_vars(event_delivered)
    /\ \A t \in Threads : WF_vars(SendStep(t))
    /\ WF_vars(Tick)

FairSpec == Spec /\ Fairness

(***************************************************************************)
(* Properties                                                              *)
(***************************************************************************)
\* The messages the gateway sends.
MessageTypes == {"START_STREAM", "STOP_STREAM", "PING", "PONG", "KEY",
                 "RELEASE_ALL"}

CallType == [step : {"returned", "send", "write"}, fd : Fds \cup {NoFd},
             epoch : Nat, type : MessageTypes \cup {"none"}, conn : Nat,
             sent : BOOLEAN]

\* The state of struct AgentTransport, of the threads and of the sockets.
TypeOK ==
    /\ fd \in Fds \cup {NoFd} /\ pending_fd \in Fds \cup {NoFd}
    /\ epoch \in Nat /\ accepted \in Nat /\ agent \in Nat /\ calls \in Nat
    /\ {stopping, stream_requested, supports_key_ack, heartbeat_timed_out,
        key_ack_received, streaming} \subseteq BOOLEAN
    /\ waiting_key \in {0, 1} /\ wait_conn \in Nat
    /\ activity_age \in 0..AgeCap /\ lag \in 0..MaxLag
    /\ send_lock \in Threads \cup {"nobody"}
    /\ call \in [Threads -> CallType]
    /\ control.pc \in {"accept", "hello", "start", "run", "check", "exit"}
    /\ main \in {"idle", "heartbeat", "event", "stopping", "destroyed"}
    /\ sock \in [Fds -> 0..accepted]
    /\ \A c \in Connections : /\ Len(conn[c].inbox) <= Buffer
                               /\ Len(conn[c].outbox) <= Buffer + 1

\* A frame whose sender saw one connection under the lock is only ever written
\* to that connection, although the descriptor may have been closed and reused
\* by the time send_for_epoch gets the send lock or writes.
SendsStayInEpoch ==
    \A c \in Connections : \A i \in DOMAIN conn[c].outbox :
        conn[c].outbox[i].type # "torn" => conn[c].outbox[i].epoch = conn[c].epoch

\* After a write that was cut short no further frame follows on the same
\* connection (the comment in protocol_send).
NothingFollowsTornFrame ==
    \A c \in Connections : \A i \in DOMAIN conn[c].outbox :
        conn[c].outbox[i].type = "torn" => i = Len(conn[c].outbox)

\* A key wait lives and dies with the connection it was begun on: no
\* acknowledgement from another connection can complete it.
KeyWaitDiesWithConnection ==
    waiting_key # 0 => /\ fd # NoFd
                       /\ wait_conn = sock[fd]

Healthy(c) == ~conn[c].shut /\ ~conn[c].hung_up /\ conn[c].outbox = <<>>

Quiet == control.pc \in {"run", "check"} /\ \A t \in Threads : Free(t)

\* While a stream is requested and nothing is on its way, the connected agent is
\* streaming: the request is never lost between accept, which samples it under
\* the lock, and set_stream_requested, which looks for a published descriptor
\* under the same lock.
StreamStartNeverLost ==
    Quiet /\ fd # NoFd /\ stream_requested /\ Healthy(sock[fd]) => streaming

\* Once the gateway has stopped, every accepted descriptor has been closed,
\* whichever of accept's and run's exits it left by.
DescriptorsClosedAtExit ==
    main = "destroyed" => \A f \in Fds : sock[f] = 0

\* A published connection is not left silent: it is dropped or the agent is
\* heard from.
SilentConnectionDropped ==
    []<>(fd = NoFd \/ activity_age <= Timeout)

\* shutdown() unblocks the control thread wherever it is, so that gateway_stop's
\* unbounded join returns.
ShutdownCompletes == []<>(stopping => control.pc = "exit")

\* The connection as its users see it: the torn frame at the end of a connection
\* is one the agent cannot read.
WholeFrames(c) ==
    LET out == conn[c].outbox
    IN  IF out # <<>> /\ out[Len(out)].type = "torn" THEN SubSeq(out, 1, Len(out) - 1)
        ELSE out

Link == INSTANCE ControlLink WITH
            Messages <- MessageTypes,
            current <- IF fd = NoFd THEN 0 ELSE sock[fd],
            reader <- agent,
            published <- epoch,
            wire <- [c \in Connections |->
                        [frames |-> WholeFrames(c),
                         epoch |-> conn[c].epoch,
                         open |-> ~conn[c].shut /\ ~conn[c].hung_up]]

\* agent_transport.c implements the control link: whatever the threads, the
\* heartbeat and the agent do, one connection is published at a time, and a frame
\* goes as a whole, in order and in its own epoch, or not at all.
ImplementsLink == Link!LinkSpec

\* The heartbeat gives a connection up only after more than Timeout of silence
\* (AGENT_TRANSPORT_HEARTBEAT_TIMEOUT_MS and the times agent_transport_test.c
\* uses).
TimeoutOnlyAfterSilence ==
    [][~heartbeat_timed_out /\ heartbeat_timed_out' => activity_age > Timeout]_vars
=============================================================================
