------------------------ MODULE GatewayStreamProofs ------------------------
(***************************************************************************)
(* Proofs about who asks the agent for video (GatewayStream), for every    *)
(* set of descriptors, every socket buffer and any number of connections   *)
(* and RDP clients.                                                        *)
(*                                                                         *)
(* The gateway keeps the transport's invariant, because each of its steps  *)
(* is a step of the transport or leaves the transport alone.  On top of    *)
(* it, StreamInv says where START_STREAM is while a stream is requested    *)
(* and the agent is not streaming yet: still to be sent by the control     *)
(* thread, inside send_for_epoch, or on the wire with no STOP_STREAM       *)
(* behind it.                                                              *)
(***************************************************************************)
EXTENDS GatewayStream, AgentTransportProofs

(***************************************************************************)
(* The inductive invariant                                                 *)
(***************************************************************************)
\* A call that is under way was made in this epoch or an earlier one, writes to
\* the published connection when its epoch is the current one, and is a
\* STOP_STREAM only of the peer thread and only while no stream is requested.
CallsCurrent ==
    \A t \in Threads : call[t].step # "returned" =>
        /\ call[t].epoch <= epoch
        /\ call[t].step = "write" /\ fd # NoFd /\ call[t].epoch = epoch =>
             call[t].conn = sock[fd]
        /\ call[t].type = "STOP_STREAM" => t = "peer" /\ ~stream_requested

\* The agent hangs up one connection before it makes the next.
ReaderIsAgent == \A c \in Connections : ~conn[c].hung_up => agent = c

\* Shutdown has shut the published connection down.
StoppingShut == stopping /\ fd # NoFd => conn[sock[fd]].shut

Starting(t) == /\ call[t].step # "returned" /\ call[t].type = "START_STREAM"
               /\ call[t].fd = fd /\ call[t].epoch = epoch

Started(out) == \E i \in DOMAIN out :
                    /\ out[i].type = "START_STREAM"
                    /\ \A j \in DOMAIN out : j > i => out[j].type # "STOP_STREAM"

NoStop(out) == \A i \in DOMAIN out : out[i].type # "STOP_STREAM"

\* What stands for the request at the agent's end of an open connection.
StartIsUnderWay ==
    \/ control.pc = "start" /\ control.start
    \/ \E t \in Threads \ {"main"} : Starting(t)
    \/ Started(conn[sock[fd]].outbox)
    \/ streaming /\ NoStop(conn[sock[fd]].outbox)

StartOnItsWay ==
    stream_requested /\ fd # NoFd /\ ~conn[sock[fd]].shut /\ ~conn[sock[fd]].hung_up
        => StartIsUnderWay

StreamInv == CallsCurrent /\ ReaderIsAgent /\ StoppingShut /\ StartOnItsWay

\* The request is off only inside a client's teardown, between STOP_STREAM and
\* restore_http_stream, after a heartbeat timeout, or when the gateway stops.
RequestStands == stream_requested \/ lapsed \/ peer = "withdrawn" \/ main \in Stopped

GatewayInv == TransportInv /\ GatewayTypeOK /\ RequestStands /\ StreamInv

(***************************************************************************)
(* Steps that leave the wires alone                                        *)
(***************************************************************************)
\* No frame is written or read and nobody hangs up; connections may be shut down.
WiresKept ==
    /\ Len(conn') = Len(conn)
    /\ \A c \in Connections :
         /\ conn'[c].outbox = conn[c].outbox
         /\ conn'[c].hung_up = conn[c].hung_up
         /\ conn[c].shut => conn'[c].shut

\* A change of one connection that touches neither its frames nor hung_up.
LEMMA OneWireKept ==
    ASSUME TransportInv, NEW c \in Connections, NEW r \in ConnType,
           conn' = [conn EXCEPT ![c] = r],
           r.outbox = conn[c].outbox, r.hung_up = conn[c].hung_up,
           conn[c].shut => r.shut
    PROVE  WiresKept /\ conn'[c] = r
  <1>1. /\ Len(conn') = Len(conn) /\ conn'[c] = r
        /\ \A d \in Connections : d # c => conn'[d] = conn[d]
    BY OneChanged DEF TransportInv, TransportTypes, NetTypes, Connections
  <1> QED BY <1>1 DEF WiresKept

\* A descriptor that is open names a connection.
LEMMA OpenDescriptor ==
    ASSUME TransportInv, NEW f \in Fds, sock[f] # 0
    PROVE  sock[f] \in Connections /\ conn[sock[f]] \in ConnType
  <1>1. sock[f] \in Connections
    BY Lengths DEF TransportInv, TransportTypes, NetTypes, Connections
  <1> QED
    BY <1>1, Element DEF TransportInv, TransportTypes, NetTypes, Connections

\* The published descriptor names a connection.
LEMMA PublishedDescriptor ==
    ASSUME TransportInv, fd # NoFd
    PROVE  /\ fd \in Fds /\ sock[fd] \in Connections /\ conn[sock[fd]] \in ConnType
           /\ control.pc \in {"start", "run", "check"}
           /\ control.fd = fd /\ control.epoch = epoch
  <1>1. /\ fd \in Fds /\ sock[fd] # 0 /\ control.pc \in {"start", "run", "check"}
        /\ control.fd = fd /\ control.epoch = epoch
    BY DEF TransportInv, ControlOwns, TransportTypes, NetTypes, ThreadTypes, ControlType
  <1> QED BY <1>1, OpenDescriptor

\* shutdown() on a descriptor.
LEMMA ShutDownWires ==
    ASSUME TransportInv, NEW f \in Fds \cup {NoFd}, conn' = ShutDown(conn, f)
    PROVE  WiresKept /\ (f # NoFd /\ sock[f] # 0 => conn'[sock[f]].shut)
  <1>1. CASE f = NoFd \/ sock[f] = 0
    <2>1. conn' = conn
      BY <1>1 DEF ShutDown
    <2> QED BY <1>1, <2>1 DEF WiresKept
  <1>2. CASE ~(f = NoFd \/ sock[f] = 0)
    <2> DEFINE c == sock[f]
               r == [conn[c] EXCEPT !.shut = TRUE]
    <2>1. c \in Connections /\ conn[c] \in ConnType
      BY <1>2, OpenDescriptor
    <2>2. conn' = [conn EXCEPT ![c] = r]
      BY <1>2 DEF ShutDown
    <2>3. /\ r \in ConnType /\ r.outbox = conn[c].outbox /\ r.hung_up = conn[c].hung_up
          /\ r.shut = TRUE
      BY Zenon, <2>1 DEF ConnType
    <2> HIDE DEF r, c
    <2>4. WiresKept /\ conn'[c] = r
      BY Zenon, <2>1, <2>2, <2>3, OneWireKept
    <2> QED BY <2>3, <2>4 DEF c
  <1> QED BY <1>1, <1>2

\* close() of a descriptor that is open.
LEMMA CloseWires ==
    ASSUME TransportInv, NEW f \in Fds, sock[f] # 0, Close(f)
    PROVE  WiresKept
  <1> DEFINE c == sock[f]
             r == [conn[c] EXCEPT !.shut = TRUE, !.inbox = <<>>]
  <1>1. c \in Connections /\ conn[c] \in ConnType
    BY OpenDescriptor
  <1>2. conn' = [conn EXCEPT ![c] = r]
    BY Zenon DEF Close
  <1>3. <<>> \in Seq(Inbound)
    BY EmptyOrNot
  <1>4. /\ r \in ConnType /\ r.outbox = conn[c].outbox /\ r.hung_up = conn[c].hung_up
        /\ r.shut = TRUE
    BY Zenon, <1>1, <1>3 DEF ConnType
  <1> HIDE DEF r, c
  <1> QED BY Zenon, <1>1, <1>2, <1>4, OneWireKept

(***************************************************************************)
(* What such a step keeps of StreamInv                                     *)
(***************************************************************************)
\* The descriptor stays published on its connection, or is taken back.
SamePublication == /\ epoch' = epoch
                   /\ fd' = NoFd \/ (fd' = fd /\ sock'[fd] = sock[fd])

\* No call changes.
LEMMA CallsCurrentKept ==
    ASSUME CallsCurrent, call' = call, SamePublication,
           stream_requested' => stream_requested
    PROVE  CallsCurrent'
  BY Zenon DEF CallsCurrent, SamePublication, Threads

\* One call begins, goes on or returns.
LEMMA OneCallCurrent ==
    ASSUME TransportInv, CallsCurrent, NEW t \in Threads, NEW q,
           call' = [call EXCEPT ![t] = q], SamePublication,
           stream_requested' => stream_requested,
           q.step # "returned" =>
             /\ q.epoch <= epoch
             /\ q.step = "write" /\ fd # NoFd /\ q.epoch = epoch => q.conn = sock[fd]
             /\ q.type = "STOP_STREAM" => t = "peer" /\ ~stream_requested'
    PROVE  CallsCurrent'
  <1>1. /\ call'[t] = q
        /\ \A u \in Threads : u # t => call'[u] = call[u]
    BY DEF TransportInv, TransportTypes, ThreadTypes
  <1> QED BY <1>1 DEF CallsCurrent, SamePublication, Threads

\* The wires are left alone and no START_STREAM that is under way is dropped.
LEMMA StreamKept ==
    ASSUME TransportInv, StreamInv, WiresKept, SamePublication, CallsCurrent',
           UNCHANGED <<agent, streaming>>,
           stopping' /\ fd' # NoFd => stopping \/ conn'[sock[fd]].shut,
           stream_requested' => stream_requested,
           fd' # NoFd => \/ control' = control
                         \/ control.pc # "start"
                         \/ control.start => \E t \in Threads \ {"main"} : Starting(t)',
           fd' # NoFd /\ ~conn'[sock[fd]].shut =>
               \A t \in Threads \ {"main"} : Starting(t) => Starting(t)'
    PROVE  StreamInv'
  <1>1. ReaderIsAgent'
    BY DEF StreamInv, ReaderIsAgent, WiresKept, Connections
  <1>2. CASE fd' = NoFd
    BY <1>1, <1>2 DEF StreamInv, StoppingShut, StartOnItsWay, NoFd
  <1>3. CASE fd' # NoFd
    <2> DEFINE c == sock[fd]
    <2>1. fd' = fd /\ fd # NoFd /\ sock'[fd'] = c /\ NoFd' = NoFd
      BY <1>3 DEF SamePublication, NoFd
    <2>2. c \in Connections
      BY <2>1, PublishedDescriptor
    <2>3. /\ conn'[c].outbox = conn[c].outbox /\ conn'[c].hung_up = conn[c].hung_up
          /\ conn[c].shut => conn'[c].shut
      BY <2>2 DEF WiresKept
    <2>4. StoppingShut'
      BY <2>1, <2>3 DEF StreamInv, StoppingShut
    <2>5. StartOnItsWay'
      <3> SUFFICES ASSUME stream_requested', ~conn'[c].shut, ~conn'[c].hung_up
                   PROVE  StartIsUnderWay'
        BY <2>1 DEF StartOnItsWay
      <3>1. StartIsUnderWay
        BY <2>1, <2>3 DEF StreamInv, StartOnItsWay
      <3>2. CASE control.pc = "start" /\ control.start
        BY <1>3, <3>2 DEF StartIsUnderWay, Threads
      <3>3. CASE \E t \in Threads \ {"main"} : Starting(t)
        BY <1>3, <2>1, <3>3 DEF StartIsUnderWay, Threads
      <3>4. CASE Started(conn[c].outbox)
        BY <2>1, <2>3, <3>4 DEF StartIsUnderWay
      <3>5. CASE streaming /\ NoStop(conn[c].outbox)
        BY <2>1, <2>3, <3>5 DEF StartIsUnderWay
      <3> QED BY <3>1, <3>2, <3>3, <3>4, <3>5 DEF StartIsUnderWay
    <2> QED BY <1>1, <2>4, <2>5 DEF StreamInv
  <1> QED BY <1>2, <1>3

\* The same when no call changes either.
LEMMA StreamUntouched ==
    ASSUME TransportInv, StreamInv, WiresKept, SamePublication,
           UNCHANGED <<agent, streaming, call>>,
           stopping' /\ fd' # NoFd => stopping \/ conn'[sock[fd]].shut,
           stream_requested' => stream_requested,
           fd' # NoFd => control' = control \/ control.pc # "start"
    PROVE  StreamInv'
  <1>1. CallsCurrent'
    BY CallsCurrentKept DEF StreamInv
  <1>2. fd' # NoFd => \A t \in Threads \ {"main"} : Starting(t) => Starting(t)'
    BY DEF Starting, SamePublication
  <1> QED BY <1>1, <1>2, StreamKept

\* Nothing of the transport changes but the main thread's place and the clock.
LEMMA TransportAtRest ==
    ASSUME TransportInv, StreamInv,
           UNCHANGED <<transportVars, control, sendVars, agentVars, netVars>>
    PROVE  StreamInv'
  <1>1. WiresKept /\ SamePublication
    BY DEF WiresKept, SamePublication, transportVars, netVars
  <1> QED
    BY <1>1, StreamUntouched DEF transportVars, sendVars, agentVars

(***************************************************************************)
(* The control thread                                                      *)
(***************************************************************************)
\* agent_transport_accept, up to the wait for HELLO.
LEMMA AcceptStream ==
    ASSUME TransportInv, StreamInv, accept_pending
    PROVE  StreamInv'
  <1>1. /\ control.pc = "accept" /\ accepted < Len(conn) /\ accepted' = accepted + 1
        /\ UNCHANGED <<fd, epoch, stopping, stream_requested, sendVars, agentVars>>
    BY DEF accept_pending
  <1>2. fd = NoFd
    BY <1>1 DEF TransportInv, ControlOwns
  <1>3. WiresKept
    <2>1. CASE conn' = conn
      BY <2>1 DEF WiresKept
    <2>2. CASE conn' = [conn EXCEPT ![accepted'].shut = TRUE]
      <3> DEFINE c == accepted'
                 r == [conn[c] EXCEPT !.shut = TRUE]
      <3>1. c \in Connections
        BY <1>1, Lengths DEF TransportInv, TransportTypes, NetTypes, Connections
      <3>2. conn[c] \in ConnType
        BY <3>1, Element DEF TransportInv, TransportTypes, NetTypes, Connections
      <3>3. conn' = [conn EXCEPT ![c] = r]
        BY <2>2
      <3>4. /\ r \in ConnType /\ r.outbox = conn[c].outbox
            /\ r.hung_up = conn[c].hung_up /\ r.shut = TRUE
        BY Zenon, <3>2 DEF ConnType
      <3> HIDE DEF r, c
      <3> QED BY Zenon, <3>1, <3>3, <3>4, OneWireKept
    <2> QED BY Zenon, <2>1, <2>2 DEF accept_pending
  <1>4. SamePublication
    BY <1>1, <1>2 DEF SamePublication
  <1> QED BY <1>1, <1>2, <1>3, <1>4, StreamUntouched DEF sendVars, agentVars

\* The rest of agent_transport_accept: the request is sampled in the critical
\* section that publishes the descriptor.
LEMMA PublishStream ==
    ASSUME TransportInv, StreamInv, control.pc = "hello", NEW hello,
           MayPublish(hello) => conn[sock[control.fd]].inbox # <<>>,
           publish(hello)
    PROVE  StreamInv'
  <1> DEFINE f == control.fd
             c == sock[f]
  <1>1. /\ fd = NoFd /\ f \in Fds /\ c # 0 /\ epoch \in Nat
    BY DEF TransportInv, ControlOwns, TransportTypes, NetTypes
  <1>2. UNCHANGED <<stopping, stream_requested, sendVars, agentVars>>
    BY DEF publish
  <1>3. c \in Connections /\ conn[c] \in ConnType
    BY <1>1, OpenDescriptor
  <1>4. CASE MayPublish(hello)
    <2> DEFINE r == [conn[c] EXCEPT !.inbox = Tail(@), !.epoch = epoch']
    <2>1. /\ fd' = f /\ epoch' = epoch + 1 /\ conn' = [conn EXCEPT ![c] = r]
          /\ control' = Control("start", f, epoch', SendStart) /\ ~stopping
      BY Zenon, <1>1, <1>4 DEF publish, ShutDown, MayPublish
    <2>2. /\ conn[c].inbox # <<>> /\ conn[c].inbox \in Seq(Inbound)
          /\ epoch' \in Nat
      BY <1>1, <1>3, <1>4, <2>1 DEF ConnType
    <2>3. Tail(conn[c].inbox) \in Seq(Inbound)
      BY <2>2, HeadAndTail
    <2>4. /\ r \in ConnType /\ r.outbox = conn[c].outbox
          /\ r.hung_up = conn[c].hung_up /\ r.shut = conn[c].shut
      BY Zenon, <1>3, <2>2, <2>3 DEF ConnType
    <2> HIDE DEF r, c
    <2>5. WiresKept
      BY Zenon, <1>3, <2>1, <2>4, OneWireKept
    <2>6. CallsCurrent'
      <3>1. \A t \in Threads : call[t].epoch \in Nat
        BY DEF TransportInv, TransportTypes, ThreadTypes, CallType
      <3>2. \A t \in Threads : call[t].step # "returned" =>
              call[t].epoch <= epoch' /\ call[t].epoch # epoch'
        BY <1>1, <2>1, <3>1 DEF StreamInv, CallsCurrent
      <3> QED BY <1>2, <3>2 DEF StreamInv, CallsCurrent, Threads, sendVars
    <2>7. ReaderIsAgent'
      BY <1>2, <2>5 DEF StreamInv, ReaderIsAgent, WiresKept, Connections, agentVars
    <2>8. StoppingShut'
      BY <1>2, <2>1 DEF StoppingShut
    <2>9. StartOnItsWay'
      BY <1>2, <2>1 DEF StartOnItsWay, StartIsUnderWay, Control, SendStart
    <2> QED BY <2>6, <2>7, <2>8, <2>9 DEF StreamInv
  <1>5. CASE ~MayPublish(hello)
    <2>1. Close(f) /\ fd' = fd /\ epoch' = epoch
      BY <1>5 DEF publish
    <2>2. WiresKept
      BY <1>1, <2>1, CloseWires
    <2>3. SamePublication
      BY <1>1, <2>1 DEF SamePublication
    <2> QED
      BY <1>1, <1>2, <2>1, <2>2, <2>3, StreamUntouched DEF sendVars, agentVars
  <1> QED BY <1>4, <1>5

\* START_STREAM of agent_transport_accept: the control thread makes the call that
\* it has decided on under the lock.
LEMMA SendStartStream ==
    ASSUME TransportInv, StreamInv, send_start
    PROVE  StreamInv'
  <1>1. /\ control.pc = "start" /\ control' = [control EXCEPT !.pc = "run"]
        /\ call' = IF control.start THEN [call EXCEPT !["control"] = StartCall] ELSE call
        /\ UNCHANGED <<transportVars, agentVars, netVars>>
    BY DEF send_start
  <1>2. /\ WiresKept /\ SamePublication
    BY <1>1 DEF WiresKept, SamePublication, transportVars, netVars
  <1>3. /\ fd = control.fd /\ epoch = control.epoch /\ epoch \in Nat
        /\ "control" \in Threads \ {"main"}
    BY <1>1 DEF TransportInv, ControlOwns, TransportTypes, NetTypes, Threads
  <1>4. CASE control.start
    <2>1. call'["control"] = StartCall /\ call' = [call EXCEPT !["control"] = StartCall]
      BY <1>1, <1>3, <1>4 DEF TransportInv, TransportTypes, ThreadTypes
    <2>2. /\ StartCall.step = "send" /\ StartCall.epoch = epoch /\ StartCall.fd = fd
          /\ StartCall.type = "START_STREAM"
      BY <1>3 DEF StartCall, Sending
    <2>3. Starting("control")'
      BY <1>1, <2>1, <2>2 DEF Starting, transportVars
    <2>4. \A t \in Threads \ {"main"} : Starting(t) => Starting(t)'
      <3>1. \A t \in Threads : t # "control" => call'[t] = call[t]
        BY <2>1 DEF TransportInv, TransportTypes, ThreadTypes
      <3> QED BY <1>1, <2>3, <3>1 DEF Starting, transportVars
    <2>5. CallsCurrent'
      <3>1. /\ stream_requested' => stream_requested
            /\ "control" \in Threads /\ StartCall.epoch <= epoch /\ CallsCurrent
        BY <1>1, <1>3, <2>2 DEF StreamInv, transportVars
      <3> QED BY Zenon, <1>2, <2>1, <2>2, <3>1, OneCallCurrent
    <2> QED
      BY <1>1, <1>2, <1>3, <2>3, <2>4, <2>5, StreamKept DEF transportVars, agentVars, Threads
  <1>5. CASE ~control.start
    <2>1. call' = call
      BY <1>1, <1>5
    <2>2. CallsCurrent'
      BY <1>1, <1>2, <2>1, CallsCurrentKept DEF StreamInv, transportVars
    <2>3. \A t \in Threads \ {"main"} : Starting(t) => Starting(t)'
      BY <1>1, <2>1 DEF Starting, transportVars
    <2> QED
      BY <1>1, <1>2, <1>5, <2>2, <2>3, StreamKept DEF transportVars, agentVars, Threads
  <1> QED BY <1>4, <1>5

\* A message is handled; a PING starts the call that answers it.
LEMMA HandleMessageStream ==
    ASSUME TransportInv, StreamInv, handle_message
    PROVE  StreamInv'
  <1> DEFINE c == sock[control.fd]
             r == [conn[c] EXCEPT !.inbox = Tail(@)]
             q == Sending(control.fd, control.epoch, "PONG")
  <1>1. /\ control.pc = "run" /\ Free("control") /\ conn[c].inbox # <<>>
        /\ conn' = [conn EXCEPT ![c] = r]
        /\ call' = call \/ call' = [call EXCEPT !["control"] = q]
        /\ UNCHANGED <<transportVars, agentVars, sock>>
    BY DEF handle_message
  <1>2. /\ c \in Connections /\ conn[c] \in ConnType
    BY <1>1, ControlReads
  <1>3. Tail(conn[c].inbox) \in Seq(Inbound)
    BY <1>1, <1>2, HeadAndTail DEF ConnType
  <1>4. /\ r \in ConnType /\ r.outbox = conn[c].outbox
        /\ r.hung_up = conn[c].hung_up /\ r.shut = conn[c].shut
    BY Zenon, <1>2, <1>3 DEF ConnType
  <1> HIDE DEF r, c
  <1>5. WiresKept /\ SamePublication
    BY Zenon, <1>1, <1>2, <1>4, OneWireKept DEF SamePublication, transportVars
  <1>6. /\ epoch = control.epoch /\ epoch \in Nat /\ "control" \in Threads
    BY <1>1 DEF TransportInv, ControlOwns, TransportTypes, NetTypes, Threads
  <1>7. /\ q.step = "send" /\ q.epoch = epoch /\ q.type = "PONG"
    BY <1>6 DEF Sending
  <1> HIDE DEF q
  <1>8. CallsCurrent'
    BY <1>1, <1>5, <1>6, <1>7, CallsCurrentKept, OneCallCurrent DEF StreamInv, transportVars
  <1>9. \A t \in Threads \ {"main"} : Starting(t) => Starting(t)'
    <2>1. \A t \in Threads : t # "control" => call'[t] = call[t]
      BY <1>1 DEF TransportInv, TransportTypes, ThreadTypes
    <2> QED BY <1>1, <2>1 DEF Starting, Free, transportVars
  <1> QED
    BY <1>1, <1>5, <1>8, <1>9, StreamKept DEF transportVars, agentVars

\* agent_transport_run after its loop.
LEMMA LeaveRunStream ==
    ASSUME TransportInv, StreamInv, control.pc \in {"run", "check"}, leave_run
    PROVE  StreamInv'
  <1>1. /\ fd = control.fd /\ epoch = control.epoch /\ control.fd \in Fds
        /\ sock[control.fd] # 0
    BY ControlReads DEF TransportInv, ControlOwns
  <1>2. /\ fd' = NoFd /\ Close(control.fd)
        /\ UNCHANGED <<epoch, stopping, stream_requested, sendVars, agentVars>>
    BY <1>1 DEF leave_run
  <1>3. WiresKept /\ SamePublication
    BY <1>1, <1>2, CloseWires DEF SamePublication
  <1> QED BY <1>2, <1>3, StreamUntouched DEF sendVars, agentVars

\* Every step of the control thread.
LEMMA ControlStream ==
    ASSUME TransportInv, StreamInv, ControlStep
    PROVE  StreamInv'
  <1>1. CASE ReceiveHello
    BY <1>1, PublishStream DEF ReceiveHello
  <1>2. CASE HelloTimesOut
    BY <1>2, PublishStream DEF HelloTimesOut, MayPublish
  <1>3. CASE check_current
    <2>1. CASE leave_run
      BY <1>3, <2>1, LeaveRunStream DEF check_current
    <2>2. CASE ~leave_run
      <3>1. /\ control.pc = "check"
            /\ UNCHANGED <<transportVars, sendVars, agentVars, netVars>>
        BY <1>3, <2>2 DEF check_current
      <3>2. WiresKept /\ SamePublication
        BY <3>1 DEF WiresKept, SamePublication, transportVars, netVars
      <3> QED BY <3>1, <3>2, StreamUntouched DEF transportVars, sendVars, agentVars
    <2> QED BY <2>1, <2>2
  <1>4. CASE receive_fails
    BY <1>4, LeaveRunStream DEF receive_fails
  <1>5. CASE control_exits
    <2>1. /\ control.pc = "accept"
          /\ UNCHANGED <<transportVars, sendVars, agentVars, netVars>>
      BY <1>5 DEF control_exits
    <2>2. WiresKept /\ SamePublication
      BY <2>1 DEF WiresKept, SamePublication, transportVars, netVars
    <2> QED BY <2>1, <2>2, StreamUntouched DEF transportVars, sendVars, agentVars
  <1> QED
    BY <1>1, <1>2, <1>3, <1>4, <1>5, AcceptStream, SendStartStream, HandleMessageStream
       DEF ControlStep

(***************************************************************************)
(* The main thread and the clock                                           *)
(***************************************************************************)
\* The critical section of agent_transport_heartbeat: a timeout takes the request
\* back together with the connection.
LEMMA HeartbeatStream ==
    ASSUME TransportInv, StreamInv, heartbeat
    PROVE  StreamInv'
  <1> DEFINE q == Sending(fd, epoch, "PING")
  <1>1. /\ conn' = conn \/ conn' = ShutDown(conn, fd)
        /\ call' = call \/ call' = [call EXCEPT !["main"] = q]
        /\ stream_requested' => stream_requested
        /\ UNCHANGED <<fd, epoch, stopping, control, agentVars, sock>>
    BY Zenon DEF heartbeat, HeartbeatShutDown
  <1>2. fd \in Fds \cup {NoFd} /\ epoch \in Nat /\ "main" \in Threads
    BY DEF TransportInv, TransportTypes, NetTypes, Threads
  <1>3. WiresKept
    <2>1. CASE conn' = conn
      BY <2>1 DEF WiresKept
    <2> QED BY <1>1, <1>2, <2>1, ShutDownWires
  <1>4. SamePublication
    BY <1>1 DEF SamePublication
  <1>5. q.step = "send" /\ q.epoch = epoch /\ q.type = "PING"
    BY DEF Sending
  <1> HIDE DEF q
  <1>6. CallsCurrent'
    <2>1. CASE call' = call
      BY <1>1, <1>4, <2>1, CallsCurrentKept DEF StreamInv
    <2>2. CASE call' = [call EXCEPT !["main"] = q]
      <3>1. q.epoch <= epoch /\ CallsCurrent
        BY <1>2, <1>5 DEF StreamInv
      <3> QED BY Zenon, <1>1, <1>2, <1>4, <1>5, <2>2, <3>1, OneCallCurrent
    <2> QED BY <1>1, <2>1, <2>2
  <1>7. \A t \in Threads \ {"main"} : Starting(t) => Starting(t)'
    <2>1. \A t \in Threads : t # "main" => call'[t] = call[t]
      BY <1>1 DEF TransportInv, TransportTypes, ThreadTypes
    <2> QED BY <1>1, <2>1 DEF Starting
  <1> QED
    BY <1>1, <1>3, <1>4, <1>6, <1>7, StreamKept DEF agentVars

\* agent_transport_shutdown shuts the published connection down.
LEMMA ShutdownStream ==
    ASSUME TransportInv, StreamInv, NEW from, agent_transport_shutdown(from)
    PROVE  StreamInv'
  <1>1. /\ conn' = ShutDown(ShutDown(conn, fd), pending_fd)
        /\ UNCHANGED <<fd, epoch, stream_requested, control, sendVars, agentVars, sock>>
    BY DEF agent_transport_shutdown, ShutdownBoth
  <1>2. PICK f \in Fds \cup {NoFd} : conn' = ShutDown(conn, f)
    BY <1>1, ShutdownOne
  <1>3. WiresKept /\ SamePublication
    BY <1>1, <1>2, ShutDownWires DEF SamePublication
  <1>4. fd # NoFd => conn'[sock[fd]].shut
    <2> SUFFICES ASSUME fd # NoFd PROVE conn'[sock[fd]].shut
      OBVIOUS
    <2>1. pending_fd = NoFd /\ fd \in Fds /\ sock[fd] # 0
      BY PublishedDescriptor DEF TransportInv, ControlOwns, Connections
    <2>2. conn' = ShutDown(conn, fd)
      BY <1>1, <2>1 DEF ShutDown
    <2> QED BY <2>1, <2>2, ShutDownWires
  <1> QED
    BY <1>1, <1>3, <1>4, StreamUntouched DEF sendVars, agentVars

\* agent_transport_destroy finds nothing left to shut down.
LEMMA DestroyStream ==
    ASSUME TransportInv, StreamInv, agent_transport_destroy
    PROVE  StreamInv'
  <1>1. /\ sock' = sock /\ conn' = conn /\ fd' = fd
    BY DestroyKeeps
  <1>2. UNCHANGED <<epoch, stopping, stream_requested, control, sendVars, agentVars>>
    BY DEF agent_transport_destroy
  <1>3. WiresKept /\ SamePublication
    BY <1>1, <1>2 DEF WiresKept, SamePublication
  <1> QED
    BY <1>1, <1>2, <1>3, StreamUntouched DEF sendVars, agentVars

(***************************************************************************)
(* The calls                                                               *)
(***************************************************************************)
\* The peer thread asks for the stream: START_STREAM is captured for the published
\* connection, or the connection is being shut down.
LEMMA RequestStream ==
    ASSUME TransportInv, StreamInv,
           agent_transport_set_stream_requested("peer", TRUE)
    PROVE  StreamInv'
  <1> DEFINE q == Captured("START_STREAM")
  <1>1. /\ Free("peer") /\ stream_requested' = TRUE /\ call' = [call EXCEPT !["peer"] = q]
        /\ UNCHANGED <<fd, epoch, stopping, control, agentVars, netVars>>
    BY DEF agent_transport_set_stream_requested
  <1>2. "peer" \in Threads \ {"main"} /\ epoch \in Nat
    BY GatewayAssumption, CallersAssumption
       DEF Threads, TransportInv, TransportTypes, NetTypes
  <1>3. call'["peer"] = q /\ \A t \in Threads : t # "peer" => call'[t] = call[t]
    BY <1>1, <1>2 DEF TransportInv, TransportTypes, ThreadTypes
  <1>4. CASE ~stopping /\ fd # NoFd
    <2>1. /\ q.step = "send" /\ q.fd = fd /\ q.epoch = epoch /\ q.type = "START_STREAM"
      BY <1>4 DEF Captured, Sending
    <2> HIDE DEF q
    <2>2. CallsCurrent'
      <3>1. \A t \in Threads : t # "peer" /\ call[t].step # "returned" =>
              /\ call[t].epoch <= epoch
              /\ call[t].step = "write" /\ fd # NoFd /\ call[t].epoch = epoch =>
                   call[t].conn = sock[fd]
              /\ call[t].type # "STOP_STREAM"
        BY DEF StreamInv, CallsCurrent
      <3> QED BY <1>1, <1>2, <1>3, <2>1, <3>1 DEF CallsCurrent, Threads, netVars
    <2>3. ReaderIsAgent' /\ StoppingShut'
      BY <1>1, <1>4 DEF StreamInv, ReaderIsAgent, StoppingShut, Connections, agentVars, netVars
    <2>4. Starting("peer")'
      BY <1>1, <1>3, <2>1 DEF Starting
    <2>5. StartOnItsWay'
      BY <1>2, <2>4 DEF StartOnItsWay, StartIsUnderWay, Threads
    <2> QED BY <2>2, <2>3, <2>5 DEF StreamInv
  <1>5. CASE ~(~stopping /\ fd # NoFd)
    <2>1. q.step = "returned"
      BY <1>5 DEF Captured, Returned
    <2> HIDE DEF q
    <2>2. CallsCurrent'
      BY <1>1, <1>3, <2>1 DEF StreamInv, CallsCurrent, Threads, netVars
    <2>3. ReaderIsAgent' /\ StoppingShut'
      BY <1>1 DEF StreamInv, ReaderIsAgent, StoppingShut, Connections, agentVars, netVars
    <2>4. StartOnItsWay'
      BY <1>1, <1>5, <2>3 DEF StartOnItsWay, StoppingShut
    <2> QED BY <2>2, <2>3, <2>4 DEF StreamInv
  <1> QED BY <1>4, <1>5

\* The peer thread makes any other call: RELEASE_ALL, or STOP_STREAM together with
\* the end of the request.
LEMMA OtherCallStream ==
    ASSUME TransportInv, StreamInv, NEW type, Free("peer"),
           call' = [call EXCEPT !["peer"] = Captured(type)],
           stream_requested' => stream_requested,
           type = "STOP_STREAM" => ~stream_requested',
           UNCHANGED <<fd, epoch, stopping, control, agentVars, netVars>>
    PROVE  StreamInv'
  <1> DEFINE q == Captured(type)
  <1>1. "peer" \in Threads \ {"main"} /\ epoch \in Nat
    BY GatewayAssumption, CallersAssumption
       DEF Threads, TransportInv, TransportTypes, NetTypes
  <1>2. WiresKept /\ SamePublication
    BY DEF WiresKept, SamePublication, netVars
  <1>3. q.step \in {"returned", "send"} /\ (q.step = "send" => q.epoch <= epoch /\ q.type = type)
    BY <1>1 DEF Captured, Sending, Returned
  <1> HIDE DEF q
  <1>4. CallsCurrent'
    <2>1. CallsCurrent /\ call' = [call EXCEPT !["peer"] = q]
      BY DEF StreamInv, q
    <2> QED BY Zenon, <1>1, <1>2, <1>3, <2>1, OneCallCurrent
  <1>5. \A t \in Threads \ {"main"} : Starting(t) => Starting(t)'
    <2>1. \A t \in Threads : t # "peer" => call'[t] = call[t]
      BY DEF TransportInv, TransportTypes, ThreadTypes
    <2> QED BY <2>1 DEF Starting, Free
  <1> QED
    BY <1>2, <1>4, <1>5, StreamKept DEF agentVars

\* send_for_epoch, first half: a call of the current epoch is refused only by a
\* transport that is stopping.
LEMMA SendForEpochStream ==
    ASSUME TransportInv, StreamInv, NEW t \in Threads, send_for_epoch(t)
    PROVE  StreamInv'
  <1> DEFINE k == call[t]
             current == is_current_locked(k.fd, k.epoch)
             q == IF current THEN [k EXCEPT !.step = "write", !.conn = sock[k.fd]]
                  ELSE Returned(FALSE)
  <1>1. /\ k.step = "send" /\ call' = [call EXCEPT ![t] = q]
        /\ UNCHANGED <<transportVars, threadVars, agentVars, netVars>>
    BY Zenon DEF send_for_epoch
  <1>2. k \in CallType
    BY DEF TransportInv, TransportTypes, ThreadTypes
  <1>3. WiresKept /\ SamePublication
    BY <1>1 DEF WiresKept, SamePublication, transportVars, netVars
  <1>4. current => /\ ~stopping /\ fd = k.fd /\ epoch = k.epoch
                   /\ q.step = "write" /\ q.conn = sock[fd] /\ q.epoch = k.epoch
                   /\ q.type = k.type /\ q.fd = k.fd
    BY <1>2 DEF CallType, is_current_locked
  <1>5. ~current => q.step = "returned" /\ (stopping \/ fd # k.fd \/ epoch # k.epoch)
    BY DEF Returned, is_current_locked
  <1> HIDE DEF q, current
  <1>6. CallsCurrent'
    <2>1. /\ CallsCurrent /\ stream_requested' = stream_requested
      BY <1>1 DEF StreamInv, transportVars
    <2>2. k.epoch <= epoch /\ (k.type = "STOP_STREAM" => t = "peer" /\ ~stream_requested)
      BY <1>1, <2>1 DEF CallsCurrent
    <2> HIDE DEF k
    <2>3. q.step # "returned" =>
             /\ q.epoch <= epoch
             /\ q.step = "write" /\ fd # NoFd /\ q.epoch = epoch => q.conn = sock[fd]
             /\ q.type = "STOP_STREAM" => t = "peer" /\ ~stream_requested'
      BY <1>4, <1>5, <2>1, <2>2
    <2> QED BY Zenon, <1>1, <1>3, <2>1, <2>3, OneCallCurrent
  <1>7. fd' # NoFd /\ ~conn'[sock[fd]].shut =>
            \A u \in Threads \ {"main"} : Starting(u) => Starting(u)'
    <2>1. call'[t] = q /\ \A u \in Threads : u # t => call'[u] = call[u]
      BY <1>1 DEF TransportInv, TransportTypes, ThreadTypes
    <2>2. fd' = fd /\ epoch' = epoch /\ conn' = conn /\ NoFd' = NoFd
      BY <1>1 DEF transportVars, netVars, NoFd
    <2>3. fd # NoFd /\ ~conn[sock[fd]].shut => ~stopping
      BY DEF StreamInv, StoppingShut
    <2>4. fd # NoFd /\ ~conn[sock[fd]].shut /\ Starting(t) => Starting(t)'
      BY <1>1, <1>4, <1>5, <2>1, <2>2, <2>3 DEF Starting
    <2>5. \A u \in Threads : u # t /\ Starting(u) => Starting(u)'
      BY <2>1, <2>2 DEF Starting
    <2> QED BY <2>2, <2>4, <2>5
  <1> QED
    BY Zenon, <1>1, <1>3, <1>6, <1>7, StreamKept DEF transportVars, threadVars, agentVars

(***************************************************************************)
(* The frames on the wire                                                  *)
(***************************************************************************)
\* A frame other than STOP_STREAM undoes nothing, and START_STREAM starts.
LEMMA FrameAppended ==
    ASSUME NEW out \in Seq(Frame), NEW e \in Frame, e.type # "STOP_STREAM"
    PROVE  /\ Started(out) => Started(Append(out, e))
           /\ NoStop(out) => NoStop(Append(out, e))
           /\ e.type = "START_STREAM" => Started(Append(out, e))
  <1> DEFINE n == Len(out)
             w == Append(out, e)
  <1>1. /\ n \in Nat /\ DOMAIN out = 1..n /\ DOMAIN w = 1..(n + 1)
        /\ w[n + 1] = e /\ \A i \in 1..n : w[i] = out[i]
    BY Appended, Lengths
  <1> HIDE DEF w, n
  <1>2. Started(out) => Started(w)
    BY <1>1 DEF Started
  <1>3. NoStop(out) => NoStop(w)
    BY <1>1 DEF NoStop
  <1>4. e.type = "START_STREAM" => Started(w)
    BY <1>1 DEF Started
  <1> QED BY <1>2, <1>3, <1>4 DEF w

\* The agent takes the first frame: either that was the START_STREAM, with no
\* STOP_STREAM behind it, or what is left starts the stream.
LEMMA FrameTaken ==
    ASSUME NEW out \in Seq(Frame), out # <<>>
    PROVE  /\ Started(out) => \/ Started(Tail(out))
                              \/ Head(out).type = "START_STREAM" /\ NoStop(Tail(out))
           /\ NoStop(out) => Head(out).type # "STOP_STREAM" /\ NoStop(Tail(out))
  <1> DEFINE n == Len(out)
             w == Tail(out)
  <1>1. n \in Nat \ {0} /\ DOMAIN out = 1..n /\ Head(out) = out[1]
    BY EmptyOrNot, Lengths
  <1>2. /\ w \in Seq(Frame) /\ Len(w) = n - 1
        /\ \A i \in 1..(n - 1) : w[i] = out[i + 1]
    BY HeadAndTail
  <1>3. DOMAIN w = 1..(n - 1)
    BY <1>2, Lengths
  <1> HIDE DEF w, n
  <1>4. NoStop(out) => Head(out).type # "STOP_STREAM" /\ NoStop(w)
    <2> SUFFICES ASSUME \A i \in 1..n : out[i].type # "STOP_STREAM"
                 PROVE  Head(out).type # "STOP_STREAM" /\ NoStop(w)
      BY <1>1 DEF NoStop
    <2>1. 1 \in 1..n /\ \A i \in 1..(n - 1) : i + 1 \in 1..n
      BY <1>1
    <2>2. \A i \in 1..(n - 1) : w[i].type # "STOP_STREAM"
      BY <1>2, <2>1
    <2> QED BY <1>1, <1>3, <2>1, <2>2 DEF NoStop
  <1>5. Started(out) => Started(w) \/ (Head(out).type = "START_STREAM" /\ NoStop(w))
    <2> SUFFICES ASSUME NEW i \in 1..n, out[i].type = "START_STREAM",
                        \A j \in 1..n : j > i => out[j].type # "STOP_STREAM"
                 PROVE  Started(w) \/ (Head(out).type = "START_STREAM" /\ NoStop(w))
      BY <1>1 DEF Started
    <2>1. CASE i = 1
      BY <1>1, <1>2, <1>3, <2>1 DEF NoStop
    <2>2. CASE i # 1
      <3>1. i - 1 \in 1..(n - 1) /\ w[i - 1] = out[i]
        BY <1>1, <1>2, <2>2
      <3>2. \A j \in 1..(n - 1) : j > i - 1 => w[j].type # "STOP_STREAM"
        BY <1>1, <1>2
      <3> QED BY <1>3, <3>1, <3>2 DEF Started
    <2> QED BY <2>1, <2>2
  <1> QED BY <1>4, <1>5 DEF w

\* A change of one connection, whatever it is.
LEMMA ConnectionReplaced ==
    ASSUME TransportInv, NEW c \in Connections, NEW r \in ConnType,
           conn' = [conn EXCEPT ![c] = r]
    PROVE  /\ Connections' = Connections /\ conn'[c] = r
           /\ \A d \in Connections : d # c => conn'[d] = conn[d]
  <1>1. /\ Len(conn') = Len(conn) /\ conn'[c] = r
        /\ \A d \in Connections : d # c => conn'[d] = conn[d]
    BY OneChanged DEF TransportInv, TransportTypes, NetTypes, Connections
  <1> QED BY <1>1 DEF Connections

\* send_for_epoch, second half: while the stream is requested no STOP_STREAM is
\* written to the published connection, and the START_STREAM that is written stays.
LEMMA ProtocolSendStream ==
    ASSUME TransportInv, StreamInv, NEW t \in Threads, protocol_send(t)
    PROVE  StreamInv'
  <1> DEFINE c == call[t].conn
             k == conn[c]
             frame == [type |-> call[t].type, epoch |-> call[t].epoch]
             w == Written(t)
  <1>1. /\ call[t].step = "write" /\ UNCHANGED <<transportVars, threadVars, agentVars, sock>>
    BY DEF protocol_send
  <1>2. PICK sent : call' = [call EXCEPT ![t] = Returned(sent)]
    BY Zenon DEF protocol_send
  <1>3. /\ c \in Connections /\ k \in ConnType /\ conn' = [conn EXCEPT ![c] = w]
        /\ w \in ConnType /\ call[t].type \in MessageTypes
    BY WriteSound
  <1>4. /\ Connections' = Connections /\ conn'[c] = w
        /\ \A d \in Connections : d # c => conn'[d] = conn[d]
    BY Zenon, <1>3, ConnectionReplaced
  <1>5. /\ w.hung_up = k.hung_up /\ (k.shut => w.shut)
        /\ w.shut \/ w.hung_up \/ w.outbox = Append(k.outbox, frame)
    BY Zenon, <1>3 DEF Written, ConnType
  <1>6. k.outbox \in Seq(Frame) /\ call[t] \in CallType
    BY <1>3 DEF ConnType, TransportInv, TransportTypes, ThreadTypes
  <1>7. frame \in Frame /\ frame.type = call[t].type
    BY <1>3, <1>6 DEF Frame, CallType
  <1> HIDE DEF w, k, frame
  <1>8. /\ fd' = fd /\ epoch' = epoch /\ stopping' = stopping /\ sock' = sock
        /\ stream_requested' = stream_requested /\ control' = control
        /\ agent' = agent /\ streaming' = streaming /\ NoFd' = NoFd
    BY <1>1 DEF transportVars, threadVars, agentVars, NoFd
  <1>9. call'[t].step = "returned" /\ \A u \in Threads : u # t => call'[u] = call[u]
    BY <1>2 DEF TransportInv, TransportTypes, ThreadTypes, Returned
  <1>10. CallsCurrent'
    BY Zenon, <1>8, <1>9 DEF StreamInv, CallsCurrent, Threads
  <1>11. ReaderIsAgent'
    BY <1>3, <1>4, <1>5, <1>8 DEF StreamInv, ReaderIsAgent, k
  <1>12. \A d \in Connections : conn[d].shut => conn'[d].shut
    BY <1>4, <1>5 DEF k
  <1>13. StoppingShut'
    BY <1>8, <1>12, PublishedDescriptor DEF StreamInv, StoppingShut
  <1>14. StartOnItsWay'
    <2> SUFFICES ASSUME stream_requested, fd # NoFd,
                        ~conn'[sock[fd]].shut, ~conn'[sock[fd]].hung_up
                 PROVE  StartIsUnderWay'
      BY <1>8 DEF StartOnItsWay
    <2> DEFINE s == sock[fd]
    <2>1. s \in Connections
      BY PublishedDescriptor
    <2>2. \A u \in Threads : u # t /\ Starting(u) => Starting(u)'
      BY <1>8, <1>9 DEF Starting
    <2>3. Starting(t) => c = s
      BY <1>1 DEF StreamInv, CallsCurrent, Starting
    <2>4. StartIsUnderWay
      BY <1>4, <1>5, <2>1 DEF StreamInv, StartOnItsWay, k
    <2>5. CASE c # s
      <3>1. conn'[s] = conn[s] /\ ~Starting(t)
        BY <1>4, <2>1, <2>3, <2>5
      <3> QED BY <1>8, <2>2, <2>4, <3>1 DEF StartIsUnderWay, Threads
    <2>6. CASE c = s
      <3>1. conn'[s].outbox = Append(k.outbox, frame) /\ conn[s].outbox = k.outbox
        BY <1>4, <1>5, <2>6 DEF k
      <3>2. frame.type # "STOP_STREAM"
        BY <1>1, <1>7 DEF StreamInv, CallsCurrent
      <3>3. /\ Started(k.outbox) => Started(conn'[s].outbox)
            /\ NoStop(k.outbox) => NoStop(conn'[s].outbox)
            /\ frame.type = "START_STREAM" => Started(conn'[s].outbox)
        BY <1>6, <1>7, <3>1, <3>2, FrameAppended
      <3>4. Starting(t) => Started(conn'[s].outbox)
        BY <1>7, <3>3 DEF Starting
      <3> QED
        BY Zenon, <1>8, <2>2, <2>4, <3>1, <3>3, <3>4 DEF StartIsUnderWay, Threads
    <2> QED BY <2>5, <2>6
  <1> QED BY <1>10, <1>11, <1>13, <1>14 DEF StreamInv

(***************************************************************************)
(* The agent's end                                                         *)
(***************************************************************************)
\* A new connection is made once every earlier one has been hung up.
LEMMA ConnectStream ==
    ASSUME TransportInv, StreamInv, connect_control
    PROVE  StreamInv'
  <1>1. PICK hello \in Hellos : conn' = Append(conn, ConnectionRecord(hello))
    BY DEF connect_control
  <1>2. /\ agent = 0 /\ agent' = Len(conn')
        /\ UNCHANGED <<transportVars, threadVars, sendVars, streaming, sock>>
    BY DEF connect_control
  <1>3. /\ Len(conn') = Len(conn) + 1 /\ Len(conn) \in Nat
        /\ \A d \in Connections : conn'[d] = conn[d]
    <2>1. conn \in Seq(ConnType)
      BY DEF TransportInv, TransportTypes, NetTypes
    <2>2. conn \in Seq(ConnType \cup {ConnectionRecord(hello)})
      BY <2>1
    <2> QED BY <1>1, <2>2, Appended, Lengths DEF Connections
  <1>4. \A d \in Connections : conn[d].hung_up
    BY <1>2, <1>3 DEF StreamInv, ReaderIsAgent, Connections
  <1>5. CallsCurrent'
    BY <1>2 DEF StreamInv, CallsCurrent, Threads, transportVars, sendVars
  <1>6. ReaderIsAgent'
    <2>1. Connections' = Connections \cup {Len(conn')}
      BY <1>3 DEF Connections
    <2> QED BY <1>2, <1>3, <1>4, <2>1 DEF ReaderIsAgent
  <1>7. fd # NoFd => sock[fd] \in Connections
    BY PublishedDescriptor
  <1>8. StoppingShut' /\ StartOnItsWay'
    BY <1>2, <1>3, <1>4, <1>7
       DEF StreamInv, StoppingShut, StartOnItsWay, transportVars, NoFd
  <1> QED BY <1>5, <1>6, <1>8 DEF StreamInv

\* The agent hangs up.
LEMMA DisconnectStream ==
    ASSUME TransportInv, StreamInv, disconnect_control
    PROVE  StreamInv'
  <1> DEFINE r == [conn[agent] EXCEPT !.hung_up = TRUE, !.outbox = <<>>]
  <1>1. /\ agent # 0 /\ conn' = [conn EXCEPT ![agent] = r] /\ agent' = 0
        /\ UNCHANGED <<transportVars, threadVars, sendVars, sock>>
    BY Zenon DEF disconnect_control
  <1>2. agent \in Connections /\ conn[agent] \in ConnType
    BY <1>1, AgentReads
  <1>3. <<>> \in Seq(Frame)
    BY EmptyOrNot
  <1>4. r \in ConnType /\ r.hung_up = TRUE /\ r.shut = conn[agent].shut
    BY Zenon, <1>2, <1>3 DEF ConnType
  <1> HIDE DEF r
  <1>5. /\ Connections' = Connections /\ conn'[agent] = r
        /\ \A d \in Connections : d # agent => conn'[d] = conn[d]
    BY Zenon, <1>1, <1>2, <1>4, ConnectionReplaced
  <1>6. \A d \in Connections : conn'[d].hung_up
    BY <1>4, <1>5 DEF StreamInv, ReaderIsAgent
  <1>7. CallsCurrent'
    BY <1>1 DEF StreamInv, CallsCurrent, Threads, transportVars, sendVars
  <1>8. ReaderIsAgent'
    BY <1>5, <1>6 DEF ReaderIsAgent
  <1>9. fd # NoFd => sock[fd] \in Connections
    BY PublishedDescriptor
  <1>10. StoppingShut'
    <2>1. \A d \in Connections : conn[d].shut => conn'[d].shut
      BY <1>4, <1>5
    <2> QED BY <1>1, <1>9, <2>1 DEF StreamInv, StoppingShut, transportVars, NoFd
  <1>11. StartOnItsWay'
    BY <1>1, <1>6, <1>9 DEF StartOnItsWay, transportVars, NoFd
  <1> QED BY <1>7, <1>8, <1>10, <1>11 DEF StreamInv

\* The agent takes a frame: what stood on the wire for the request is now its
\* streaming flag.
LEMMA HandleControlStream ==
    ASSUME TransportInv, StreamInv, handle_control
    PROVE  StreamInv'
  <1> DEFINE k == conn[agent]
             m == Head(k.outbox).type
             r == [k EXCEPT !.outbox = Tail(@), !.inbox = @ \o Reply(m)]
  <1>1. /\ agent # 0 /\ k.outbox # <<>> /\ conn' = [conn EXCEPT ![agent] = r]
        /\ streaming' = (m = "START_STREAM" \/ (streaming /\ m # "STOP_STREAM"))
        /\ agent' = agent
        /\ UNCHANGED <<transportVars, threadVars, sendVars, sock>>
    BY Zenon DEF handle_control
  <1>2. agent \in Connections /\ k \in ConnType
    BY <1>1, AgentReads
  <1>3. k.outbox \in Seq(Frame)
    BY <1>2 DEF ConnType
  <1>4. r.outbox = Tail(k.outbox) /\ r.hung_up = k.hung_up /\ r.shut = k.shut
    BY <1>2 DEF ConnType
  <1>5. /\ Started(k.outbox) => \/ Started(Tail(k.outbox))
                                \/ m = "START_STREAM" /\ NoStop(Tail(k.outbox))
        /\ NoStop(k.outbox) => m # "STOP_STREAM" /\ NoStop(Tail(k.outbox))
    BY <1>1, <1>3, FrameTaken
  <1> HIDE DEF r, m
  <1>6. /\ Connections' = Connections /\ conn'[agent] = r
        /\ \A d \in Connections : d # agent => conn'[d] = conn[d]
    <2>1. conn \in Seq(ConnType) /\ agent \in 1..Len(conn)
      BY <1>2 DEF TransportInv, TransportTypes, NetTypes, Connections
    <2>2. /\ Len(conn') = Len(conn) /\ conn'[agent] = r
          /\ \A d \in 1..Len(conn) : d # agent => conn'[d] = conn[d]
      BY <1>1, <2>1
    <2> QED BY <2>2 DEF Connections
  <1>7. CallsCurrent'
    BY <1>1 DEF StreamInv, CallsCurrent, Threads, transportVars, sendVars
  <1>8. ReaderIsAgent'
    BY <1>1, <1>4, <1>6 DEF StreamInv, ReaderIsAgent
  <1>9. fd # NoFd => sock[fd] \in Connections
    BY PublishedDescriptor
  <1>10. StoppingShut'
    <2>1. \A d \in Connections : conn[d].shut => conn'[d].shut
      BY <1>4, <1>6
    <2> QED BY Zenon, <1>1, <1>9, <2>1 DEF StreamInv, StoppingShut, transportVars, NoFd
  <1>11. StartOnItsWay'
    <2>1. /\ fd' = fd /\ epoch' = epoch /\ sock' = sock /\ NoFd' = NoFd /\ call' = call
          /\ stream_requested' = stream_requested /\ control' = control
      BY <1>1 DEF transportVars, threadVars, sendVars, NoFd
    <2> SUFFICES ASSUME stream_requested, fd # NoFd,
                        ~conn'[sock[fd]].shut, ~conn'[sock[fd]].hung_up
                 PROVE  StartIsUnderWay'
      BY <2>1 DEF StartOnItsWay
    <2>2. sock[fd] = agent
      BY <1>4, <1>6, <1>9 DEF StreamInv, ReaderIsAgent
    <2>3. StartIsUnderWay
      BY <1>4, <1>6, <2>2 DEF StreamInv, StartOnItsWay
    <2>4. conn[sock[fd]].outbox = k.outbox /\ conn'[sock[fd]].outbox = Tail(k.outbox)
      BY <1>4, <1>6, <2>2
    <2> HIDE DEF k
    <2>5. CASE control.pc = "start" /\ control.start
      BY <2>1, <2>5 DEF StartIsUnderWay
    <2>6. CASE \E t \in Threads \ {"main"} : Starting(t)
      BY Zenon, <2>1, <2>6 DEF StartIsUnderWay, Starting, Threads
    <2>7. CASE Started(k.outbox)
      BY Zenon, <1>1, <1>5, <2>1, <2>4, <2>7 DEF StartIsUnderWay
    <2>8. CASE streaming /\ NoStop(k.outbox)
      BY Zenon, <1>1, <1>5, <2>1, <2>4, <2>8 DEF StartIsUnderWay
    <2> QED BY <2>3, <2>4, <2>5, <2>6, <2>7, <2>8 DEF StartIsUnderWay
  <1> QED BY <1>7, <1>8, <1>10, <1>11 DEF StreamInv

\* The agent's own messages.
LEMMA AgentSendsStream ==
    ASSUME TransportInv, StreamInv, agent_sends
    PROVE  StreamInv'
  <1>1. PICK m \in AgentMessages : conn' = [conn EXCEPT ![agent].inbox = Append(@, m)]
    BY Zenon DEF agent_sends
  <1> DEFINE k == conn[agent]
             r == [k EXCEPT !.inbox = Append(@, m)]
  <1>2. /\ agent # 0 /\ conn' = [conn EXCEPT ![agent] = r]
        /\ UNCHANGED <<transportVars, threadVars, sendVars, agentVars, sock>>
    BY Zenon, <1>1 DEF agent_sends
  <1>3. agent \in Connections /\ k \in ConnType /\ m \in Inbound
    BY <1>2, AgentReads, MessagesAssumption DEF Inbound
  <1>4. Append(k.inbox, m) \in Seq(Inbound)
    BY <1>3, Appended DEF ConnType
  <1>5. /\ r \in ConnType /\ r.outbox = k.outbox /\ r.hung_up = k.hung_up
        /\ r.shut = k.shut
    BY Zenon, <1>3, <1>4 DEF ConnType
  <1> HIDE DEF r
  <1>6. WiresKept /\ SamePublication
    BY Zenon, <1>2, <1>3, <1>5, OneWireKept DEF SamePublication, transportVars
  <1> QED
    BY <1>2, <1>6, StreamUntouched DEF transportVars, threadVars, sendVars, agentVars

\* Every step of the agent.
LEMMA AgentStream ==
    ASSUME TransportInv, StreamInv, AgentStep
    PROVE  StreamInv'
  BY ConnectStream, DisconnectStream, HandleControlStream, AgentSendsStream
     DEF AgentStep

(***************************************************************************)
(* The gateway's steps                                                     *)
(***************************************************************************)
\* Everything but the peer thread's own steps.
TransportStep ==
    \/ read_clock \/ heartbeat \/ check_event \/ notify_active \/ gateway_stop
    \/ peer_joined \/ peer_not_joined \/ agent_transport_destroy
    \/ ControlStep \/ AgentStep \/ Tick
    \/ \E t \in Threads : SendStep(t)

\* The main thread's steps that only move it.
MainMoves == check_event \/ notify_active \/ gateway_stop \/ peer_not_joined

\* Every step of the transport, the main thread and the agent.
LEMMA TransportStepKeeps ==
    ASSUME TransportInv, StreamInv, TransportStep
    PROVE  TransportInv' /\ StreamInv'
  <1>1. CASE read_clock
    BY <1>1, ReadClockKeeps, TransportAtRest DEF read_clock
  <1>2. CASE heartbeat
    BY <1>2, HeartbeatKeeps, HeartbeatStream
  <1>3. CASE MainMoves
    <2>1. /\ UNCHANGED <<transportVars, keyVars, timeVars, control, calls, sendVars,
                         agentVars, netVars>>
          /\ main' # "destroyed"
      BY <1>3 DEF MainMoves, check_event, notify_active, gateway_stop, peer_not_joined
    <2> QED BY <2>1, TransportUnchanged, TransportAtRest
  <1>4. CASE peer_joined
    BY <1>4, ShutdownKeeps, ShutdownStream DEF peer_joined
  <1>5. CASE agent_transport_destroy
    BY <1>5, DestroyKeeps, DestroyStream
  <1>6. CASE ControlStep
    BY <1>6, ControlKeeps, ControlStream
  <1>7. CASE AgentStep
    BY <1>7, AgentKeeps, AgentStream
  <1>8. CASE Tick
    BY <1>8, TickKeeps, TransportAtRest DEF Tick, threadVars
  <1>9. ASSUME NEW t \in Threads, SendStep(t)
        PROVE  TransportInv' /\ StreamInv'
    BY <1>9, SendForEpochKeeps, ProtocolSendKeeps, SendForEpochStream, ProtocolSendStream
       DEF SendStep
  <1> QED
    BY <1>1, <1>2, <1>3, <1>4, <1>5, <1>6, <1>7, <1>8, <1>9 DEF TransportStep, MainMoves

\* They leave the peer thread where it is.
LEMMA TransportStepPeer ==
    ASSUME GatewayTypeOK, TransportStep, Lapses,
           notify_active \/ gateway_stop \/ OnlyTransport
    PROVE  GatewayTypeOK'
  <1>1. /\ UNCHANGED <<peer, active, closing, peers>>
        /\ shutdown_event' = shutdown_event \/ shutdown_event' = (shutdown_event \/ active)
    BY DEF notify_active, gateway_stop, SignalActive, OnlyTransport, peerVars
  <1>2. shutdown_event' => active'
    <2>1. active' = active /\ (shutdown_event => active)
      BY <1>1 DEF GatewayTypeOK
    <2>2. shutdown_event' => shutdown_event \/ active
      BY Zenon, <1>1
    <2> QED BY <2>1, <2>2
  <1>3. lapsed' \in BOOLEAN
    BY Zenon DEF Lapses
  <1> QED BY <1>1, <1>2, <1>3 DEF GatewayTypeOK, PeerStates

\* Of them only the heartbeat's timeout takes the request back, and gateway_stop is
\* for good.
LEMMA TransportStepRequest ==
    ASSUME RequestStands, TransportStep, Lapses,
           notify_active \/ gateway_stop \/ OnlyTransport
    PROVE  RequestStands'
  <1>1. \/ stream_requested' <=> stream_requested
        \/ stream_requested /\ ~stream_requested' /\ ~heartbeat_timed_out /\ heartbeat_timed_out'
    <2>1. CASE ControlStep
      BY Zenon, <2>1
         DEF ControlStep, accept_pending, ReceiveHello, HelloTimesOut, publish, send_start,
             handle_message, check_current, leave_run, receive_fails, control_exits,
             transportVars
    <2>2. CASE AgentStep
      BY Zenon, <2>2
         DEF AgentStep, connect_control, disconnect_control, handle_control, agent_sends,
             transportVars
    <2>3. CASE \E t \in Threads : SendStep(t)
      BY Zenon, <2>3 DEF SendStep, send_for_epoch, protocol_send, transportVars
    <2>4. CASE heartbeat
      <3> DEFINE timeout == /\ ~stopping /\ fd # NoFd /\ ~heartbeat_timed_out
                            /\ Elapsed(activity_age) > Timeout
      <3>1. /\ stream_requested' = (stream_requested /\ ~timeout)
            /\ heartbeat_timed_out' = (heartbeat_timed_out \/ timeout)
            /\ timeout => ~heartbeat_timed_out
        BY Zenon, <2>4 DEF heartbeat
      <3> HIDE DEF timeout
      <3> QED BY Zenon, <3>1
    <2> QED
      BY Zenon, <2>1, <2>2, <2>3, <2>4
         DEF TransportStep, read_clock, check_event, notify_active, gateway_stop,
             peer_joined, agent_transport_shutdown, peer_not_joined,
             agent_transport_destroy, Tick, transportVars
  <1>2. main \in Stopped => main' \in Stopped
    <2>1. CASE ControlStep
      BY Zenon, <2>1
         DEF ControlStep, accept_pending, ReceiveHello, HelloTimesOut, publish, send_start,
             handle_message, check_current, leave_run, receive_fails, control_exits, Stopped
    <2>2. CASE AgentStep \/ Tick
      BY Zenon, <2>2
         DEF AgentStep, connect_control, disconnect_control, handle_control, agent_sends,
             Tick, threadVars, Stopped
    <2>3. CASE \E t \in Threads : SendStep(t)
      BY Zenon, <2>3 DEF SendStep, send_for_epoch, protocol_send, threadVars, Stopped
    <2>4. CASE read_clock \/ heartbeat \/ check_event \/ notify_active \/ gateway_stop
      BY <2>4 DEF read_clock, heartbeat, check_event, notify_active, gateway_stop, Stopped
    <2>5. CASE peer_joined \/ peer_not_joined \/ agent_transport_destroy
      BY <2>5
         DEF peer_joined, agent_transport_shutdown, peer_not_joined,
             agent_transport_destroy, Stopped
    <2> QED BY <2>1, <2>2, <2>3, <2>4, <2>5 DEF TransportStep
  <1>3. peer' = peer
    BY DEF notify_active, gateway_stop, OnlyTransport, peerVars
  <1>4. stream_requested' \/ (lapsed => lapsed')
    BY Zenon DEF Lapses
  <1>5. \/ stream_requested' <=> stream_requested
        \/ lapsed'
    BY Zenon, <1>1 DEF Lapses
  <1> QED BY Zenon, <1>2, <1>3, <1>4, <1>5 DEF RequestStands, Stopped

\* The peer thread makes a call of the transport.
PeerCalls == \/ request_stream \/ release_inputs \/ withdraw_stream
             \/ restore_http_stream /\ ~OnlyPeer

\* The peer thread's calls keep the transport's invariant and the request's.
LEMMA PeerCallKeeps ==
    ASSUME TransportInv, StreamInv, PeerCalls
    PROVE  TransportInv' /\ StreamInv'
  <1>1. "peer" \in Threads /\ "RELEASE_ALL" \in MessageTypes /\ calls \in Nat
    BY GatewayAssumption
       DEF Threads, MessageTypes, TransportInv, TransportTypes, FlagTypes
  <1>2. CASE request_stream \/ (restore_http_stream /\ ~OnlyPeer)
    <2>1. agent_transport_set_stream_requested("peer", TRUE) /\ calls' = calls
      BY Zenon, <1>2 DEF request_stream, restore_http_stream
    <2> QED BY Zenon, <1>1, <2>1, SetStreamKeeps, RequestStream
  <1>3. CASE release_inputs
    <2>1. agent_transport_send("peer", "RELEASE_ALL") /\ calls' = calls
      BY <1>3 DEF release_inputs
    <2>2. TransportInv'
      BY <1>1, <2>1, SendKeeps
    <2>3. StreamInv'
      <3>1. /\ Free("peer") /\ call' = [call EXCEPT !["peer"] = Captured("RELEASE_ALL")]
            /\ stream_requested' => stream_requested
            /\ UNCHANGED <<fd, epoch, stopping, control, agentVars, netVars>>
        BY <2>1 DEF agent_transport_send, transportVars
      <3>2. "RELEASE_ALL" # "STOP_STREAM"
        OBVIOUS
      <3> QED BY Zenon, <3>1, <3>2, OtherCallStream
    <2> QED BY <2>2, <2>3
  <1>4. CASE withdraw_stream
    <2>1. agent_transport_set_stream_requested("peer", FALSE) /\ calls' = calls
      BY Zenon, <1>4 DEF withdraw_stream
    <2>2. TransportInv'
      BY Zenon, <1>1, <2>1, SetStreamKeeps
    <2>3. StreamInv'
      BY Zenon, <2>1, OtherCallStream DEF agent_transport_set_stream_requested
    <2> QED BY <2>2, <2>3
  <1> QED BY <1>2, <1>3, <1>4 DEF PeerCalls

\* The peer thread claims the server before it asks for the stream, and puts the
\* HTTP API's request back before it gives up the server.
LEMMA PeerStepTypes ==
    ASSUME GatewayTypeOK, PeerStep \/ peer_accepted, Lapses
    PROVE  GatewayTypeOK'
  <1> USE DEF At, PeerStates
  <1>0. lapsed' \in BOOLEAN
    BY Zenon DEF Lapses
  <1>1. CASE peer_accepted
    BY <1>0, <1>1, GatewayAssumption DEF peer_accepted, NoPeerThread, GatewayTypeOK
  <1>2. CASE client_claim_active
    BY Zenon, <1>0, <1>2 DEF client_claim_active, GatewayTypeOK
  <1>3. CASE peer_refused \/ prepare_fails
    BY <1>0, <1>3 DEF peer_refused, prepare_fails, GatewayTypeOK
  <1>4. CASE request_stream \/ release_inputs \/ withdraw_stream
    <2>1. CASE request_stream
      BY <1>0, <2>1 DEF request_stream, GatewayTypeOK
    <2>2. CASE release_inputs
      BY <1>0, <2>2 DEF release_inputs, GatewayTypeOK
    <2>3. CASE withdraw_stream
      BY <1>0, <2>3 DEF withdraw_stream, GatewayTypeOK
    <2> QED BY <1>4, <2>1, <2>2, <2>3
  <1>5. CASE stream_started \/ client_disconnects \/ client_shut_down
    BY <1>0, <1>5 DEF stream_started, client_disconnects, client_shut_down, GatewayTypeOK
  <1>6. CASE restore_http_stream
    BY <1>0, <1>6 DEF restore_http_stream, GatewayTypeOK
  <1>7. CASE client_gone
    <2>1. /\ peer = "restored" /\ peer' = "joining" /\ peers' = peers
          /\ active' = FALSE /\ closing' = TRUE /\ shutdown_event' = FALSE
      BY <1>7 DEF client_gone
    <2>2. active' = (peer' \in {"claimed", "starting", "serving", "leaving",
                                "released", "withdrawn", "restored"})
      <3> DEFINE claimed == peer' \in {"claimed", "starting", "serving", "leaving",
                                        "released", "withdrawn", "restored"}
      <3>1. ~claimed /\ claimed \in BOOLEAN
        BY <2>1
      <3> HIDE DEF claimed
      <3>2. active' = claimed
        BY Zenon, <2>1, <3>1
      <3> QED BY <3>2 DEF claimed
    <2>3. closing' = (peer' = "joining")
      BY Zenon, <2>1
    <2>4. peer' \in PeerStates /\ peers' \in 0..MaxPeers /\ (shutdown_event' => active')
      BY <2>1 DEF GatewayTypeOK
    <2> QED BY <1>0, <2>2, <2>3, <2>4 DEF GatewayTypeOK
  <1>8. CASE client_freed
    <2>1. /\ peer = "joining" /\ peer' = "finished" /\ peers' = peers
          /\ active' = active /\ closing' = FALSE /\ shutdown_event' = shutdown_event
      BY <1>8 DEF client_freed
    <2>2. active' = (peer' \in {"claimed", "starting", "serving", "leaving",
                                "released", "withdrawn", "restored"})
      BY <2>1 DEF GatewayTypeOK
    <2>3. closing' = (peer' = "joining")
      BY Zenon, <2>1
    <2>4. peer' \in PeerStates /\ peers' \in 0..MaxPeers /\ (shutdown_event' => active')
      BY <2>1 DEF GatewayTypeOK
    <2> QED BY <1>0, <2>2, <2>3, <2>4 DEF GatewayTypeOK
  <1> QED
    BY <1>1, <1>2, <1>3, <1>4, <1>5, <1>6, <1>7, <1>8 DEF PeerStep

\* The teardown withdraws the request and puts it back, unless gateway_stop has
\* destroyed the HTTP API in between.
LEMMA PeerStepRequest ==
    ASSUME RequestStands, PeerStep \/ peer_accepted, Lapses
    PROVE  RequestStands'
  <1>1. CASE withdraw_stream
    BY <1>1 DEF withdraw_stream, At, RequestStands
  <1>2. CASE request_stream \/ restore_http_stream
    <2>1. \/ stream_requested'
          \/ main \in Stopped /\ main' = main
      BY Zenon, <1>2
         DEF request_stream, restore_http_stream, agent_transport_set_stream_requested,
             OnlyPeer, vars, threadVars
    <2> QED BY Zenon, <2>1 DEF RequestStands, Stopped
  <1>3. CASE release_inputs \/ (OnlyPeer /\ ~withdraw_stream /\ ~restore_http_stream)
    <2>1. stream_requested' = stream_requested /\ main' = main
      BY Zenon, <1>3
         DEF release_inputs, agent_transport_send, transportVars, OnlyPeer, vars, threadVars
    <2>2. stream_requested' \/ (lapsed => lapsed')
      BY Zenon DEF Lapses
    <2>3. peer # "withdrawn"
      BY <1>3
         DEF PeerStep, peer_accepted, NoPeerThread, peer_refused, client_claim_active,
             request_stream, prepare_fails, stream_started, client_disconnects,
             client_shut_down, release_inputs, client_gone, client_freed, At
    <2> QED BY Zenon, <2>1, <2>2, <2>3 DEF RequestStands, Stopped
  <1> QED
    BY Zenon, <1>1, <1>2, <1>3
       DEF PeerStep, peer_accepted, peer_refused, client_claim_active, prepare_fails,
           stream_started, client_disconnects, client_shut_down, client_gone, client_freed

(***************************************************************************)
(* The theorems                                                            *)
(***************************************************************************)
\* GatewayInv holds in every reachable state.
LEMMA GatewayInvariant == GatewaySpec => []GatewayInv
  <1>1. GatewayInit => GatewayInv
    <2> SUFFICES ASSUME GatewayInit PROVE GatewayInv
      OBVIOUS
    <2>1. TransportInv
      BY GatewayAssumption, InitEstablishes DEF GatewayInit
    <2>2. GatewayTypeOK /\ RequestStands
      <3>1. /\ peer = "none" /\ peers = 0 /\ active = FALSE /\ closing = FALSE
            /\ shutdown_event = FALSE /\ stream_requested = TRUE /\ lapsed = FALSE
        BY DEF GatewayInit, InitWith
      <3>2. active = (peer \in {"claimed", "starting", "serving", "leaving",
                                "released", "withdrawn", "restored"})
        <4> DEFINE claimed == peer \in {"claimed", "starting", "serving", "leaving",
                                         "released", "withdrawn", "restored"}
        <4>1. ~claimed /\ claimed \in BOOLEAN
          BY <3>1
        <4> HIDE DEF claimed
        <4>2. active = claimed
          BY Zenon, <3>1, <4>1
        <4> QED BY <4>2 DEF claimed
      <3>3. closing = (peer = "joining")
        BY Zenon, <3>1
      <3>4. peer \in PeerStates /\ peers \in 0..MaxPeers /\ (shutdown_event => active)
        BY <3>1, GatewayAssumption DEF PeerStates
      <3>5. RequestStands /\ lapsed \in BOOLEAN
        BY Zenon, <3>1 DEF RequestStands
      <3> QED BY <3>2, <3>3, <3>4, <3>5 DEF GatewayTypeOK
    <2>3. Connections = {}
      BY EmptyOrNot DEF GatewayInit, InitWith, Connections
    <2>4. StreamInv
      BY <2>3
         DEF GatewayInit, InitWith, StreamInv, CallsCurrent, ReaderIsAgent, StoppingShut,
             StartOnItsWay, Returned
    <2> QED BY <2>1, <2>2, <2>4 DEF GatewayInv
  <1>2. GatewayInv /\ [GatewayNext]_gatewayVars => GatewayInv'
    <2> SUFFICES ASSUME GatewayInv, [GatewayNext]_gatewayVars PROVE GatewayInv'
      OBVIOUS
    <2>1. TransportInv /\ StreamInv /\ GatewayTypeOK /\ RequestStands
      BY DEF GatewayInv
    <2>2. CASE TransportStep /\ (notify_active \/ gateway_stop \/ OnlyTransport) /\ Lapses
      BY <2>1, <2>2, TransportStepKeeps, TransportStepPeer, TransportStepRequest
         DEF GatewayInv
    <2>3. CASE PeerCalls /\ Lapses
      <3>1. PeerStep
        BY <2>3 DEF PeerCalls, PeerStep
      <3> QED
        BY <2>1, <2>3, <3>1, PeerCallKeeps, PeerStepTypes, PeerStepRequest DEF GatewayInv
    <2>4. CASE OnlyPeer /\ (PeerStep \/ peer_accepted) /\ Lapses
      <3>1. TransportInv' /\ StreamInv'
        BY <2>1, <2>4, TransportUnchanged, TransportAtRest DEF OnlyPeer, vars, threadVars
      <3> QED BY <2>1, <2>4, <3>1, PeerStepTypes, PeerStepRequest DEF GatewayInv
    <2>5. CASE PeerStep /\ Lapses
      <3>1. OnlyPeer \/ PeerCalls
        BY <2>5
           DEF PeerStep, PeerCalls, peer_refused, client_claim_active, prepare_fails,
               stream_started, client_disconnects, client_shut_down, client_gone,
               client_freed
      <3> QED BY <2>3, <2>4, <2>5, <3>1
    <2>6. CASE UNCHANGED gatewayVars
      <3>1. UNCHANGED vars /\ UNCHANGED peerVars /\ lapsed' = lapsed
        BY <2>6 DEF gatewayVars
      <3>2. TransportInv' /\ StreamInv'
        BY <2>1, <3>1, TransportUnchanged, TransportAtRest DEF vars, threadVars
      <3>3. GatewayTypeOK' /\ RequestStands'
        BY <2>1, <3>1
           DEF vars, transportVars, threadVars, peerVars, GatewayTypeOK, RequestStands,
               PeerStates, Stopped
      <3> QED BY <3>2, <3>3 DEF GatewayInv
    <2>7. CASE GatewayMain /\ Lapses
      <3>1. CASE peer_accepted
        BY <2>4, <2>7, <3>1 DEF peer_accepted
      <3> QED
        BY <2>2, <2>7, <3>1
           DEF GatewayMain, TransportStep, check_event, peer_joined, peer_not_joined
    <2>8. CASE \/ ControlStep /\ OnlyTransport /\ Lapses
               \/ \E t \in Threads : SendStep(t) /\ OnlyTransport /\ Lapses
               \/ AgentStep /\ OnlyTransport /\ Lapses
               \/ Tick /\ OnlyTransport /\ Lapses
      BY <2>2, <2>8 DEF TransportStep
    <2> QED BY <2>5, <2>6, <2>7, <2>8 DEF GatewayNext
  <1> QED
    BY <1>1, <1>2, PTL DEF GatewaySpec

\* The peer thread's place agrees with what it has claimed in the server, and the
\* event that tells a client to leave is set only for a client that is there.
THEOREM GatewayTypeCorrect == GatewaySpec => []GatewayTypeOK
  <1>1. GatewayInv => GatewayTypeOK
    BY DEF GatewayInv
  <1> QED BY <1>1, GatewayInvariant, PTL

\* When nothing is on its way any more, what stands for the request is the agent's
\* streaming flag.
LEMMA StartHasArrived == GatewayInv => StreamStartNeverLost
  <1> SUFFICES ASSUME GatewayInv, Quiet, fd # NoFd, stream_requested, Healthy(sock[fd])
               PROVE  streaming
    BY DEF StreamStartNeverLost
  <1>1. StartIsUnderWay
    BY DEF GatewayInv, StreamInv, StartOnItsWay, Healthy
  <1>2. ~Started(conn[sock[fd]].outbox)
    BY EmptyOrNot DEF Healthy, Started
  <1>3. control.pc # "start" /\ ~\E t \in Threads \ {"main"} : Starting(t)
    BY DEF Quiet, Free, Starting
  <1> QED BY <1>1, <1>2, <1>3 DEF StartIsUnderWay

\* accept samples the request under the lock that publishes the descriptor, and
\* set_stream_requested looks for a descriptor under the same lock: between them
\* START_STREAM is never lost, whichever comes first and whatever the heartbeat,
\* the agent and the other senders do.
THEOREM StartNeverLost == GatewaySpec => []StreamStartNeverLost
  BY StartHasArrived, GatewayInvariant, PTL

\* The HTTP API's video outlives the RDP clients.  STOP_STREAM and the START_STREAM of
\* restore_http_stream go through the same send_for_epoch in that order, and a
\* connection that is accepted in between is started by accept or by the restore:
\* once the client is gone and nothing is on its way the connected agent streams,
\* unless a heartbeat timeout has dropped the request.
THEOREM StreamAlwaysOutlivesClient == GatewaySpec => []StreamOutlivesClient
  <1>1. GatewayInv => StreamOutlivesClient
    <2> SUFFICES ASSUME GatewayInv, NoPeerThread, main \notin Stopped, ~lapsed,
                        Quiet, fd # NoFd, Healthy(sock[fd])
                 PROVE  streaming
      BY DEF StreamOutlivesClient
    <2>1. stream_requested
      BY DEF GatewayInv, RequestStands, NoPeerThread
    <2> QED BY <2>1, StartHasArrived DEF StreamStartNeverLost
  <1> QED BY <1>1, GatewayInvariant, PTL

\* What the invariant of the transport says of the composed gateway.
LEMMA GatewayTransportSafe ==
    GatewayInv => SendsStayInEpoch /\ NothingFollowsTornFrame /\ DescriptorsClosedAtExit
  BY TransportSafety DEF GatewayInv

\* With the peer thread, the heartbeat and the control thread all sending, a frame
\* is written only to the connection whose epoch its sender saw: the duplicate that
\* send_for_epoch takes under the lock is of that connection, although the
\* descriptor it came from may be closed and reused before the write.
THEOREM SendsAlwaysInEpoch == GatewaySpec => []SendsStayInEpoch
  BY GatewayTransportSafe, GatewayInvariant, PTL

\* A write that times out in the middle of a frame shuts the socket down before it
\* gives up the send lock: whatever the other threads send, no frame follows the torn frame on
\* that connection.
THEOREM NothingEverFollowsTornFrame == GatewaySpec => []NothingFollowsTornFrame
  BY GatewayTransportSafe, GatewayInvariant, PTL

\* gateway_stop ends with every accepted descriptor closed, whichever of accept's
\* and run's exits it left by and whichever peer threads and senders were active.
THEOREM DescriptorsAlwaysClosed == GatewaySpec => []DescriptorsClosedAtExit
  BY GatewayTransportSafe, GatewayInvariant, PTL

\* The composed gateway still implements the control link: the peer thread reaches
\* it through send_for_epoch only.
THEOREM GatewayImplementsLink == GatewaySpec => ImplementsLink
  <1>1. GatewayInit => Link!LinkInit
    BY InitRefines DEF GatewayInit
  <1>2. GatewayInv /\ [GatewayNext]_gatewayVars => [Link!LinkNext]_(Link!linkVars)
    <2> SUFFICES ASSUME TransportInv, [GatewayNext]_gatewayVars PROVE LinkStep
      BY DEF LinkStep, GatewayInv
    <2> DEFINE Quietly == UNCHANGED <<fd, epoch, sock, conn, agent>>
    <2>1. Quietly => LinkStep
      BY QuietStepRefines
    <2> USE DEF transportVars, agentVars, netVars
    <2>2. CASE OnlyPeer
      BY <2>1, <2>2 DEF OnlyPeer, vars
    <2>3. CASE PeerStep
      BY Zenon, <2>1, <2>2, <2>3
         DEF PeerStep, peer_refused, client_claim_active, request_stream, prepare_fails,
             stream_started, client_disconnects, client_shut_down, release_inputs,
             withdraw_stream, restore_http_stream, client_gone, client_freed,
             agent_transport_set_stream_requested, agent_transport_send
    <2>4. CASE GatewayMain
      <3>1. CASE read_clock \/ MainMoves \/ peer_accepted
        BY Zenon, <2>1, <2>2, <3>1
           DEF read_clock, MainMoves, check_event, notify_active, gateway_stop,
               peer_not_joined, peer_accepted
      <3>2. CASE heartbeat \/ agent_transport_destroy
        BY <3>2, HeartbeatRefines, DestroyRefines
      <3>3. CASE peer_joined
        BY <3>3, ShutdownRefines DEF peer_joined
      <3> QED BY <2>4, <3>1, <3>2, <3>3 DEF GatewayMain, MainMoves
    <2>5. CASE Tick
      BY <2>1, <2>5 DEF Tick
    <2>6. CASE UNCHANGED gatewayVars
      BY <2>2, <2>6 DEF gatewayVars, OnlyPeer
    <2> QED
      BY <2>3, <2>4, <2>5, <2>6, ControlRefines, SendRefines, AgentRefines
         DEF GatewayNext
  <1> QED
    BY <1>1, <1>2, GatewayInvariant, PTL DEF GatewaySpec, ImplementsLink, Link!LinkSpec
=============================================================================
