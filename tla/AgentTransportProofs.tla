------------------------ MODULE AgentTransportProofs ------------------------
(***************************************************************************)
(* Proofs about the control connection (AgentTransport), for every set of  *)
(* descriptors and callers, every socket buffer and timeout, and any       *)
(* number of connections and calls.                                        *)
(*                                                                         *)
(* The inductive invariant TransportInv has five parts: the types, which   *)
(* descriptor the control thread owns at each of its places, what a        *)
(* connection may hold, what a caller inside send_for_epoch knows about    *)
(* the connection it has duplicated, and the key wait.                     *)
(*                                                                         *)
(* The lemmas are about the actions one by one, so that a specification    *)
(* that composes the same actions with others can cite them.               *)
(***************************************************************************)
EXTENDS AgentTransport, TLAPS

(***************************************************************************)
(* Sequences                                                               *)
(***************************************************************************)
LEMMA Element ==
    ASSUME NEW S, NEW p \in Seq(S), NEW k \in 1..Len(p)
    PROVE  p[k] \in S
  OBVIOUS

LEMMA EmptyOrNot ==
    ASSUME NEW S
    PROVE  /\ <<>> \in Seq(S) /\ Len(<<>>) = 0
           /\ \A p \in Seq(S) : p # <<>> => Len(p) \in Nat \ {0}
  OBVIOUS

LEMMA Lengths ==
    ASSUME NEW S, NEW p \in Seq(S)
    PROVE  Len(p) \in Nat /\ p \in [1..Len(p) -> S] /\ DOMAIN p = 1..Len(p)
  OBVIOUS

LEMMA SameElements ==
    ASSUME NEW S, NEW p \in Seq(S), NEW q \in Seq(S), Len(p) = Len(q),
           \A k \in 1..Len(p) : p[k] = q[k]
    PROVE  p = q
  OBVIOUS

LEMMA ElementReplaced ==
    ASSUME NEW S, NEW p \in Seq(S), NEW k \in 1..Len(p), NEW x \in S
    PROVE  LET q == [p EXCEPT ![k] = x]
           IN  /\ q \in Seq(S) /\ Len(q) = Len(p)
               /\ \A j \in 1..Len(p) : q[j] = IF j = k THEN x ELSE p[j]
  OBVIOUS

LEMMA Appended ==
    ASSUME NEW S, NEW p \in Seq(S), NEW x \in S
    PROVE  LET q == Append(p, x)
           IN  /\ q \in Seq(S) /\ q # <<>> /\ Len(q) = Len(p) + 1
               /\ \A k \in 1..Len(p) : q[k] = p[k]
               /\ q[Len(p) + 1] = x
  OBVIOUS

LEMMA HeadAndTail ==
    ASSUME NEW S, NEW p \in Seq(S), p # <<>>
    PROVE  /\ Head(p) \in S /\ Tail(p) \in Seq(S) /\ Len(Tail(p)) = Len(p) - 1
           /\ \A k \in 1..Len(Tail(p)) : Tail(p)[k] = p[k + 1]
  OBVIOUS

LEMMA Concatenation ==
    ASSUME NEW S, NEW p \in Seq(S), NEW q \in Seq(S)
    PROVE  /\ p \o q \in Seq(S) /\ Len(p \o q) = Len(p) + Len(q)
           /\ \A k \in 1..(Len(p) + Len(q)) :
                (p \o q)[k] = IF k <= Len(p) THEN p[k] ELSE q[k - Len(p)]
  OBVIOUS

LEMMA PartOf ==
    ASSUME NEW S, NEW p, NEW m \in Int, NEW n \in Int, \A k \in m..n : p[k] \in S
    PROVE  /\ SubSeq(p, m, n) \in Seq(S)
           /\ Len(SubSeq(p, m, n)) = IF m <= n THEN n - m + 1 ELSE 0
           /\ \A k \in 1..(n - m + 1) : SubSeq(p, m, n)[k] = p[m + k - 1]
  OBVIOUS

(***************************************************************************)
(* The inductive invariant                                                 *)
(***************************************************************************)
Frame == [type : MessageTypes \cup {"torn"}, epoch : Nat]

Inbound == {"HELLO", "HELLO_KEY_ACK", "OTHER", "PING", "STATS", "PONG", "KEY_ACK"}

ConnType == [inbox : Seq(Inbound), outbox : Seq(Frame), epoch : Nat,
             hung_up : BOOLEAN, shut : BOOLEAN]

ControlType == [pc : {"accept", "hello", "start", "run", "check", "exit"},
                fd : Fds \cup {NoFd}, epoch : Nat, start : BOOLEAN]

FlagTypes ==
    /\ stopping \in BOOLEAN /\ stream_requested \in BOOLEAN
    /\ supports_key_ack \in BOOLEAN /\ heartbeat_timed_out \in BOOLEAN
    /\ key_ack_received \in BOOLEAN /\ streaming \in BOOLEAN
    /\ waiting_key \in {0, 1} /\ wait_conn \in Nat
    /\ activity_age \in 0..AgeCap /\ lag \in 0..MaxLag /\ calls \in Nat

ThreadTypes ==
    /\ send_lock \in Threads \cup {"nobody"}
    /\ call \in [Threads -> CallType]
    /\ control \in ControlType

NetTypes ==
    /\ fd \in Fds \cup {NoFd} /\ pending_fd \in Fds \cup {NoFd} /\ epoch \in Nat
    /\ accepted \in Nat /\ agent \in Nat
    /\ sock \in [Fds -> 0..accepted]
    /\ conn \in Seq(ConnType)
    /\ accepted <= Len(conn) /\ agent <= Len(conn)

TransportTypes == FlagTypes /\ ThreadTypes /\ NetTypes

\* The one descriptor the control thread has open at each of its places.
ControlOwns ==
    /\ \A f \in Fds : sock[f] # 0 => f = control.fd
    /\ control.pc \in {"accept", "exit"} =>
         fd = NoFd /\ pending_fd = NoFd /\ control.fd = NoFd
    /\ control.pc = "hello" =>
         /\ fd = NoFd /\ pending_fd = control.fd /\ control.fd \in Fds
         /\ sock[control.fd] = accepted /\ accepted # 0
         /\ conn[accepted].epoch = 0
    /\ control.pc \in {"start", "run", "check"} =>
         /\ pending_fd = NoFd /\ fd = control.fd /\ fd \in Fds
         /\ control.epoch = epoch /\ epoch # 0
         /\ sock[fd] # 0 /\ conn[sock[fd]].epoch = epoch
    /\ main = "destroyed" => control.pc = "exit"

\* What a connection may hold.
WellFormed(k) ==
    /\ Len(k.inbox) <= Buffer /\ Len(k.outbox) <= Buffer + 1
    /\ k.epoch = 0 => k.outbox = <<>>
    /\ ~k.shut => /\ Len(k.outbox) <= Buffer
                  /\ \A i \in DOMAIN k.outbox : k.outbox[i].type # "torn"
    /\ \A i \in DOMAIN k.outbox :
         /\ k.outbox[i].type # "torn" => k.outbox[i].epoch = k.epoch
         /\ k.outbox[i].type = "torn" => i = Len(k.outbox)

ConnectionsSound ==
    /\ \A c \in Connections : WellFormed(conn[c])
    /\ \A c \in Connections : c > accepted => conn[c].epoch = 0

\* A caller writes to the connection that has the epoch it was given.
CallsKnow ==
    \A t \in Threads :
        /\ call[t].step # "returned" =>
             call[t].fd \in Fds /\ call[t].type \in MessageTypes
        /\ call[t].step = "write" =>
             /\ call[t].conn \in Connections /\ call[t].epoch # 0
             /\ conn[call[t].conn].epoch = call[t].epoch

TransportInv ==
    /\ TransportTypes
    /\ ControlOwns
    /\ ConnectionsSound
    /\ CallsKnow
    /\ KeyWaitDiesWithConnection

(***************************************************************************)
(* Connections: what the operations on one of them preserve                *)
(***************************************************************************)
\* The descriptors are natural numbers and -1 is none of them.
LEMMA NoFdIsNone == NoFd \notin Fds
  BY FdsAssumption DEF NoFd

\* Replacing one connection leaves the others and their number alone.
LEMMA OneChanged ==
    ASSUME NEW cs \in Seq(ConnType), NEW c \in 1..Len(cs), NEW r \in ConnType
    PROVE  LET ds == [cs EXCEPT ![c] = r]
           IN  /\ ds \in Seq(ConnType) /\ Len(ds) = Len(cs)
               /\ ds[c] = r
               /\ \A d \in 1..Len(cs) : d # c => ds[d] = cs[d]
  BY ElementReplaced, Lengths

\* Reading from the inbox, adding to it, shutting down: what was written stays.
LEMMA InboxStepSound ==
    ASSUME NEW k \in ConnType, NEW r \in ConnType, WellFormed(k),
           r.outbox = k.outbox, r.epoch = k.epoch, k.shut => r.shut,
           Len(r.inbox) <= Buffer
    PROVE  WellFormed(r)
  BY DEF WellFormed

\* protocol_send of a whole frame to an open connection of the same epoch.
LEMMA FrameWrittenSound ==
    ASSUME NEW k \in ConnType, NEW m \in MessageTypes, WellFormed(k),
           ~k.shut, k.epoch # 0, Len(k.outbox) < Buffer
    PROVE  LET r == [k EXCEPT !.outbox = Append(@, [type |-> m, epoch |-> k.epoch])]
           IN  r \in ConnType /\ WellFormed(r)
  <1> DEFINE frame == [type |-> m, epoch |-> k.epoch]
             out == Append(k.outbox, frame)
             r == [k EXCEPT !.outbox = out]
  <1>1. /\ frame \in Frame /\ frame.type # "torn" /\ frame.type = m
        /\ frame.epoch = k.epoch
    BY DEF Frame, ConnType, MessageTypes
  <1>2. k.outbox \in Seq(Frame) /\ k.epoch \in Nat /\ Buffer \in Nat
    BY BoundsAssumption DEF ConnType
  <1> HIDE DEF frame
  <1>3. /\ out \in Seq(Frame) /\ Len(out) = Len(k.outbox) + 1
        /\ DOMAIN out = 1..(Len(k.outbox) + 1)
        /\ out[Len(k.outbox) + 1] = frame
        /\ \A i \in 1..Len(k.outbox) : out[i] = k.outbox[i]
    BY <1>1, <1>2, Appended
  <1>4. DOMAIN k.outbox = 1..Len(k.outbox) /\ Len(k.outbox) \in Nat
    BY <1>2, Lengths
  <1> HIDE DEF out
  <1>5. /\ r \in ConnType /\ r.outbox = out /\ r.epoch = k.epoch /\ r.inbox = k.inbox
        /\ r.shut = k.shut
    BY <1>3 DEF ConnType
  <1>6. \A i \in DOMAIN out : out[i].type # "torn" /\ out[i].epoch = k.epoch
    BY <1>1, <1>3, <1>4 DEF WellFormed
  <1>7. WellFormed(r)
    BY <1>2, <1>3, <1>4, <1>5, <1>6 DEF WellFormed
  <1> QED
    BY <1>5, <1>7 DEF out, frame

\* protocol_send of a frame that is cut short: the connection is shut down with
\* the torn frame as its last.
LEMMA FrameTornSound ==
    ASSUME NEW k \in ConnType, WellFormed(k), ~k.shut, k.epoch # 0
    PROVE  LET r == [k EXCEPT !.shut = TRUE,
                              !.outbox = Append(@, [type |-> "torn", epoch |-> 0])]
           IN  r \in ConnType /\ WellFormed(r)
  <1> DEFINE frame == [type |-> "torn", epoch |-> 0]
             out == Append(k.outbox, frame)
             r == [k EXCEPT !.shut = TRUE, !.outbox = out]
  <1>1. frame \in Frame /\ frame.type = "torn"
    BY DEF Frame
  <1>2. k.outbox \in Seq(Frame) /\ k.epoch \in Nat /\ Buffer \in Nat
    BY BoundsAssumption DEF ConnType
  <1> HIDE DEF frame
  <1>3. /\ out \in Seq(Frame) /\ Len(out) = Len(k.outbox) + 1
        /\ DOMAIN out = 1..(Len(k.outbox) + 1)
        /\ out[Len(k.outbox) + 1] = frame
        /\ \A i \in 1..Len(k.outbox) : out[i] = k.outbox[i]
    BY <1>1, <1>2, Appended
  <1>4. DOMAIN k.outbox = 1..Len(k.outbox) /\ Len(k.outbox) \in Nat
    BY <1>2, Lengths
  <1> HIDE DEF out
  <1>5. /\ r \in ConnType /\ r.outbox = out /\ r.epoch = k.epoch /\ r.inbox = k.inbox
        /\ r.shut = TRUE
    BY Zenon, <1>3 DEF ConnType
  <1>6. \A i \in DOMAIN out :
          /\ out[i].type # "torn" => out[i].epoch = k.epoch
          /\ out[i].type = "torn" => i = Len(out)
    BY <1>1, <1>3, <1>4 DEF WellFormed
  <1>7. WellFormed(r)
    BY <1>2, <1>3, <1>4, <1>5, <1>6 DEF WellFormed
  <1> QED
    BY <1>5, <1>7 DEF out, frame

\* handle_control takes the first frame and appends an answer.
LEMMA FrameTakenSound ==
    ASSUME NEW k \in ConnType, WellFormed(k), k.outbox # <<>>,
           NEW r \in ConnType, r.outbox = Tail(k.outbox), r.epoch = k.epoch,
           r.shut = k.shut, Len(r.inbox) <= Buffer
    PROVE  WellFormed(r)
  <1>1. k.outbox \in Seq(Frame) /\ k.epoch \in Nat /\ Buffer \in Nat
    BY BoundsAssumption DEF ConnType
  <1>2. /\ Len(k.outbox) \in Nat \ {0} /\ DOMAIN k.outbox = 1..Len(k.outbox)
        /\ Len(r.outbox) = Len(k.outbox) - 1
        /\ DOMAIN r.outbox = 1..(Len(k.outbox) - 1)
        /\ \A i \in 1..(Len(k.outbox) - 1) : r.outbox[i] = k.outbox[i + 1]
    BY <1>1, HeadAndTail, Lengths, EmptyOrNot DEF ConnType
  <1>3. k.epoch # 0
    BY DEF WellFormed
  <1>4. \A i \in DOMAIN r.outbox :
          /\ i + 1 \in DOMAIN k.outbox /\ r.outbox[i] = k.outbox[i + 1]
          /\ i + 1 = Len(k.outbox) => i = Len(r.outbox)
    BY <1>2
  <1>5. \A i \in DOMAIN r.outbox :
          /\ r.outbox[i].type # "torn" => r.outbox[i].epoch = r.epoch
          /\ r.outbox[i].type = "torn" => i = Len(r.outbox)
    BY <1>4 DEF WellFormed
  <1>6. ~r.shut => \A i \in DOMAIN r.outbox : r.outbox[i].type # "torn"
    BY <1>4 DEF WellFormed
  <1> QED
    BY <1>1, <1>2, <1>3, <1>5, <1>6 DEF WellFormed

\* A step that changes one connection and not its epoch.
LEMMA OneConnectionStep ==
    ASSUME TransportTypes, ConnectionsSound, NEW c \in Connections,
           NEW r \in ConnType, WellFormed(r), r.epoch = conn[c].epoch,
           conn' = [conn EXCEPT ![c] = r], accepted' = accepted
    PROVE  /\ conn' \in Seq(ConnType) /\ Len(conn') = Len(conn)
           /\ conn'[c] = r
           /\ \A d \in Connections : d # c => conn'[d] = conn[d]
           /\ \A d \in Connections : conn'[d].epoch = conn[d].epoch
           /\ ConnectionsSound'
  <1>1. /\ conn' \in Seq(ConnType) /\ Len(conn') = Len(conn)
        /\ conn'[c] = r
        /\ \A d \in Connections : d # c => conn'[d] = conn[d]
    BY OneChanged DEF TransportTypes, NetTypes, Connections
  <1>2. Connections' = Connections
    BY <1>1 DEF Connections
  <1>3. \A d \in Connections : conn'[d].epoch = conn[d].epoch
    BY <1>1
  <1>4. \A d \in Connections : WellFormed(conn'[d])
    BY <1>1 DEF ConnectionsSound
  <1>5. ConnectionsSound'
    BY <1>2, <1>3, <1>4 DEF ConnectionsSound
  <1> QED
    BY <1>1, <1>3, <1>5

\* What the callers know survives as long as epochs are kept.
LEMMA CallsKept ==
    ASSUME TransportTypes, CallsKnow, call' = call,
           Len(conn') \in Nat, Len(conn') >= Len(conn),
           \A d \in Connections : conn[d].epoch # 0 => conn'[d].epoch = conn[d].epoch
    PROVE  CallsKnow'
  <1>1. Len(conn) \in Nat
    BY Lengths DEF TransportTypes, NetTypes
  <1>2. Connections \subseteq Connections'
    BY <1>1 DEF Connections
  <1> QED
    BY <1>2 DEF CallsKnow

\* A thread starts a call that it captured under the lock.
LEMMA CallStarts ==
    ASSUME TransportTypes, CallsKnow, NEW t \in Threads,
           NEW f \in Fds, NEW e \in Nat, NEW type \in MessageTypes,
           call' = [call EXCEPT ![t] = Sending(f, e, type)],
           Len(conn') = Len(conn),
           \A d \in Connections : conn'[d].epoch = conn[d].epoch
    PROVE  call' \in [Threads -> CallType] /\ CallsKnow'
  <1>1. Sending(f, e, type) \in CallType
    BY DEF Sending, CallType
  <1>2. call' \in [Threads -> CallType]
    BY <1>1 DEF TransportTypes, ThreadTypes
  <1>3. Connections' = Connections
    BY DEF Connections
  <1>4. /\ call'[t] = Sending(f, e, type)
        /\ \A u \in Threads : u # t => call'[u] = call[u]
    BY DEF TransportTypes, ThreadTypes
  <1>5. Sending(f, e, type).step = "send" /\ Sending(f, e, type).fd = f
        /\ Sending(f, e, type).type = type
    BY DEF Sending
  <1> QED
    BY <1>2, <1>3, <1>4, <1>5 DEF CallsKnow

\* A call returns.
LEMMA CallReturns ==
    ASSUME TransportTypes, CallsKnow, NEW t \in Threads, NEW sent \in BOOLEAN,
           call' = [call EXCEPT ![t] = Returned(sent)],
           Len(conn') = Len(conn),
           \A d \in Connections : conn'[d].epoch = conn[d].epoch
    PROVE  call' \in [Threads -> CallType] /\ CallsKnow'
  <1>1. Returned(sent) \in CallType /\ Returned(sent).step = "returned"
    BY DEF Returned, CallType
  <1>2. call' \in [Threads -> CallType]
    BY <1>1 DEF TransportTypes, ThreadTypes
  <1>3. Connections' = Connections
    BY DEF Connections
  <1>4. /\ call'[t] = Returned(sent)
        /\ \A u \in Threads : u # t => call'[u] = call[u]
    BY DEF TransportTypes, ThreadTypes
  <1> QED
    BY <1>1, <1>2, <1>3, <1>4 DEF CallsKnow

\* Nothing that TransportInv is about changes but the thread that stops or runs.
LEMMA TransportUnchanged ==
    ASSUME TransportInv,
           UNCHANGED <<transportVars, keyVars, timeVars, control, calls, sendVars,
                       agentVars, netVars>>,
           main' = main \/ main' # "destroyed"
    PROVE  TransportInv'
  <1> USE DEF transportVars, keyVars, timeVars, sendVars, agentVars, netVars
  <1>1. TransportTypes'
    BY DEF TransportInv, TransportTypes, FlagTypes, ThreadTypes, NetTypes
  <1>2. ControlOwns'
    BY DEF TransportInv, ControlOwns
  <1>3. ConnectionsSound'
    BY DEF TransportInv, ConnectionsSound, Connections
  <1>4. CallsKnow'
    BY DEF TransportInv, CallsKnow, Connections
  <1>5. KeyWaitDiesWithConnection'
    BY DEF TransportInv, KeyWaitDiesWithConnection
  <1> QED
    BY <1>1, <1>2, <1>3, <1>4, <1>5 DEF TransportInv

(***************************************************************************)
(* The control thread                                                      *)
(***************************************************************************)
\* agent_transport_accept takes a connection, or closes it when it may not.
LEMMA AcceptKeeps ==
    ASSUME TransportInv, accept_pending
    PROVE  TransportInv'
  <1>1. PICK f \in Fds :
          /\ sock[f] = 0
          /\ IF ~stopping /\ pending_fd = NoFd
             THEN /\ pending_fd' = f
                  /\ sock' = [sock EXCEPT ![f] = accepted']
                  /\ control' = Control("hello", f, 0, FALSE)
                  /\ UNCHANGED conn
             ELSE /\ conn' = [conn EXCEPT ![accepted'].shut = TRUE]
                  /\ UNCHANGED <<pending_fd, sock, control>>
    BY Zenon DEF accept_pending
  <1>2. /\ control.pc = "accept" /\ accepted < Len(conn) /\ accepted' = accepted + 1
        /\ UNCHANGED <<fd, epoch, stopping, stream_requested, supports_key_ack,
                       heartbeat_timed_out, keyVars, timeVars, main, calls,
                       sendVars, agentVars>>
    BY DEF accept_pending
  <1>3. /\ TransportTypes /\ ControlOwns /\ ConnectionsSound /\ CallsKnow
        /\ KeyWaitDiesWithConnection
    BY DEF TransportInv
  <1>4. /\ fd = NoFd /\ pending_fd = NoFd /\ waiting_key = 0
        /\ Len(conn) \in Nat /\ accepted' \in Connections
        /\ sock \in [Fds -> 0..accepted'] /\ main # "destroyed"
    BY <1>2, <1>3, Lengths
       DEF TransportTypes, NetTypes, ControlOwns, KeyWaitDiesWithConnection, Connections
  <1>5. CASE ~stopping /\ pending_fd = NoFd
    <2>1. /\ pending_fd' = f /\ sock' = [sock EXCEPT ![f] = accepted']
          /\ control' = Control("hello", f, 0, FALSE) /\ conn' = conn
      BY <1>1, <1>5
    <2>2. control' \in ControlType /\ control'.pc = "hello" /\ control'.fd = f
      BY <2>1 DEF Control, ControlType
    <2>3. /\ sock' \in [Fds -> 0..accepted'] /\ sock'[f] = accepted'
          /\ \A g \in Fds : g # f => sock'[g] = 0
      BY <1>2, <1>3, <1>4, <2>1, NoFdIsNone DEF TransportTypes, NetTypes, ControlOwns
    <2>4. TransportTypes'
      <3>1. FlagTypes'
        BY <1>2, <1>3 DEF TransportTypes, FlagTypes, keyVars, timeVars, agentVars, AgeCap
      <3>2. ThreadTypes'
        BY <1>2, <1>3, <2>2 DEF TransportTypes, ThreadTypes, sendVars
      <3>3. NetTypes'
        BY <1>2, <1>3, <1>4, <2>1, <2>3 DEF TransportTypes, NetTypes, agentVars
      <3> QED BY <3>1, <3>2, <3>3 DEF TransportTypes
    <2>5. ControlOwns'
      <3>1. conn[accepted'].epoch = 0
        BY <1>2, <1>3, <1>4 DEF ConnectionsSound, TransportTypes, NetTypes
      <3>2. accepted' # 0
        BY <1>2, <1>3 DEF TransportTypes, NetTypes
      <3> QED BY Zenon, <1>2, <1>4, <2>1, <2>2, <2>3, <3>1, <3>2 DEF ControlOwns
    <2>6. ConnectionsSound'
      BY <1>2, <1>3, <2>1 DEF ConnectionsSound, Connections, TransportTypes, NetTypes
    <2>7. CallsKnow'
      BY <1>2, <1>3, <2>1 DEF CallsKnow, Connections, sendVars
    <2>8. KeyWaitDiesWithConnection'
      BY <1>2, <1>4 DEF KeyWaitDiesWithConnection, keyVars
    <2> QED BY <2>4, <2>5, <2>6, <2>7, <2>8 DEF TransportInv
  <1>6. CASE ~(~stopping /\ pending_fd = NoFd)
    <2> DEFINE r == [conn[accepted'] EXCEPT !.shut = TRUE]
    <2>1. /\ conn' = [conn EXCEPT ![accepted'] = r]
          /\ UNCHANGED <<pending_fd, sock, control>>
      BY Zenon, <1>1, <1>6
    <2>2. conn[accepted'] \in ConnType /\ WellFormed(conn[accepted'])
      BY <1>3, <1>4, Element DEF TransportTypes, NetTypes, ConnectionsSound, Connections
    <2>3. /\ r \in ConnType /\ r.epoch = conn[accepted'].epoch
          /\ r.outbox = conn[accepted'].outbox /\ r.inbox = conn[accepted'].inbox /\ r.shut
      BY Zenon, <2>2 DEF ConnType
    <2>4. WellFormed(r)
      BY <2>2, <2>3, InboxStepSound DEF WellFormed
    <2> HIDE DEF r
    <2>5. /\ conn' \in Seq(ConnType) /\ Len(conn') = Len(conn) /\ conn'[accepted'] = r
          /\ \A d \in Connections : d # accepted' => conn'[d] = conn[d]
      BY <1>3, <1>4, <2>1, <2>3, OneChanged DEF TransportTypes, NetTypes, Connections
    <2>6. /\ Connections' = Connections
          /\ \A d \in Connections : conn'[d].epoch = conn[d].epoch /\ WellFormed(conn'[d])
      BY <1>3, <2>3, <2>4, <2>5 DEF Connections, ConnectionsSound
    <2>7. TransportTypes'
      BY <1>2, <1>3, <1>4, <2>1, <2>5
         DEF TransportTypes, FlagTypes, ThreadTypes, NetTypes, keyVars, timeVars,
             sendVars, agentVars, AgeCap
    <2>8. ControlOwns'
      BY <1>2, <1>3, <1>4, <2>1 DEF ControlOwns
    <2>9. ConnectionsSound'
      <3>1. \A d \in Connections : d > accepted' => d > accepted
        BY <1>2, <1>3, <1>4 DEF Connections, TransportTypes, NetTypes
      <3> QED BY <1>3, <2>6, <3>1 DEF ConnectionsSound
    <2>10. CallsKnow'
      BY <1>2, <1>3, <2>6, <2>5, Lengths, CallsKept DEF sendVars, TransportTypes, NetTypes
    <2>11. KeyWaitDiesWithConnection'
      BY <1>2, <1>4 DEF KeyWaitDiesWithConnection, keyVars
    <2> QED BY <2>7, <2>8, <2>9, <2>10, <2>11 DEF TransportInv
  <1> QED BY <1>5, <1>6

\* close(): the connection is shut and empty, the descriptor names nothing.
LEMMA CloseSound ==
    ASSUME TransportTypes, ConnectionsSound, CallsKnow, NEW f \in Fds, sock[f] # 0,
           Close(f), call' = call, accepted' = accepted
    PROVE  /\ conn' \in Seq(ConnType) /\ Len(conn') = Len(conn)
           /\ \A d \in Connections : conn'[d].epoch = conn[d].epoch
           /\ ConnectionsSound' /\ CallsKnow'
           /\ sock' \in [Fds -> 0..accepted] /\ sock'[f] = 0
           /\ \A g \in Fds : g # f => sock'[g] = sock[g]
  <1> DEFINE c == sock[f]
             r == [conn[c] EXCEPT !.shut = TRUE, !.inbox = <<>>]
  <1>1. c \in Connections /\ Len(conn) \in Nat
    BY Lengths DEF TransportTypes, NetTypes, Connections
  <1>2. conn[c] \in ConnType /\ WellFormed(conn[c])
    BY <1>1, Element DEF TransportTypes, NetTypes, ConnectionsSound, Connections
  <1>3. conn' = [conn EXCEPT ![c] = r] /\ sock' = [sock EXCEPT ![f] = 0]
    BY Zenon DEF Close
  <1>4. /\ r \in ConnType /\ r.epoch = conn[c].epoch /\ r.outbox = conn[c].outbox
        /\ r.inbox = <<>> /\ r.shut = TRUE
    BY Zenon, <1>2, EmptyOrNot DEF ConnType
  <1>5. WellFormed(r)
    <2>1. Len(r.inbox) <= Buffer
      BY <1>4, EmptyOrNot, BoundsAssumption
    <2> HIDE DEF r, c
    <2> QED BY <1>2, <1>4, <2>1, InboxStepSound
  <1> HIDE DEF c, r
  <1>6. /\ conn' \in Seq(ConnType) /\ Len(conn') = Len(conn)
        /\ \A d \in Connections : conn'[d].epoch = conn[d].epoch
        /\ ConnectionsSound'
    BY Zenon, <1>1, <1>3, <1>4, <1>5, OneConnectionStep
  <1>7. CallsKnow'
    BY <1>1, <1>6, CallsKept
  <1>8. /\ sock' \in [Fds -> 0..accepted] /\ sock'[f] = 0
        /\ \A g \in Fds : g # f => sock'[g] = sock[g]
    BY <1>3 DEF TransportTypes, NetTypes
  <1> QED
    BY <1>6, <1>7, <1>8

\* The second critical section of agent_transport_accept publishes the connection
\* or closes it.
LEMMA PublishKeeps ==
    ASSUME TransportInv, control.pc = "hello", NEW hello,
           MayPublish(hello) => conn[sock[control.fd]].inbox # <<>>,
           publish(hello)
    PROVE  TransportInv'
  <1> DEFINE f == control.fd
             c == sock[f]
  <1>1. /\ TransportTypes /\ ControlOwns /\ ConnectionsSound /\ CallsKnow
        /\ KeyWaitDiesWithConnection
    BY DEF TransportInv
  <1>2. /\ fd = NoFd /\ f \in Fds /\ c = accepted /\ accepted # 0
        /\ conn[c].epoch = 0 /\ waiting_key = 0 /\ main # "destroyed"
        /\ \A g \in Fds : g # f => sock[g] = 0
    BY <1>1 DEF ControlOwns, KeyWaitDiesWithConnection
  <1>3. /\ pending_fd' = NoFd
        /\ UNCHANGED <<stopping, stream_requested, lag, main, calls, sendVars,
                       agentVars, accepted>>
    BY DEF publish
  <1>4. c \in Connections /\ Len(conn) \in Nat
    BY <1>1, <1>2, Lengths DEF TransportTypes, NetTypes, Connections
  <1>5. conn[c] \in ConnType /\ WellFormed(conn[c])
    BY <1>1, <1>4, Element DEF TransportTypes, NetTypes, ConnectionsSound, Connections
  <1> HIDE DEF c
  <1>6. CASE MayPublish(hello)
    <2> DEFINE r == [conn[c] EXCEPT !.inbox = Tail(@), !.epoch = epoch']
    <2>1. /\ fd' = f /\ epoch' = epoch + 1
          /\ supports_key_ack' = (hello = "HELLO_KEY_ACK") /\ activity_age' = 0
          /\ heartbeat_timed_out' = FALSE /\ cancel_key_ack_locked
          /\ conn' = [conn EXCEPT ![c] = r]
          /\ control' = Control("start", f, epoch', SendStart)
          /\ sock' = sock
      BY Zenon, <1>2, <1>6 DEF publish, ShutDown, c
    <2>2. epoch' \in Nat \ {0}
      BY <1>1, <2>1 DEF TransportTypes, NetTypes
    <2>3. /\ conn[c].inbox # <<>> /\ conn[c].inbox \in Seq(Inbound)
          /\ conn[c].outbox = <<>>
      BY <1>2, <1>5, <1>6 DEF ConnType, WellFormed, c
    <2>4. Tail(conn[c].inbox) \in Seq(Inbound) /\ Len(Tail(conn[c].inbox)) = Len(conn[c].inbox) - 1
          /\ Len(conn[c].inbox) \in Nat
      BY <2>3, HeadAndTail, Lengths
    <2>5. /\ r \in ConnType /\ r.epoch = epoch' /\ r.outbox = <<>>
          /\ r.inbox = Tail(conn[c].inbox) /\ r.shut = conn[c].shut
      BY Zenon, <1>5, <2>2, <2>3, <2>4 DEF ConnType
    <2>6. WellFormed(r)
      BY <1>5, <2>2, <2>4, <2>5, BoundsAssumption DEF WellFormed
    <2> HIDE DEF r
    <2>7. /\ conn' \in Seq(ConnType) /\ Len(conn') = Len(conn) /\ conn'[c] = r
          /\ \A d \in Connections : d # c => conn'[d] = conn[d]
      BY <1>1, <1>4, <2>1, <2>5, OneChanged DEF TransportTypes, NetTypes, Connections
    <2>8. control' \in ControlType /\ control'.pc = "start" /\ control'.fd = f
          /\ control'.epoch = epoch'
      BY <1>1, <1>2, <2>1, <2>2
         DEF Control, ControlType, SendStart, TransportTypes, FlagTypes
    <2>9. TransportTypes'
      <3>1. (hello = "HELLO_KEY_ACK") \in BOOLEAN
        OBVIOUS
      <3>2. supports_key_ack' \in BOOLEAN
        BY <2>1, <3>1
      <3>3. activity_age' \in 0..AgeCap'
        BY <2>1, BoundsAssumption DEF AgeCap
      <3>4. FlagTypes'
        BY Zenon, <1>1, <1>3, <2>1, <3>2, <3>3
           DEF TransportTypes, FlagTypes, agentVars, cancel_key_ack_locked
      <3>5. ThreadTypes'
        BY <1>1, <1>3, <2>8 DEF TransportTypes, ThreadTypes, sendVars
      <3>6. NetTypes'
        BY <1>1, <1>2, <1>3, <2>1, <2>2, <2>7 DEF TransportTypes, NetTypes, agentVars
      <3> QED BY <3>4, <3>5, <3>6 DEF TransportTypes
    <2>10. ControlOwns'
      BY <1>2, <1>3, <2>1, <2>2, <2>5, <2>7, <2>8 DEF ControlOwns, c
    <2>11. ConnectionsSound'
      <3>1. Connections' = Connections /\ accepted' = accepted
        BY <1>3, <2>7 DEF Connections
      <3>2. \A d \in Connections : WellFormed(conn'[d])
        BY <1>1, <2>6, <2>7 DEF ConnectionsSound
      <3>3. \A d \in Connections : d > accepted => conn'[d].epoch = 0
        BY <1>1, <1>2, <1>4, <2>7 DEF ConnectionsSound, Connections
      <3> QED BY <3>1, <3>2, <3>3 DEF ConnectionsSound
    <2>12. CallsKnow'
      BY <1>1, <1>2, <1>3, <1>4, <2>7, CallsKept DEF sendVars
    <2>13. KeyWaitDiesWithConnection'
      BY <2>1 DEF KeyWaitDiesWithConnection, cancel_key_ack_locked
    <2> QED BY <2>9, <2>10, <2>11, <2>12, <2>13 DEF TransportInv
  <1>7. CASE ~MayPublish(hello)
    <2>1. /\ Close(f) /\ control' = Control("accept", NoFd, 0, FALSE)
          /\ UNCHANGED <<fd, epoch, supports_key_ack, activity_age,
                         heartbeat_timed_out, keyVars>>
      BY <1>7 DEF publish
    <2>2. /\ conn' \in Seq(ConnType) /\ Len(conn') = Len(conn)
          /\ ConnectionsSound' /\ CallsKnow'
          /\ sock' \in [Fds -> 0..accepted] /\ \A g \in Fds : sock'[g] = 0
      BY <1>1, <1>2, <1>3, <2>1, CloseSound DEF sendVars, c
    <2>3. control' \in ControlType /\ control'.pc = "accept" /\ control'.fd = NoFd
      BY <2>1 DEF Control, ControlType
    <2>4. TransportTypes'
      <3>1. FlagTypes'
        BY <1>1, <1>3, <2>1 DEF TransportTypes, FlagTypes, keyVars, agentVars, AgeCap
      <3>2. ThreadTypes'
        BY <1>1, <1>3, <2>3 DEF TransportTypes, ThreadTypes, sendVars
      <3>3. NetTypes'
        BY <1>1, <1>3, <2>1, <2>2 DEF TransportTypes, NetTypes, agentVars
      <3> QED BY <3>1, <3>2, <3>3 DEF TransportTypes
    <2>5. ControlOwns'
      BY Zenon, <1>2, <1>3, <2>1, <2>2, <2>3 DEF ControlOwns
    <2>6. KeyWaitDiesWithConnection'
      BY <1>2, <2>1 DEF KeyWaitDiesWithConnection, keyVars
    <2> QED BY <2>2, <2>4, <2>5, <2>6 DEF TransportInv
  <1> QED BY <1>6, <1>7

\* agent_transport_run sends START_STREAM when accept found the stream requested.
LEMMA SendStartKeeps ==
    ASSUME TransportInv, send_start
    PROVE  TransportInv'
  <1>1. /\ TransportTypes /\ ControlOwns /\ ConnectionsSound /\ CallsKnow
        /\ KeyWaitDiesWithConnection
    BY DEF TransportInv
  <1>2. /\ control.pc = "start" /\ control' = [control EXCEPT !.pc = "run"]
        /\ call' = IF control.start THEN [call EXCEPT !["control"] = StartCall] ELSE call
        /\ UNCHANGED <<transportVars, keyVars, timeVars, main, calls, send_lock,
                       agentVars, netVars>>
    BY DEF send_start
  <1>3. /\ control' \in ControlType /\ control'.pc = "run" /\ control'.fd = control.fd
        /\ control'.epoch = control.epoch
    BY <1>1, <1>2 DEF TransportTypes, ThreadTypes, ControlType
  <1>4. control.fd \in Fds /\ control.epoch \in Nat /\ "control" \in Threads
        /\ "START_STREAM" \in MessageTypes
    BY <1>1, <1>2
       DEF ControlOwns, TransportTypes, ThreadTypes, ControlType, Threads, MessageTypes
  <1>5. call' \in [Threads -> CallType] /\ CallsKnow'
    <2>1. CASE control.start
      BY Zenon, <1>1, <1>2, <1>4, <2>1, CallStarts DEF StartCall, netVars
    <2>2. CASE ~control.start
      BY <1>1, <1>2, <2>2
         DEF CallsKnow, Connections, TransportTypes, ThreadTypes, netVars
    <2> QED BY <2>1, <2>2
  <1>6. TransportTypes'
    BY <1>1, <1>2, <1>3, <1>5
       DEF TransportTypes, FlagTypes, ThreadTypes, NetTypes, transportVars, keyVars,
           timeVars, agentVars, netVars, AgeCap
  <1>7. ControlOwns'
    BY <1>1, <1>2, <1>3 DEF ControlOwns, transportVars, netVars
  <1>8. ConnectionsSound' /\ KeyWaitDiesWithConnection'
    BY <1>1, <1>2
       DEF ConnectionsSound, Connections, KeyWaitDiesWithConnection, transportVars,
           keyVars, netVars
  <1> QED BY <1>5, <1>6, <1>7, <1>8 DEF TransportInv

\* The connection the control thread reads from while it is in agent_transport_run.
LEMMA ControlReads ==
    ASSUME TransportInv, control.pc \in {"start", "run", "check"}
    PROVE  /\ control.fd \in Fds /\ sock[control.fd] \in Connections
           /\ sock[control.fd] # 0
           /\ conn[sock[control.fd]] \in ConnType
           /\ WellFormed(conn[sock[control.fd]])
  <1>1. /\ control.fd \in Fds /\ sock[control.fd] # 0 /\ Len(conn) \in Nat
        /\ sock[control.fd] \in Nat /\ sock[control.fd] <= Len(conn)
    BY Lengths DEF TransportInv, ControlOwns, TransportTypes, NetTypes
  <1>2. sock[control.fd] \in Connections
    BY <1>1 DEF Connections
  <1> QED
    BY <1>1, <1>2, Element
       DEF TransportInv, TransportTypes, NetTypes, ConnectionsSound, Connections

\* The control thread reads a message; a PING is answered.
LEMMA HandleMessageKeeps ==
    ASSUME TransportInv, handle_message
    PROVE  TransportInv'
  <1> DEFINE c == sock[control.fd]
             m == Head(conn[c].inbox)
             current == is_current_locked(control.fd, control.epoch)
             acks == current /\ m = "KEY_ACK" /\ waiting_key # 0
             r == [conn[c] EXCEPT !.inbox = Tail(@)]
  <1>1. /\ TransportTypes /\ ControlOwns /\ ConnectionsSound /\ CallsKnow
        /\ KeyWaitDiesWithConnection
    BY DEF TransportInv
  <1>2. /\ control.pc = "run" /\ control' = [control EXCEPT !.pc = "check"]
        /\ conn[c].inbox # <<>>
        /\ conn' = [conn EXCEPT ![c] = r]
        /\ activity_age' = IF current THEN 0 ELSE activity_age
        /\ key_ack_received' = (key_ack_received \/ acks)
        /\ call' = IF current /\ m = "PING"
                   THEN [call EXCEPT !["control"] =
                           Sending(control.fd, control.epoch, "PONG")]
                   ELSE call
        /\ UNCHANGED <<transportVars, waiting_key, wait_conn, lag, main,
                       calls, send_lock, agentVars, sock, accepted>>
    BY DEF handle_message
  <1> HIDE DEF current, m, acks
  <1>3. /\ c \in Connections /\ conn[c] \in ConnType /\ WellFormed(conn[c])
        /\ control.fd \in Fds
    BY <1>2, ControlReads
  <1> HIDE DEF c
  <1>4. /\ Tail(conn[c].inbox) \in Seq(Inbound) /\ Len(conn[c].inbox) \in Nat
        /\ Len(Tail(conn[c].inbox)) = Len(conn[c].inbox) - 1
    BY <1>2, <1>3, HeadAndTail, Lengths DEF ConnType
  <1>5. /\ r \in ConnType /\ r.epoch = conn[c].epoch /\ r.outbox = conn[c].outbox
        /\ r.inbox = Tail(conn[c].inbox) /\ r.shut = conn[c].shut
    BY Zenon, <1>3, <1>4 DEF ConnType
  <1>6. WellFormed(r)
    <2>1. Len(r.inbox) <= Buffer
      BY <1>3, <1>4, <1>5, BoundsAssumption DEF WellFormed
    <2> HIDE DEF r
    <2> QED BY Zenon, <1>3, <1>5, <2>1, InboxStepSound
  <1> HIDE DEF r
  <1>7. /\ conn' \in Seq(ConnType) /\ Len(conn') = Len(conn)
        /\ \A d \in Connections : conn'[d].epoch = conn[d].epoch
        /\ ConnectionsSound'
    BY Zenon, <1>1, <1>2, <1>3, <1>5, <1>6, OneConnectionStep
  <1>8. /\ control' \in ControlType /\ control'.pc = "check" /\ control'.fd = control.fd
        /\ control'.epoch = control.epoch /\ control.epoch \in Nat
    BY <1>1, <1>2 DEF TransportTypes, ThreadTypes, ControlType
  <1>9. call' \in [Threads -> CallType] /\ CallsKnow'
    <2>1. "control" \in Threads /\ "PONG" \in MessageTypes
      BY DEF Threads, MessageTypes
    <2>2. CASE current /\ m = "PING"
      BY Zenon, <1>1, <1>2, <1>3, <1>7, <1>8, <2>1, <2>2, CallStarts
    <2>3. CASE ~(current /\ m = "PING")
      BY <1>1, <1>2, <1>7, <2>3, CallsKept, Lengths
         DEF TransportTypes, ThreadTypes
    <2> QED BY <2>2, <2>3
  <1>10. TransportTypes'
    <2>1. activity_age' \in 0..AgeCap'
      BY <1>1, <1>2, BoundsAssumption DEF TransportTypes, FlagTypes, AgeCap
    <2>2. key_ack_received' \in BOOLEAN
      BY <1>2
    <2>3. FlagTypes'
      BY <1>1, <1>2, <2>1, <2>2 DEF TransportTypes, FlagTypes, transportVars, agentVars
    <2>4. ThreadTypes'
      BY <1>1, <1>2, <1>8, <1>9 DEF TransportTypes, ThreadTypes
    <2>5. NetTypes'
      BY <1>1, <1>2, <1>7 DEF TransportTypes, NetTypes, transportVars, agentVars
    <2> QED BY <2>3, <2>4, <2>5 DEF TransportTypes
  <1>11. ControlOwns'
    <2>1. conn'[sock[fd]].epoch = conn[sock[fd]].epoch
      BY <1>1, <1>2, <1>3, <1>7 DEF ControlOwns, c
    <2> QED BY <1>1, <1>2, <1>8, <2>1 DEF ControlOwns, transportVars
  <1>12. KeyWaitDiesWithConnection'
    BY <1>1, <1>2 DEF KeyWaitDiesWithConnection, transportVars
  <1> QED BY <1>7, <1>9, <1>10, <1>11, <1>12 DEF TransportInv

\* agent_transport_run after its loop: what it unpublishes is what it owns.
LEMMA LeaveRunKeeps ==
    ASSUME TransportInv, control.pc \in {"run", "check"}, leave_run
    PROVE  TransportInv'
  <1>1. /\ TransportTypes /\ ControlOwns /\ ConnectionsSound /\ CallsKnow
        /\ KeyWaitDiesWithConnection
    BY DEF TransportInv
  <1>2. fd = control.fd /\ epoch = control.epoch /\ pending_fd = NoFd /\ main # "destroyed"
    BY <1>1 DEF ControlOwns
  <1>3. /\ fd' = NoFd /\ supports_key_ack' = FALSE /\ cancel_key_ack_locked
        /\ Close(control.fd) /\ control' = Control("accept", NoFd, 0, FALSE)
        /\ activity_age' = 0
        /\ UNCHANGED <<pending_fd, epoch, stopping, stream_requested,
                       heartbeat_timed_out, lag, main, calls, sendVars,
                       agentVars, accepted>>
    BY <1>2 DEF leave_run
  <1>4. control.fd \in Fds /\ sock[control.fd] # 0
    BY ControlReads
  <1>5. /\ conn' \in Seq(ConnType) /\ Len(conn') = Len(conn)
        /\ ConnectionsSound' /\ CallsKnow'
        /\ sock' \in [Fds -> 0..accepted] /\ \A g \in Fds : sock'[g] = 0
    BY <1>1, <1>3, <1>4, CloseSound DEF sendVars, ControlOwns
  <1>6. control' \in ControlType /\ control'.pc = "accept" /\ control'.fd = NoFd
    BY <1>3 DEF Control, ControlType
  <1>7. TransportTypes'
    <2>1. activity_age' \in 0..AgeCap'
      BY <1>3, BoundsAssumption DEF AgeCap
    <2>2. FlagTypes'
      BY Zenon, <1>1, <1>3, <2>1
         DEF TransportTypes, FlagTypes, agentVars, cancel_key_ack_locked
    <2>3. ThreadTypes'
      BY Zenon, <1>1, <1>3, <1>6 DEF TransportTypes, ThreadTypes, sendVars
    <2>4. NetTypes'
      BY <1>1, <1>3, <1>5 DEF TransportTypes, NetTypes, agentVars
    <2> QED BY <2>2, <2>3, <2>4 DEF TransportTypes
  <1>8. ControlOwns'
    BY Zenon, <1>2, <1>3, <1>5, <1>6 DEF ControlOwns
  <1>9. KeyWaitDiesWithConnection'
    BY <1>3 DEF KeyWaitDiesWithConnection, cancel_key_ack_locked
  <1> QED BY <1>5, <1>7, <1>8, <1>9 DEF TransportInv

\* The control thread goes on in its loop, or ends.
LEMMA ControlMoves ==
    ASSUME TransportInv, NEW next,
           \/ control.pc = "check" /\ next = "run"
           \/ control.pc = "accept" /\ next = "exit",
           control' = [control EXCEPT !.pc = next],
           UNCHANGED <<transportVars, keyVars, timeVars, main, calls, sendVars,
                       agentVars, netVars>>
    PROVE  TransportInv'
  <1>1. /\ TransportTypes /\ ControlOwns /\ ConnectionsSound /\ CallsKnow
        /\ KeyWaitDiesWithConnection
    BY DEF TransportInv
  <1>2. /\ control' \in ControlType /\ control'.pc = next /\ control'.fd = control.fd
        /\ control'.epoch = control.epoch
    BY <1>1 DEF TransportTypes, ThreadTypes, ControlType
  <1>3. TransportTypes'
    BY <1>1, <1>2
       DEF TransportTypes, FlagTypes, ThreadTypes, NetTypes, transportVars, keyVars,
           timeVars, sendVars, agentVars, netVars, AgeCap
  <1>4. ControlOwns'
    BY <1>1, <1>2 DEF ControlOwns, transportVars, netVars
  <1>5. ConnectionsSound' /\ CallsKnow' /\ KeyWaitDiesWithConnection'
    BY <1>1
       DEF ConnectionsSound, Connections, CallsKnow, KeyWaitDiesWithConnection,
           transportVars, keyVars, sendVars, netVars
  <1> QED BY <1>3, <1>4, <1>5 DEF TransportInv

\* Every step of the control thread.
LEMMA ControlKeeps ==
    ASSUME TransportInv, ControlStep
    PROVE  TransportInv'
  <1>1. CASE accept_pending
    BY <1>1, AcceptKeeps
  <1>2. CASE ReceiveHello
    BY <1>2, PublishKeeps DEF ReceiveHello
  <1>3. CASE HelloTimesOut
    BY <1>3, PublishKeeps DEF HelloTimesOut, MayPublish
  <1>4. CASE send_start
    BY <1>4, SendStartKeeps
  <1>5. CASE handle_message
    BY <1>5, HandleMessageKeeps
  <1>6. CASE check_current
    BY <1>6, LeaveRunKeeps, ControlMoves DEF check_current
  <1>7. CASE receive_fails
    BY <1>7, LeaveRunKeeps DEF receive_fails
  <1>8. CASE control_exits
    BY <1>8, ControlMoves DEF control_exits
  <1> QED
    BY <1>1, <1>2, <1>3, <1>4, <1>5, <1>6, <1>7, <1>8 DEF ControlStep

(***************************************************************************)
(* The main thread                                                         *)
(***************************************************************************)
\* shutdown() on a descriptor: the connections keep their epochs and frames.
LEMMA ShutDownSound ==
    ASSUME TransportTypes, ConnectionsSound, CallsKnow, NEW f \in Fds \cup {NoFd},
           conn' = ShutDown(conn, f), accepted' = accepted
    PROVE  /\ conn' \in Seq(ConnType) /\ Len(conn') = Len(conn)
           /\ \A d \in Connections : conn'[d].epoch = conn[d].epoch
           /\ ConnectionsSound'
           /\ call' = call => CallsKnow'
  <1>0. Len(conn) \in Nat
    BY Lengths DEF TransportTypes, NetTypes
  <1>1. CASE f = NoFd \/ sock[f] = 0
    <2>1. conn' = conn
      BY <1>1 DEF ShutDown
    <2> QED
      BY <2>1 DEF TransportTypes, NetTypes, ConnectionsSound, Connections, CallsKnow
  <1>2. CASE ~(f = NoFd \/ sock[f] = 0)
    <2> DEFINE c == sock[f]
               r == [conn[c] EXCEPT !.shut = TRUE]
    <2>1. c \in Connections
      BY <1>0, <1>2 DEF TransportTypes, NetTypes, Connections
    <2>2. conn[c] \in ConnType /\ WellFormed(conn[c])
      BY <2>1, Element DEF TransportTypes, NetTypes, ConnectionsSound, Connections
    <2>3. conn' = [conn EXCEPT ![c] = r]
      BY <1>2 DEF ShutDown
    <2>4. /\ r \in ConnType /\ r.epoch = conn[c].epoch /\ r.outbox = conn[c].outbox
          /\ r.inbox = conn[c].inbox /\ r.shut = TRUE
      BY Zenon, <2>2 DEF ConnType
    <2> HIDE DEF r, c
    <2>5. WellFormed(r)
      BY <2>2, <2>4, InboxStepSound DEF WellFormed
    <2>6. /\ conn' \in Seq(ConnType) /\ Len(conn') = Len(conn)
          /\ \A d \in Connections : conn'[d].epoch = conn[d].epoch
          /\ ConnectionsSound'
      BY Zenon, <2>1, <2>3, <2>4, <2>5, OneConnectionStep
    <2>7. call' = call => CallsKnow'
      BY <1>0, <2>6, CallsKept
    <2> QED BY <2>6, <2>7
  <1> QED BY <1>1, <1>2

\* At most one of the two descriptors is open, so shutting both down is shutting
\* one down.
LEMMA ShutdownOne ==
    ASSUME TransportInv
    PROVE  \E f \in Fds \cup {NoFd} :
             ShutDown(ShutDown(conn, fd), pending_fd) = ShutDown(conn, f)
  <1>1. fd \in Fds \cup {NoFd} /\ pending_fd \in Fds \cup {NoFd}
        /\ (fd = NoFd \/ pending_fd = NoFd)
    BY DEF TransportInv, TransportTypes, NetTypes, ThreadTypes, ControlType, ControlOwns
  <1>2. CASE fd = NoFd
    BY Zenon, <1>1, <1>2 DEF ShutDown
  <1>3. CASE pending_fd = NoFd
    BY Zenon, <1>1, <1>3 DEF ShutDown
  <1> QED BY <1>1, <1>2, <1>3

\* server_heartbeat reads the clock.
LEMMA ReadClockKeeps ==
    ASSUME TransportInv, read_clock
    PROVE  TransportInv'
  <1> USE DEF read_clock, transportVars, keyVars, sendVars, agentVars, netVars
  <1>1. TransportTypes'
    BY BoundsAssumption
       DEF TransportInv, TransportTypes, FlagTypes, ThreadTypes, NetTypes, AgeCap
  <1>2. ControlOwns'
    BY DEF TransportInv, ControlOwns
  <1>3. ConnectionsSound' /\ CallsKnow' /\ KeyWaitDiesWithConnection'
    BY DEF TransportInv, ConnectionsSound, Connections, CallsKnow,
           KeyWaitDiesWithConnection
  <1> QED BY <1>1, <1>2, <1>3 DEF TransportInv

\* The heartbeat's critical section: a timeout shuts the published connection down,
\* otherwise a PING may be captured for it.
LEMMA HeartbeatKeeps ==
    ASSUME TransportInv, heartbeat
    PROVE  TransportInv'
  <1> DEFINE live == ~stopping /\ fd # NoFd /\ ~heartbeat_timed_out
             timeout == live /\ Elapsed(activity_age) > Timeout
  <1>1. /\ TransportTypes /\ ControlOwns /\ ConnectionsSound /\ CallsKnow
        /\ KeyWaitDiesWithConnection
    BY DEF TransportInv
  <1>2. /\ main = "heartbeat" /\ main' = IF timeout THEN "event" ELSE "idle"
        /\ heartbeat_timed_out' = (heartbeat_timed_out \/ timeout)
        /\ stream_requested' = (stream_requested /\ ~timeout)
        /\ conn' = IF timeout THEN ShutDown(conn, fd) ELSE conn
        /\ \E due \in BOOLEAN :
             call' = IF live /\ ~timeout /\ due
                     THEN [call EXCEPT !["main"] = Sending(fd, epoch, "PING")]
                     ELSE call
        /\ lag' = 0
        /\ UNCHANGED <<fd, pending_fd, epoch, stopping, supports_key_ack,
                       keyVars, activity_age, control, calls, send_lock,
                       agentVars, sock, accepted>>
    BY DEF heartbeat, HeartbeatShutDown
  <1>3. /\ timeout => call' = call
        /\ call' = call \/ (live /\ call' = [call EXCEPT !["main"] = Sending(fd, epoch, "PING")])
    BY <1>2
  <1>4. main' # "destroyed"
    BY <1>2
  <1> HIDE DEF timeout
  <1>5. /\ conn' \in Seq(ConnType) /\ Len(conn') = Len(conn)
        /\ \A d \in Connections : conn'[d].epoch = conn[d].epoch
        /\ ConnectionsSound'
    <2>1. CASE timeout
      <3>1. fd \in Fds \cup {NoFd} /\ conn' = ShutDown(conn, fd)
        BY <1>1, <1>2, <2>1 DEF TransportTypes, NetTypes
      <3> QED BY <1>1, <1>2, <3>1, ShutDownSound
    <2>2. CASE ~timeout
      BY <1>1, <1>2, <2>2 DEF TransportTypes, NetTypes, ConnectionsSound, Connections
    <2> QED BY <2>1, <2>2
  <1>6. call' \in [Threads -> CallType] /\ CallsKnow'
    <2>1. CASE call' = call
      BY <1>1, <1>5, <2>1, CallsKept, Lengths
         DEF TransportTypes, ThreadTypes
    <2>2. CASE live /\ call' = [call EXCEPT !["main"] = Sending(fd, epoch, "PING")]
      <3>1. /\ fd \in Fds /\ epoch \in Nat /\ "main" \in Threads
            /\ "PING" \in MessageTypes
        BY <1>1, <2>2 DEF TransportTypes, NetTypes, Threads, MessageTypes
      <3> QED BY Zenon, <1>1, <1>5, <2>2, <3>1, CallStarts
    <2> QED BY <1>3, <2>1, <2>2
  <1>7. TransportTypes'
    <2>1. stream_requested' \in BOOLEAN /\ heartbeat_timed_out' \in BOOLEAN
      BY <1>2
    <2>2. FlagTypes'
      BY <1>1, <1>2, <2>1, BoundsAssumption
         DEF TransportTypes, FlagTypes, keyVars, agentVars, AgeCap
    <2>3. ThreadTypes'
      BY <1>1, <1>2, <1>6 DEF TransportTypes, ThreadTypes
    <2>4. NetTypes'
      BY <1>1, <1>2, <1>5 DEF TransportTypes, NetTypes, agentVars
    <2> QED BY <2>2, <2>3, <2>4 DEF TransportTypes
  <1>8. ControlOwns'
    <2>1. \A f \in Fds : sock[f] # 0 => sock[f] \in Connections
      BY <1>1, Lengths DEF TransportTypes, NetTypes, Connections
    <2>2. control.pc = "hello" => accepted \in Connections
      BY <1>1, <2>1 DEF ControlOwns
    <2> QED BY <1>1, <1>2, <1>4, <1>5, <2>1, <2>2 DEF ControlOwns
  <1>9. KeyWaitDiesWithConnection'
    BY <1>1, <1>2 DEF KeyWaitDiesWithConnection, keyVars
  <1> QED BY <1>5, <1>6, <1>7, <1>8, <1>9 DEF TransportInv

\* agent_transport_shutdown shuts down what is published or pending.
LEMMA ShutdownKeeps ==
    ASSUME TransportInv, NEW from, agent_transport_shutdown(from)
    PROVE  TransportInv'
  <1>1. /\ TransportTypes /\ ControlOwns /\ ConnectionsSound /\ CallsKnow
        /\ KeyWaitDiesWithConnection
    BY DEF TransportInv
  <1>2. /\ main' = "stopping" /\ stopping' = TRUE
        /\ UNCHANGED <<fd, pending_fd, epoch, stream_requested, supports_key_ack,
                       heartbeat_timed_out, keyVars, timeVars, control, calls,
                       sendVars, agentVars, sock, accepted>>
    BY DEF agent_transport_shutdown
  <1>3. PICK f \in Fds \cup {NoFd} : conn' = ShutDown(conn, f)
    BY ShutdownOne DEF agent_transport_shutdown, ShutdownBoth
  <1>4. /\ conn' \in Seq(ConnType) /\ Len(conn') = Len(conn)
        /\ \A d \in Connections : conn'[d].epoch = conn[d].epoch
        /\ ConnectionsSound' /\ CallsKnow'
    BY <1>1, <1>2, <1>3, ShutDownSound DEF sendVars
  <1>5. TransportTypes'
    BY <1>1, <1>2, <1>4
       DEF TransportTypes, FlagTypes, ThreadTypes, NetTypes, keyVars, timeVars,
           sendVars, agentVars, AgeCap
  <1>6. ControlOwns'
    <2>1. \A g \in Fds : sock[g] # 0 => sock[g] \in Connections
      BY <1>1, Lengths DEF TransportTypes, NetTypes, Connections
    <2>2. control.pc = "hello" => accepted \in Connections
      BY <1>1, <2>1 DEF ControlOwns
    <2> QED BY Zenon, <1>1, <1>2, <1>4, <2>1, <2>2 DEF ControlOwns
  <1>7. KeyWaitDiesWithConnection'
    BY <1>1, <1>2 DEF KeyWaitDiesWithConnection, keyVars
  <1> QED BY <1>4, <1>5, <1>6, <1>7 DEF TransportInv

\* agent_transport_destroy finds nothing left to close.
LEMMA DestroyKeeps ==
    ASSUME TransportInv, agent_transport_destroy
    PROVE  TransportInv' /\ sock' = sock /\ conn' = conn /\ fd' = fd
  <1>1. /\ TransportTypes /\ ControlOwns /\ ConnectionsSound /\ CallsKnow
        /\ KeyWaitDiesWithConnection
    BY DEF TransportInv
  <1>2. fd = NoFd /\ pending_fd = NoFd /\ control.pc = "exit"
    BY Zenon, <1>1 DEF agent_transport_destroy, ControlOwns
  <1>3. /\ fd' = fd /\ pending_fd' = pending_fd /\ conn' = conn
        /\ UNCHANGED <<epoch, stopping, stream_requested, supports_key_ack,
                       heartbeat_timed_out, keyVars, timeVars, control, calls,
                       sendVars, agentVars, accepted>>
    BY <1>2 DEF agent_transport_destroy, ShutDown
  <1>4. sock' = [f \in Fds |-> sock[f]]
    BY <1>2, NoFdIsNone DEF agent_transport_destroy
  <1>5. sock' = sock
    BY <1>1, <1>4 DEF TransportTypes, NetTypes
  <1>6. TransportTypes'
    BY <1>1, <1>3, <1>5
       DEF TransportTypes, FlagTypes, ThreadTypes, NetTypes, keyVars, timeVars,
           sendVars, agentVars, AgeCap
  <1>7. ControlOwns'
    BY <1>1, <1>2, <1>3, <1>5 DEF ControlOwns
  <1>8. ConnectionsSound' /\ CallsKnow' /\ KeyWaitDiesWithConnection'
    BY <1>1, <1>3, <1>5
       DEF ConnectionsSound, Connections, CallsKnow, KeyWaitDiesWithConnection,
           keyVars, sendVars
  <1> QED BY <1>3, <1>5, <1>6, <1>7, <1>8 DEF TransportInv

(***************************************************************************)
(* The callers                                                             *)
(***************************************************************************)
\* A caller captures the descriptor and the epoch, or finds none.
LEMMA CaptureKeeps ==
    ASSUME TransportInv, NEW t \in Threads, NEW type \in MessageTypes,
           call' = [call EXCEPT ![t] = Captured(type)],
           stream_requested' \in BOOLEAN, calls' \in Nat,
           UNCHANGED <<fd, pending_fd, epoch, stopping, supports_key_ack,
                       heartbeat_timed_out, keyVars, timeVars, control, main,
                       send_lock, agentVars, netVars>>
    PROVE  TransportInv'
  <1>1. /\ TransportTypes /\ ControlOwns /\ ConnectionsSound /\ CallsKnow
        /\ KeyWaitDiesWithConnection
    BY DEF TransportInv
  <1>2. call' \in [Threads -> CallType] /\ CallsKnow'
    <2>1. CASE ~stopping /\ fd # NoFd
      <3>1. fd \in Fds /\ epoch \in Nat /\ Captured(type) = Sending(fd, epoch, type)
        BY <1>1, <2>1 DEF TransportTypes, NetTypes, Captured
      <3> QED BY Zenon, <1>1, <3>1, CallStarts DEF netVars
    <2>2. CASE ~(~stopping /\ fd # NoFd)
      <3>1. Captured(type) = Returned(FALSE)
        BY Zenon, <2>2 DEF Captured
      <3> QED BY Zenon, <1>1, <3>1, CallReturns DEF netVars
    <2> QED BY <2>1, <2>2
  <1>3. TransportTypes'
    BY <1>1, <1>2
       DEF TransportTypes, FlagTypes, ThreadTypes, NetTypes, keyVars, timeVars,
           agentVars, netVars, AgeCap
  <1>4. ControlOwns'
    BY <1>1 DEF ControlOwns, netVars
  <1>5. ConnectionsSound' /\ KeyWaitDiesWithConnection'
    BY Zenon, <1>1
       DEF ConnectionsSound, Connections, KeyWaitDiesWithConnection, keyVars, netVars
  <1> QED BY <1>2, <1>3, <1>4, <1>5 DEF TransportInv

\* agent_transport_set_stream_requested.
LEMMA SetStreamKeeps ==
    ASSUME TransportInv, NEW t \in Threads, NEW requested \in BOOLEAN,
           agent_transport_set_stream_requested(t, requested), calls' \in Nat
    PROVE  TransportInv'
  <1> DEFINE type == IF requested THEN "START_STREAM" ELSE "STOP_STREAM"
  <1>1. type \in MessageTypes
    BY DEF MessageTypes
  <1>2. /\ call' = [call EXCEPT ![t] = Captured(type)] /\ stream_requested' \in BOOLEAN
        /\ UNCHANGED <<fd, pending_fd, epoch, stopping, supports_key_ack,
                       heartbeat_timed_out, keyVars, timeVars, control, main,
                       send_lock, agentVars, netVars>>
    BY DEF agent_transport_set_stream_requested
  <1> HIDE DEF type
  <1> QED BY Zenon, <1>1, <1>2, CaptureKeeps

\* agent_transport_send.
LEMMA SendKeeps ==
    ASSUME TransportInv, NEW t \in Threads, NEW type \in MessageTypes,
           agent_transport_send(t, type), calls' \in Nat
    PROVE  TransportInv'
  <1>1. /\ call' = [call EXCEPT ![t] = Captured(type)] /\ stream_requested' \in BOOLEAN
        /\ UNCHANGED <<fd, pending_fd, epoch, stopping, supports_key_ack,
                       heartbeat_timed_out, keyVars, timeVars, control, main,
                       send_lock, agentVars, netVars>>
    BY DEF agent_transport_send, transportVars, TransportInv, TransportTypes, FlagTypes
  <1> QED BY Zenon, <1>1, CaptureKeeps

\* agent_transport_begin_key_ack remembers the published connection.
LEMMA BeginKeyAckKeeps ==
    ASSUME TransportInv, NEW t \in Threads, agent_transport_begin_key_ack(t),
           calls' \in Nat
    PROVE  TransportInv'
  <1>1. /\ TransportTypes /\ ControlOwns /\ ConnectionsSound /\ CallsKnow
    BY DEF TransportInv
  <1>2. /\ fd # NoFd /\ waiting_key' = 1 /\ key_ack_received' = FALSE
        /\ wait_conn' = sock[fd]
        /\ UNCHANGED <<transportVars, timeVars, control, main, sendVars,
                       agentVars, netVars>>
    BY DEF agent_transport_begin_key_ack
  <1>3. wait_conn' \in Nat
    BY <1>1, <1>2 DEF TransportTypes, NetTypes
  <1>4. TransportTypes'
    BY Zenon, <1>1, <1>2, <1>3
       DEF TransportTypes, FlagTypes, ThreadTypes, NetTypes, transportVars, timeVars,
           sendVars, agentVars, netVars, AgeCap
  <1>5. ControlOwns'
    BY Zenon, <1>1, <1>2 DEF ControlOwns, transportVars, netVars
  <1>6. ConnectionsSound' /\ CallsKnow'
    BY Zenon, <1>1, <1>2 DEF ConnectionsSound, Connections, CallsKnow, sendVars, netVars
  <1>7. KeyWaitDiesWithConnection'
    BY <1>2 DEF KeyWaitDiesWithConnection, transportVars, netVars
  <1> QED BY <1>4, <1>5, <1>6, <1>7 DEF TransportInv

\* send_for_epoch, first half: the connection behind a current descriptor has the
\* epoch the caller captured.
LEMMA SendForEpochKeeps ==
    ASSUME TransportInv, NEW t \in Threads, send_for_epoch(t)
    PROVE  TransportInv'
  <1>1. /\ TransportTypes /\ ControlOwns /\ ConnectionsSound /\ CallsKnow
        /\ KeyWaitDiesWithConnection
    BY DEF TransportInv
  <1>2. /\ call[t].step = "send"
        /\ UNCHANGED <<transportVars, keyVars, timeVars, threadVars, agentVars, netVars>>
    BY DEF send_for_epoch
  <1>3. send_lock' \in Threads \cup {"nobody"} /\ call' \in [Threads -> CallType] /\ CallsKnow'
    <2>1. CASE is_current_locked(call[t].fd, call[t].epoch)
      <3> DEFINE c == sock[call[t].fd]
                 new == [call[t] EXCEPT !.step = "write", !.conn = c]
      <3>1. call' = [call EXCEPT ![t] = new] /\ send_lock' = t
        BY Zenon, <2>1 DEF send_for_epoch
      <3>2. /\ fd = call[t].fd /\ epoch = call[t].epoch /\ fd \in Fds
            /\ call[t] \in CallType /\ call[t].type \in MessageTypes
        BY <1>1, <1>2, <2>1
           DEF is_current_locked, CallsKnow, TransportTypes, ThreadTypes
      <3>3. control.pc \in {"start", "run", "check"}
        BY <1>1, <3>2, NoFdIsNone
           DEF ControlOwns, TransportTypes, ThreadTypes, ControlType
      <3>4. c # 0 /\ conn[c].epoch = call[t].epoch /\ call[t].epoch # 0
        BY <1>1, <3>2, <3>3 DEF ControlOwns
      <3>5. c \in Connections /\ c \in Nat
        BY <1>1, <3>2, <3>4, Lengths DEF TransportTypes, NetTypes, Connections
      <3> HIDE DEF c
      <3>6. /\ new \in CallType /\ new.fd = call[t].fd /\ new.type = call[t].type
            /\ new.conn = c /\ new.epoch = call[t].epoch /\ new.step = "write"
        BY Zenon, <3>2, <3>5 DEF CallType
      <3> HIDE DEF new
      <3>7. /\ call' \in [Threads -> CallType] /\ call'[t] = new
            /\ \A u \in Threads : u # t => call'[u] = call[u]
        BY <1>1, <3>1, <3>6 DEF TransportTypes, ThreadTypes
      <3>8. Connections' = Connections /\ conn' = conn
        BY Zenon, <1>2 DEF Connections, netVars
      <3>9. CallsKnow'
        BY <1>1, <3>2, <3>4, <3>5, <3>6, <3>7, <3>8 DEF CallsKnow
      <3> QED BY <3>1, <3>7, <3>9
    <2>2. CASE ~is_current_locked(call[t].fd, call[t].epoch)
      <3>1. call' = [call EXCEPT ![t] = Returned(FALSE)] /\ send_lock' = send_lock
        BY Zenon, <2>2 DEF send_for_epoch
      <3>2. call' \in [Threads -> CallType] /\ CallsKnow'
        BY Zenon, <1>1, <1>2, <3>1, CallReturns DEF netVars
      <3> QED BY Zenon, <1>1, <3>1, <3>2 DEF TransportTypes, ThreadTypes
    <2> QED BY <2>1, <2>2
  <1>4. TransportTypes'
    BY <1>1, <1>2, <1>3
       DEF TransportTypes, FlagTypes, ThreadTypes, NetTypes, transportVars, keyVars,
           timeVars, threadVars, agentVars, netVars, AgeCap
  <1>5. ControlOwns'
    BY Zenon, <1>1, <1>2 DEF ControlOwns, transportVars, threadVars, netVars
  <1>6. ConnectionsSound' /\ KeyWaitDiesWithConnection'
    BY Zenon, <1>1, <1>2
       DEF ConnectionsSound, Connections, KeyWaitDiesWithConnection, transportVars,
           keyVars, netVars
  <1> QED BY <1>3, <1>4, <1>5, <1>6 DEF TransportInv

\* What protocol_send makes of the connection: the whole frame, a torn one with
\* which the connection is shut down, or nothing on a connection that is over.
Written(t) ==
    LET k == conn[call[t].conn]
    IN  IF ~k.shut /\ ~k.hung_up /\ Len(k.outbox) < Buffer
        THEN [k EXCEPT !.outbox = Append(@, [type |-> call[t].type, epoch |-> call[t].epoch])]
        ELSE IF ~k.shut /\ ~k.hung_up
        THEN [k EXCEPT !.shut = TRUE, !.outbox = Append(@, [type |-> "torn", epoch |-> 0])]
        ELSE [k EXCEPT !.shut = TRUE]

\* protocol_send changes the connection of the caller's epoch and no other.
LEMMA WriteSound ==
    ASSUME TransportInv, NEW t \in Threads, protocol_send(t)
    PROVE  LET c == call[t].conn
           IN  /\ c \in Connections /\ conn[c] \in ConnType /\ WellFormed(conn[c])
               /\ conn[c].epoch = call[t].epoch /\ call[t].epoch # 0
               /\ call[t].type \in MessageTypes
               /\ conn' = [conn EXCEPT ![c] = Written(t)]
               /\ Written(t) \in ConnType /\ WellFormed(Written(t))
               /\ Written(t).epoch = conn[c].epoch
  <1> DEFINE c == call[t].conn
             k == conn[c]
             fits == ~k.shut /\ ~k.hung_up /\ Len(k.outbox) < Buffer
             torn == ~k.shut /\ ~k.hung_up
  <1>1. /\ c \in Connections /\ k.epoch = call[t].epoch /\ call[t].epoch # 0
        /\ call[t].type \in MessageTypes
    BY DEF protocol_send, TransportInv, CallsKnow
  <1>2. k \in ConnType /\ WellFormed(k)
    BY Zenon, <1>1, Element
       DEF TransportInv, TransportTypes, NetTypes, ConnectionsSound, Connections
  <1>3. conn' = IF fits
                THEN [conn EXCEPT ![c].outbox =
                        Append(@, [type |-> call[t].type, epoch |-> call[t].epoch])]
                ELSE [conn EXCEPT ![c].shut = TRUE,
                        ![c].outbox = IF torn
                                      THEN Append(@, [type |-> "torn", epoch |-> 0])
                                      ELSE @]
    BY DEF protocol_send, FailedWrite, Target
  <1>4. CASE fits
    <2>1. Written(t) = [k EXCEPT !.outbox =
                          Append(@, [type |-> call[t].type, epoch |-> k.epoch])]
      BY <1>1, <1>4 DEF Written
    <2>2. conn' = [conn EXCEPT ![c] = Written(t)]
      BY <1>1, <1>3, <1>4, <2>1
    <2>3. Written(t) \in ConnType /\ WellFormed(Written(t))
      BY <1>1, <1>2, <1>4, <2>1, FrameWrittenSound
    <2>4. Written(t).epoch = k.epoch
      BY <1>2, <2>1 DEF ConnType
    <2> QED BY Zenon, <1>1, <1>2, <2>2, <2>3, <2>4
  <1>5. CASE ~fits /\ torn
    <2>1. Written(t) = [k EXCEPT !.shut = TRUE,
                                 !.outbox = Append(@, [type |-> "torn", epoch |-> 0])]
      BY <1>5 DEF Written
    <2>2. conn' = [conn EXCEPT ![c] = Written(t)]
      BY Zenon, <1>3, <1>5, <2>1
    <2>3. Written(t) \in ConnType /\ WellFormed(Written(t))
      BY Zenon, <1>1, <1>2, <1>5, <2>1, FrameTornSound
    <2>4. Written(t).epoch = k.epoch
      BY <1>2, <2>1 DEF ConnType
    <2> QED BY <1>1, <1>2, <2>2, <2>3, <2>4
  <1>6. CASE ~fits /\ ~torn
    <2>1. Written(t) = [k EXCEPT !.shut = TRUE]
      BY <1>6 DEF Written
    <2>2. [k EXCEPT !.shut = TRUE, !.outbox = k.outbox] = [k EXCEPT !.shut = TRUE]
      BY Zenon, <1>2 DEF ConnType
    <2>3. conn' = [conn EXCEPT ![c] = Written(t)]
      BY Zenon, <1>3, <1>6, <2>1, <2>2
    <2>4. /\ Written(t) \in ConnType /\ Written(t).epoch = k.epoch
          /\ Written(t).outbox = k.outbox /\ Written(t).inbox = k.inbox
          /\ Written(t).shut = TRUE
      BY Zenon, <1>2, <2>1 DEF ConnType
    <2>5. WellFormed(Written(t))
      <3> HIDE DEF c
      <3> QED BY Zenon, <1>2, <2>4, InboxStepSound DEF WellFormed
    <2> QED BY <1>1, <1>2, <2>3, <2>4, <2>5
  <1> QED BY Zenon, <1>4, <1>5, <1>6

\* send_for_epoch, second half.
LEMMA ProtocolSendKeeps ==
    ASSUME TransportInv, NEW t \in Threads, protocol_send(t)
    PROVE  TransportInv'
  <1>1. /\ TransportTypes /\ ControlOwns /\ ConnectionsSound /\ CallsKnow
        /\ KeyWaitDiesWithConnection
    BY DEF TransportInv
  <1>2. /\ send_lock' = "nobody"
        /\ UNCHANGED <<transportVars, keyVars, timeVars, threadVars, agentVars,
                       sock, accepted>>
    BY DEF protocol_send
  <1>3. PICK sent \in BOOLEAN : call' = [call EXCEPT ![t] = Returned(sent)]
    <2>1. PICK x : /\ call' = [call EXCEPT ![t] = Returned(x)]
                   /\ x = (/\ ~conn[Target(t)].shut /\ ~conn[Target(t)].hung_up
                              /\ Len(conn[Target(t)].outbox) < Buffer
                           /\ t \in Callers)
      BY Zenon DEF protocol_send
    <2> QED BY Zenon, <2>1
  <1>4. /\ conn' \in Seq(ConnType) /\ Len(conn') = Len(conn)
        /\ \A d \in Connections : conn'[d].epoch = conn[d].epoch
        /\ ConnectionsSound'
    <2>1. /\ call[t].conn \in Connections /\ conn' = [conn EXCEPT ![call[t].conn] = Written(t)]
          /\ Written(t) \in ConnType /\ WellFormed(Written(t))
          /\ Written(t).epoch = conn[call[t].conn].epoch
      BY Zenon, WriteSound
    <2> QED BY Zenon, <1>1, <1>2, <2>1, OneConnectionStep
  <1>5. call' \in [Threads -> CallType] /\ CallsKnow'
    BY Zenon, <1>1, <1>3, <1>4, CallReturns
  <1>6. TransportTypes'
    BY Zenon, <1>1, <1>2, <1>4, <1>5
       DEF TransportTypes, FlagTypes, ThreadTypes, NetTypes, transportVars, keyVars,
           timeVars, threadVars, agentVars, AgeCap
  <1>7. ControlOwns'
    <2>1. \A f \in Fds : sock[f] # 0 => sock[f] \in Connections
      BY <1>1, Lengths DEF TransportTypes, NetTypes, Connections
    <2>2. control.pc = "hello" => accepted \in Connections
      BY Zenon, <1>1, <2>1 DEF ControlOwns
    <2> QED BY Zenon, <1>1, <1>2, <1>4, <2>1, <2>2 DEF ControlOwns, transportVars, threadVars
  <1>8. KeyWaitDiesWithConnection'
    BY <1>1, <1>2 DEF KeyWaitDiesWithConnection, transportVars, keyVars
  <1> QED BY Zenon, <1>4, <1>5, <1>6, <1>7, <1>8 DEF TransportInv

(***************************************************************************)
(* The agent's end                                                         *)
(***************************************************************************)
\* A new connection is well formed and unpublished.
LEMMA ConnectKeeps ==
    ASSUME TransportInv, connect_control
    PROVE  TransportInv'
  <1>1. /\ TransportTypes /\ ControlOwns /\ ConnectionsSound /\ CallsKnow
        /\ KeyWaitDiesWithConnection
    BY DEF TransportInv
  <1>2. PICK hello \in Hellos : conn' = Append(conn, ConnectionRecord(hello))
    BY DEF connect_control
  <1>3. /\ agent' = Len(conn')
        /\ UNCHANGED <<transportVars, keyVars, timeVars, threadVars, sendVars,
                       streaming, sock, accepted>>
    BY DEF connect_control
  <1> DEFINE r == ConnectionRecord(hello)
  <1>4. /\ hello \in Inbound
        /\ <<>> \in Seq(Frame) /\ Len(<<>>) = 0 /\ DOMAIN <<>> = {}
    BY MessagesAssumption, EmptyOrNot DEF Inbound
  <1>5. <<hello>> \in Seq(Inbound) /\ Len(<<hello>>) = 1
    BY <1>4
  <1>6. /\ r \in ConnType /\ r.inbox = <<hello>> /\ r.outbox = <<>> /\ r.epoch = 0
        /\ r.shut = FALSE
    BY <1>4, <1>5 DEF ConnectionRecord, ConnType
  <1>7. WellFormed(r)
    <2>1. \A i \in DOMAIN r.outbox : FALSE
      BY <1>4, <1>6
    <2> HIDE DEF r
    <2> QED BY <1>4, <1>5, <1>6, <2>1, BoundsAssumption DEF WellFormed
  <1> HIDE DEF r
  <1>8. /\ conn' \in Seq(ConnType) /\ Len(conn') = Len(conn) + 1 /\ Len(conn) \in Nat
        /\ conn'[Len(conn) + 1] = r
        /\ \A d \in Connections : conn'[d] = conn[d]
    BY <1>1, <1>2, <1>6, Appended, Lengths
       DEF TransportTypes, NetTypes, Connections, r
  <1>9. Connections' = Connections \cup {Len(conn) + 1}
    BY <1>8 DEF Connections
  <1>10. ConnectionsSound'
    <2>1. \A d \in Connections' : WellFormed(conn'[d])
      BY <1>1, <1>7, <1>8, <1>9 DEF ConnectionsSound
    <2>2. \A d \in Connections' : d > accepted => conn'[d].epoch = 0
      BY <1>1, <1>6, <1>8, <1>9 DEF ConnectionsSound
    <2> QED BY <1>3, <2>1, <2>2 DEF ConnectionsSound
  <1>11. CallsKnow'
    BY <1>1, <1>3, <1>8, CallsKept DEF sendVars
  <1>12. TransportTypes'
    <2>1. FlagTypes' /\ ThreadTypes'
      <3>1. FlagTypes /\ ThreadTypes
        BY <1>1 DEF TransportTypes
      <3>2. FlagTypes'
        BY Zenon, <1>3, <3>1
           DEF FlagTypes, transportVars, keyVars, timeVars, threadVars, sendVars
      <3>3. ThreadTypes'
        BY Zenon, <1>3, <3>1 DEF ThreadTypes, transportVars, threadVars, sendVars
      <3> QED BY <3>2, <3>3
    <2>2. NetTypes'
      BY <1>1, <1>3, <1>8 DEF TransportTypes, NetTypes, transportVars
    <2> QED BY <2>1, <2>2 DEF TransportTypes
  <1>13. ControlOwns'
    <2>1. \A f \in Fds : sock[f] # 0 => sock[f] \in Connections
      BY <1>1, Lengths DEF TransportTypes, NetTypes, Connections
    <2>2. control.pc = "hello" => accepted \in Connections
      BY Zenon, <1>1, <2>1 DEF ControlOwns
    <2> QED BY Zenon, <1>1, <1>3, <1>8, <2>1, <2>2 DEF ControlOwns, transportVars, threadVars
  <1>14. KeyWaitDiesWithConnection'
    BY <1>1, <1>3 DEF KeyWaitDiesWithConnection, transportVars, keyVars
  <1> QED BY <1>10, <1>11, <1>12, <1>13, <1>14 DEF TransportInv

\* The agent changes its own connection: its inbox, its outbox, its end.
LEMMA AgentChanges ==
    ASSUME TransportInv, agent # 0, NEW r \in ConnType, WellFormed(r),
           r.epoch = conn[agent].epoch, conn' = [conn EXCEPT ![agent] = r],
           agent' \in {0, agent}, streaming' \in BOOLEAN,
           UNCHANGED <<transportVars, keyVars, timeVars, threadVars, sendVars,
                       sock, accepted>>
    PROVE  TransportInv'
  <1>1. /\ TransportTypes /\ ControlOwns /\ ConnectionsSound /\ CallsKnow
        /\ KeyWaitDiesWithConnection
    BY DEF TransportInv
  <1>2. agent \in Connections /\ Len(conn) \in Nat
    BY <1>1, Lengths DEF TransportTypes, NetTypes, Connections
  <1>3. /\ conn' \in Seq(ConnType) /\ Len(conn') = Len(conn)
        /\ \A d \in Connections : conn'[d].epoch = conn[d].epoch
        /\ ConnectionsSound'
    BY Zenon, <1>1, <1>2, OneConnectionStep
  <1>4. CallsKnow'
    BY <1>1, <1>2, <1>3, CallsKept DEF sendVars
  <1>5. TransportTypes'
    BY <1>1, <1>3
       DEF TransportTypes, FlagTypes, ThreadTypes, NetTypes, transportVars, keyVars,
           timeVars, threadVars, sendVars, AgeCap
  <1>6. ControlOwns'
    <2>1. \A f \in Fds : sock[f] # 0 => sock[f] \in Connections
      BY <1>1, <1>2 DEF TransportTypes, NetTypes, Connections
    <2>2. control.pc = "hello" => accepted \in Connections
      BY Zenon, <1>1, <2>1 DEF ControlOwns
    <2> QED BY Zenon, <1>1, <1>3, <2>1, <2>2 DEF ControlOwns, transportVars, threadVars
  <1>7. KeyWaitDiesWithConnection'
    BY <1>1 DEF KeyWaitDiesWithConnection, transportVars, keyVars
  <1> QED BY <1>3, <1>4, <1>5, <1>6, <1>7 DEF TransportInv

\* The agent reads from a well formed connection.
LEMMA AgentReads ==
    ASSUME TransportInv, agent # 0
    PROVE  agent \in Connections /\ conn[agent] \in ConnType /\ WellFormed(conn[agent])
  <1>1. agent \in Connections
    BY Lengths DEF TransportInv, TransportTypes, NetTypes, Connections
  <1> QED
    BY Zenon, <1>1, Element
       DEF TransportInv, TransportTypes, NetTypes, ConnectionsSound, Connections

\* disconnect_control.
LEMMA DisconnectKeeps ==
    ASSUME TransportInv, disconnect_control
    PROVE  TransportInv'
  <1> DEFINE r == [conn[agent] EXCEPT !.hung_up = TRUE, !.outbox = <<>>]
  <1>1. /\ agent # 0 /\ conn' = [conn EXCEPT ![agent] = r] /\ agent' = 0
        /\ streaming' = FALSE
        /\ UNCHANGED <<transportVars, keyVars, timeVars, threadVars, sendVars,
                       sock, accepted>>
    BY Zenon DEF disconnect_control
  <1>2. conn[agent] \in ConnType /\ WellFormed(conn[agent])
    BY <1>1, AgentReads
  <1>3. <<>> \in Seq(Frame) /\ Len(<<>>) = 0 /\ DOMAIN <<>> = {}
    BY EmptyOrNot
  <1>4. /\ r \in ConnType /\ r.epoch = conn[agent].epoch /\ r.outbox = <<>>
        /\ r.inbox = conn[agent].inbox /\ r.shut = conn[agent].shut
    BY Zenon, <1>2, <1>3 DEF ConnType
  <1>5. WellFormed(r)
    <2>1. \A i \in DOMAIN r.outbox : FALSE
      BY <1>3, <1>4
    <2> HIDE DEF r
    <2> QED BY <1>2, <1>3, <1>4, <2>1, BoundsAssumption DEF WellFormed
  <1> HIDE DEF r
  <1> QED BY Zenon, <1>1, <1>4, <1>5, AgentChanges

\* handle_control takes a frame and answers it.
LEMMA HandleControlKeeps ==
    ASSUME TransportInv, handle_control
    PROVE  TransportInv'
  <1> DEFINE k == conn[agent]
             m == Head(k.outbox).type
             r == [k EXCEPT !.outbox = Tail(@), !.inbox = @ \o Reply(m)]
  <1>1. /\ agent # 0 /\ k.outbox # <<>> /\ conn' = [conn EXCEPT ![agent] = r]
        /\ Len(k.inbox) + Len(Reply(m)) <= Buffer
        /\ streaming' = (m = "START_STREAM" \/ (streaming /\ m # "STOP_STREAM"))
        /\ agent' = agent
        /\ UNCHANGED <<transportVars, keyVars, timeVars, threadVars, sendVars,
                       sock, accepted>>
    BY Zenon DEF handle_control
  <1>2. k \in ConnType /\ WellFormed(k)
    BY <1>1, AgentReads
  <1>3. Reply(m) \in Seq(Inbound)
    <2>1. <<"PONG">> \in Seq(Inbound) /\ <<"KEY_ACK">> \in Seq(Inbound) /\ <<>> \in Seq(Inbound)
      BY EmptyOrNot DEF Inbound
    <2>2. CASE m = "PING"
      BY <2>1, <2>2 DEF Reply
    <2>3. CASE m = "KEY"
      BY <2>1, <2>3 DEF Reply
    <2>4. CASE m # "PING" /\ m # "KEY"
      BY <2>1, <2>4 DEF Reply
    <2> QED BY <2>2, <2>3, <2>4
  <1>4. streaming' \in BOOLEAN
    BY <1>1
  <1> HIDE DEF m
  <1>5. /\ k.inbox \o Reply(m) \in Seq(Inbound)
        /\ Len(k.inbox \o Reply(m)) = Len(k.inbox) + Len(Reply(m))
    BY <1>2, <1>3, Concatenation DEF ConnType
  <1>6. Tail(k.outbox) \in Seq(Frame)
    BY <1>1, <1>2, HeadAndTail DEF ConnType
  <1>7. /\ r \in ConnType /\ r.epoch = k.epoch /\ r.outbox = Tail(k.outbox)
        /\ r.inbox = k.inbox \o Reply(m) /\ r.shut = k.shut
    BY Zenon, <1>2, <1>5, <1>6 DEF ConnType
  <1> HIDE DEF r
  <1>8. WellFormed(r)
    <2>1. Len(r.inbox) <= Buffer
      BY <1>1, <1>5, <1>7
    <2> HIDE DEF k
    <2> QED BY Zenon, <1>1, <1>2, <1>7, <2>1, FrameTakenSound
  <1> QED BY Zenon, <1>1, <1>4, <1>7, <1>8, AgentChanges

\* The agent's own messages.
LEMMA AgentSendsKeeps ==
    ASSUME TransportInv, agent_sends
    PROVE  TransportInv'
  <1>1. PICK m \in AgentMessages : conn' = [conn EXCEPT ![agent].inbox = Append(@, m)]
    BY Zenon DEF agent_sends
  <1> DEFINE k == conn[agent]
             r == [k EXCEPT !.inbox = Append(@, m)]
  <1>2. /\ agent # 0 /\ Len(k.inbox) < Buffer /\ conn' = [conn EXCEPT ![agent] = r]
        /\ agent' = agent /\ streaming' = streaming
        /\ UNCHANGED <<transportVars, keyVars, timeVars, threadVars, sendVars,
                       sock, accepted>>
    BY Zenon, <1>1 DEF agent_sends, agentVars
  <1>3. k \in ConnType /\ WellFormed(k) /\ m \in Inbound /\ streaming' \in BOOLEAN
    BY <1>2, AgentReads, MessagesAssumption
       DEF Inbound, TransportInv, TransportTypes, FlagTypes
  <1>4. /\ Append(k.inbox, m) \in Seq(Inbound) /\ Len(k.inbox) \in Nat
        /\ Len(Append(k.inbox, m)) = Len(k.inbox) + 1
    BY <1>3, Appended, Lengths DEF ConnType
  <1>5. /\ r \in ConnType /\ r.epoch = k.epoch /\ r.outbox = k.outbox
        /\ r.inbox = Append(k.inbox, m) /\ r.shut = k.shut
    BY Zenon, <1>3, <1>4 DEF ConnType
  <1> HIDE DEF r
  <1>6. WellFormed(r)
    <2>1. Len(r.inbox) <= Buffer
      BY <1>2, <1>4, <1>5, BoundsAssumption
    <2> HIDE DEF k
    <2> QED BY <1>3, <1>5, <2>1, InboxStepSound
  <1> QED BY Zenon, <1>2, <1>3, <1>5, <1>6, AgentChanges

\* Every step of the agent.
LEMMA AgentKeeps ==
    ASSUME TransportInv, AgentStep
    PROVE  TransportInv'
  BY ConnectKeeps, DisconnectKeeps, HandleControlKeeps, AgentSendsKeeps DEF AgentStep

\* Time passes.
LEMMA TickKeeps ==
    ASSUME TransportInv, Tick
    PROVE  TransportInv'
  <1>1. activity_age' \in 0..AgeCap' /\ lag' \in 0..MaxLag
    BY BoundsAssumption
       DEF Tick, Older, AgeCap, TransportInv, TransportTypes, FlagTypes
  <1> USE DEF Tick, transportVars, keyVars, threadVars, sendVars, agentVars, netVars
  <1>2. TransportTypes'
    BY <1>1 DEF TransportInv, TransportTypes, FlagTypes, ThreadTypes, NetTypes
  <1>3. ControlOwns'
    BY DEF TransportInv, ControlOwns
  <1>4. ConnectionsSound' /\ CallsKnow' /\ KeyWaitDiesWithConnection'
    BY Zenon DEF TransportInv, ConnectionsSound, Connections, CallsKnow,
           KeyWaitDiesWithConnection
  <1> QED BY <1>2, <1>3, <1>4 DEF TransportInv

(***************************************************************************)
(* The theorems                                                            *)
(***************************************************************************)
\* agent_transport_init establishes the invariant, whether or not the stream is
\* requested beforehand.
LEMMA InitEstablishes ==
    ASSUME NEW requested \in BOOLEAN, InitWith(requested)
    PROVE  TransportInv
  <1>1. /\ Returned(FALSE) \in CallType /\ Returned(FALSE).step = "returned"
        /\ Control("accept", NoFd, 0, FALSE) \in ControlType
    BY DEF Returned, CallType, Control, ControlType
  <1>2. /\ conn \in Seq(ConnType) /\ Len(conn) = 0 /\ Connections = {}
    BY EmptyOrNot DEF InitWith, Connections
  <1>3. TransportTypes
    <2>1. FlagTypes
      <3>1. activity_age \in 0..AgeCap /\ lag \in 0..MaxLag /\ calls \in Nat
        BY BoundsAssumption DEF InitWith, AgeCap
      <3>2. waiting_key \in {0, 1} /\ wait_conn \in Nat
        BY DEF InitWith
      <3>3. /\ stopping \in BOOLEAN /\ stream_requested \in BOOLEAN
            /\ supports_key_ack \in BOOLEAN /\ heartbeat_timed_out \in BOOLEAN
            /\ key_ack_received \in BOOLEAN /\ streaming \in BOOLEAN
        BY Zenon DEF InitWith
      <3> QED BY <3>1, <3>2, <3>3 DEF FlagTypes
    <2>2. ThreadTypes
      BY Zenon, <1>1 DEF InitWith, ThreadTypes
    <2>3. NetTypes
      BY <1>2 DEF InitWith, NetTypes
    <2> QED BY <2>1, <2>2, <2>3 DEF TransportTypes
  <1>4. ControlOwns
    BY DEF InitWith, ControlOwns, Control
  <1>5. ConnectionsSound
    BY <1>2 DEF ConnectionsSound
  <1>6. CallsKnow
    BY Zenon, <1>1 DEF InitWith, CallsKnow
  <1>7. KeyWaitDiesWithConnection
    BY DEF InitWith, KeyWaitDiesWithConnection
  <1> QED BY <1>3, <1>4, <1>5, <1>6, <1>7 DEF TransportInv

\* Every step of the transport's threads, its callers and the agent.
LEMMA NextKeeps ==
    ASSUME TransportInv, [Next]_vars
    PROVE  TransportInv'
  <1>1. CASE ControlStep
    BY <1>1, ControlKeeps
  <1>2. CASE MainStep
    <2>1. CASE read_clock
      BY <2>1, ReadClockKeeps
    <2>2. CASE heartbeat
      BY <2>2, HeartbeatKeeps
    <2>3. CASE event_delivered
      BY <2>3, TransportUnchanged DEF event_delivered
    <2>4. CASE agent_transport_shutdown("idle")
      BY <2>4, ShutdownKeeps
    <2>5. CASE agent_transport_destroy
      BY <2>5, DestroyKeeps
    <2> QED BY <1>2, <2>1, <2>2, <2>3, <2>4, <2>5 DEF MainStep
  <1>3. ASSUME NEW t \in Threads, SendStep(t)
        PROVE  TransportInv'
    BY <1>3, SendForEpochKeeps, ProtocolSendKeeps DEF SendStep
  <1>4. ASSUME NEW t \in Callers, CallerStep(t)
        PROVE  TransportInv'
    <2>1. t \in Threads /\ calls' \in Nat /\ "KEY" \in MessageTypes
      BY <1>4 DEF Threads, CallerStep, MessageTypes, TransportInv, TransportTypes, FlagTypes
    <2>2. CASE \E requested \in BOOLEAN : agent_transport_set_stream_requested(t, requested)
      BY <2>1, <2>2, SetStreamKeeps
    <2>3. CASE agent_transport_begin_key_ack(t)
      BY <2>1, <2>3, BeginKeyAckKeeps
    <2>4. CASE agent_transport_send(t, "KEY")
      BY <2>1, <2>4, SendKeeps
    <2> QED BY <1>4, <2>2, <2>3, <2>4 DEF CallerStep
  <1>5. CASE AgentStep
    BY <1>5, AgentKeeps
  <1>6. CASE Tick
    BY <1>6, TickKeeps
  <1>7. CASE UNCHANGED vars
    BY <1>7, TransportUnchanged DEF vars, threadVars
  <1> QED
    BY <1>1, <1>2, <1>3, <1>4, <1>5, <1>6, <1>7 DEF Next

\* TransportInv holds in every reachable state.
LEMMA TransportInvariant == Spec => []TransportInv
  <1>1. Init => TransportInv
    BY Zenon, InitEstablishes DEF Init
  <1>2. TransportInv /\ [Next]_vars => TransportInv'
    BY NextKeeps
  <1> QED
    BY <1>1, <1>2, PTL DEF Spec

\* The state of struct AgentTransport, of its threads and of the sockets stays
\* within its types; in particular no socket buffer overflows and no descriptor
\* names a connection that was not accepted.
THEOREM TransportTypeCorrect == Spec => []TypeOK
  <1> DEFINE MainType == main \in {"idle", "heartbeat", "event", "stopping", "destroyed"}
  <1>1. Init => MainType
    BY DEF Init, InitWith
  <1>2. MainType /\ [Next]_vars => MainType'
    <2> SUFFICES ASSUME MainType, [Next]_vars PROVE MainType'
      OBVIOUS
    <2>1. CASE ControlStep
      BY Zenon, <2>1
         DEF ControlStep, accept_pending, ReceiveHello, HelloTimesOut, publish, send_start,
             handle_message, check_current, leave_run, receive_fails, control_exits
    <2>2. CASE MainStep
      BY <2>2
         DEF MainStep, read_clock, heartbeat, event_delivered, agent_transport_shutdown,
             agent_transport_destroy
    <2>3. CASE \E t \in Threads : SendStep(t)
      BY Zenon, <2>3 DEF SendStep, send_for_epoch, protocol_send, threadVars
    <2>4. CASE \E t \in Callers : CallerStep(t)
      BY <2>4
         DEF CallerStep, agent_transport_set_stream_requested, agent_transport_send,
             agent_transport_begin_key_ack
    <2>5. CASE AgentStep
      BY Zenon, <2>5
         DEF AgentStep, connect_control, disconnect_control, handle_control, agent_sends,
             threadVars
    <2>6. CASE Tick
      BY <2>6 DEF Tick, threadVars
    <2>7. CASE UNCHANGED vars
      BY <2>7 DEF vars, threadVars
    <2> QED BY <2>1, <2>2, <2>3, <2>4, <2>5, <2>6, <2>7 DEF Next
  <1>3. TransportInv /\ MainType => TypeOK
    <2> SUFFICES ASSUME TransportInv, MainType PROVE TypeOK
      OBVIOUS
    <2>1. {stopping, stream_requested, supports_key_ack, heartbeat_timed_out,
           key_ack_received, streaming} \subseteq BOOLEAN
      BY DEF TransportInv, TransportTypes, FlagTypes
    <2>2. /\ fd \in Fds \cup {NoFd} /\ pending_fd \in Fds \cup {NoFd} /\ epoch \in Nat
          /\ accepted \in Nat /\ agent \in Nat /\ sock \in [Fds -> 0..accepted]
      BY DEF TransportInv, TransportTypes, NetTypes
    <2>3. /\ calls \in Nat /\ waiting_key \in {0, 1} /\ wait_conn \in Nat
          /\ activity_age \in 0..AgeCap /\ lag \in 0..MaxLag
      BY DEF TransportInv, TransportTypes, FlagTypes
    <2>4. /\ send_lock \in Threads \cup {"nobody"} /\ call \in [Threads -> CallType]
          /\ control.pc \in {"accept", "hello", "start", "run", "check", "exit"}
      BY DEF TransportInv, TransportTypes, ThreadTypes, ControlType
    <2>5. \A c \in Connections : /\ Len(conn[c].inbox) <= Buffer
                                  /\ Len(conn[c].outbox) <= Buffer + 1
      BY DEF TransportInv, ConnectionsSound, WellFormed
    <2> QED BY <2>1, <2>2, <2>3, <2>4, <2>5 DEF TypeOK
  <1> QED
    BY <1>1, <1>2, <1>3, TransportInvariant, PTL DEF Spec

\* A key wait never outlives the connection it was begun on, whichever of publish,
\* leave_run and the callers of begin_key_ack get the lock first.
THEOREM KeyWaitSafe == Spec => []KeyWaitDiesWithConnection
  <1>1. TransportInv => KeyWaitDiesWithConnection
    BY DEF TransportInv
  <1> QED
    BY <1>1, TransportInvariant, PTL

\* The state predicates that TransportInv implies, for any specification whose
\* steps keep it.
LEMMA TransportSafety ==
    ASSUME TransportInv
    PROVE  SendsStayInEpoch /\ NothingFollowsTornFrame /\ DescriptorsClosedAtExit
  <1>1. SendsStayInEpoch /\ NothingFollowsTornFrame
    BY DEF TransportInv, ConnectionsSound, WellFormed, SendsStayInEpoch,
           NothingFollowsTornFrame
  <1>2. DescriptorsClosedAtExit
    BY NoFdIsNone DEF TransportInv, ControlOwns, DescriptorsClosedAtExit
  <1> QED BY <1>1, <1>2

(***************************************************************************)
(* The control link: the mapping                                           *)
(***************************************************************************)
\* A connection as ControlLink sees it.
WireOf(k) ==
    [frames |-> IF k.outbox # <<>> /\ k.outbox[Len(k.outbox)].type = "torn"
                THEN SubSeq(k.outbox, 1, Len(k.outbox) - 1)
                ELSE k.outbox,
     epoch |-> k.epoch,
     open |-> ~k.shut /\ ~k.hung_up]

WireType == [frames : Seq(Frame), epoch : Nat, open : BOOLEAN]

LinkWires == [c \in Connections |-> WireOf(conn[c])]

LinkCurrent == IF fd = NoFd THEN 0 ELSE sock[fd]

Shortened(w, c) == [w EXCEPT ![c] = [w[c] EXCEPT !.open = FALSE]]

LinkStep == [Link!LinkNext]_(Link!linkVars)

\* What WireOf makes of a connection.
LEMMA WireTyped ==
    ASSUME NEW k \in ConnType
    PROVE  WireOf(k) \in WireType
  <1>1. k.outbox \in Seq(Frame) /\ k.epoch \in Nat
    BY DEF ConnType
  <1>2. k.outbox # <<>> => SubSeq(k.outbox, 1, Len(k.outbox) - 1) \in Seq(Frame)
    BY <1>1, PartOf, Lengths, EmptyOrNot
  <1>3. (~k.shut /\ ~k.hung_up) \in BOOLEAN
    OBVIOUS
  <1> QED
    BY <1>1, <1>2, <1>3 DEF WireOf, WireType

\* The connections as a whole.
LEMMA WiresTyped ==
    ASSUME TransportInv
    PROVE  /\ LinkWires \in [Connections -> WireType]
           /\ \A c \in Connections : LinkWires[c] = WireOf(conn[c])
           /\ 0 \notin Connections
  <1>1. \A c \in Connections : conn[c] \in ConnType
    BY Element DEF TransportInv, TransportTypes, NetTypes, Connections
  <1>2. \A c \in Connections : WireOf(conn[c]) \in WireType
    BY <1>1, WireTyped
  <1>3. 0 \notin Connections
    BY DEF Connections
  <1> QED BY <1>2, <1>3 DEF LinkWires

\* A step that changes one connection changes one wire.
LEMMA OneWireChanged ==
    ASSUME TransportInv, NEW c \in Connections, NEW r \in ConnType,
           conn' = [conn EXCEPT ![c] = r]
    PROVE  LinkWires' = [LinkWires EXCEPT ![c] = WireOf(r)]
  <1>1. /\ Len(conn') = Len(conn) /\ conn'[c] = r
        /\ \A d \in Connections : d # c => conn'[d] = conn[d]
    BY OneChanged DEF TransportInv, TransportTypes, NetTypes, Connections
  <1>2. Connections' = Connections
    BY <1>1 DEF Connections
  <1>3. LinkWires' = [d \in Connections |-> WireOf(conn'[d])]
    BY <1>2 DEF LinkWires
  <1>4. \A d \in Connections :
          WireOf(conn'[d]) = IF d = c THEN WireOf(r) ELSE WireOf(conn[d])
    BY <1>1
  <1> QED BY Zenon, <1>3, <1>4 DEF LinkWires

\* Steps that the link does not see.
LEMMA LinkStutters ==
    ASSUME LinkWires' = LinkWires, LinkCurrent' = LinkCurrent, agent' = agent,
           epoch' = epoch
    PROVE  LinkStep
  BY Zenon DEF LinkStep, Link!linkVars, LinkWires, LinkCurrent, WireOf, WholeFrames

\* Cutting one connection, or none.
LEMMA CutOne ==
    ASSUME TransportInv, NEW c
    PROVE  LET cut == [d \in Connections |->
                         [LinkWires[d] EXCEPT !.open = @ /\ d \notin {c}]]
           IN  /\ c \in Connections => cut = Shortened(LinkWires, c)
               /\ c \notin Connections => cut = LinkWires
  <1>1. LinkWires \in [Connections -> WireType]
    BY WiresTyped
  <1>2. \A d \in Connections : d # c =>
          [LinkWires[d] EXCEPT !.open = @ /\ d \notin {c}] = LinkWires[d]
    BY <1>1 DEF WireType
  <1>3. c \in Connections =>
          [LinkWires[c] EXCEPT !.open = @ /\ c \notin {c}] = [LinkWires[c] EXCEPT !.open = FALSE]
    BY Zenon, <1>1 DEF WireType
  <1> QED BY Zenon, <1>1, <1>2, <1>3 DEF Shortened

\* A connection is lost.
LEMMA LinkLoses ==
    ASSUME TransportInv, NEW c \in Connections, LinkWires' = Shortened(LinkWires, c),
           LinkCurrent' = LinkCurrent, agent' = agent, epoch' = epoch
    PROVE  LinkStep
  <1>1. LinkWires' = [d \in Connections |->
                        [LinkWires[d] EXCEPT !.open = @ /\ d \notin {c}]]
    BY CutOne
  <1>2. Link!Lose
    <2>1. {c} \in SUBSET Connections /\ DOMAIN LinkWires = Connections
      BY WiresTyped
    <2>2. Link!Cut(LinkWires, {c}) = [d \in Connections |->
                        [LinkWires[d] EXCEPT !.open = @ /\ d \notin {c}]]
      BY <2>1 DEF Link!Cut
    <2>3. LinkWires' = Link!Cut(LinkWires, {c})
      BY <1>1, <2>2
    <2>4. \E lost \in SUBSET Connections : LinkWires' = Link!Cut(LinkWires, lost)
      BY <2>1, <2>3
    <2> QED
      BY Zenon, <2>1, <2>4 DEF Link!Lose, Link!Wires, LinkWires, LinkCurrent, WireOf, WholeFrames
  <1> QED BY <1>2 DEF LinkStep, Link!LinkNext

\* A connection is published while none is.
LEMMA LinkPublishes ==
    ASSUME TransportInv, NEW c \in Connections, conn[c].epoch = 0, LinkCurrent = 0,
           epoch' = epoch + 1,
           LinkWires' = [LinkWires EXCEPT ![c] = [LinkWires[c] EXCEPT !.epoch = epoch']],
           LinkCurrent' = c, agent' = agent
    PROVE  LinkStep
  <1>1. /\ DOMAIN LinkWires = Connections /\ 0 \notin Connections
        /\ LinkWires[c] = WireOf(conn[c]) /\ LinkWires[c].epoch = 0
    BY WiresTyped DEF WireOf
  <1>2. Link!Cut(LinkWires, {LinkCurrent}) = LinkWires
    BY <1>1, CutOne DEF Link!Cut
  <1>3. LinkWires' = [Link!Cut(LinkWires, {LinkCurrent}) EXCEPT ![c].epoch = epoch']
    BY Zenon, <1>2
  <1>4. Link!Publish(c)
    BY Zenon, <1>1, <1>3
       DEF Link!Publish, Link!Published, LinkWires, LinkCurrent, WireOf, WholeFrames
  <1>5. c \in Link!Wires
    BY <1>1 DEF Link!Wires, LinkWires, WireOf, WholeFrames
  <1> QED BY <1>4, <1>5 DEF LinkStep, Link!LinkNext

\* The published connection is given up.
LEMMA LinkRetires ==
    ASSUME TransportInv, LinkCurrent \in Connections,
           LinkWires' = Shortened(LinkWires, LinkCurrent), LinkCurrent' = 0,
           agent' = agent, epoch' = epoch
    PROVE  LinkStep
  <1>1. DOMAIN LinkWires = Connections /\ 0 \notin Connections
    BY WiresTyped
  <1>2. LinkWires' = Link!Cut(LinkWires, {LinkCurrent})
    BY <1>1, CutOne DEF Link!Cut
  <1>3. Link!Retire
    BY Zenon, <1>1, <1>2 DEF Link!Retire, LinkWires, LinkCurrent, WireOf, WholeFrames
  <1> QED BY <1>3 DEF LinkStep, Link!LinkNext

\* A whole frame is handed to an open connection in the connection's own epoch.
LEMMA LinkSends ==
    ASSUME TransportInv, NEW c \in Connections, NEW m \in MessageTypes,
           LinkWires[c].open, LinkWires[c].epoch # 0,
           LinkWires' = [LinkWires EXCEPT ![c] = [LinkWires[c] EXCEPT !.frames =
                           Append(@, [type |-> m, epoch |-> LinkWires[c].epoch])]],
           LinkCurrent' = LinkCurrent, agent' = agent, epoch' = epoch
    PROVE  LinkStep
  <1>1. DOMAIN LinkWires = Connections
    BY WiresTyped
  <1>2. LinkWires' = [LinkWires EXCEPT ![c].frames =
                        Append(@, [type |-> m, epoch |-> LinkWires[c].epoch])]
    OBVIOUS
  <1>3. Link!Send(c, m)
    BY Zenon, <1>1, <1>2
       DEF Link!Send, Link!Published, LinkWires, LinkCurrent, WireOf, WholeFrames
  <1>4. c \in Link!Wires
    BY Zenon, <1>1 DEF Link!Wires, LinkWires, WireOf, WholeFrames
  <1> QED BY <1>3, <1>4 DEF LinkStep, Link!LinkNext

\* The agent takes the first whole frame of its connection.
LEMMA LinkTakes ==
    ASSUME TransportInv, agent \in Connections, LinkWires[agent].frames # <<>>,
           LinkWires' = [LinkWires EXCEPT ![agent] =
                           [LinkWires[agent] EXCEPT !.frames = Tail(@)]],
           LinkCurrent' = LinkCurrent, agent' = agent, epoch' = epoch
    PROVE  LinkStep
  <1>1. 0 \notin Connections
    BY WiresTyped
  <1>2. LinkWires' = [LinkWires EXCEPT ![agent].frames = Tail(@)]
    OBVIOUS
  <1>3. Link!Take
    BY Zenon, <1>1, <1>2 DEF Link!Take, LinkWires, LinkCurrent, WireOf, WholeFrames
  <1> QED BY <1>3 DEF LinkStep, Link!LinkNext

\* The agent leaves its connection.
LEMMA LinkLeaves ==
    ASSUME TransportInv, agent \in Connections,
           LinkWires' = [LinkWires EXCEPT ![agent] =
                           [LinkWires[agent] EXCEPT !.open = FALSE, !.frames = <<>>]],
           LinkCurrent' = LinkCurrent, agent' = 0, epoch' = epoch
    PROVE  LinkStep
  <1>1. DOMAIN LinkWires = Connections /\ 0 \notin Connections
    BY WiresTyped
  <1>2. Link!Cut(LinkWires, {agent}) = Shortened(LinkWires, agent)
    BY <1>1, CutOne DEF Link!Cut
  <1>3. LinkWires' = [Link!Cut(LinkWires, {agent}) EXCEPT ![agent].frames = <<>>]
    BY Zenon, <1>1, <1>2 DEF Shortened
  <1>4. Link!Leave
    BY Zenon, <1>1, <1>3 DEF Link!Leave, LinkWires, LinkCurrent, WireOf, WholeFrames
  <1> QED BY <1>4 DEF LinkStep, Link!LinkNext

\* The agent makes a new connection.
LEMMA LinkConnects ==
    ASSUME LinkWires' = Append(LinkWires, [frames |-> <<>>, epoch |-> 0, open |-> TRUE]),
           agent = 0, agent' = Len(LinkWires'), LinkCurrent' = LinkCurrent,
           epoch' = epoch
    PROVE  LinkStep
  <1>1. Link!Connect
    BY Zenon DEF Link!Connect, Link!NewWire, LinkWires, LinkCurrent, WireOf, WholeFrames
  <1> QED BY <1>1 DEF LinkStep, Link!LinkNext

(***************************************************************************)
(* The control link: every step implements a step of it or a stutter       *)
(***************************************************************************)
\* Most steps change neither a connection nor which of them is published.
LEMMA QuietStepRefines ==
    ASSUME UNCHANGED <<fd, epoch, sock, conn, agent>>
    PROVE  LinkStep
  <1>1. LinkWires' = LinkWires /\ LinkCurrent' = LinkCurrent
    BY DEF LinkWires, LinkCurrent, Connections
  <1> QED BY <1>1, LinkStutters

\* The link does not see the inbox.
LEMMA WireSame ==
    ASSUME NEW k \in ConnType, NEW r \in ConnType, r.outbox = k.outbox,
           r.epoch = k.epoch, r.shut = k.shut, r.hung_up = k.hung_up
    PROVE  WireOf(r) = WireOf(k)
  BY DEF WireOf

\* Two wires with the same frames, epoch and state are one.
LEMMA WireEqual ==
    ASSUME NEW x \in WireType, NEW y \in WireType,
           x.frames = y.frames, x.epoch = y.epoch, x.open = y.open
    PROVE  x = y
  BY DEF WireType

\* shutdown() and close() end a connection and leave its frames.
LEMMA WireShut ==
    ASSUME NEW k \in ConnType, NEW r \in ConnType, r.outbox = k.outbox,
           r.epoch = k.epoch, r.shut = TRUE
    PROVE  WireOf(r) = [WireOf(k) EXCEPT !.open = FALSE]
  <1> DEFINE w == [WireOf(k) EXCEPT !.open = FALSE]
  <1>1. WireOf(r) \in WireType /\ WireOf(k) \in WireType
    BY WireTyped
  <1>2. /\ w \in WireType /\ w.frames = WireOf(k).frames /\ w.epoch = WireOf(k).epoch
        /\ w.open = FALSE
    BY Zenon, <1>1 DEF WireType
  <1>3. /\ WireOf(r).frames = WireOf(k).frames /\ WireOf(r).epoch = WireOf(k).epoch
        /\ WireOf(r).open = FALSE
    BY Zenon DEF WireOf
  <1> HIDE DEF w
  <1>4. WireOf(r) = w
    BY Zenon, <1>1, <1>2, <1>3, WireEqual
  <1> QED BY <1>4 DEF w

\* A connection is shut down and nothing else changes that the link sees.
LEMMA ShutRefines ==
    ASSUME TransportInv, NEW c \in Connections, NEW r \in ConnType,
           r.outbox = conn[c].outbox, r.epoch = conn[c].epoch, r.shut = TRUE,
           conn' = [conn EXCEPT ![c] = r]
    PROVE  LinkWires' = Shortened(LinkWires, c)
  <1>1. conn[c] \in ConnType
    BY Element DEF TransportInv, TransportTypes, NetTypes, Connections
  <1>2. WireOf(r) = [WireOf(conn[c]) EXCEPT !.open = FALSE]
    BY Zenon, <1>1, WireShut
  <1>3. LinkWires' = [LinkWires EXCEPT ![c] = WireOf(r)]
    BY Zenon, OneWireChanged
  <1>4. LinkWires[c] = WireOf(conn[c])
    BY WiresTyped
  <1> QED BY <1>2, <1>3, <1>4 DEF Shortened

\* shutdown() on a descriptor: a connection is lost, or none is there.
LEMMA ShutDownRefines ==
    ASSUME TransportInv, NEW f \in Fds \cup {NoFd}, conn' = ShutDown(conn, f),
           UNCHANGED <<fd, epoch, sock, agent>>
    PROVE  LinkStep
  <1>1. CASE f = NoFd \/ sock[f] = 0
    BY <1>1, QuietStepRefines DEF ShutDown
  <1>2. CASE ~(f = NoFd \/ sock[f] = 0)
    <2> DEFINE c == sock[f]
               r == [conn[c] EXCEPT !.shut = TRUE]
    <2>1. c \in Connections
      BY <1>2, Lengths DEF TransportInv, TransportTypes, NetTypes, Connections
    <2>2. conn[c] \in ConnType
      BY <2>1, Element DEF TransportInv, TransportTypes, NetTypes, Connections
    <2>3. conn' = [conn EXCEPT ![c] = r]
      BY <1>2 DEF ShutDown
    <2>4. /\ r \in ConnType /\ r.outbox = conn[c].outbox /\ r.epoch = conn[c].epoch
          /\ r.shut = TRUE
      BY Zenon, <2>2 DEF ConnType
    <2>5. LinkCurrent' = LinkCurrent
      BY DEF LinkCurrent
    <2> HIDE DEF c, r
    <2>6. LinkWires' = Shortened(LinkWires, c)
      BY Zenon, <2>1, <2>3, <2>4, ShutRefines
    <2> QED BY <2>1, <2>5, <2>6, LinkLoses
  <1> QED BY <1>1, <1>2

\* close(): the same connection is lost.
LEMMA CloseRefines ==
    ASSUME TransportInv, NEW f \in Fds, sock[f] # 0, Close(f)
    PROVE  sock[f] \in Connections /\ LinkWires' = Shortened(LinkWires, sock[f])
  <1> DEFINE c == sock[f]
             r == [conn[c] EXCEPT !.shut = TRUE, !.inbox = <<>>]
  <1>1. c \in Connections
    BY Lengths DEF TransportInv, TransportTypes, NetTypes, Connections
  <1>2. conn[c] \in ConnType
    BY <1>1, Element DEF TransportInv, TransportTypes, NetTypes, Connections
  <1>3. conn' = [conn EXCEPT ![c] = r]
    BY Zenon DEF Close
  <1>4. /\ r \in ConnType /\ r.outbox = conn[c].outbox /\ r.epoch = conn[c].epoch
        /\ r.shut = TRUE
    BY Zenon, <1>2, EmptyOrNot DEF ConnType
  <1> HIDE DEF r
  <1>5. LinkWires' = Shortened(LinkWires, c)
    BY Zenon, <1>1, <1>3, <1>4, ShutRefines
  <1> QED BY <1>1, <1>5

\* agent_transport_accept, first half.
LEMMA AcceptRefines ==
    ASSUME TransportInv, accept_pending
    PROVE  LinkStep
  <1>1. /\ control.pc = "accept" /\ accepted < Len(conn) /\ accepted' = accepted + 1
        /\ UNCHANGED <<fd, epoch, agent>>
    BY DEF accept_pending, agentVars
  <1>2. fd = NoFd /\ LinkCurrent = 0 /\ LinkCurrent' = 0
    BY Zenon, <1>1 DEF TransportInv, ControlOwns, LinkCurrent
  <1>3. conn' = conn \/ conn' = [conn EXCEPT ![accepted'].shut = TRUE]
    BY Zenon DEF accept_pending
  <1>4. CASE conn' = conn
    BY <1>1, <1>2, <1>4, LinkStutters DEF LinkWires, Connections
  <1>5. CASE conn' = [conn EXCEPT ![accepted'].shut = TRUE]
    <2> DEFINE c == accepted'
               r == [conn[c] EXCEPT !.shut = TRUE]
    <2>1. c \in Connections
      BY <1>1, Lengths DEF TransportInv, TransportTypes, NetTypes, Connections
    <2>2. conn[c] \in ConnType /\ conn' = [conn EXCEPT ![c] = r]
      BY <1>5, <2>1, Element DEF TransportInv, TransportTypes, NetTypes, Connections
    <2>3. /\ r \in ConnType /\ r.outbox = conn[c].outbox /\ r.epoch = conn[c].epoch
          /\ r.shut = TRUE
      BY Zenon, <2>2 DEF ConnType
    <2> HIDE DEF c, r
    <2>4. LinkWires' = Shortened(LinkWires, c)
      BY Zenon, <2>1, <2>2, <2>3, ShutRefines
    <2> QED BY <1>1, <1>2, <2>1, <2>4, LinkLoses
  <1> QED BY <1>3, <1>4, <1>5

\* agent_transport_accept, second half: the connection is published or lost.
LEMMA PublishRefines ==
    ASSUME TransportInv, control.pc = "hello", NEW hello,
           MayPublish(hello) => conn[sock[control.fd]].inbox # <<>>,
           publish(hello)
    PROVE  LinkStep
  <1> DEFINE c == sock[control.fd]
             r == [conn[c] EXCEPT !.inbox = Tail(@), !.epoch = epoch']
  <1>1. /\ fd = NoFd /\ control.fd \in Fds /\ c # 0 /\ conn[c].epoch = 0 /\ agent' = agent
        /\ LinkCurrent = 0
    BY DEF TransportInv, ControlOwns, publish, agentVars, LinkCurrent
  <1>2. c \in Connections
    BY <1>1, Lengths DEF TransportInv, TransportTypes, NetTypes, Connections
  <1>3. conn[c] \in ConnType
    BY <1>2, Element DEF TransportInv, TransportTypes, NetTypes, Connections
  <1>4. CASE MayPublish(hello)
    <2>1. /\ fd' = control.fd /\ epoch' = epoch + 1 /\ sock' = sock
          /\ conn' = [conn EXCEPT ![c] = r]
      BY Zenon, <1>1, <1>4 DEF publish, ShutDown
    <2>2. Tail(conn[c].inbox) \in Seq(Inbound) /\ epoch' \in Nat
      BY <1>3, <1>4, <2>1, HeadAndTail
         DEF ConnType, TransportInv, TransportTypes, NetTypes
    <2>3. /\ r \in ConnType /\ r.outbox = conn[c].outbox /\ r.epoch = epoch'
          /\ r.shut = conn[c].shut /\ r.hung_up = conn[c].hung_up
      BY Zenon, <1>3, <2>2 DEF ConnType
    <2>4. LinkCurrent' = c
      BY <1>1, <2>1, NoFdIsNone DEF LinkCurrent
    <2> HIDE DEF c, r
    <2>5. WireOf(r) = [WireOf(conn[c]) EXCEPT !.epoch = epoch']
      BY <2>3 DEF WireOf
    <2>6. LinkWires[c] = WireOf(conn[c])
      BY <1>2, WiresTyped
    <2>7. LinkWires' = [LinkWires EXCEPT ![c] = WireOf(r)]
      BY Zenon, <1>2, <2>1, <2>3, OneWireChanged
    <2>8. LinkWires' = [LinkWires EXCEPT ![c] = [LinkWires[c] EXCEPT !.epoch = epoch']]
      BY <2>5, <2>6, <2>7
    <2> QED BY Zenon, <1>1, <1>2, <2>1, <2>4, <2>8, LinkPublishes
  <1>5. CASE ~MayPublish(hello)
    <2>1. Close(control.fd) /\ UNCHANGED <<fd, epoch>>
      BY <1>5 DEF publish
    <2>2. LinkCurrent' = 0
      BY <1>1, <2>1 DEF LinkCurrent
    <2>3. LinkWires' = Shortened(LinkWires, c)
      BY Zenon, <1>1, <2>1, CloseRefines
    <2> QED BY <1>1, <1>2, <2>1, <2>2, <2>3, LinkLoses
  <1> QED BY <1>4, <1>5

\* agent_transport_run reads a message, which the link does not see.
LEMMA HandleMessageRefines ==
    ASSUME TransportInv, handle_message
    PROVE  LinkStep
  <1> DEFINE c == sock[control.fd]
             r == [conn[c] EXCEPT !.inbox = Tail(@)]
  <1>1. /\ control.pc = "run" /\ conn[c].inbox # <<>> /\ conn' = [conn EXCEPT ![c] = r]
        /\ UNCHANGED <<fd, epoch, sock, agent>>
    BY DEF handle_message, transportVars, agentVars
  <1>2. c \in Connections /\ conn[c] \in ConnType
    BY <1>1, ControlReads
  <1>3. Tail(conn[c].inbox) \in Seq(Inbound)
    BY <1>1, <1>2, HeadAndTail DEF ConnType
  <1>4. /\ r \in ConnType /\ r.outbox = conn[c].outbox /\ r.epoch = conn[c].epoch
        /\ r.shut = conn[c].shut /\ r.hung_up = conn[c].hung_up
    BY Zenon, <1>2, <1>3 DEF ConnType
  <1>5. LinkCurrent' = LinkCurrent
    BY <1>1 DEF LinkCurrent
  <1> HIDE DEF c, r
  <1>6. WireOf(r) = WireOf(conn[c]) /\ LinkWires[c] = WireOf(conn[c])
        /\ LinkWires \in [Connections -> WireType]
    BY <1>2, <1>4, WireSame, WiresTyped
  <1>7. LinkWires' = [LinkWires EXCEPT ![c] = WireOf(r)]
    BY Zenon, <1>1, <1>2, <1>4, OneWireChanged
  <1>8. LinkWires' = LinkWires
    BY <1>6, <1>7
  <1> QED BY <1>1, <1>5, <1>8, LinkStutters

\* agent_transport_run gives up the connection it had published.
LEMMA LeaveRunRefines ==
    ASSUME TransportInv, control.pc \in {"run", "check"}, leave_run
    PROVE  LinkStep
  <1>1. /\ fd = control.fd /\ epoch = control.epoch /\ fd \in Fds /\ sock[fd] # 0
    BY DEF TransportInv, ControlOwns
  <1>2. fd' = NoFd /\ Close(fd) /\ epoch' = epoch /\ agent' = agent
    BY <1>1 DEF leave_run, agentVars
  <1>3. LinkCurrent = sock[fd] /\ LinkCurrent' = 0
    BY <1>1, <1>2, NoFdIsNone DEF LinkCurrent
  <1>4. sock[fd] \in Connections /\ LinkWires' = Shortened(LinkWires, sock[fd])
    BY Zenon, <1>1, <1>2, CloseRefines
  <1> QED BY <1>2, <1>3, <1>4, LinkRetires

\* Every step of the control thread.
LEMMA ControlRefines ==
    ASSUME TransportInv, ControlStep
    PROVE  LinkStep
  <1>1. CASE accept_pending
    BY <1>1, AcceptRefines
  <1>2. CASE ReceiveHello
    BY Zenon, <1>2, PublishRefines DEF ReceiveHello
  <1>3. CASE HelloTimesOut
    BY <1>3, PublishRefines DEF HelloTimesOut, MayPublish
  <1>4. CASE send_start
    BY <1>4, QuietStepRefines DEF send_start, transportVars, agentVars, netVars
  <1>5. CASE handle_message
    BY <1>5, HandleMessageRefines
  <1>6. CASE check_current
    <2>1. CASE leave_run
      BY <1>6, <2>1, LeaveRunRefines DEF check_current
    <2>2. CASE ~leave_run
      BY <1>6, <2>2, QuietStepRefines DEF check_current, transportVars, agentVars, netVars
    <2> QED BY <2>1, <2>2
  <1>7. CASE receive_fails
    BY <1>7, LeaveRunRefines DEF receive_fails
  <1>8. CASE control_exits
    BY <1>8, QuietStepRefines DEF control_exits, transportVars, agentVars, netVars
  <1> QED
    BY <1>1, <1>2, <1>3, <1>4, <1>5, <1>6, <1>7, <1>8 DEF ControlStep

\* The heartbeat drops a silent connection.
LEMMA HeartbeatRefines ==
    ASSUME TransportInv, heartbeat
    PROVE  LinkStep
  <1>1. /\ conn' = conn \/ conn' = ShutDown(conn, fd)
        /\ UNCHANGED <<fd, epoch, sock, agent>>
    BY DEF heartbeat, HeartbeatShutDown, agentVars
  <1>2. fd \in Fds \cup {NoFd}
    BY DEF TransportInv, TransportTypes, NetTypes
  <1> QED BY <1>1, <1>2, QuietStepRefines, ShutDownRefines

\* agent_transport_shutdown.
LEMMA ShutdownRefines ==
    ASSUME TransportInv, NEW from, agent_transport_shutdown(from)
    PROVE  LinkStep
  <1>1. PICK f \in Fds \cup {NoFd} : conn' = ShutDown(conn, f)
    BY ShutdownOne DEF agent_transport_shutdown, ShutdownBoth
  <1>2. UNCHANGED <<fd, epoch, sock, agent>>
    BY DEF agent_transport_shutdown, agentVars
  <1> QED BY <1>1, <1>2, ShutDownRefines

\* agent_transport_destroy.
LEMMA DestroyRefines ==
    ASSUME TransportInv, agent_transport_destroy
    PROVE  LinkStep
  <1>1. UNCHANGED <<fd, epoch, sock, conn, agent>>
    BY DestroyKeeps DEF agent_transport_destroy, agentVars
  <1> QED BY <1>1, QuietStepRefines

\* A frame is put behind the others.
LEMMA AppendOne ==
    ASSUME NEW S, NEW s \in Seq(S), NEW e \in S
    PROVE  /\ Append(s, e) \in Seq(S) /\ Len(Append(s, e)) = Len(s) + 1
           /\ Append(s, e)[Len(s) + 1] = e
           /\ Append(s, e) # <<>>
           /\ \A i \in 1..Len(s) : Append(s, e)[i] = s[i]
  <1>1. /\ Append(s, e) \in Seq(S) /\ Len(Append(s, e)) = Len(s) + 1
        /\ Append(s, e)[Len(s) + 1] = e
        /\ \A i \in 1..Len(s) : Append(s, e)[i] = s[i]
    BY Appended
  <1>2. Append(s, e) # <<>>
    BY Zenon, Appended
  <1> QED BY Zenon, <1>1, <1>2

\* What protocol_send does to the wire: an open connection takes the whole frame,
\* or is lost with the frames it had.
LEMMA WrittenWire ==
    ASSUME TransportInv, NEW t \in Threads, protocol_send(t)
    PROVE  LET c == call[t].conn
               w == WireOf(conn[c])
           IN  \/ /\ w.open /\ w.epoch # 0 /\ call[t].type \in MessageTypes
                  /\ WireOf(Written(t)) = [w EXCEPT !.frames =
                        Append(@, [type |-> call[t].type, epoch |-> w.epoch])]
               \/ WireOf(Written(t)) = [w EXCEPT !.open = FALSE]
  <1> DEFINE c == call[t].conn
             k == conn[c]
             r == Written(t)
             w == WireOf(k)
  <1>1. /\ k \in ConnType /\ WellFormed(k) /\ r \in ConnType /\ r.epoch = k.epoch
        /\ k.epoch = call[t].epoch /\ k.epoch # 0 /\ call[t].type \in MessageTypes
    BY Zenon, WriteSound
  <1>2. /\ k.outbox \in Seq(Frame) /\ Len(k.outbox) \in Nat
        /\ DOMAIN k.outbox = 1..Len(k.outbox)
    BY Zenon, <1>1, Lengths DEF ConnType
  <1>3. CASE ~k.shut /\ ~k.hung_up
    <2>1. w.frames = k.outbox /\ w.open = TRUE /\ w.epoch = k.epoch
      <3>1. ~(k.outbox # <<>> /\ k.outbox[Len(k.outbox)].type = "torn")
        <4>1. k.outbox # <<>> => Len(k.outbox) \in DOMAIN k.outbox
          BY <1>2, EmptyOrNot
        <4>2. \A i \in DOMAIN k.outbox : k.outbox[i].type # "torn"
          BY Zenon, <1>1, <1>3 DEF WellFormed
        <4> QED BY Zenon, <4>1, <4>2
      <3> QED BY Zenon, <1>3, <3>1 DEF WireOf
    <2>2. w \in WireType /\ WireOf(r) \in WireType
      BY Zenon, <1>1, WireTyped
    <2>3. CASE Len(k.outbox) < Buffer
      <3> DEFINE frame == [type |-> call[t].type, epoch |-> k.epoch]
                 out == Append(k.outbox, frame)
                 v == [w EXCEPT !.frames = out]
      <3>1. r = [k EXCEPT !.outbox = out]
        BY <1>1, <1>3, <2>3 DEF Written
      <3>2. /\ frame \in Frame /\ frame.type # "torn"
        BY Zenon, <1>1 DEF Frame, ConnType, MessageTypes
      <3> HIDE DEF frame
      <3>3. /\ out \in Seq(Frame) /\ Len(out) = Len(k.outbox) + 1
            /\ out[Len(out)] = frame
        <4>1. /\ out \in Seq(Frame) /\ Len(out) = Len(k.outbox) + 1
              /\ out[Len(k.outbox) + 1] = frame
          <5>1. k.outbox \in Seq(Frame) /\ frame \in Frame
            BY <1>2, <3>2
          <5> DEFINE s == k.outbox
          <5>2. s \in Seq(Frame)
            BY Zenon, <5>1
          <5> HIDE DEF s
          <5>3. /\ Append(s, frame) \in Seq(Frame) /\ Len(Append(s, frame)) = Len(s) + 1
                /\ Append(s, frame)[Len(s) + 1] = frame
            BY <5>1, <5>2, AppendOne
          <5> QED BY Zenon, <5>3 DEF s
        <4> HIDE DEF out
        <4> QED BY <4>1
      <3> HIDE DEF out
      <3>4. r.outbox = out /\ r.epoch = k.epoch /\ r.shut = k.shut /\ r.hung_up = k.hung_up
        BY <1>1, <3>1, <3>3 DEF ConnType
      <3>5. WireOf(r).frames = out /\ WireOf(r).epoch = k.epoch /\ WireOf(r).open = TRUE
        BY Zenon, <1>3, <3>2, <3>3, <3>4 DEF WireOf
      <3>6. v \in WireType /\ v.frames = out /\ v.epoch = k.epoch /\ v.open = TRUE
        BY <2>1, <2>2, <3>3 DEF WireType
      <3> HIDE DEF w, v, r
      <3>7. WireOf(r) = v
        BY Zenon, <2>2, <3>5, <3>6, WireEqual
      <3>8. v = [w EXCEPT !.frames = Append(@, [type |-> call[t].type, epoch |-> w.epoch])]
        BY <2>1 DEF v, out, frame
      <3>9. w.open /\ w.epoch # 0
        BY Zenon, <1>1, <2>1
      <3> QED BY Zenon, <1>1, <3>7, <3>8, <3>9 DEF w, r
    <2>4. CASE ~(Len(k.outbox) < Buffer)
      <3> DEFINE frame == [type |-> "torn", epoch |-> 0]
                 out == Append(k.outbox, frame)
                 v == [w EXCEPT !.open = FALSE]
      <3>1. r = [k EXCEPT !.shut = TRUE, !.outbox = out]
        BY <1>3, <2>4 DEF Written
      <3>2. frame \in Frame /\ frame.type = "torn"
        BY DEF Frame
      <3> HIDE DEF frame
      <3>3. /\ out \in Seq(Frame) /\ Len(out) = Len(k.outbox) + 1 /\ out # <<>>
            /\ out[Len(out)] = frame
            /\ \A i \in 1..Len(k.outbox) : out[i] = k.outbox[i]
        <4>1. /\ out \in Seq(Frame) /\ Len(out) = Len(k.outbox) + 1 /\ out # <<>>
              /\ out[Len(k.outbox) + 1] = frame
              /\ \A i \in 1..Len(k.outbox) : out[i] = k.outbox[i]
          <5>1. k.outbox \in Seq(Frame) /\ frame \in Frame
            BY Zenon, <1>2, <3>2
          <5> DEFINE s == k.outbox
          <5>2. s \in Seq(Frame)
            BY Zenon, <5>1
          <5> HIDE DEF s
          <5>3. /\ Append(s, frame) \in Seq(Frame) /\ Len(Append(s, frame)) = Len(s) + 1
                /\ Append(s, frame) # <<>> /\ Append(s, frame)[Len(s) + 1] = frame
                /\ \A i \in 1..Len(s) : Append(s, frame)[i] = s[i]
            BY <5>1, <5>2, AppendOne
          <5> QED BY Zenon, <5>3 DEF s
        <4> HIDE DEF out
        <4> QED BY Zenon, <4>1
      <3> HIDE DEF out
      <3>4. r.outbox = out /\ r.epoch = k.epoch /\ r.shut = TRUE
        BY <1>1, <3>1, <3>3 DEF ConnType
      <3>5. SubSeq(out, 1, Len(out) - 1) = k.outbox
        <4>1. /\ SubSeq(out, 1, Len(k.outbox)) \in Seq(Frame)
              /\ Len(SubSeq(out, 1, Len(k.outbox))) = Len(k.outbox)
              /\ \A i \in 1..Len(k.outbox) : SubSeq(out, 1, Len(k.outbox))[i] = out[i]
          BY <1>2, <3>3, PartOf
        <4>2. SubSeq(out, 1, Len(k.outbox)) = k.outbox
          BY Zenon, <1>2, <3>3, <4>1, SameElements
        <4>3. Len(k.outbox) \in Nat
          BY <1>2
        <4>4. Len(out) - 1 = Len(k.outbox)
          BY <3>3, <4>3
        <4> QED BY <4>2, <4>4
      <3>6. WireOf(r).frames = k.outbox /\ WireOf(r).epoch = k.epoch /\ WireOf(r).open = FALSE
        BY Zenon, <3>2, <3>3, <3>4, <3>5 DEF WireOf
      <3>7. v \in WireType /\ v.frames = k.outbox /\ v.epoch = k.epoch /\ v.open = FALSE
        BY Zenon, <2>1, <2>2 DEF WireType
      <3> HIDE DEF w, v, r
      <3>8. WireOf(r) = v
        BY Zenon, <2>2, <3>6, <3>7, WireEqual
      <3> QED BY <3>8 DEF w, v, r
    <2> QED BY Zenon, <2>3, <2>4
  <1>4. CASE ~(~k.shut /\ ~k.hung_up)
    <2>1. r = [k EXCEPT !.shut = TRUE]
      BY <1>4 DEF Written
    <2>2. r.outbox = k.outbox /\ r.shut = TRUE
      BY <1>1, <2>1 DEF ConnType
    <2> HIDE DEF r, k
    <2>3. WireOf(r) = [WireOf(k) EXCEPT !.open = FALSE]
      BY Zenon, <1>1, <2>2, WireShut
    <2> QED BY <2>3 DEF r, k
  <1> QED BY Zenon, <1>3, <1>4

\* send_for_epoch, second half.
LEMMA ProtocolSendRefines ==
    ASSUME TransportInv, NEW t \in Threads, protocol_send(t)
    PROVE  LinkStep
  <1> DEFINE c == call[t].conn
             r == Written(t)
             w == WireOf(conn[c])
  <1>1. c \in Connections /\ r \in ConnType /\ conn' = [conn EXCEPT ![c] = r]
    BY WriteSound
  <1>2. UNCHANGED <<fd, epoch, sock, agent>> /\ LinkCurrent' = LinkCurrent
    BY DEF protocol_send, transportVars, agentVars, LinkCurrent
  <1>3. LinkWires' = [LinkWires EXCEPT ![c] = WireOf(r)] /\ LinkWires[c] = w
    BY Zenon, <1>1, OneWireChanged, WiresTyped
  <1>4. CASE /\ w.open /\ w.epoch # 0 /\ call[t].type \in MessageTypes
             /\ WireOf(r) = [w EXCEPT !.frames =
                  Append(@, [type |-> call[t].type, epoch |-> w.epoch])]
    <2> HIDE DEF w, r, c
    <2> QED BY Zenon, <1>1, <1>2, <1>3, <1>4, LinkSends
  <1>5. CASE WireOf(r) = [w EXCEPT !.open = FALSE]
    <2> HIDE DEF w, r, c
    <2>1. LinkWires' = Shortened(LinkWires, c)
      BY <1>3, <1>5 DEF Shortened
    <2> QED BY <1>1, <1>2, <2>1, LinkLoses
  <1> QED BY <1>4, <1>5, WrittenWire

\* connect_control: a new connection at the end.
LEMMA ConnectRefines ==
    ASSUME TransportInv, connect_control
    PROVE  LinkStep
  <1>1. PICK hello \in Hellos : conn' = Append(conn, ConnectionRecord(hello))
    BY DEF connect_control
  <1>2. /\ agent = 0 /\ agent' = Len(conn') /\ LinkCurrent' = LinkCurrent /\ epoch' = epoch
    BY DEF connect_control, transportVars, LinkCurrent
  <1> DEFINE new == [frames |-> <<>>, epoch |-> 0, open |-> TRUE]
  <1>3. conn \in Seq(ConnType) /\ Len(conn) \in Nat /\ LinkWires \in [Connections -> WireType]
        /\ \A c \in Connections : LinkWires[c] = WireOf(conn[c])
    BY WiresTyped, Lengths DEF TransportInv, TransportTypes, NetTypes
  <1>4. WireOf(ConnectionRecord(hello)) = new
    BY Zenon DEF WireOf, ConnectionRecord
  <1>5. conn' \in Seq(ConnType)
    BY ConnectKeeps DEF TransportInv, TransportTypes, NetTypes
  <1>6. /\ Len(conn') = Len(conn) + 1
        /\ \A c \in 1..Len(conn) : conn'[c] = conn[c]
        /\ conn'[Len(conn) + 1] = ConnectionRecord(hello)
    BY <1>1, <1>3
  <1>7. /\ Connections' = 1..(Len(conn) + 1)
        /\ LinkWires' = [c \in 1..(Len(conn) + 1) |-> WireOf(conn'[c])]
    BY <1>6 DEF Connections, LinkWires
  <1>8. new \in WireType
    BY EmptyOrNot DEF WireType
  <1> HIDE DEF new
  <1>9. LinkWires \in Seq(WireType) /\ Len(LinkWires) = Len(conn)
    BY <1>3 DEF Connections
  <1>10. /\ Append(LinkWires, new) \in Seq(WireType)
         /\ Len(Append(LinkWires, new)) = Len(conn) + 1
         /\ \A c \in 1..Len(conn) : Append(LinkWires, new)[c] = LinkWires[c]
         /\ Append(LinkWires, new)[Len(conn) + 1] = new
    BY <1>3, <1>8, <1>9, Appended
  <1>11. /\ LinkWires' \in [1..(Len(conn) + 1) -> WireType]
         /\ \A c \in 1..(Len(conn) + 1) : LinkWires'[c] = Append(LinkWires, new)[c]
    <2>1. \A c \in 1..(Len(conn) + 1) :
            LinkWires'[c] = IF c = Len(conn) + 1 THEN new ELSE LinkWires[c]
      BY <1>3, <1>4, <1>6, <1>7 DEF Connections
    <2>2. \A c \in 1..(Len(conn) + 1) : c # Len(conn) + 1 => c \in 1..Len(conn)
      BY <1>3
    <2>3. \A c \in 1..(Len(conn) + 1) : LinkWires'[c] = Append(LinkWires, new)[c]
      BY <1>10, <2>1, <2>2
    <2>4. \A c \in 1..(Len(conn) + 1) : LinkWires'[c] \in WireType
      BY <1>3, <1>8, <2>1, <2>2 DEF Connections
    <2> QED BY Zenon, <1>7, <2>3, <2>4
  <1>12. LinkWires' \in Seq(WireType) /\ Len(LinkWires') = Len(conn) + 1
    BY <1>3, <1>11
  <1>13. LinkWires' = Append(LinkWires, new)
    BY <1>10, <1>11, <1>12, SameElements
  <1> QED BY <1>2, <1>6, <1>12, <1>13, LinkConnects DEF new

\* disconnect_control.
LEMMA DisconnectRefines ==
    ASSUME TransportInv, disconnect_control
    PROVE  LinkStep
  <1> DEFINE k == conn[agent]
             r == [k EXCEPT !.hung_up = TRUE, !.outbox = <<>>]
             v == [WireOf(k) EXCEPT !.open = FALSE, !.frames = <<>>]
  <1>1. /\ agent # 0 /\ conn' = [conn EXCEPT ![agent] = r] /\ agent' = 0
        /\ epoch' = epoch /\ LinkCurrent' = LinkCurrent
    BY Zenon DEF disconnect_control, transportVars, LinkCurrent
  <1>2. agent \in Connections /\ k \in ConnType
    BY <1>1, AgentReads
  <1>3. <<>> \in Seq(Frame)
    BY EmptyOrNot
  <1>4. r \in ConnType /\ r.outbox = <<>> /\ r.epoch = k.epoch /\ r.hung_up = TRUE
    BY Zenon, <1>2, <1>3 DEF ConnType
  <1>5. /\ WireOf(r).frames = <<>> /\ WireOf(r).epoch = k.epoch /\ WireOf(r).open = FALSE
        /\ WireOf(k).epoch = k.epoch
    BY Zenon, <1>4 DEF WireOf
  <1>6. WireOf(r) \in WireType /\ WireOf(k) \in WireType
    BY <1>2, <1>4, WireTyped
  <1>7. v \in WireType /\ v.frames = <<>> /\ v.epoch = k.epoch /\ v.open = FALSE
    BY Zenon, <1>3, <1>5, <1>6 DEF WireType
  <1> HIDE DEF v, r
  <1>8. WireOf(r) = v
    BY Zenon, <1>5, <1>6, <1>7, WireEqual
  <1>9. LinkWires[agent] = WireOf(k) /\ LinkWires' = [LinkWires EXCEPT ![agent] = WireOf(r)]
    BY Zenon, <1>1, <1>2, <1>4, WiresTyped, OneWireChanged
  <1>10. LinkWires' = [LinkWires EXCEPT ![agent] =
                         [LinkWires[agent] EXCEPT !.open = FALSE, !.frames = <<>>]]
    BY <1>8, <1>9 DEF v
  <1> QED BY <1>1, <1>2, <1>10, LinkLeaves

\* The first frame of a connection is a whole one: taking it from the connection
\* takes it from the whole frames.
LEMMA TakenWire ==
    ASSUME NEW out \in Seq(Frame), out # <<>>, Head(out).type # "torn"
    PROVE  LET Whole(s) == IF s # <<>> /\ s[Len(s)].type = "torn"
                           THEN SubSeq(s, 1, Len(s) - 1) ELSE s
           IN  Whole(out) # <<>> /\ Whole(Tail(out)) = Tail(Whole(out))
  <1> DEFINE n == Len(out)
             t == Tail(out)
  <1>1. n \in Nat \ {0} /\ out[1].type # "torn"
    BY EmptyOrNot, Lengths
  <1>2. /\ t \in Seq(Frame) /\ Len(t) = n - 1
        /\ \A i \in 1..(n - 1) : t[i] = out[i + 1]
    BY <1>1, HeadAndTail
  <1>3. t # <<>> => n - 1 \in Nat \ {0} /\ t[Len(t)] = out[n]
    BY <1>1, <1>2, EmptyOrNot
  <1>4. n - 1 \in Nat \ {0} => t # <<>>
    BY Zenon, <1>2, EmptyOrNot
  <1> HIDE DEF t
  <1>5. CASE out[n].type = "torn"
    <2> DEFINE w == SubSeq(out, 1, n - 1)
    <2>1. n - 1 \in Nat \ {0}
      <3>1. n # 1
        BY <1>1, <1>5
      <3> HIDE DEF n
      <3> QED BY <1>1, <3>1
    <2>2. /\ w \in Seq(Frame) /\ Len(w) = n - 1
          /\ \A i \in 1..(n - 1) : w[i] = out[i]
      <3>1. \A i \in 1..(n - 1) : out[i] \in Frame
        <4>1. \A i \in 1..n : out[i] \in Frame
          BY Element
        <4> HIDE DEF n
        <4>2. \A i \in 1..(n - 1) : i \in 1..n
          BY <1>1
        <4> QED BY <4>1, <4>2
      <3> HIDE DEF n
      <3>2. 1 \in Int /\ n - 1 \in Int /\ 1 <= n - 1
        BY <1>1, <2>1
      <3>3. /\ w \in Seq(Frame) /\ Len(w) = (n - 1) - 1 + 1
            /\ \A i \in 1..((n - 1) - 1 + 1) : w[i] = out[1 + i - 1]
        BY <3>1, <3>2, PartOf
      <3> QED BY <2>1, <3>3
    <2> HIDE DEF w
    <2>3. w # <<>>
      BY <2>1, <2>2, EmptyOrNot
    <2>4. /\ Tail(w) \in Seq(Frame) /\ Len(Tail(w)) = n - 2
          /\ \A i \in 1..(n - 2) : Tail(w)[i] = out[i + 1]
      <3>1. /\ Tail(w) \in Seq(Frame) /\ Len(Tail(w)) = Len(w) - 1
            /\ \A i \in 1..(Len(w) - 1) : Tail(w)[i] = w[i + 1]
        BY <2>2, <2>3, HeadAndTail
      <3> QED BY <1>1, <2>1, <2>2, <3>1
    <2>5. /\ SubSeq(t, 1, n - 2) \in Seq(Frame) /\ Len(SubSeq(t, 1, n - 2)) = n - 2
          /\ \A i \in 1..(n - 2) : SubSeq(t, 1, n - 2)[i] = t[i]
      BY <1>1, <1>2, <2>1, PartOf
    <2>6. \A i \in 1..(n - 2) : t[i] = out[i + 1]
      BY <1>1, <1>2
    <2>7. SubSeq(t, 1, n - 2) = Tail(w)
      BY <2>4, <2>5, <2>6, SameElements
    <2>8. t # <<>> /\ t[Len(t)].type = "torn" /\ Len(t) - 1 = n - 2
      BY <1>1, <1>2, <1>3, <1>4, <1>5, <2>1
    <2> QED BY <1>5, <2>3, <2>7, <2>8 DEF t, w
  <1>6. CASE out[n].type # "torn"
    BY <1>3, <1>6 DEF t
  <1> QED BY <1>5, <1>6

\* handle_control takes the first frame; the answer is not the link's.
LEMMA HandleControlRefines ==
    ASSUME TransportInv, handle_control
    PROVE  LinkStep
  <1> DEFINE k == conn[agent]
             m == Head(k.outbox).type
             r == [k EXCEPT !.outbox = Tail(@), !.inbox = @ \o Reply(m)]
             v == [WireOf(k) EXCEPT !.frames = Tail(@)]
             Whole(s) == IF s # <<>> /\ s[Len(s)].type = "torn"
                         THEN SubSeq(s, 1, Len(s) - 1) ELSE s
  <1>1. /\ agent # 0 /\ k.outbox # <<>> /\ m # "torn" /\ conn' = [conn EXCEPT ![agent] = r]
        /\ agent' = agent /\ epoch' = epoch /\ LinkCurrent' = LinkCurrent
    BY Zenon DEF handle_control, transportVars, LinkCurrent
  <1>2. agent \in Connections /\ k \in ConnType /\ k.outbox \in Seq(Frame)
    BY <1>1, AgentReads DEF ConnType
  <1>3. r \in ConnType
    <2>1. TransportInv' /\ Len(conn') = Len(conn) /\ conn'[agent] = r
      <3>1. conn \in Seq(ConnType) /\ agent \in 1..Len(conn)
        BY <1>2 DEF Connections, TransportInv, TransportTypes, NetTypes
      <3>2. TransportInv'
        BY HandleControlKeeps
      <3> HIDE DEF r
      <3>3. Len(conn') = Len(conn) /\ conn'[agent] = r
        BY <1>1, <3>1
      <3> QED BY <3>2, <3>3
    <2>2. conn' \in Seq(ConnType) /\ agent \in 1..Len(conn')
      BY <1>2, <2>1 DEF Connections, TransportInv, TransportTypes, NetTypes
    <2> QED BY <2>1, <2>2, Element
  <1>4. /\ r.outbox = Tail(k.outbox) /\ r.epoch = k.epoch /\ r.shut = k.shut
        /\ r.hung_up = k.hung_up
    BY <1>2 DEF ConnType
  <1>5. Whole(k.outbox) # <<>> /\ Whole(r.outbox) = Tail(Whole(k.outbox))
    BY Zenon, <1>1, <1>2, <1>4, TakenWire
  <1>6. /\ WireOf(k).frames = Whole(k.outbox) /\ WireOf(r).frames = Whole(r.outbox)
        /\ WireOf(k).epoch = k.epoch /\ WireOf(r).epoch = r.epoch
        /\ WireOf(r).open = WireOf(k).open
    BY Zenon, <1>4 DEF WireOf
  <1> HIDE DEF Whole, r
  <1>7. WireOf(r) \in WireType /\ WireOf(k) \in WireType
    BY <1>2, <1>3, WireTyped
  <1>8. Tail(WireOf(k).frames) \in Seq(Frame)
    BY <1>5, <1>6, <1>7, HeadAndTail DEF WireType
  <1>9. /\ v \in WireType /\ v.frames = Tail(WireOf(k).frames)
        /\ v.epoch = WireOf(k).epoch /\ v.open = WireOf(k).open
    BY Zenon, <1>7, <1>8 DEF WireType
  <1> HIDE DEF v
  <1>10. WireOf(r) = v
    <2>1. /\ WireOf(r).frames = v.frames /\ WireOf(r).epoch = v.epoch
          /\ WireOf(r).open = v.open
      BY Zenon, <1>4, <1>5, <1>6, <1>9
    <2>2. WireOf(r) \in WireType /\ v \in WireType
      BY Zenon, <1>7, <1>9
    <2> QED BY Zenon, <2>1, <2>2, WireEqual
  <1>11. LinkWires[agent] = WireOf(k) /\ LinkWires' = [LinkWires EXCEPT ![agent] = WireOf(r)]
    BY Zenon, <1>1, <1>2, <1>3, WiresTyped, OneWireChanged
  <1>12. LinkWires' = [LinkWires EXCEPT ![agent] = [LinkWires[agent] EXCEPT !.frames = Tail(@)]]
    BY <1>10, <1>11 DEF v
  <1>13. LinkWires[agent].frames # <<>>
    BY <1>5, <1>6, <1>11
  <1> QED BY <1>1, <1>2, <1>12, <1>13, LinkTakes

\* The agent's own messages are not the link's.
LEMMA AgentSendsRefines ==
    ASSUME TransportInv, agent_sends
    PROVE  LinkStep
  <1>1. PICK m \in AgentMessages : conn' = [conn EXCEPT ![agent].inbox = Append(@, m)]
    BY Zenon DEF agent_sends
  <1> DEFINE k == conn[agent]
             r == [k EXCEPT !.inbox = Append(@, m)]
  <1>2. /\ agent # 0 /\ conn' = [conn EXCEPT ![agent] = r]
        /\ agent' = agent /\ epoch' = epoch /\ LinkCurrent' = LinkCurrent
    BY Zenon, <1>1 DEF agent_sends, transportVars, agentVars, LinkCurrent
  <1>3. agent \in Connections /\ k \in ConnType /\ m \in Inbound
    BY <1>2, AgentReads, MessagesAssumption DEF Inbound
  <1>4. Append(k.inbox, m) \in Seq(Inbound)
    BY <1>3, Appended DEF ConnType
  <1>5. /\ r \in ConnType /\ r.outbox = k.outbox /\ r.epoch = k.epoch
        /\ r.shut = k.shut /\ r.hung_up = k.hung_up
    BY Zenon, <1>3, <1>4 DEF ConnType
  <1> HIDE DEF r
  <1>6. WireOf(r) = WireOf(k)
    <2> HIDE DEF k
    <2> QED BY <1>3, <1>5, WireSame
  <1>7. /\ LinkWires[agent] = WireOf(k) /\ LinkWires \in [Connections -> WireType]
        /\ LinkWires' = [LinkWires EXCEPT ![agent] = WireOf(r)]
    BY Zenon, <1>2, <1>3, <1>5, WiresTyped, OneWireChanged
  <1>8. LinkWires' = LinkWires
    BY <1>6, <1>7
  <1> QED BY <1>2, <1>8, LinkStutters

\* Every step of the agent.
LEMMA AgentRefines ==
    ASSUME TransportInv, AgentStep
    PROVE  LinkStep
  BY ConnectRefines, DisconnectRefines, HandleControlRefines, AgentSendsRefines
     DEF AgentStep

\* Every step of send_for_epoch.
LEMMA SendRefines ==
    ASSUME TransportInv, NEW t \in Threads, SendStep(t)
    PROVE  LinkStep
  <1>1. CASE send_for_epoch(t)
    BY <1>1, QuietStepRefines DEF send_for_epoch, transportVars, agentVars, netVars
  <1>2. CASE protocol_send(t)
    BY <1>2, ProtocolSendRefines
  <1> QED BY <1>1, <1>2 DEF SendStep

\* agent_transport_init starts with a link that has no connection.
LEMMA InitRefines ==
    ASSUME NEW requested, InitWith(requested)
    PROVE  Link!LinkInit
  <1>1. Connections = {}
    BY EmptyOrNot DEF InitWith, Connections
  <1> QED BY <1>1 DEF InitWith, Link!LinkInit

\* agent_transport.c implements ControlLink: at most one connection is published
\* at a time, a frame goes to a connection as a whole, in order and in the epoch its
\* sender saw, or not at all.
THEOREM TransportImplementsLink == Spec => ImplementsLink
  <1>1. Init => Link!LinkInit
    BY Zenon, InitRefines DEF Init
  <1>2. TransportInv /\ [Next]_vars => [Link!LinkNext]_(Link!linkVars)
    <2> SUFFICES ASSUME TransportInv, [Next]_vars PROVE LinkStep
      BY DEF LinkStep
    <2>1. CASE ControlStep
      BY <2>1, ControlRefines
    <2>2. CASE MainStep
      <3>1. CASE read_clock \/ event_delivered
        BY <3>1, QuietStepRefines
           DEF read_clock, event_delivered, transportVars, agentVars, netVars
      <3> QED BY <2>2, <3>1, HeartbeatRefines, ShutdownRefines, DestroyRefines DEF MainStep
    <2>3. CASE \E t \in Threads : SendStep(t)
      BY <2>3, SendRefines
    <2>4. CASE \E t \in Callers : CallerStep(t)
      BY <2>4, QuietStepRefines
         DEF CallerStep, agent_transport_set_stream_requested, agent_transport_send,
             agent_transport_begin_key_ack, transportVars, agentVars, netVars
    <2>5. CASE AgentStep
      BY <2>5, AgentRefines
    <2>6. CASE Tick
      BY <2>6, QuietStepRefines DEF Tick, transportVars, agentVars, netVars
    <2>7. CASE UNCHANGED vars
      BY <2>7, QuietStepRefines DEF vars, transportVars, agentVars, netVars
    <2> QED BY <2>1, <2>2, <2>3, <2>4, <2>5, <2>6, <2>7 DEF Next
  <1> QED
    BY <1>1, <1>2, TransportInvariant, PTL DEF Spec, ImplementsLink, Link!LinkSpec
=============================================================================
