---------------------------- MODULE GatewayInput ----------------------------
(***************************************************************************)
(* How input reaches the agent: the RDP callbacks (rdp_input.c), the HTTP  *)
(* API's handlers (http_api.c) and the main thread's pointer keepalive     *)
(* (gateway_server.c) over the two input routers (input_router.c) and the  *)
(* control link, up to what the agent holds down (agent.c, hid.c).         *)
(*                                                                         *)
(* A handler has two steps.  The first changes the router under the lock   *)
(* of its owner and leaves a message in `todo'; the second, without the    *)
(* lock, sends it.  The keepalive looks at both routers in its first step  *)
(* and sends in the second.                                                *)
(*                                                                         *)
(* Keys and buttons are names; positions and wheel steps are left out.     *)
(* `held' is what a client itself has pressed and not released, by the     *)
(* events it has sent; the gateway does not know it.                       *)
(***************************************************************************)
EXTENDS ControlLink

CONSTANTS
    Buttons,         \* pointer buttons
    Modifiers,       \* the modifier keys, as the client names them
    Keys,            \* the keys of the RDP client
    HttpKeys,        \* the keys of the HTTP client
    MaxInputs,       \* bound: events of the clients, with the HTTP API
    MaxInputsAlone,  \* bound: events of the RDP client, without the HTTP API
    MaxClients,      \* bound: RDP clients
    MaxConnections,  \* bound: connections of the agent
    MaxFrames        \* bound: frames on their way

\* Alt and Command, which config.swap_alt_command exchanges, are modifier keys.
ASSUME KeysAssumption ==
    /\ Buttons \cap (Keys \cup HttpKeys \cup Modifiers) = {}
    /\ {"alt", "command"} \subseteq Modifiers

VARIABLES
    rdp,             \* the peer thread: "none", "ready", "leaving", "stopping"
    http,            \* the HTTP API: "off" (not configured), "running", "stopped"
    router,          \* owner -> its InputRouter
    busy,            \* the HTTP API's input_busy
    todo,            \* thread -> the message it is about to send
    seen,            \* thread -> the published connection when it made the message
    hid,             \* what the agent holds down
    held,            \* owner -> what its client holds down
    inputs, clients

inputVars == <<rdp, http, router, busy, todo, seen, hid, held, inputs, clients>>
allVars == <<linkVars, inputVars>>

Owners == {"rdp", "http"}
Senders == Owners \cup {"main"}

IdleRouter == [pointer_buttons |-> {}, keyboard_modifiers |-> {},
               control_space_down |-> FALSE]

(***************************************************************************)
(* Messages                                                                *)
(***************************************************************************)
Key(k, release) == [kind |-> "KEY", key |-> k, release |-> release]
Absolute(b, down) == [kind |-> "POINTER_ABS", buttons |-> b, down |-> down]
Relative(mask, from) == [kind |-> "POINTER_REL", mask |-> mask, from |-> from]
Plain(kind) == [kind |-> kind]
Nothing == Plain("none")

\* config.swap_alt_command is on.
hid_map_scancode(k) == CASE k = "alt" -> "command"
                         [] k = "command" -> "alt"
                         [] OTHER -> k

hid_pointer_buttons(old, b, down) == IF down THEN old \cup b ELSE old \ b

(***************************************************************************)
(* The router                                                              *)
(***************************************************************************)
\* Mutant: Control+Space ends only while Control is down.
SpaceEnds_with_control(r, m) == "control" \in m

\* Control+Space is remembered until Space goes up, with or without Control.
SpaceEnds(r, m) == "control" \in m \/ r.control_space_down

\* Mutant: any key is taken for a modifier.
hid_modifier_any(k) == {k}

\* The modifier a mapped key is, if it is one.
hid_modifier(k) == {k} \cap Modifiers

input_router_keyboard(r, k, release) ==
    LET mapped == hid_modifier(hid_map_scancode(k))
        m == IF release THEN r.keyboard_modifiers \ mapped
             ELSE r.keyboard_modifiers \cup mapped
    IN  [r EXCEPT !.keyboard_modifiers = m,
                  !.control_space_down = IF k = "space" /\ SpaceEnds(r, m)
                                         THEN ~release ELSE @]

input_router_pointer(r, b, down) ==
    [r EXCEPT !.pointer_buttons = hid_pointer_buttons(@, b, down)]

RouterIdle(r) == r = IdleRouter

\* What an event leaves its client holding.
Pressed(h, things, release) == IF release THEN h \ things ELSE h \cup things

(***************************************************************************)
(* Sending: agent_transport_send                                           *)
(***************************************************************************)
Compose(t, m) == /\ todo' = [todo EXCEPT ![t] = m]
                 /\ seen' = [seen EXCEPT ![t] = IF m = Nothing THEN 0 ELSE current]

\* Mutant: a write that fails leaves the connection open.
BrokenLeftOpen == UNCHANGED linkVars

\* protocol_send shuts a connection down when a frame does not fit in time.
Broken == wire' = Cut(wire, {current}) /\ UNCHANGED <<current, reader, published>>

MaySend == Len(wire[current].frames) < MaxFrames

Usable == IF current = 0 THEN FALSE ELSE wire[current].open

\* No connection is published, the descriptor or the epoch the sender captured
\* is no longer the published one, or the write fails.
SendFails(t) ==
    \/ (Usable => seen[t] # current) /\ UNCHANGED linkVars
    \/ Usable /\ Broken

\* Where the peer thread goes when a callback returns `sent' (its loop ends when
\* one returns FALSE), and in client_context_free, which ignores the result.
PeerAfter(sent) == CASE rdp = "ready" -> IF sent THEN "ready" ELSE "leaving"
                     [] rdp = "stopping" -> "none"
                     [] OTHER -> rdp

\* STOP_STREAM follows RELEASE_ALL in client_context_free.
TodoAfter(t) ==
    IF t = "rdp" /\ todo[t].kind = "RELEASE_ALL" THEN Plain("STOP_STREAM") ELSE Nothing

agent_transport_send(t) ==
    /\ todo[t] # Nothing
    /\ \E sent \in BOOLEAN :
         /\ IF sent THEN Usable /\ MaySend /\ Send(current, todo[t]) ELSE SendFails(t)
         /\ rdp' = IF t = "rdp" /\ TodoAfter(t) = Nothing THEN PeerAfter(sent) ELSE rdp
    /\ Compose(t, TodoAfter(t))
    /\ UNCHANGED <<http, router, busy, hid, held, inputs, clients>>

(***************************************************************************)
(* The handlers of the two clients                                         *)
(***************************************************************************)
MayHandle(o) == /\ inputs < IF http = "off" THEN MaxInputsAlone ELSE MaxInputs
                /\ todo[o] = Nothing
                /\ IF o = "rdp" THEN rdp = "ready" ELSE http = "running"

\* Mutant: a change of the HTTP router that empties it does not clear the flag.
note_input_busy_set_only(o, r) == IF o = "http" /\ ~RouterIdle(r) THEN TRUE ELSE busy

\* Every HTTP handler that changes the router ends with note_input_busy.
note_input_busy(o, r) == IF o = "http" THEN ~RouterIdle(r) ELSE busy

Handled(o, r, h, m) ==
    /\ router' = [router EXCEPT ![o] = r]
    /\ busy' = note_input_busy(o, r)
    /\ held' = [held EXCEPT ![o] = h]
    /\ Compose(o, m)
    /\ inputs' = inputs + 1
    /\ UNCHANGED <<linkVars, rdp, http, hid, clients>>

KeyEvent(o, k, release) ==
    /\ MayHandle(o)
    /\ Handled(o, input_router_keyboard(router[o], k, release),
               Pressed(held[o], {k}, release),
               Key(hid_map_scancode(k), release))

on_keyboard(k, release) == KeyEvent("rdp", k, release)
handle_key(k, release) == KeyEvent("http", k, release)

\* A position and perhaps a button.
PointerEvent(o, b, down) ==
    /\ MayHandle(o)
    /\ Handled(o, input_router_pointer(router[o], b, down),
               Pressed(held[o], b, ~down), Absolute(b, down))

on_mouse(b, down) == PointerEvent("rdp", b, down)
handle_mouse(b, down) == PointerEvent("http", b, down)

\* on_relative_mouse sends the whole mask of its router.
on_relative_mouse(b, down) ==
    /\ MayHandle("rdp")
    /\ LET r == input_router_pointer(router["rdp"], b, down)
       IN  Handled("rdp", r, Pressed(held["rdp"], b, ~down), Relative(r.pointer_buttons, "rdp"))

\* A wheel step or one character of text leaves the router alone.
PassingEvent(o, kind) ==
    /\ MayHandle(o)
    /\ Handled(o, router[o], held[o], Plain(kind))

TextKinds == {"TEXT_ASCII", "TEXT_OTHER"}

on_unicode_keyboard(kind) == PassingEvent("rdp", kind)
handle_text(kind) == PassingEvent("http", kind)
on_wheel == PassingEvent("rdp", "WHEEL")
handle_wheel == PassingEvent("http", "WHEEL")

\* A Unicode release makes no message; a surrogate makes the callback fail.
on_unicode_unsupported ==
    /\ MayHandle("rdp")
    /\ rdp' = "leaving"
    /\ inputs' = inputs + 1
    /\ UNCHANGED <<linkVars, http, router, busy, todo, seen, hid, held, clients>>

\* TS_SYNC_EVENT: the client takes all its keys for released.
on_synchronize ==
    /\ MayHandle("rdp")
    /\ Handled("rdp", IdleRouter, {}, Plain("SYNCHRONIZE"))

handle_release ==
    /\ MayHandle("http")
    /\ Handled("http", IdleRouter, {}, Plain("RELEASE_ALL"))

\* Without a button the direction says nothing.
Directions(b) == IF b = {} THEN {FALSE} ELSE BOOLEAN

Handler ==
    \/ \E release \in BOOLEAN :
         \/ \E k \in Keys : on_keyboard(k, release)
         \/ \E k \in HttpKeys : handle_key(k, release)
    \/ \E b \in SUBSET Buttons : \E down \in Directions(b) :
         on_mouse(b, down) \/ on_relative_mouse(b, down) \/ handle_mouse(b, down)
    \/ \E kind \in TextKinds : on_unicode_keyboard(kind) \/ handle_text(kind)
    \/ on_wheel \/ handle_wheel
    \/ on_unicode_unsupported \/ on_synchronize \/ handle_release

(***************************************************************************)
(* The life of a client, the end of the HTTP API, the keepalive            *)
(***************************************************************************)
\* client_context_new and client_claim_active.
client_claim_active ==
    /\ rdp = "none" /\ clients < MaxClients
    /\ rdp' = "ready"
    /\ clients' = clients + 1
    /\ router' = [router EXCEPT !["rdp"] = IdleRouter]
    /\ UNCHANGED <<linkVars, http, busy, todo, seen, hid, held, inputs>>

\* The client disconnects, or is told to leave by a heartbeat timeout.
client_leaves ==
    /\ rdp = "ready" /\ todo["rdp"] = Nothing
    /\ rdp' = "leaving"
    /\ UNCHANGED <<linkVars, http, router, busy, todo, seen, hid, held, inputs,
                   clients>>

\* Mutant: the client's router is emptied and the agent is not told.
ReleaseMessageNone == Nothing

ReleaseMessage == Plain("RELEASE_ALL")

\* client_context_free begins: client_release_all_inputs.
client_release_all_inputs ==
    /\ rdp = "leaving"
    /\ rdp' = IF ReleaseMessage = Nothing THEN "none" ELSE "stopping"
    /\ router' = [router EXCEPT !["rdp"] = IdleRouter]
    /\ held' = [held EXCEPT !["rdp"] = {}]
    /\ Compose("rdp", ReleaseMessage)
    /\ UNCHANGED <<linkVars, http, busy, hid, inputs, clients>>

\* http_api_stop, after it has joined the HTTP thread; it does not note the flag.
http_api_stop ==
    /\ http = "running" /\ todo["http"] = Nothing /\ todo["main"] = Nothing
    /\ http' = "stopped"
    /\ router' = [router EXCEPT !["http"] = IdleRouter]
    /\ held' = [held EXCEPT !["http"] = {}]
    /\ Compose("http", Plain("RELEASE_ALL"))
    /\ UNCHANGED <<linkVars, rdp, busy, hid, inputs, clients>>

\* server_keepalive up to the end of its critical section.  The gateway is
\* stopping once the HTTP API has been stopped.
server_keepalive ==
    /\ http # "stopped" /\ todo["main"] = Nothing
    /\ rdp # "none" => RouterIdle(router["rdp"])
    /\ ~busy
    /\ Compose("main", Relative({}, "keepalive"))
    /\ UNCHANGED <<linkVars, rdp, http, router, busy, hid, held, inputs, clients>>

(***************************************************************************)
(* The agent                                                               *)
(***************************************************************************)
NothingHeld == [keys |-> {}, buttons |-> {}]

\* handle_control, as far as what is held goes.  A relative report carries all the
\* buttons, an absolute one those that change.  A single ASCII character typed with
\* a modifier down is a shortcut; any other text first releases the keys.
handle_message(h, m) ==
    CASE m.kind = "KEY" -> [h EXCEPT !.keys = Pressed(@, {m.key}, m.release)]
      [] m.kind = "POINTER_ABS" ->
            [h EXCEPT !.buttons = hid_pointer_buttons(@, m.buttons, m.down)]
      [] m.kind = "POINTER_REL" -> [h EXCEPT !.buttons = m.mask]
      [] m.kind = "TEXT_ASCII" ->
            [h EXCEPT !.keys = IF @ \cap Modifiers # {} THEN @ ELSE {}]
      [] m.kind = "TEXT_OTHER" -> [h EXCEPT !.keys = {}]
      [] m.kind = "WHEEL" -> h
      [] m.kind \in {"SYNCHRONIZE", "RELEASE_ALL", "STOP_STREAM"} -> NothingHeld

handle_control ==
    /\ Take
    /\ hid' = handle_message(hid, Head(wire[reader].frames).type)
    /\ UNCHANGED <<rdp, http, router, busy, todo, seen, held, inputs, clients>>

\* Mutant: the agent keeps what is held over a disconnect.
DisconnectKeeps == hid

DisconnectReleases == NothingHeld

disconnect_control ==
    /\ Leave
    /\ hid' = DisconnectReleases
    /\ UNCHANGED <<rdp, http, router, busy, todo, seen, held, inputs, clients>>

\* Connections come, are published, and are cut.
LinkChanges ==
    /\ \/ Len(wire) < MaxConnections /\ Connect
       \/ \E c \in Wires : Publish(c)
       \/ Retire
    /\ UNCHANGED inputVars

(***************************************************************************)
(* The specification                                                       *)
(***************************************************************************)
InputInit ==
    /\ LinkInit
    /\ rdp = "none" /\ http \in {"off", "running"} /\ busy = FALSE
    /\ router = [o \in Owners |-> IdleRouter]
    /\ todo = [t \in Senders |-> Nothing]
    /\ seen = [t \in Senders |-> 0]
    /\ hid = NothingHeld
    /\ held = [o \in Owners |-> {}]
    /\ inputs = 0 /\ clients = 0

InputNext ==
    \/ Handler
    \/ \E t \in Senders : agent_transport_send(t)
    \/ client_claim_active \/ client_leaves \/ client_release_all_inputs
    \/ http_api_stop
    \/ server_keepalive
    \/ handle_control \/ disconnect_control
    \/ LinkChanges

InputSpec == InputInit /\ [][InputNext]_allVars

\* The HTTP thread sends what it has composed, or is refused.  The agent reads on,
\* and leaves a connection that has been cut.  Nothing is assumed of the RDP peer
\* and of the keepalive.
InputFairness ==
    /\ WF_allVars(agent_transport_send("http"))
    /\ WF_allVars(handle_control \/ (reader # 0 /\ ~wire[reader].open /\ disconnect_control))

FairInputSpec == InputSpec /\ InputFairness

(***************************************************************************)
(* Properties                                                              *)
(***************************************************************************)
RouterType == [pointer_buttons : SUBSET Buttons, keyboard_modifiers : SUBSET Modifiers,
               control_space_down : BOOLEAN]

\* The routers, the threads and what is held.
InputTypeOK ==
    /\ rdp \in {"none", "ready", "leaving", "stopping"}
    /\ http \in {"off", "running", "stopped"}
    /\ router \in [Owners -> RouterType]
    /\ busy \in BOOLEAN
    /\ hid.keys \subseteq Keys \cup HttpKeys \cup Modifiers /\ hid.buttons \subseteq Buttons
    /\ rdp = "none" => todo["rdp"] = Nothing /\ held["rdp"] = {}

HeldByClients == UNION {{IF t \in Buttons THEN t ELSE hid_map_scancode(t) : t \in held[o]}
                        : o \in Owners}

Settled == /\ reader # 0 /\ wire[reader].open /\ wire[reader].frames = <<>>
           /\ \A t \in Senders : todo[t] = Nothing

\* No input is stuck down at the agent: once nothing is on its way, the agent holds
\* only what the RDP client or the HTTP client itself still holds, whichever sends
\* failed, whichever connections were replaced and whoever left in between.
NoPhantomInput == Settled => hid.keys \cup hid.buttons \subseteq HeldByClients

\* The keepalive is not held off for good: a client that has released everything
\* leaves its router idle (input_router.c) and the HTTP API's flag clear, whatever
\* the order of Control and Space and whether the sends succeeded.
IdleWhenNothingHeld ==
    /\ held["rdp"] = {} => RouterIdle(router["rdp"])
    /\ http = "running" /\ held["http"] = {} => RouterIdle(router["http"]) /\ ~busy

\* After the RDP client has gone, and while the HTTP client holds nothing, the agent
\* comes to hold nothing: the RELEASE_ALL of client_context_free arrives or the
\* connection it was lost with is given up.
ReleasedAtAgent ==
    []<>(rdp = "none" /\ held["http"] = {} => hid = NothingHeld)

\* "Never inject motion while the RDP client holds a button or modifier, because a
\* relative report with no button state would release it" (server_keepalive): a
\* keepalive does not release a button at the agent that the RDP client holds.
KeepaliveNeverReleases ==
    [][handle_control /\ Head(wire[reader].frames).type = Relative({}, "keepalive")
        => hid.buttons \cap held["rdp"] \subseteq hid'.buttons]_allVars
=============================================================================
