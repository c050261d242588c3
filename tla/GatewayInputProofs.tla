------------------------- MODULE GatewayInputProofs -------------------------
(***************************************************************************)
(* Proof that no input is stuck down at the agent and that the routers do  *)
(* not hold off the keepalive (GatewayInput), for every set of keys,       *)
(* modifiers and buttons, any number of connections and any bounds.  The   *)
(* invariant looks at each key and button at every place where it is down: *)
(* held by the agent, or pressed by a frame on its way.  A client holds it *)
(* too, or a later frame releases it, or a message that has been composed  *)
(* and is bound for the same connection does (Covered).                    *)
(***************************************************************************)
EXTENDS GatewayInput, SequenceTheorems, TLAPS

AllKeys == Keys \cup HttpKeys \cup Modifiers

PlainKinds == {"none", "WHEEL", "TEXT_ASCII", "TEXT_OTHER", "SYNCHRONIZE", "RELEASE_ALL",
               "STOP_STREAM"}

\* What the gateway sends here, and Nothing.
Msgs == {Key(k, release) : k \in AllKeys, release \in BOOLEAN}
          \cup {Absolute(b, down) : b \in SUBSET Buttons, down \in BOOLEAN}
          \cup {Relative(b, from) : b \in SUBSET Buttons, from \in {"rdp", "keepalive"}}
          \cup {Plain(kind) : kind \in PlainKinds}

\* Keys and buttons are told apart by their place.
Places == {"keys", "buttons"}

At(h, d) == IF d = "keys" THEN h.keys ELSE h.buttons

\* What a client holds, in the agent's names.
InAgentNames(h, d) == IF d = "keys" THEN {hid_map_scancode(t) : t \in h \ Buttons}
                                    ELSE h \cap Buttons

HeldAs(o, d) == InAgentNames(held[o], d)

Presses(m, d, x) ==
    \/ d = "keys" /\ m.kind = "KEY" /\ ~m.release /\ x = m.key
    \/ d = "buttons" /\ m.kind = "POINTER_ABS" /\ m.down /\ x \in m.buttons
    \/ d = "buttons" /\ m.kind = "POINTER_REL" /\ x \in m.mask

Frees(m, d, x) ==
    \/ m.kind \in {"SYNCHRONIZE", "RELEASE_ALL", "STOP_STREAM"}
    \/ d = "keys" /\ m.kind = "TEXT_OTHER"
    \/ d = "keys" /\ m.kind = "KEY" /\ m.release /\ x = m.key
    \/ d = "buttons" /\ m.kind = "POINTER_ABS" /\ ~m.down /\ x \in m.buttons
    \/ d = "buttons" /\ m.kind = "POINTER_REL" /\ x \notin m.mask

(***************************************************************************)
(* The inductive invariant                                                 *)
(***************************************************************************)
FrameType == [type : Msgs \ {Nothing}, epoch : Nat]
WireType == [frames : Seq(FrameType), epoch : Nat, open : BOOLEAN]

InputTypes ==
    /\ router \in [Owners -> RouterType]
    /\ busy \in BOOLEAN
    /\ todo \in [Senders -> Msgs]
    /\ seen \in [Senders -> Nat]
    /\ hid \in [keys : SUBSET AllKeys, buttons : SUBSET Buttons]
    /\ held \in [Owners -> SUBSET (Buttons \cup Keys \cup HttpKeys)]
    /\ http \in {"off", "running", "stopped"}

\* The router of a client remembers what is down.
RouterKnows(r, h) ==
    /\ r.pointer_buttons = h \cap Buttons
    /\ r.keyboard_modifiers = {hid_map_scancode(t) : t \in h \ Buttons} \cap Modifiers
    /\ r.control_space_down => "space" \in h \ Buttons

RoutersKnow ==
    /\ \A o \in Owners : RouterKnows(router[o], held[o])
    /\ http = "running" => busy = ~RouterIdle(router["http"])

PeerPlace ==
    /\ rdp \in {"none", "ready", "leaving", "stopping"}
    /\ rdp \in {"none", "leaving"} => todo["rdp"] = Nothing
    /\ rdp \in {"none", "stopping"} => held["rdp"] = {}

\* An open connection that has been published is the published one; before that
\* it carries nothing and the agent holds nothing.
LinkSane ==
    /\ wire \in Seq(WireType) /\ published \in Nat
    /\ current \in 0..Len(wire) /\ reader \in 0..Len(wire)
    /\ \A c \in 1..Len(wire) : /\ wire[c].open /\ wire[c].epoch # 0 => c = current
                               /\ wire[c].epoch = 0 => wire[c].frames = <<>>
    /\ reader = 0 => hid = NothingHeld
    /\ reader # 0 => (wire[reader].epoch = 0 => hid = NothingHeld)

\* A message that presses something was composed by a client that still holds it.
TodoHeld ==
    \A d \in Places : \A x :
        /\ \A o \in Owners : Presses(todo[o], d, x) => x \in HeldAs(o, d)
        /\ ~Presses(todo["main"], d, x)

\* After place i of the agent's connection (0: what it holds now).
Covered(i, d, x) ==
    \/ \E o \in Owners : x \in HeldAs(o, d)
    \/ \E o \in Owners : Frees(todo[o], d, x) /\ seen[o] = reader
    \/ \E j \in (i + 1)..Len(wire[reader].frames) : Frees(wire[reader].frames[j].type, d, x)

Live == reader # 0 /\ wire[reader].open /\ wire[reader].epoch # 0

AllCovered ==
    Live => \A d \in Places : \A x :
                /\ x \in At(hid, d) => Covered(0, d, x)
                /\ \A i \in 1..Len(wire[reader].frames) :
                      Presses(wire[reader].frames[i].type, d, x) => Covered(i, d, x)

InputInv ==
    InputTypes /\ RoutersKnow /\ PeerPlace /\ LinkSane /\ TodoHeld /\ AllCovered

(***************************************************************************)
(* Messages and what they do                                               *)
(***************************************************************************)
\* The alternatives for a message.
LEMMA MsgCases ==
    ASSUME NEW m \in Msgs
    PROVE  \/ \E k \in AllKeys, release \in BOOLEAN : m = Key(k, release)
           \/ \E b \in SUBSET Buttons, down \in BOOLEAN : m = Absolute(b, down)
           \/ \E b \in SUBSET Buttons, from \in {"rdp", "keepalive"} : m = Relative(b, from)
           \/ \E kind \in PlainKinds : m = Plain(kind)
  BY DEF Msgs

\* Every composed message is one of them.
LEMMA MsgsMade ==
    /\ \A k \in AllKeys, release \in BOOLEAN : Key(k, release) \in Msgs
    /\ \A b \in SUBSET Buttons, down \in BOOLEAN : Absolute(b, down) \in Msgs
    /\ \A b \in SUBSET Buttons, from \in {"rdp", "keepalive"} : Relative(b, from) \in Msgs
    /\ \A kind \in PlainKinds : Plain(kind) \in Msgs
    /\ Nothing \in Msgs
  <1>1. "none" \in PlainKinds
    BY DEF PlainKinds
  <1> QED BY <1>1 DEF Msgs, Nothing

\* Nothing neither presses nor frees, a plain message presses nothing.
LEMMA PlainPresses ==
    ASSUME NEW d, NEW x
    PROVE  /\ \A kind \in PlainKinds : ~Presses(Plain(kind), d, x)
           /\ ~Frees(Nothing, d, x)
           /\ ~Presses(Relative({}, "keepalive"), d, x)
  BY DEF Presses, Frees, Plain, Nothing, PlainKinds, Relative

\* The swap of Alt and Command is one-to-one and keeps keys keys.
LEMMA MapSwaps ==
    /\ \A k, l : hid_map_scancode(k) = hid_map_scancode(l) => k = l
    /\ \A k \in Keys \cup HttpKeys : hid_map_scancode(k) \in AllKeys
  <1>1. \A k : \/ k = "alt" /\ hid_map_scancode(k) = "command"
               \/ k = "command" /\ hid_map_scancode(k) = "alt"
               \/ k \notin {"alt", "command"} /\ hid_map_scancode(k) = k
    BY DEF hid_map_scancode
  <1>2. \A k, l : hid_map_scancode(k) = hid_map_scancode(l) => k = l
    BY <1>1
  <1>3. \A k \in Keys \cup HttpKeys : hid_map_scancode(k) \in AllKeys
    BY <1>1, KeysAssumption DEF AllKeys
  <1> QED BY <1>2, <1>3

\* handle_message: what is down afterwards was down and not freed, or is pressed.
LEMMA MessageEffect ==
    ASSUME NEW h \in [keys : SUBSET AllKeys, buttons : SUBSET Buttons], NEW m \in Msgs,
           m # Nothing
    PROVE  /\ handle_message(h, m) \in [keys : SUBSET AllKeys, buttons : SUBSET Buttons]
           /\ \A d \in Places : \A x : x \in At(handle_message(h, m), d) =>
                  \/ x \in At(h, d) /\ ~Frees(m, d, x)
                  \/ Presses(m, d, x)
  <1> DEFINE H == [keys : SUBSET AllKeys, buttons : SUBSET Buttons]
             g == handle_message(h, m)
             Good == /\ g \in H
                     /\ \A d \in Places : \A x : x \in At(g, d) =>
                            (x \in At(h, d) /\ ~Frees(m, d, x)) \/ Presses(m, d, x)
  <1>1. h = [keys |-> h.keys, buttons |-> h.buttons] /\ h.keys \subseteq AllKeys
        /\ h.buttons \subseteq Buttons
    OBVIOUS
  <1>2. ASSUME NEW k \in AllKeys, NEW release \in BOOLEAN, m = Key(k, release) PROVE Good
    <2>1. m.kind = "KEY" /\ m.key = k /\ m.release = release
      BY <1>2 DEF Key
    <2>2. g = [h EXCEPT !.keys = Pressed(@, {k}, release)]
      BY <2>1 DEF handle_message
    <2>3. g.keys = Pressed(h.keys, {k}, release) /\ g.buttons = h.buttons /\ g \in H
      BY <2>2 DEF Pressed
    <2> HIDE DEF g
    <2> QED BY <2>1, <2>3 DEF Pressed, Places, At, Presses, Frees
  <1>3. ASSUME NEW b \in SUBSET Buttons, NEW down \in BOOLEAN, m = Absolute(b, down) PROVE Good
    <2>1. m.kind = "POINTER_ABS" /\ m.buttons = b /\ m.down = down
      BY <1>3 DEF Absolute
    <2>2. g = [h EXCEPT !.buttons = hid_pointer_buttons(@, b, down)]
      BY <2>1 DEF handle_message
    <2>3. g.buttons = hid_pointer_buttons(h.buttons, b, down) /\ g.keys = h.keys /\ g \in H
      BY <2>2 DEF hid_pointer_buttons
    <2> HIDE DEF g
    <2> QED BY <2>1, <2>3 DEF hid_pointer_buttons, Places, At, Presses, Frees
  <1>4. ASSUME NEW b \in SUBSET Buttons, NEW from, m = Relative(b, from) PROVE Good
    <2>1. m.kind = "POINTER_REL" /\ m.mask = b
      BY <1>4 DEF Relative
    <2>2. g = [h EXCEPT !.buttons = b]
      BY <2>1 DEF handle_message
    <2>3. g.buttons = b /\ g.keys = h.keys /\ g \in H
      BY <2>2
    <2> HIDE DEF g
    <2> QED BY <2>1, <2>3 DEF Places, At, Presses, Frees
  <1>5. ASSUME NEW kind \in PlainKinds, m = Plain(kind) PROVE Good
    <2>1. m.kind = kind /\ kind # "none"
      BY <1>5 DEF Plain, Nothing
    <2>2. CASE kind \in {"SYNCHRONIZE", "RELEASE_ALL", "STOP_STREAM"}
      <3>1. g = NothingHeld
        BY <2>1, <2>2 DEF handle_message
      <3>2. g.keys = {} /\ g.buttons = {} /\ g \in H
        BY <3>1 DEF NothingHeld
      <3> HIDE DEF g
      <3> QED BY <3>2 DEF At, Places
    <2>3. CASE kind = "WHEEL"
      <3>1. g = h
        BY <2>1, <2>3 DEF handle_message
      <3> HIDE DEF g
      <3> QED BY <2>1, <2>3, <3>1 DEF Frees
    <2>4. CASE kind = "TEXT_OTHER"
      <3>1. g = [h EXCEPT !.keys = {}]
        BY <2>1, <2>4 DEF handle_message
      <3>2. g.keys = {} /\ g.buttons = h.buttons /\ g \in H
        BY <3>1
      <3> HIDE DEF g
      <3> QED BY <2>1, <2>4, <3>2 DEF Frees, At, Places
    <2>5. CASE kind = "TEXT_ASCII"
      <3>1. g = [h EXCEPT !.keys = IF @ \cap Modifiers # {} THEN @ ELSE {}]
        BY <2>1, <2>5 DEF handle_message
      <3>2. g.keys \subseteq h.keys /\ g.buttons = h.buttons /\ g \in H
        BY <3>1
      <3> HIDE DEF g
      <3> QED BY <2>1, <2>5, <3>2 DEF Frees, At, Places
    <2> QED BY <2>1, <2>2, <2>3, <2>4, <2>5 DEF PlainKinds
  <1> QED BY Zenon, <1>2, <1>3, <1>4, <1>5, MsgCases

(***************************************************************************)
(* The routers                                                             *)
(***************************************************************************)
\* An idle router is what a client that holds nothing has.
LEMMA IdleKnows ==
    /\ IdleRouter \in RouterType /\ RouterKnows(IdleRouter, {})
    /\ \A r \in RouterType : RouterKnows(r, {}) => r = IdleRouter
  <1>1. IdleRouter \in RouterType /\ RouterKnows(IdleRouter, {})
    BY DEF IdleRouter, RouterType, RouterKnows
  <1>2. ASSUME NEW r \in RouterType, RouterKnows(r, {}) PROVE r = IdleRouter
    <2>1. /\ r = [pointer_buttons |-> r.pointer_buttons,
                  keyboard_modifiers |-> r.keyboard_modifiers,
                  control_space_down |-> r.control_space_down]
          /\ r.control_space_down \in BOOLEAN
      BY DEF RouterType
    <2>2. r.pointer_buttons = {} /\ r.keyboard_modifiers = {} /\ ~r.control_space_down
      BY <1>2 DEF RouterKnows
    <2>3. r.control_space_down = FALSE
      BY Zenon, <2>1, <2>2
    <2> QED BY Zenon, <2>1, <2>2, <2>3 DEF IdleRouter
  <1> QED BY <1>1, <1>2

\* input_router_keyboard, in any order of Control and Space.
LEMMA KeyboardKnows ==
    ASSUME NEW r \in RouterType, NEW h, RouterKnows(r, h), NEW k \in Keys \cup HttpKeys,
           NEW release \in BOOLEAN
    PROVE  /\ input_router_keyboard(r, k, release) \in RouterType
           /\ RouterKnows(input_router_keyboard(r, k, release), Pressed(h, {k}, release))
  <1> DEFINE mk == hid_map_scancode(k)
             mapped == hid_modifier(mk)
             m == IF release THEN r.keyboard_modifiers \ mapped
                  ELSE r.keyboard_modifiers \cup mapped
             ends == k = "space" /\ SpaceEnds(r, m)
             q == input_router_keyboard(r, k, release)
             g == Pressed(h, {k}, release)
             down(s) == {hid_map_scancode(t) : t \in s \ Buttons}
  <1>1. q = [r EXCEPT !.keyboard_modifiers = m,
                      !.control_space_down = IF ends THEN ~release ELSE @]
    BY Zenon DEF input_router_keyboard
  <1>2. k \notin Buttons
    BY KeysAssumption
  <1>3. /\ r.pointer_buttons = h \cap Buttons /\ r.keyboard_modifiers = down(h) \cap Modifiers
        /\ r.control_space_down => "space" \in h \ Buttons
    BY Zenon DEF RouterKnows
  <1>4. DOMAIN r = {"pointer_buttons", "keyboard_modifiers", "control_space_down"}
        /\ r.pointer_buttons \subseteq Buttons /\ r.keyboard_modifiers \subseteq Modifiers
        /\ r.control_space_down \in BOOLEAN
    BY DEF RouterType
  <1>5. mapped = {mk} \cap Modifiers /\ m \subseteq Modifiers
    BY <1>4 DEF hid_modifier
  <1> HIDE DEF mapped, ends, q
  <1>6. /\ q.pointer_buttons = r.pointer_buttons /\ q.keyboard_modifiers = m
        /\ q.control_space_down = IF ends THEN ~release ELSE r.control_space_down
    BY Zenon, <1>1, <1>4
  <1>7. q.control_space_down \in BOOLEAN
    BY Zenon, <1>4, <1>6
  <1>8. q \in RouterType
    <2>1. DOMAIN q = DOMAIN r /\ q = [i \in DOMAIN r |-> q[i]]
      BY Zenon, <1>1
    <2>2. q = [pointer_buttons |-> q.pointer_buttons,
               keyboard_modifiers |-> q.keyboard_modifiers,
               control_space_down |-> q.control_space_down]
      BY <1>4, <2>1
    <2>3. q.pointer_buttons \in SUBSET Buttons /\ q.keyboard_modifiers \in SUBSET Modifiers
      BY Zenon, <1>4, <1>5, <1>6
    <2> QED BY <1>7, <2>2, <2>3 DEF RouterType
  <1>9. g \cap Buttons = h \cap Buttons
    BY <1>2 DEF Pressed
  <1>10. m = down(g) \cap Modifiers
    <2>1. CASE release
      <3>1. down(g) = down(h) \ {mk}
        BY <1>2, <2>1, MapSwaps DEF Pressed
      <3> QED BY Zenon, <1>3, <1>5, <2>1, <3>1
    <2>2. CASE ~release
      <3>1. down(g) = down(h) \cup {mk}
        BY <1>2, <2>2 DEF Pressed
      <3> QED BY <1>3, <1>5, <2>2, <3>1
    <2> QED BY <2>1, <2>2
  <1>11. q.control_space_down => "space" \in g \ Buttons
    <2>1. CASE ends
      <3>1. k = "space"
        BY Zenon, <2>1 DEF ends
      <3>2. q.control_space_down => ~release
        BY Zenon, <1>6, <2>1
      <3> QED BY <1>2, <3>1, <3>2 DEF Pressed
    <2>2. CASE ~ends
      <3>1. q.control_space_down = r.control_space_down
        BY Zenon, <1>6, <2>2
      <3>2. CASE k = "space"
        <4>1. ~r.control_space_down
          BY Zenon, <2>2, <3>2 DEF ends, SpaceEnds
        <4> QED BY Zenon, <3>1, <4>1
      <3>3. CASE k # "space"
        <4>1. r.control_space_down => "space" \in g \ Buttons
          BY <1>3, <3>3 DEF Pressed
        <4> QED BY Zenon, <3>1, <4>1
      <3> QED BY <3>2, <3>3
    <2> QED BY <2>1, <2>2
  <1> QED BY Zenon, <1>3, <1>6, <1>8, <1>9, <1>10, <1>11 DEF RouterKnows, q

\* input_router_pointer.
LEMMA PointerKnows ==
    ASSUME NEW r \in RouterType, NEW h, RouterKnows(r, h), NEW b \in SUBSET Buttons,
           NEW down \in BOOLEAN
    PROVE  /\ input_router_pointer(r, b, down) \in RouterType
           /\ RouterKnows(input_router_pointer(r, b, down), Pressed(h, b, ~down))
  <1> DEFINE p == hid_pointer_buttons(r.pointer_buttons, b, down)
             q == input_router_pointer(r, b, down)
             g == Pressed(h, b, ~down)
  <1>1. q = [r EXCEPT !.pointer_buttons = p]
    BY Zenon DEF input_router_pointer
  <1>2. /\ r.pointer_buttons = h \cap Buttons
        /\ r.keyboard_modifiers = {hid_map_scancode(t) : t \in h \ Buttons} \cap Modifiers
        /\ r.control_space_down => "space" \in h \ Buttons
    BY Zenon DEF RouterKnows
  <1>3. p \subseteq Buttons /\ p = g \cap Buttons /\ g \ Buttons = h \ Buttons
    BY <1>2 DEF hid_pointer_buttons, Pressed
  <1> HIDE DEF p, g
  <1>4. q \in RouterType /\ q.pointer_buttons = p
        /\ q.keyboard_modifiers = r.keyboard_modifiers
    BY <1>1, <1>3 DEF RouterType
  <1>5. q.control_space_down = r.control_space_down
    <2>1. "control_space_down" \in DOMAIN r
      BY DEF RouterType
    <2> QED BY Zenon, <1>1, <2>1
  <1> HIDE DEF q
  <1>6. RouterKnows(q, g)
    BY Zenon, <1>2, <1>3, <1>4, <1>5 DEF RouterKnows
  <1> QED BY Zenon, <1>4, <1>6 DEF q, g

(***************************************************************************)
(* The wires                                                               *)
(***************************************************************************)
\* The fields of a wire.
LEMMA WireFields ==
    ASSUME NEW w \in Seq(WireType)
    PROVE  /\ Len(w) \in Nat /\ DOMAIN w = 1..Len(w)
           /\ \A c \in 1..Len(w) :
                 /\ w[c] \in WireType /\ w[c].frames \in Seq(FrameType) /\ w[c].epoch \in Nat
                 /\ w[c].open \in BOOLEAN /\ DOMAIN w[c] = {"frames", "epoch", "open"}
  <1>1. Len(w) \in Nat /\ DOMAIN w = 1..Len(w) /\ \A c \in 1..Len(w) : w[c] \in WireType
    BY LenProperties, ElementOfSeq
  <1>2. \A u \in WireType : /\ u.frames \in Seq(FrameType) /\ u.epoch \in Nat
                            /\ u.open \in BOOLEAN /\ DOMAIN u = {"frames", "epoch", "open"}
    BY DEF WireType
  <1> QED BY Zenon, <1>1, <1>2

\* A function on the same connections is a sequence of wires.
LEMMA WiresAgain ==
    ASSUME NEW w \in Seq(WireType), NEW v \in [1..Len(w) -> WireType]
    PROVE  v \in Seq(WireType) /\ Len(v) = Len(w)
  <1>1. Len(w) \in Nat
    BY Zenon, WireFields
  <1>2. v \in Seq(WireType)
    BY <1>1, SeqDef
  <1>3. Len(v) \in Nat /\ DOMAIN v = 1..Len(v) /\ DOMAIN v = 1..Len(w)
    BY <1>2, LenProperties
  <1> QED BY <1>1, <1>2, <1>3

\* Cutting connections changes nothing but which are open.
LEMMA CutWires ==
    ASSUME NEW w \in Seq(WireType), NEW lost, NEW v, v = Cut(w, lost)
    PROVE  /\ v \in Seq(WireType) /\ Len(v) = Len(w)
           /\ \A c \in 1..Len(w) : /\ v[c].frames = w[c].frames /\ v[c].epoch = w[c].epoch
                                   /\ v[c].open <=> w[c].open /\ c \notin lost
  <1>1. v = [c \in 1..Len(w) |-> [w[c] EXCEPT !.open = @ /\ c \notin lost]]
    BY Zenon, WireFields DEF Cut
  <1>2. ASSUME NEW c \in 1..Len(w)
        PROVE  /\ v[c] \in WireType /\ v[c].frames = w[c].frames /\ v[c].epoch = w[c].epoch
               /\ v[c].open <=> w[c].open /\ c \notin lost
    <2>1. PICK k \in BOOLEAN : k = (w[c].open /\ c \notin lost)
      BY Zenon
    <2>2. v[c] = [w[c] EXCEPT !.open = k]
      BY Zenon, <1>1, <2>1
    <2>3. w[c] \in WireType
      BY Zenon, WireFields
    <2>4. v[c] \in WireType /\ v[c].frames = w[c].frames /\ v[c].epoch = w[c].epoch
      BY Zenon, <2>2, <2>3 DEF WireType
    <2>5. v[c].open = k
      BY Zenon, <2>2, WireFields
    <2> QED BY Zenon, <2>1, <2>4, <2>5
  <1>3. v \in [1..Len(w) -> WireType]
    BY Zenon, <1>1, <1>2
  <1> QED BY Zenon, <1>2, <1>3, WiresAgain

\* Changing one connection's frames.
WithFrames(w, c, f) == [w EXCEPT ![c].frames = f]

LEMMA SetFrames ==
    ASSUME NEW w \in Seq(WireType), NEW c \in 1..Len(w), NEW f \in Seq(FrameType),
           NEW v, v = WithFrames(w, c, f)
    PROVE  /\ v \in Seq(WireType) /\ Len(v) = Len(w)
           /\ v[c].frames = f /\ v[c].epoch = w[c].epoch /\ v[c].open = w[c].open
           /\ \A b \in 1..Len(w) : b # c => v[b] = w[b]
  <1>1. /\ v[c] = [w[c] EXCEPT !.frames = f] /\ DOMAIN v = 1..Len(w)
        /\ (\A b \in 1..Len(w) : b # c => v[b] = w[b])
        /\ v = [b \in 1..Len(w) |-> v[b]]
    <2>1. DOMAIN w = 1..Len(w)
      BY Zenon, WireFields
    <2>2. v = [b \in 1..Len(w) |-> IF b = c THEN [w[c] EXCEPT !.frames = f] ELSE w[b]]
      BY Zenon, <2>1 DEF WithFrames
    <2> QED BY Zenon, <2>2
  <1>2. w[c] \in WireType
    BY Zenon, WireFields
  <1>3. v[c] \in WireType /\ v[c].frames = f /\ v[c].epoch = w[c].epoch
    BY Zenon, <1>1, <1>2 DEF WireType
  <1>4. v[c].open = w[c].open
    <2>1. "open" \in DOMAIN w[c]
      BY <1>2 DEF WireType
    <2> QED BY Zenon, <1>1, <2>1
  <1>5. v \in [1..Len(w) -> WireType]
    BY Zenon, <1>1, <1>3, WireFields
  <1> QED BY Zenon, <1>1, <1>3, <1>4, <1>5, WiresAgain

\* Publishing one.
LEMMA SetEpoch ==
    ASSUME NEW w \in Seq(WireType), NEW c \in 1..Len(w), NEW e \in Nat,
           NEW v, v = [w EXCEPT ![c].epoch = e]
    PROVE  /\ v \in Seq(WireType) /\ Len(v) = Len(w)
           /\ v[c].frames = w[c].frames /\ v[c].epoch = e /\ v[c].open = w[c].open
           /\ \A b \in 1..Len(w) : b # c => v[b] = w[b]
  <1>1. /\ v[c] = [w[c] EXCEPT !.epoch = e] /\ DOMAIN v = 1..Len(w)
        /\ (\A b \in 1..Len(w) : b # c => v[b] = w[b])
        /\ v = [b \in 1..Len(w) |-> v[b]]
    <2>1. DOMAIN w = 1..Len(w)
      BY Zenon, WireFields
    <2>2. v = [b \in 1..Len(w) |-> IF b = c THEN [w[c] EXCEPT !.epoch = e] ELSE w[b]]
      BY Zenon, <2>1
    <2> QED BY Zenon, <2>2
  <1>2. w[c] \in WireType
    BY Zenon, WireFields
  <1>3. v[c] \in WireType /\ v[c].frames = w[c].frames /\ v[c].epoch = e
    BY Zenon, <1>1, <1>2 DEF WireType
  <1>4. v[c].open = w[c].open
    <2>1. "open" \in DOMAIN w[c]
      BY <1>2 DEF WireType
    <2> QED BY Zenon, <1>1, <2>1
  <1>5. v \in [1..Len(w) -> WireType]
    BY Zenon, <1>1, <1>3, WireFields
  <1> QED BY Zenon, <1>1, <1>3, <1>4, <1>5, WiresAgain

(***************************************************************************)
(* The clients' handlers                                                   *)
(***************************************************************************)
\* What the invariant gives to every step.
LEMMA InputFacts ==
    ASSUME InputInv
    PROVE  /\ InputTypes /\ RoutersKnow /\ PeerPlace /\ LinkSane /\ TodoHeld /\ AllCovered
           /\ wire \in Seq(WireType) /\ Len(wire) \in Nat /\ DOMAIN wire = 1..Len(wire)
           /\ Live => reader = current /\ reader \in 1..Len(wire)
                      /\ wire[reader].frames \in Seq(FrameType) /\ Usable
  <1>1. InputTypes /\ RoutersKnow /\ PeerPlace /\ LinkSane /\ TodoHeld /\ AllCovered
    BY Zenon DEF InputInv
  <1>2. wire \in Seq(WireType) /\ reader \in 0..Len(wire)
    BY Zenon, <1>1 DEF LinkSane
  <1>3. Len(wire) \in Nat /\ DOMAIN wire = 1..Len(wire)
    BY Zenon, <1>2, WireFields
  <1>4. ASSUME Live PROVE /\ reader = current /\ reader \in 1..Len(wire)
                          /\ wire[reader].frames \in Seq(FrameType) /\ Usable
    <2>1. reader # 0 /\ wire[reader].open /\ wire[reader].epoch # 0
      BY Zenon, <1>4 DEF Live
    <2>2. reader \in 1..Len(wire)
      BY <1>2, <1>3, <2>1
    <2>3. reader = current
      BY Zenon, <1>1, <2>1, <2>2 DEF LinkSane
    <2>4. wire[reader].frames \in Seq(FrameType)
      BY Zenon, <1>2, <2>2, WireFields
    <2>5. Usable
      BY Zenon, <2>1, <2>3 DEF Usable
    <2> QED BY Zenon, <2>2, <2>3, <2>4, <2>5
  <1> QED BY Zenon, <1>1, <1>2, <1>3, <1>4

\* An owner that has nothing to send changes what its client holds, its router,
\* and composes a message: what it no longer holds the message frees.
LEMMA OwnerActs ==
    ASSUME InputInv, NEW o \in Owners, todo[o] = Nothing, UNCHANGED <<linkVars, hid>>,
           NEW m \in Msgs, NEW h \in SUBSET (Buttons \cup Keys \cup HttpKeys),
           NEW r \in RouterType, RouterKnows(r, h),
           router' = [router EXCEPT ![o] = r], held' = [held EXCEPT ![o] = h], Compose(o, m),
           \A d \in Places : \A x :
              /\ Presses(m, d, x) => x \in InAgentNames(h, d)
              /\ x \in InAgentNames(held[o], d) => x \in InAgentNames(h, d) \/ Frees(m, d, x),
           busy' \in BOOLEAN, http' \in {"off", "running", "stopped"},
           http' = "running" => busy' = ~RouterIdle(router'["http"]),
           PeerPlace'
    PROVE  InputInv'
  <1>1. UNCHANGED <<current, reader, wire, published, hid>>
    BY DEF linkVars
  <1>2. /\ router \in [Owners -> RouterType] /\ todo \in [Senders -> Msgs]
        /\ seen \in [Senders -> Nat] /\ held \in [Owners -> SUBSET (Buttons \cup Keys \cup HttpKeys)]
        /\ hid \in [keys : SUBSET AllKeys, buttons : SUBSET Buttons] /\ o \in Senders
    BY Zenon, InputFacts DEF InputTypes, Senders
  <1>3. /\ todo' = [todo EXCEPT ![o] = m]
        /\ seen' = [seen EXCEPT ![o] = IF m = Nothing THEN 0 ELSE current]
    BY Zenon DEF Compose
  <1>4. current \in Nat
    <2>1. current \in 0..Len(wire)
      BY Zenon, InputFacts DEF LinkSane
    <2> QED BY <2>1, InputFacts
  <1>5. /\ todo'[o] = m /\ (\A t \in Senders : t # o => todo'[t] = todo[t])
        /\ held'[o] = h /\ (\A t \in Owners : t # o => held'[t] = held[t])
        /\ router'[o] = r /\ (\A t \in Owners : t # o => router'[t] = router[t])
        /\ (\A t \in Senders : t # o => seen'[t] = seen[t])
        /\ m # Nothing => seen'[o] = current
    BY Zenon, <1>2, <1>3
  <1>6. InputTypes'
    <2>1. seen' \in [Senders -> Nat]
      BY <1>2, <1>3, <1>4
    <2>2. todo' \in [Senders -> Msgs] /\ held' \in [Owners -> SUBSET (Buttons \cup Keys \cup HttpKeys)]
          /\ router' \in [Owners -> RouterType]
      BY Zenon, <1>2, <1>3
    <2> QED BY Zenon, <1>1, <1>2, <2>1, <2>2 DEF InputTypes
  <1>7. RoutersKnow'
    <2>1. \A t \in Owners : RouterKnows(router'[t], held'[t])
      BY Zenon, <1>5, InputFacts DEF RoutersKnow
    <2> QED BY Zenon, <2>1 DEF RoutersKnow, RouterKnows, RouterIdle
  <1>8. LinkSane'
    BY Zenon, <1>1, InputFacts DEF LinkSane
  <1>9. TodoHeld'
    <2> SUFFICES ASSUME NEW d \in Places, NEW x
                 PROVE  /\ \A t \in Owners : Presses(todo'[t], d, x) => x \in InAgentNames(held'[t], d)
                        /\ ~Presses(todo'["main"], d, x)
      BY Zenon DEF TodoHeld, HeldAs, Presses, InAgentNames
    <2>1. "main" \in Senders /\ "main" # o /\ \A t \in Owners : t \in Senders
      BY DEF Senders, Owners
    <2> QED BY Zenon, <1>5, <2>1, InputFacts DEF TodoHeld, HeldAs
  <1>10. AllCovered'
    <2> SUFFICES ASSUME Live PROVE AllCovered'
      BY Zenon, <1>1 DEF AllCovered, Live
    <2>1. ASSUME NEW d \in Places, NEW x, NEW i, Covered(i, d, x)
          PROVE  \/ \E t \in Owners : x \in InAgentNames(held'[t], d)
                 \/ \E t \in Owners : Frees(todo'[t], d, x) /\ seen'[t] = reader
                 \/ \E j \in (i + 1)..Len(wire[reader].frames) :
                       Frees(wire[reader].frames[j].type, d, x)
      <3>1. CASE \E t \in Owners : x \in HeldAs(t, d)
        <4>1. PICK t \in Owners : x \in InAgentNames(held[t], d)
          BY Zenon, <3>1 DEF HeldAs
        <4>2. CASE t # o
          BY Zenon, <1>5, <4>1, <4>2
        <4>3. CASE t = o /\ x \in InAgentNames(h, d)
          BY Zenon, <1>5, <4>3
        <4>4. CASE t = o /\ Frees(m, d, x)
          <5>1. m # Nothing
            BY Zenon, <4>4, PlainPresses
          <5> QED BY Zenon, <1>5, <4>4, <5>1, InputFacts
        <4> QED BY Zenon, <4>1, <4>2, <4>3, <4>4
      <3>2. CASE \E t \in Owners : Frees(todo[t], d, x) /\ seen[t] = reader
        <4>1. PICK t \in Owners : Frees(todo[t], d, x) /\ seen[t] = reader
          BY Zenon, <3>2
        <4>2. t # o /\ t \in Senders
          BY Zenon, <4>1, PlainPresses DEF Senders
        <4> QED BY Zenon, <1>5, <4>1, <4>2
      <3> QED BY Zenon, <2>1, <3>1, <3>2 DEF Covered
    <2>2. \A d \in Places : \A x : \A i : Covered(i, d, x) => Covered(i, d, x)'
      <3> SUFFICES ASSUME NEW d \in Places, NEW x, NEW i, Covered(i, d, x) PROVE Covered(i, d, x)'
        OBVIOUS
      <3>1. \A t \in Owners : /\ InAgentNames(held'[t], d) = InAgentNames(held[t], d)'
                              /\ Frees(todo'[t], d, x) => Frees(todo[t], d, x)'
        BY Zenon DEF InAgentNames, Frees
      <3>2. \A j : Frees(wire[reader].frames[j].type, d, x)
                      => Frees(wire[reader].frames[j].type, d, x)'
        BY Zenon, <1>1 DEF Frees
      <3> QED BY Zenon, <1>1, <2>1, <3>1, <3>2 DEF Covered, HeldAs
    <2> QED BY Zenon, <1>1, <2>2, InputFacts DEF AllCovered, At, Presses
  <1> QED BY Zenon, <1>6, <1>7, <1>8, <1>9, <1>10 DEF InputInv

\* Every handler that composes a message.
LEMMA HandledKeeps ==
    ASSUME InputInv, NEW o \in Owners, MayHandle(o),
           NEW m \in Msgs, NEW h \in SUBSET (Buttons \cup Keys \cup HttpKeys),
           NEW r \in RouterType, RouterKnows(r, h), Handled(o, r, h, m),
           \A d \in Places : \A x :
              /\ Presses(m, d, x) => x \in InAgentNames(h, d)
              /\ x \in InAgentNames(held[o], d) => x \in InAgentNames(h, d) \/ Frees(m, d, x)
    PROVE  InputInv'
  <1>1. /\ todo[o] = Nothing /\ router' = [router EXCEPT ![o] = r]
        /\ held' = [held EXCEPT ![o] = h] /\ Compose(o, m)
        /\ busy' = note_input_busy(o, r) /\ UNCHANGED <<linkVars, rdp, http, hid>>
    BY Zenon DEF MayHandle, Handled
  <1>2. /\ router \in [Owners -> RouterType] /\ todo \in [Senders -> Msgs] /\ busy \in BOOLEAN
        /\ held \in [Owners -> SUBSET (Buttons \cup Keys \cup HttpKeys)]
        /\ http \in {"off", "running", "stopped"} /\ RoutersKnow /\ PeerPlace
    BY Zenon, InputFacts DEF InputTypes
  <1>3. busy' \in BOOLEAN
    BY Zenon, <1>1, <1>2 DEF note_input_busy
  <1>4. http' = "running" => busy' = ~RouterIdle(router'["http"])
    <2>1. CASE o = "http"
      BY Zenon, <1>1, <1>2, <2>1 DEF note_input_busy
    <2>2. CASE o # "http"
      <3>1. router'["http"] = router["http"] /\ busy' = busy
        BY Zenon, <1>1, <1>2, <2>2 DEF note_input_busy, Owners
      <3> QED BY Zenon, <1>1, <1>2, <3>1 DEF RoutersKnow
    <2> QED BY <2>1, <2>2
  <1>5. PeerPlace'
    <2>1. CASE o = "rdp"
      <3>1. rdp = "ready"
        BY Zenon, <2>1 DEF MayHandle
      <3> QED BY <1>1, <3>1 DEF PeerPlace
    <2>2. CASE o # "rdp"
      <3>1. todo'["rdp"] = todo["rdp"] /\ held'["rdp"] = held["rdp"]
        BY Zenon, <1>1, <1>2, <2>2 DEF Compose, Owners, Senders
      <3> QED BY Zenon, <1>1, <1>2, <3>1 DEF PeerPlace
    <2> QED BY <2>1, <2>2
  <1> QED BY Zenon, <1>1, <1>2, <1>3, <1>4, <1>5, OwnerActs

\* A key goes down or up.
LEMMA KeyKeeps ==
    ASSUME InputInv, NEW o \in Owners, NEW k \in Keys \cup HttpKeys, NEW release \in BOOLEAN,
           KeyEvent(o, k, release)
    PROVE  InputInv'
  <1> DEFINE mk == hid_map_scancode(k)
             m == Key(mk, release)
             h == Pressed(held[o], {k}, release)
             r == input_router_keyboard(router[o], k, release)
  <1>1. MayHandle(o) /\ Handled(o, r, h, m)
    BY Zenon DEF KeyEvent
  <1>2. /\ router[o] \in RouterType /\ held[o] \subseteq Buttons \cup Keys \cup HttpKeys
        /\ RouterKnows(router[o], held[o])
    BY Zenon, InputFacts DEF InputTypes, RoutersKnow
  <1>3. r \in RouterType /\ RouterKnows(r, h)
    BY Zenon, <1>2, KeyboardKnows
  <1>4. m \in Msgs /\ h \in SUBSET (Buttons \cup Keys \cup HttpKeys)
    BY Zenon, <1>2, MapSwaps, MsgsMade DEF Pressed
  <1>5. ASSUME NEW d \in Places, NEW x
        PROVE  /\ Presses(m, d, x) => x \in InAgentNames(h, d)
               /\ x \in InAgentNames(held[o], d) => x \in InAgentNames(h, d) \/ Frees(m, d, x)
    <2>1. m.kind = "KEY" /\ m.key = mk /\ m.release = release /\ k \notin Buttons
      BY KeysAssumption DEF Key
    <2>2. d = "keys" \/ d = "buttons"
      BY Zenon DEF Places
    <2> HIDE DEF m
    <2>3. CASE release
      BY <2>1, <2>2, <2>3 DEF Pressed, Presses, Frees, InAgentNames
    <2>4. CASE ~release
      BY <2>1, <2>2, <2>4 DEF Pressed, Presses, Frees, InAgentNames
    <2> QED BY <2>3, <2>4
  <1> HIDE DEF m, h, r
  <1> QED BY Zenon, <1>1, <1>3, <1>4, <1>5, HandledKeeps

\* The pointer with its buttons, as changes or as the whole mask.
LEMMA PointerKeeps ==
    ASSUME InputInv, NEW o \in Owners, NEW b \in SUBSET Buttons, NEW down \in BOOLEAN,
           PointerEvent(o, b, down) \/ (o = "rdp" /\ on_relative_mouse(b, down))
    PROVE  InputInv'
  <1> DEFINE h == Pressed(held[o], b, ~down)
             r == input_router_pointer(router[o], b, down)
  <1>1. /\ router[o] \in RouterType /\ held[o] \subseteq Buttons \cup Keys \cup HttpKeys
        /\ RouterKnows(router[o], held[o])
    BY Zenon, InputFacts DEF InputTypes, RoutersKnow
  <1>2. r \in RouterType /\ RouterKnows(r, h) /\ r.pointer_buttons = h \cap Buttons
    <2>1. r \in RouterType /\ RouterKnows(r, h)
      BY Zenon, <1>1, PointerKnows
    <2>2. r.pointer_buttons = h \cap Buttons
      BY Zenon, <2>1 DEF RouterKnows
    <2> QED BY Zenon, <2>1, <2>2
  <1>3. h \in SUBSET (Buttons \cup Keys \cup HttpKeys)
    BY Zenon, <1>1 DEF Pressed
  <1>4. CASE PointerEvent(o, b, down)
    <2> DEFINE m == Absolute(b, down)
    <2>1. MayHandle(o) /\ Handled(o, r, h, m)
      BY Zenon, <1>4 DEF PointerEvent
    <2>2. m \in Msgs
      BY Zenon, MsgsMade
    <2>3. ASSUME NEW d \in Places, NEW x
          PROVE  /\ Presses(m, d, x) => x \in InAgentNames(h, d)
                 /\ x \in InAgentNames(held[o], d) => x \in InAgentNames(h, d) \/ Frees(m, d, x)
      <3>1. m.kind = "POINTER_ABS" /\ m.buttons = b /\ m.down = down
        BY DEF Absolute
      <3>2. d = "keys" \/ d = "buttons"
        BY Zenon DEF Places
      <3> HIDE DEF m
      <3>3. CASE down
        BY <3>1, <3>2, <3>3 DEF Pressed, Presses, Frees, InAgentNames
      <3>4. CASE ~down
        BY <3>1, <3>2, <3>4 DEF Pressed, Presses, Frees, InAgentNames
      <3> QED BY <3>3, <3>4
    <2> HIDE DEF m, h, r
    <2> QED BY Zenon, <1>2, <1>3, <2>1, <2>2, <2>3, HandledKeeps
  <1>5. CASE o = "rdp" /\ on_relative_mouse(b, down)
    <2> DEFINE m == Relative(r.pointer_buttons, "rdp")
    <2>1. MayHandle(o) /\ Handled(o, r, h, m)
      BY Zenon, <1>5 DEF on_relative_mouse
    <2>2. r.pointer_buttons \in SUBSET Buttons
      BY Zenon, <1>2
    <2>3. m \in Msgs
      BY Zenon, <2>2, MsgsMade
    <2>4. m.kind = "POINTER_REL" /\ m.mask = h \cap Buttons
      BY <1>2 DEF Relative
    <2> HIDE DEF m, r
    <2>5. ASSUME NEW d \in Places, NEW x
          PROVE  /\ Presses(m, d, x) => x \in InAgentNames(h, d)
                 /\ x \in InAgentNames(held[o], d) => x \in InAgentNames(h, d) \/ Frees(m, d, x)
      <3>1. d = "keys" \/ d = "buttons"
        BY Zenon DEF Places
      <3> QED BY <2>4, <3>1 DEF Pressed, Presses, Frees, InAgentNames
    <2> HIDE DEF h
    <2> QED BY Zenon, <1>2, <1>3, <2>1, <2>3, <2>5, HandledKeeps
  <1> QED BY <1>4, <1>5

\* Steps that change neither what is held nor what is on its way.
LEMMA SameView ==
    ASSUME InputInv, UNCHANGED <<linkVars, hid, todo, seen, held, busy, http>>,
           router' \in [Owners -> RouterType], router'["http"] = router["http"],
           RouterKnows(router'["rdp"], held["rdp"]), PeerPlace'
    PROVE  InputInv'
  <1>1. UNCHANGED <<current, reader, wire, published, hid, todo, seen, held, busy, http>>
    BY DEF linkVars
  <1>2. InputTypes' /\ LinkSane' /\ TodoHeld' /\ AllCovered'
    <2>1. InputTypes' /\ LinkSane'
      BY Zenon, <1>1, InputFacts DEF InputTypes, LinkSane
    <2>2. TodoHeld'
      BY <1>1, InputFacts DEF TodoHeld, HeldAs, InAgentNames, Presses
    <2>3. AllCovered'
      <3>1. \A d \in Places : \A x, i : Covered(i, d, x) => Covered(i, d, x)'
        <4> SUFFICES ASSUME NEW d \in Places, NEW x, NEW i, Covered(i, d, x) PROVE Covered(i, d, x)'
          OBVIOUS
        <4>1. \A t \in Owners : /\ x \in HeldAs(t, d) => x \in HeldAs(t, d)'
                                /\ Frees(todo[t], d, x) => Frees(todo[t], d, x)'
          BY Zenon, <1>1 DEF HeldAs, InAgentNames, Frees
        <4>2. \A j : Frees(wire[reader].frames[j].type, d, x)
                        => Frees(wire[reader].frames[j].type, d, x)'
          BY Zenon, <1>1 DEF Frees
        <4> QED BY Zenon, <1>1, <4>1, <4>2 DEF Covered
      <3> QED BY Zenon, <1>1, <3>1, InputFacts DEF AllCovered, Live, At, Presses
    <2> QED BY <2>1, <2>2, <2>3
  <1>3. RoutersKnow'
    <2>1. \A t \in Owners : RouterKnows(router'[t], held'[t])
      BY Zenon, <1>1, InputFacts DEF RoutersKnow, Owners
    <2>2. http' = "running" => busy' = ~RouterIdle(router'["http"])
      BY Zenon, <1>1, InputFacts DEF RoutersKnow
    <2> QED BY Zenon, <2>1, <2>2 DEF RoutersKnow, RouterKnows, RouterIdle
  <1> QED BY Zenon, <1>2, <1>3 DEF InputInv

\* The main thread composes a keepalive, or has sent it.
LEMMA MainActs ==
    ASSUME InputInv, UNCHANGED <<linkVars, hid, held, busy, http, router, rdp>>,
           NEW m \in {Nothing, Relative({}, "keepalive")}, Compose("main", m)
    PROVE  InputInv'
  <1>1. UNCHANGED <<current, reader, wire, published, hid, held, busy, http, router, rdp>>
    BY DEF linkVars
  <1>2. /\ todo \in [Senders -> Msgs] /\ seen \in [Senders -> Nat] /\ current \in Nat
        /\ "main" \in Senders /\ \A o \in Owners : o \in Senders /\ o # "main"
    <2>1. todo \in [Senders -> Msgs] /\ seen \in [Senders -> Nat] /\ current \in 0..Len(wire)
      BY Zenon, InputFacts DEF InputTypes, LinkSane
    <2> QED BY <2>1, InputFacts DEF Senders, Owners
  <1>3. /\ todo' = [todo EXCEPT !["main"] = m]
        /\ seen' = [seen EXCEPT !["main"] = IF m = Nothing THEN 0 ELSE current]
    BY Zenon DEF Compose
  <1>4. m \in Msgs /\ \A d, x : ~Presses(m, d, x)
    <2>1. {} \in SUBSET Buttons /\ "none" \in PlainKinds
      BY DEF PlainKinds
    <2> QED BY Zenon, <2>1, MsgsMade, PlainPresses DEF Nothing
  <1>5. /\ todo' \in [Senders -> Msgs] /\ todo'["main"] = m
        /\ \A o \in Owners : todo'[o] = todo[o] /\ seen'[o] = seen[o]
    BY Zenon, <1>2, <1>3, <1>4
  <1>6. seen' \in [Senders -> Nat]
    BY <1>2, <1>3
  <1>7. InputTypes' /\ LinkSane' /\ RoutersKnow'
    BY Zenon, <1>1, <1>5, <1>6, InputFacts DEF InputTypes, LinkSane, RoutersKnow
  <1>8. PeerPlace'
    BY Zenon, <1>1, <1>5, InputFacts DEF PeerPlace, Owners
  <1>9. TodoHeld'
    <2> SUFFICES ASSUME NEW d \in Places, NEW x
                 PROVE  /\ \A t \in Owners : Presses(todo'[t], d, x) => x \in InAgentNames(held'[t], d)
                        /\ ~Presses(todo'["main"], d, x)
      BY Zenon DEF TodoHeld, HeldAs, Presses, InAgentNames
    <2> QED BY Zenon, <1>1, <1>4, <1>5, InputFacts DEF TodoHeld, HeldAs
  <1>10. AllCovered'
    <2>1. \A d \in Places : \A x, i : Covered(i, d, x) => Covered(i, d, x)'
      <3> SUFFICES ASSUME NEW d \in Places, NEW x, NEW i, Covered(i, d, x) PROVE Covered(i, d, x)'
        OBVIOUS
      <3>1. \A t \in Owners : /\ x \in HeldAs(t, d) => x \in HeldAs(t, d)'
                              /\ Frees(todo[t], d, x) => Frees(todo[t], d, x)'
        BY Zenon, <1>1, <1>5 DEF HeldAs, InAgentNames, Frees
      <3>2. \A j : Frees(wire[reader].frames[j].type, d, x)
                      => Frees(wire[reader].frames[j].type, d, x)'
        BY Zenon, <1>1 DEF Frees
      <3> QED BY Zenon, <1>1, <1>5, <3>1, <3>2 DEF Covered
    <2> QED BY Zenon, <1>1, <2>1, InputFacts DEF AllCovered, Live, At, Presses
  <1> QED BY Zenon, <1>7, <1>8, <1>9, <1>10 DEF InputInv

\* The handlers of both clients.
LEMMA HandlerKeeps ==
    ASSUME InputInv, Handler
    PROVE  InputInv'
  <1>1. \A o \in Owners : /\ router[o] \in RouterType /\ RouterKnows(router[o], held[o])
                          /\ held[o] \in SUBSET (Buttons \cup Keys \cup HttpKeys)
    BY Zenon, InputFacts DEF InputTypes, RoutersKnow
  <1>2. ASSUME NEW o \in Owners, NEW kind \in {"WHEEL", "TEXT_ASCII", "TEXT_OTHER"},
               PassingEvent(o, kind)
        PROVE  InputInv'
    <2>1. kind \in PlainKinds
      BY DEF PlainKinds
    <2>2. Plain(kind) \in Msgs /\ \A d, x : ~Presses(Plain(kind), d, x)
      BY Zenon, <2>1, MsgsMade, PlainPresses
    <2>3. MayHandle(o) /\ Handled(o, router[o], held[o], Plain(kind))
      BY Zenon, <1>2 DEF PassingEvent
    <2> QED BY Zenon, <1>1, <2>2, <2>3, HandledKeeps
  <1>3. ASSUME NEW o \in Owners, NEW kind \in {"SYNCHRONIZE", "RELEASE_ALL"}, MayHandle(o),
               Handled(o, IdleRouter, {}, Plain(kind))
        PROVE  InputInv'
    <2>1. kind \in PlainKinds /\ {} \in SUBSET (Buttons \cup Keys \cup HttpKeys)
      BY DEF PlainKinds
    <2>2. /\ Plain(kind) \in Msgs /\ \A d, x : ~Presses(Plain(kind), d, x)
          /\ IdleRouter \in RouterType /\ RouterKnows(IdleRouter, {})
      BY Zenon, <2>1, MsgsMade, PlainPresses, IdleKnows
    <2>3. \A d, x : Frees(Plain(kind), d, x)
      BY DEF Frees, Plain
    <2> QED BY Zenon, <1>3, <2>1, <2>2, <2>3, HandledKeeps
  <1>4. "rdp" \in Owners /\ "http" \in Owners
    BY DEF Owners
  <1>5. CASE \E release \in BOOLEAN : \/ \E k \in Keys : on_keyboard(k, release)
                                      \/ \E k \in HttpKeys : handle_key(k, release)
    BY Zenon, <1>4, <1>5, KeyKeeps DEF on_keyboard, handle_key
  <1>6. CASE \E b \in SUBSET Buttons : \E down \in Directions(b) :
               on_mouse(b, down) \/ on_relative_mouse(b, down) \/ handle_mouse(b, down)
    <2>1. PICK b \in SUBSET Buttons : \E down \in Directions(b) :
               on_mouse(b, down) \/ on_relative_mouse(b, down) \/ handle_mouse(b, down)
      BY Zenon, <1>6
    <2>2. PICK down \in Directions(b) :
               on_mouse(b, down) \/ on_relative_mouse(b, down) \/ handle_mouse(b, down)
      BY Zenon, <2>1
    <2>3. down \in BOOLEAN
      BY Zenon DEF Directions
    <2>4. ASSUME NEW o \in Owners, PointerEvent(o, b, down) PROVE InputInv'
      <3>1. PointerEvent(o, b, down) \/ (o = "rdp" /\ on_relative_mouse(b, down))
        BY Zenon, <2>4
      <3> QED BY <2>3, <3>1, PointerKeeps
    <2>5. on_relative_mouse(b, down) => InputInv'
      BY Zenon, <1>4, <2>3, PointerKeeps
    <2>6. on_mouse(b, down) \/ handle_mouse(b, down) => InputInv'
      BY Zenon, <1>4, <2>4 DEF on_mouse, handle_mouse
    <2> QED BY Zenon, <2>2, <2>5, <2>6
  <1>7. CASE \/ \E kind \in TextKinds : on_unicode_keyboard(kind) \/ handle_text(kind)
             \/ on_wheel \/ handle_wheel
    BY Zenon, <1>2, <1>4, <1>7 DEF on_unicode_keyboard, handle_text, on_wheel, handle_wheel, TextKinds
  <1>8. CASE on_unicode_unsupported
    <2>1. /\ UNCHANGED <<linkVars, http, router, busy, todo, seen, hid, held>>
          /\ rdp = "ready" /\ rdp' = "leaving" /\ todo["rdp"] = Nothing
      BY <1>8 DEF on_unicode_unsupported, MayHandle
    <2>2. PeerPlace'
      BY <2>1 DEF PeerPlace
    <2>3. router \in [Owners -> RouterType]
      BY Zenon, InputFacts DEF InputTypes
    <2> QED BY Zenon, <1>1, <1>4, <2>1, <2>2, <2>3, SameView
  <1>9. CASE on_synchronize \/ handle_release
    BY Zenon, <1>3, <1>4, <1>9 DEF on_synchronize, handle_release
  <1> QED BY Zenon, <1>5, <1>6, <1>7, <1>8, <1>9 DEF Handler

\* The life of a client, the end of the HTTP API and the keepalive.
LEMMA LifeKeeps ==
    ASSUME InputInv,
           \/ client_claim_active \/ client_leaves \/ client_release_all_inputs
           \/ http_api_stop \/ server_keepalive
    PROVE  InputInv'
  <1>1. /\ router \in [Owners -> RouterType] /\ busy \in BOOLEAN /\ PeerPlace
        /\ todo \in [Senders -> Msgs] /\ held \in [Owners -> SUBSET (Buttons \cup Keys \cup HttpKeys)]
        /\ http \in {"off", "running", "stopped"}
        /\ \A o \in Owners : RouterKnows(router[o], held[o])
        /\ http = "running" => busy = ~RouterIdle(router["http"])
    BY Zenon, InputFacts DEF InputTypes, RoutersKnow
  <1>2. /\ "rdp" \in Owners /\ "http" \in Owners /\ "rdp" \in Senders /\ "http" \in Senders
        /\ {} \in SUBSET (Buttons \cup Keys \cup HttpKeys) /\ "RELEASE_ALL" \in PlainKinds
    BY DEF Owners, Senders, PlainKinds
  <1>3. /\ IdleRouter \in RouterType /\ RouterKnows(IdleRouter, {})
        /\ Plain("RELEASE_ALL") \in Msgs
        /\ \A d, x : ~Presses(Plain("RELEASE_ALL"), d, x)
    BY Zenon, <1>2, IdleKnows, MsgsMade, PlainPresses
  <1>4. \A d, x : Frees(Plain("RELEASE_ALL"), d, x)
    BY DEF Frees, Plain
  <1>5. Plain("RELEASE_ALL") # Nothing
    BY DEF Plain, Nothing
  <1>6. CASE client_claim_active
    <2>1. /\ rdp = "none" /\ rdp' = "ready" /\ router' = [router EXCEPT !["rdp"] = IdleRouter]
          /\ UNCHANGED <<linkVars, http, busy, todo, seen, hid, held>>
      BY Zenon, <1>6 DEF client_claim_active
    <2>2. held["rdp"] = {}
      BY Zenon, <1>1, <2>1 DEF PeerPlace
    <2>3. PeerPlace'
      BY <2>1 DEF PeerPlace
    <2>4. /\ router' \in [Owners -> RouterType] /\ router'["http"] = router["http"]
          /\ RouterKnows(router'["rdp"], held["rdp"])
      BY Zenon, <1>1, <1>2, <1>3, <2>1, <2>2
    <2> QED BY Zenon, <2>1, <2>3, <2>4, SameView
  <1>7. CASE client_leaves
    <2>1. /\ rdp = "ready" /\ rdp' = "leaving" /\ todo["rdp"] = Nothing
          /\ UNCHANGED <<linkVars, http, router, busy, todo, seen, hid, held>>
      BY Zenon, <1>7 DEF client_leaves
    <2>2. PeerPlace'
      BY <2>1 DEF PeerPlace
    <2> QED BY Zenon, <1>1, <1>2, <2>1, <2>2, SameView
  <1>8. CASE client_release_all_inputs
    <2>1. /\ rdp = "leaving" /\ rdp' = "stopping" /\ router' = [router EXCEPT !["rdp"] = IdleRouter]
          /\ held' = [held EXCEPT !["rdp"] = {}] /\ Compose("rdp", Plain("RELEASE_ALL"))
          /\ UNCHANGED <<linkVars, http, busy, hid>>
      BY Zenon, <1>5, <1>8 DEF client_release_all_inputs, ReleaseMessage
    <2>2. todo["rdp"] = Nothing /\ held'["rdp"] = {}
      BY Zenon, <1>1, <1>2, <2>1 DEF PeerPlace
    <2>3. PeerPlace'
      BY <2>1, <2>2 DEF PeerPlace
    <2>4. http' = "running" => busy' = ~RouterIdle(router'["http"])
      <3>1. router'["http"] = router["http"]
        BY Zenon, <1>1, <1>2, <2>1
      <3> QED BY Zenon, <1>1, <2>1, <3>1
    <2>5. busy' \in BOOLEAN /\ http' \in {"off", "running", "stopped"} /\ UNCHANGED <<linkVars, hid>>
      BY Zenon, <1>1, <2>1
    <2> QED BY Zenon, <1>2, <1>3, <1>4, <2>1, <2>2, <2>3, <2>4, <2>5, OwnerActs
  <1>9. CASE http_api_stop
    <2>1. /\ http' = "stopped" /\ router' = [router EXCEPT !["http"] = IdleRouter]
          /\ held' = [held EXCEPT !["http"] = {}] /\ Compose("http", Plain("RELEASE_ALL"))
          /\ UNCHANGED <<linkVars, rdp, busy, hid>> /\ todo["http"] = Nothing
      BY Zenon, <1>9 DEF http_api_stop
    <2>2. todo'["rdp"] = todo["rdp"] /\ held'["rdp"] = held["rdp"]
      BY Zenon, <1>1, <1>2, <2>1 DEF Compose
    <2>3. PeerPlace'
      BY Zenon, <1>1, <2>1, <2>2 DEF PeerPlace
    <2>4. /\ busy' \in BOOLEAN /\ http' \in {"off", "running", "stopped"} /\ http' # "running"
          /\ UNCHANGED <<linkVars, hid>>
      BY <1>1, <2>1
    <2> QED BY Zenon, <1>2, <1>3, <1>4, <2>1, <2>3, <2>4, OwnerActs
  <1>10. CASE server_keepalive
    <2>1. /\ Compose("main", Relative({}, "keepalive"))
          /\ UNCHANGED <<linkVars, rdp, http, router, busy, hid, held>>
      BY Zenon, <1>10 DEF server_keepalive
    <2> QED BY Zenon, <2>1, MainActs
  <1> QED BY <1>6, <1>7, <1>8, <1>9, <1>10

(***************************************************************************)
(* The link                                                                *)
(***************************************************************************)
\* Steps of the link alone, and of the agent.
LEMMA LinkMoves ==
    ASSUME InputInv, UNCHANGED <<rdp, http, router, busy, todo, seen, held>>,
           hid' \in [keys : SUBSET AllKeys, buttons : SUBSET Buttons], LinkSane', AllCovered'
    PROVE  InputInv'
  <1>1. InputTypes' /\ RoutersKnow' /\ PeerPlace'
    BY Zenon, InputFacts DEF InputTypes, RoutersKnow, PeerPlace
  <1>2. TodoHeld'
    <2> SUFFICES ASSUME NEW d \in Places, NEW x
                 PROVE  /\ \A t \in Owners : Presses(todo'[t], d, x) => x \in InAgentNames(held'[t], d)
                        /\ ~Presses(todo'["main"], d, x)
      BY Zenon DEF TodoHeld, HeldAs, Presses, InAgentNames
    <2> QED BY Zenon, InputFacts DEF TodoHeld, HeldAs
  <1> QED BY Zenon, <1>1, <1>2 DEF InputInv

\* Connections come, are published and are cut.
LEMMA LinkChangesKeeps ==
    ASSUME InputInv, LinkChanges
    PROVE  InputInv'
  <1>1. UNCHANGED <<rdp, http, router, busy, todo, seen, held, hid>>
    BY DEF LinkChanges, inputVars
  <1>2. hid \in [keys : SUBSET AllKeys, buttons : SUBSET Buttons]
    BY Zenon, InputFacts DEF InputTypes
  <1>3. /\ wire \in Seq(WireType) /\ published \in Nat /\ Len(wire) \in Nat
        /\ current \in 0..Len(wire) /\ reader \in 0..Len(wire)
        /\ \A c \in 1..Len(wire) : /\ wire[c].open /\ wire[c].epoch # 0 => c = current
                                   /\ wire[c].epoch = 0 => wire[c].frames = <<>>
        /\ reader = 0 => hid = NothingHeld
        /\ reader # 0 => (wire[reader].epoch = 0 => hid = NothingHeld)
        /\ reader # 0 => reader \in 1..Len(wire)
    <2>1. LinkSane /\ Len(wire) \in Nat
      BY Zenon, InputFacts
    <2>2. reader \in 0..Len(wire)
      BY Zenon, <2>1 DEF LinkSane
    <2>3. reader # 0 => reader \in 1..Len(wire)
      BY <2>1, <2>2
    <2> QED BY Zenon, <2>1, <2>3 DEF LinkSane
  <1>4. PICK w : w = wire'
    BY Zenon
  <1>w. PICK lost : lost = {current} /\ wire \in Seq(WireType)
    BY Zenon, <1>3
  <1>5. CASE Connect
    <2>1. reader = 0 /\ w = Append(wire, NewWire) /\ reader' = Len(w)
          /\ UNCHANGED <<current, published>>
      BY Zenon, <1>4, <1>5 DEF Connect
    <2>2. NewWire \in WireType /\ NewWire.epoch = 0 /\ NewWire.frames = <<>>
      <3>1. <<>> \in Seq(FrameType)
        BY EmptySeq
      <3> QED BY <3>1 DEF NewWire, WireType
    <2>3. /\ w \in Seq(WireType) /\ Len(w) = Len(wire) + 1
          /\ (\A c \in 1..Len(wire) : w[c] = wire[c]) /\ w[Len(w)] = NewWire
      BY <1>3, <2>1, <2>2, AppendProperties
    <2>4. /\ current \in 0..Len(w) /\ reader' \in 0..Len(w) /\ reader' # 0
          /\ \A c \in 1..Len(w) : c \in 1..Len(wire) \/ c = Len(w)
      BY <1>3, <2>1, <2>3
    <2>5. LinkSane'
      <3>1. \A c \in 1..Len(w) : /\ w[c].open /\ w[c].epoch # 0 => c = current
                                 /\ w[c].epoch = 0 => w[c].frames = <<>>
        BY Zenon, <1>3, <2>2, <2>3, <2>4
      <3> QED BY Zenon, <1>1, <1>3, <1>4, <2>1, <2>3, <2>4, <3>1 DEF LinkSane
    <2>6. AllCovered'
      BY Zenon, <1>4, <2>1, <2>2, <2>3 DEF AllCovered, Live
    <2> QED BY Zenon, <1>1, <1>2, <2>5, <2>6, LinkMoves
  <1>6. CASE \E c \in Wires : Publish(c)
    <2>1. PICK c \in 1..Len(wire) : Publish(c)
      BY Zenon, <1>6, InputFacts DEF Wires
    <2> DEFINE e == published + 1
    <2>a. PICK v : v = Cut(wire, lost)
      BY Zenon
    <2>2. /\ wire[c].epoch = 0 /\ published' = e /\ w = [v EXCEPT ![c].epoch = e]
          /\ current' = c /\ reader' = reader
      BY Zenon, <1>4, <1>w, <2>1, <2>a DEF Publish, Published
    <2>3. e \in Nat /\ e # 0 /\ c \in 0..Len(wire)
      BY <1>3
    <2> HIDE DEF e
    <2>4. /\ v \in Seq(WireType) /\ Len(v) = Len(wire)
          /\ \A b \in 1..Len(wire) : /\ v[b].frames = wire[b].frames /\ v[b].epoch = wire[b].epoch
                                     /\ v[b].open <=> wire[b].open /\ b # current
      <3>1. /\ v \in Seq(WireType) /\ Len(v) = Len(wire)
            /\ \A b \in 1..Len(wire) : /\ v[b].frames = wire[b].frames /\ v[b].epoch = wire[b].epoch
                                       /\ v[b].open <=> wire[b].open /\ b \notin lost
        BY <1>w, <2>a, CutWires
      <3> QED BY Zenon, <1>w, <3>1
    <2>5. /\ w \in Seq(WireType) /\ Len(w) = Len(wire)
          /\ w[c].frames = v[c].frames /\ w[c].epoch = e
          /\ \A b \in 1..Len(wire) : b # c => w[b] = v[b]
      <3>1. c \in 1..Len(v)
        BY Zenon, <2>4
      <3>2. /\ w \in Seq(WireType) /\ Len(w) = Len(v)
            /\ w[c].frames = v[c].frames /\ w[c].epoch = e
            /\ \A b \in 1..Len(v) : b # c => w[b] = v[b]
        BY <2>2, <2>3, <2>4, <3>1, SetEpoch
      <3> QED BY Zenon, <2>4, <3>2
    <2>6. LinkSane'
      <3>1. \A b \in 1..Len(wire) : /\ w[b].open /\ w[b].epoch # 0 => b = c
                                    /\ w[b].epoch = 0 => w[b].frames = <<>>
        BY <1>3, <2>3, <2>4, <2>5
      <3>2. reader # 0 => (w[reader].epoch = 0 => hid = NothingHeld)
        BY Zenon, <1>3, <2>3, <2>4, <2>5
      <3> QED BY Zenon, <1>1, <1>3, <1>4, <2>2, <2>3, <2>5, <3>1, <3>2 DEF LinkSane
    <2>7. AllCovered'
      <3> SUFFICES ASSUME Live' PROVE AllCovered'
        BY Zenon DEF AllCovered
      <3>1. reader # 0 /\ w[reader].open /\ w[reader].epoch # 0
        BY Zenon, <1>4, <2>2 DEF Live
      <3>2. reader = c
        BY Zenon, <1>3, <2>4, <2>5, <3>1
      <3>3. w[reader].frames = <<>> /\ hid = NothingHeld
        BY Zenon, <1>3, <2>2, <2>4, <2>5, <3>2
      <3>4. Len(w[reader].frames) = 0 /\ \A d \in Places : At(hid, d) = {}
        BY <3>3, EmptySeq DEF At, Places, NothingHeld
      <3>5. \A i : i \notin 1..0
        OBVIOUS
      <3> QED BY Zenon, <1>1, <1>4, <2>2, <3>4, <3>5 DEF AllCovered, At
    <2> QED BY Zenon, <1>1, <1>2, <2>6, <2>7, LinkMoves
  <1>7. CASE Retire
    <2>1. /\ w = Cut(wire, lost) /\ current' = 0 /\ UNCHANGED <<reader, published>>
      BY Zenon, <1>4, <1>7, <1>w DEF Retire
    <2>2. /\ w \in Seq(WireType) /\ Len(w) = Len(wire)
          /\ \A b \in 1..Len(wire) : /\ w[b].frames = wire[b].frames /\ w[b].epoch = wire[b].epoch
                                     /\ w[b].open <=> wire[b].open /\ b # current
      <3>1. /\ w \in Seq(WireType) /\ Len(w) = Len(wire)
            /\ \A b \in 1..Len(wire) : /\ w[b].frames = wire[b].frames /\ w[b].epoch = wire[b].epoch
                                       /\ w[b].open <=> wire[b].open /\ b \notin lost
        BY <1>w, <2>1, CutWires
      <3> QED BY Zenon, <1>w, <3>1
    <2>3. 0 \in 0..Len(wire)
      BY <1>3
    <2>4. LinkSane'
      <3>1. \A b \in 1..Len(wire) : /\ w[b].open /\ w[b].epoch # 0 => b = 0
                                    /\ w[b].epoch = 0 => w[b].frames = <<>>
        BY Zenon, <1>3, <2>2
      <3>2. reader # 0 => (w[reader].epoch = 0 => hid = NothingHeld)
        BY Zenon, <1>3, <2>2
      <3> QED BY Zenon, <1>1, <1>3, <1>4, <2>1, <2>2, <2>3, <3>1, <3>2 DEF LinkSane
    <2>5. AllCovered'
      <3>1. reader # 0 => ~(w[reader].open /\ w[reader].epoch # 0)
        BY Zenon, <1>3, <2>2
      <3> QED BY Zenon, <1>4, <2>1, <3>1 DEF AllCovered, Live
    <2> QED BY Zenon, <1>1, <1>2, <2>4, <2>5, LinkMoves
  <1> QED BY Zenon, <1>5, <1>6, <1>7 DEF LinkChanges

(***************************************************************************)
(* The agent and the senders                                               *)
(***************************************************************************)
\* The two parts of Covered.
Excused(d, x) == \/ \E o \in Owners : x \in HeldAs(o, d)
                 \/ \E o \in Owners : Frees(todo[o], d, x) /\ seen[o] = reader

FreedLater(f, i, d, x) == \E j \in (i + 1)..Len(f) : Frees(f[j].type, d, x)

\* AllCovered before a step, by its parts.
LEMMA CoveredNow ==
    ASSUME InputInv, Live
    PROVE  \A d \in Places : \A x :
              /\ x \in At(hid, d) => Excused(d, x) \/ FreedLater(wire[reader].frames, 0, d, x)
              /\ \A i \in 1..Len(wire[reader].frames) :
                    Presses(wire[reader].frames[i].type, d, x)
                       => Excused(d, x) \/ FreedLater(wire[reader].frames, i, d, x)
  BY Zenon, InputFacts DEF AllCovered, Covered, Excused, FreedLater

\* AllCovered after a step, by its parts.
LEMMA CoveredThen ==
    ASSUME NEW f, f = wire'[reader'].frames, NEW h, h = hid',
           ASSUME Live'
           PROVE  \A d \in Places : \A x :
                     /\ x \in At(h, d) => Excused(d, x)' \/ FreedLater(f, 0, d, x)
                     /\ \A i \in 1..Len(f) :
                           Presses(f[i].type, d, x) => Excused(d, x)' \/ FreedLater(f, i, d, x)
    PROVE  AllCovered'
  <1> SUFFICES ASSUME Live' PROVE AllCovered'
    BY Zenon DEF AllCovered
  <1>1. ASSUME NEW d \in Places, NEW x, NEW i, Excused(d, x)' \/ FreedLater(f, i, d, x)
        PROVE  Covered(i, d, x)'
    <2>1. \A j : Frees(f[j].type, d, x) => Frees(wire[reader].frames[j].type, d, x)'
      BY Zenon DEF Frees
    <2> QED BY Zenon, <1>1, <2>1 DEF Covered, Excused, FreedLater
  <1>2. \A d \in Places : \A x : \A i :
            Presses(wire[reader].frames[i].type, d, x)' => Presses(f[i].type, d, x)
    BY Zenon DEF Presses
  <1>3. \A d \in Places : \A x : x \in At(hid, d)' => x \in At(h, d)
    BY Zenon DEF At
  <1> QED BY Zenon, <1>1, <1>2, <1>3 DEF AllCovered

\* The agent takes the first frame.
LEMMA TakeKeeps ==
    ASSUME InputInv, handle_control
    PROVE  InputInv'
  <1>1. /\ reader # 0 /\ wire[reader].frames # <<>>
        /\ wire' = [wire EXCEPT ![reader].frames = Tail(@)]
        /\ hid' = handle_message(hid, Head(wire[reader].frames).type)
        /\ UNCHANGED <<current, reader, published, rdp, http, router, busy, todo, seen, held>>
    BY Zenon DEF handle_control, Take
  <1>2. /\ wire \in Seq(WireType) /\ published \in Nat /\ Len(wire) \in Nat
        /\ current \in 0..Len(wire) /\ reader \in 1..Len(wire) /\ reader \in 0..Len(wire)
        /\ \A c \in 1..Len(wire) : /\ wire[c].open /\ wire[c].epoch # 0 => c = current
                                   /\ wire[c].epoch = 0 => wire[c].frames = <<>>
        /\ hid \in [keys : SUBSET AllKeys, buttons : SUBSET Buttons]
    <2>1. LinkSane /\ Len(wire) \in Nat /\ InputTypes
      BY Zenon, InputFacts
    <2>2. reader \in 0..Len(wire)
      BY Zenon, <2>1 DEF LinkSane
    <2>3. reader \in 1..Len(wire)
      BY <1>1, <2>1, <2>2
    <2> QED BY Zenon, <2>1, <2>2, <2>3 DEF LinkSane, InputTypes
  <1>3. PICK f : f = wire[reader].frames
    BY Zenon
  <1>4. f \in Seq(FrameType) /\ wire[reader].epoch # 0
    BY Zenon, <1>1, <1>2, <1>3, WireFields
  <1>5. PICK g : g = Tail(f)
    BY Zenon
  <1>6. /\ g \in Seq(FrameType) /\ Len(f) \in Nat /\ Len(f) >= 1 /\ Len(g) = Len(f) - 1
        /\ (\A i \in 1..Len(g) : g[i] = f[i + 1]) /\ Head(f) = f[1] /\ f[1] \in FrameType
    BY <1>1, <1>3, <1>4, <1>5, HeadTailProperties, LenProperties, ElementOfSeq, EmptySeq
  <1>7. PICK w : w = wire'
    BY Zenon
  <1>8. w = WithFrames(wire, reader, g)
    BY <1>1, <1>3, <1>5, <1>7 DEF WithFrames
  <1>9. /\ w \in Seq(WireType) /\ Len(w) = Len(wire)
        /\ w[reader].frames = g /\ w[reader].epoch = wire[reader].epoch
        /\ w[reader].open = wire[reader].open
        /\ \A b \in 1..Len(wire) : b # reader => w[b] = wire[b]
    BY <1>2, <1>6, <1>8, SetFrames
  <1>10. PICK m : m = f[1].type
    BY Zenon
  <1>11. m \in Msgs /\ m # Nothing /\ hid' = handle_message(hid, m)
    <2>1. m \in Msgs \ {Nothing}
      BY <1>6, <1>10 DEF FrameType
    <2> QED BY Zenon, <1>1, <1>3, <1>6, <1>10, <2>1
  <1>12. PICK h : h = hid'
    BY Zenon
  <1>13. /\ h \in [keys : SUBSET AllKeys, buttons : SUBSET Buttons]
         /\ \A d \in Places : \A x : x \in At(h, d) =>
               (x \in At(hid, d) /\ ~Frees(m, d, x)) \/ Presses(m, d, x)
    BY Zenon, <1>2, <1>11, <1>12, MessageEffect
  <1>14. LinkSane'
    <2>1. \A b \in 1..Len(wire) : /\ w[b].open /\ w[b].epoch # 0 => b = current
                                  /\ w[b].epoch = 0 => w[b].frames = <<>>
      BY Zenon, <1>2, <1>4, <1>9
    <2>2. w[reader].epoch # 0
      BY Zenon, <1>4, <1>9
    <2> QED BY Zenon, <1>1, <1>2, <1>7, <1>9, <2>1, <2>2 DEF LinkSane
  <1>15. AllCovered'
    <2>1. ASSUME Live'
          PROVE  \A d \in Places : \A x :
                    /\ x \in At(h, d) => Excused(d, x)' \/ FreedLater(g, 0, d, x)
                    /\ \A i \in 1..Len(g) :
                          Presses(g[i].type, d, x) => Excused(d, x)' \/ FreedLater(g, i, d, x)
      <3>1. Live
        BY Zenon, <1>1, <1>7, <1>9, <2>1 DEF Live
      <3>2. ASSUME NEW d \in Places, NEW x
            PROVE  /\ x \in At(hid, d) => Excused(d, x) \/ FreedLater(f, 0, d, x)
                   /\ \A i \in 1..Len(f) :
                         Presses(f[i].type, d, x) => Excused(d, x) \/ FreedLater(f, i, d, x)
        BY Zenon, <1>3, <3>1, CoveredNow
      <3>3. ASSUME NEW d \in Places, NEW x, Excused(d, x) PROVE Excused(d, x)'
        BY <1>1, <3>3 DEF Excused, HeldAs, InAgentNames, Frees
      <3>4. ASSUME NEW d \in Places, NEW x, NEW i \in Nat, FreedLater(f, i + 1, d, x)
            PROVE  FreedLater(g, i, d, x)
        <4>1. PICK j \in (i + 1 + 1)..Len(f) : Frees(f[j].type, d, x)
          BY Zenon, <3>4 DEF FreedLater
        <4>2. j - 1 \in (i + 1)..Len(g) /\ g[j - 1] = f[j]
          BY <1>6
        <4> QED BY Zenon, <4>1, <4>2 DEF FreedLater
      <3>5. ASSUME NEW d \in Places, NEW x, x \in At(h, d)
            PROVE  Excused(d, x)' \/ FreedLater(g, 0, d, x)
        <4>1. 1 \in 1..Len(f) /\ 0 \in Nat /\ 0 + 1 = 1
          BY <1>6
        <4>2. CASE Presses(m, d, x)
          <5>1. Excused(d, x) \/ FreedLater(f, 1, d, x)
            BY Zenon, <1>10, <3>2, <4>1, <4>2
          <5> QED BY Zenon, <3>3, <3>4, <4>1, <5>1
        <4>3. CASE x \in At(hid, d) /\ ~Frees(m, d, x)
          <5>1. CASE Excused(d, x)
            BY Zenon, <3>3, <5>1
          <5>2. CASE FreedLater(f, 0, d, x)
            <6>1. PICK j \in (0 + 1)..Len(f) : Frees(f[j].type, d, x)
              BY Zenon, <5>2 DEF FreedLater
            <6>2. j # 1
              BY Zenon, <1>10, <4>3, <6>1
            <6>3. j \in (1 + 1)..Len(f)
              BY <1>6, <6>2
            <6>4. FreedLater(f, 1, d, x)
              BY Zenon, <6>1, <6>3 DEF FreedLater
            <6> QED BY Zenon, <3>4, <4>1, <6>4
          <5> QED BY Zenon, <3>2, <4>3, <5>1, <5>2
        <4> QED BY Zenon, <1>13, <3>5, <4>2, <4>3
      <3>6. ASSUME NEW d \in Places, NEW x, NEW i \in 1..Len(g), Presses(g[i].type, d, x)
            PROVE  Excused(d, x)' \/ FreedLater(g, i, d, x)
        <4>1. i + 1 \in 1..Len(f) /\ i \in Nat /\ g[i] = f[i + 1]
          BY <1>6
        <4>2. Excused(d, x) \/ FreedLater(f, i + 1, d, x)
          BY Zenon, <3>2, <3>6, <4>1
        <4> QED BY Zenon, <3>3, <3>4, <4>1, <4>2
      <3> QED BY Zenon, <3>5, <3>6
    <2>2. g = wire'[reader'].frames
      BY Zenon, <1>1, <1>7, <1>9
    <2> QED BY Zenon, <1>12, <2>1, <2>2, CoveredThen
  <1>16. hid' \in [keys : SUBSET AllKeys, buttons : SUBSET Buttons]
    BY Zenon, <1>12, <1>13
  <1> QED BY Zenon, <1>1, <1>14, <1>15, <1>16, LinkMoves

\* The agent leaves its connection.
LEMMA LeaveKeeps ==
    ASSUME InputInv, disconnect_control
    PROVE  InputInv'
  <1>1. /\ reader # 0
        /\ wire' = [Cut(wire, {reader}) EXCEPT ![reader].frames = <<>>]
        /\ reader' = 0 /\ hid' = NothingHeld
        /\ UNCHANGED <<current, published, rdp, http, router, busy, todo, seen, held>>
    BY Zenon DEF disconnect_control, Leave, DisconnectReleases
  <1>2. /\ wire \in Seq(WireType) /\ published \in Nat /\ Len(wire) \in Nat
        /\ current \in 0..Len(wire) /\ reader \in 0..Len(wire)
        /\ \A c \in 1..Len(wire) : /\ wire[c].open /\ wire[c].epoch # 0 => c = current
                                   /\ wire[c].epoch = 0 => wire[c].frames = <<>>
    <2>1. LinkSane /\ Len(wire) \in Nat
      BY Zenon, InputFacts
    <2> QED BY Zenon, <2>1 DEF LinkSane
  <1>3. reader \in 1..Len(wire) /\ 0 \in 0..Len(wire)
    BY <1>1, <1>2
  <1>4. PICK lost : lost = {reader}
    BY Zenon
  <1>5. PICK v : v = Cut(wire, lost)
    BY Zenon
  <1>6. /\ v \in Seq(WireType) /\ Len(v) = Len(wire)
        /\ \A c \in 1..Len(wire) : /\ v[c].frames = wire[c].frames /\ v[c].epoch = wire[c].epoch
                                   /\ v[c].open <=> wire[c].open /\ c \notin lost
    BY <1>2, <1>5, CutWires
  <1>7. PICK w : w = wire'
    BY Zenon
  <1>8. PICK g : g = <<>>
    BY Zenon
  <1>9. w = WithFrames(v, reader, g)
    BY <1>1, <1>4, <1>5, <1>7, <1>8 DEF WithFrames
  <1>10. /\ w \in Seq(WireType) /\ Len(w) = Len(v)
         /\ w[reader].frames = g /\ w[reader].epoch = v[reader].epoch
         /\ w[reader].open = v[reader].open
         /\ \A b \in 1..Len(v) : b # reader => w[b] = v[b]
    <2>1. g \in Seq(FrameType) /\ reader \in 1..Len(v)
      BY <1>3, <1>6, <1>8
    <2> QED BY <1>6, <1>9, <2>1, SetFrames
  <1>11. LinkSane'
    <2>1. ASSUME NEW b \in 1..Len(wire)
          PROVE  /\ w[b].open /\ w[b].epoch # 0 => b = current
                 /\ w[b].epoch = 0 => w[b].frames = <<>>
      <3>1. CASE b = reader
        <4>1. ~w[b].open
          BY Zenon, <1>3, <1>4, <1>6, <1>10, <3>1
        <4> QED BY Zenon, <1>8, <1>10, <3>1, <4>1
      <3>2. CASE b # reader
        <4>1. w[b] = v[b]
          BY Zenon, <1>6, <1>10, <3>2
        <4>2. /\ w[b].open => wire[b].open
              /\ w[b].frames = wire[b].frames /\ w[b].epoch = wire[b].epoch
          BY Zenon, <1>6, <4>1
        <4>3. /\ wire[b].open /\ wire[b].epoch # 0 => b = current
              /\ wire[b].epoch = 0 => wire[b].frames = <<>>
          BY Zenon, <1>2
        <4> QED BY Zenon, <4>2, <4>3
      <3> QED BY Zenon, <3>1, <3>2
    <2> QED BY Zenon, <1>1, <1>2, <1>3, <1>6, <1>7, <1>10, <2>1 DEF LinkSane
  <1>12. AllCovered'
    BY Zenon, <1>1 DEF AllCovered, Live
  <1>13. hid' \in [keys : SUBSET AllKeys, buttons : SUBSET Buttons]
    BY <1>1 DEF NothingHeld
  <1> QED BY Zenon, <1>1, <1>11, <1>12, <1>13, LinkMoves

\* The rest of the state over the attempt of thread t to send.
LEMMA SendElsewhere ==
    ASSUME InputInv, NEW t \in Senders, agent_transport_send(t), LinkSane', AllCovered'
    PROVE  InputInv'
  <1> DEFINE n == TodoAfter(t)
  <1>1. /\ todo[t] # Nothing /\ UNCHANGED <<http, router, busy, hid, held>>
        /\ todo' = [todo EXCEPT ![t] = n]
        /\ seen' = [seen EXCEPT ![t] = IF n = Nothing THEN 0 ELSE current]
        /\ \E sent \in BOOLEAN :
              rdp' = IF t = "rdp" /\ n = Nothing THEN PeerAfter(sent) ELSE rdp
    BY Zenon DEF agent_transport_send, Compose
  <1>2. /\ n \in Msgs /\ n \in {Nothing, Plain("STOP_STREAM")}
        /\ \A d, x : ~Presses(n, d, x)
    <2>1. n = Nothing \/ n = Plain("STOP_STREAM")
      BY Zenon DEF TodoAfter
    <2>2. "STOP_STREAM" \in PlainKinds /\ "none" \in PlainKinds
      BY DEF PlainKinds
    <2>3. n \in Msgs
      BY Zenon, <2>1, <2>2, MsgsMade
    <2>4. ASSUME NEW d, NEW x PROVE ~Presses(n, d, x)
      BY Zenon, <2>1, <2>2, PlainPresses DEF Nothing
    <2> QED BY Zenon, <2>1, <2>3, <2>4
  <1>3. InputTypes /\ RoutersKnow /\ PeerPlace /\ TodoHeld /\ current \in Nat
    <2>1. InputTypes /\ RoutersKnow /\ PeerPlace /\ TodoHeld /\ LinkSane /\ Len(wire) \in Nat
      BY Zenon, InputFacts
    <2>2. current \in 0..Len(wire)
      BY Zenon, <2>1 DEF LinkSane
    <2> QED BY <2>1, <2>2
  <1> HIDE DEF n
  <1>4. /\ todo' \in [Senders -> Msgs] /\ seen' \in [Senders -> Nat]
        /\ todo'[t] = n /\ \A o \in Senders : o # t => todo'[o] = todo[o]
    BY <1>1, <1>2, <1>3 DEF InputTypes
  <1>5. InputTypes'
    BY Zenon, <1>1, <1>3, <1>4 DEF InputTypes
  <1>6. RoutersKnow'
    BY Zenon, <1>1, <1>3 DEF RoutersKnow
  <1>7. PeerPlace'
    <2>1. "rdp" \in Senders
      BY DEF Senders, Owners
    <2>2. CASE t = "rdp"
      <3>1. rdp \in {"ready", "stopping"}
        BY <1>1, <1>3, <2>2 DEF PeerPlace
      <3>2. CASE n = Nothing
        <4>1. PICK sent \in BOOLEAN : rdp' = PeerAfter(sent)
          BY Zenon, <1>1, <2>2, <3>2
        <4>2. \/ rdp = "ready" /\ rdp' \in {"ready", "leaving"}
              \/ rdp = "stopping" /\ rdp' = "none"
          BY <3>1, <4>1 DEF PeerAfter
        <4>3. todo'["rdp"] = Nothing /\ held' = held
          BY Zenon, <1>1, <1>4, <2>2, <3>2
        <4> QED BY <1>3, <4>2, <4>3 DEF PeerPlace
      <3>3. CASE n # Nothing
        <4>1. rdp' = rdp /\ held' = held
          BY Zenon, <1>1, <3>3
        <4> QED BY <1>3, <3>1, <4>1 DEF PeerPlace
      <3> QED BY Zenon, <3>2, <3>3
    <2>3. CASE t # "rdp"
      <3>1. rdp' = rdp /\ held' = held /\ todo'["rdp"] = todo["rdp"]
        BY Zenon, <1>1, <1>4, <2>1, <2>3
      <3> QED BY Zenon, <1>3, <3>1 DEF PeerPlace
    <2> QED BY Zenon, <2>2, <2>3
  <1>8. TodoHeld'
    <2> SUFFICES ASSUME NEW d \in Places, NEW x
                 PROVE  /\ \A o \in Owners : Presses(todo'[o], d, x) => x \in InAgentNames(held'[o], d)
                        /\ ~Presses(todo'["main"], d, x)
      BY Zenon DEF TodoHeld, HeldAs, Presses, InAgentNames
    <2>1. \A o \in Senders : Presses(todo'[o], d, x) => o # t /\ Presses(todo[o], d, x)
      BY Zenon, <1>2, <1>4
    <2>2. "main" \in Senders /\ \A o \in Owners : o \in Senders
      BY Zenon DEF Senders
    <2> QED BY Zenon, <1>1, <1>3, <2>1, <2>2 DEF TodoHeld, HeldAs
  <1> QED BY Zenon, <1>5, <1>6, <1>7, <1>8 DEF InputInv

\* What is excused by a message is so by another one, unless it is the one that
\* thread t has now sent or dropped.
LEMMA ExcusedStill ==
    ASSUME InputInv, NEW t \in Senders, agent_transport_send(t), reader' = reader,
           NEW d \in Places, NEW x, Excused(d, x)
    PROVE  \/ Excused(d, x)'
           \/ Frees(todo[t], d, x) /\ seen[t] = reader
  <1>1. /\ UNCHANGED <<held, reader>>
        /\ \A o \in Senders : o # t => todo'[o] = todo[o] /\ seen'[o] = seen[o]
    <2>1. /\ todo' = [todo EXCEPT ![t] = TodoAfter(t)] /\ held' = held
          /\ seen' = [seen EXCEPT ![t] = IF TodoAfter(t) = Nothing THEN 0 ELSE current]
      BY Zenon DEF agent_transport_send, Compose
    <2>2. todo \in [Senders -> Msgs] /\ seen \in [Senders -> Nat]
      BY Zenon, InputFacts DEF InputTypes
    <2> QED BY Zenon, <2>1, <2>2
  <1>2. CASE \E o \in Owners : x \in HeldAs(o, d)
    <2>1. \A o \in Owners : x \in HeldAs(o, d) => x \in HeldAs(o, d)'
      BY Zenon, <1>1 DEF HeldAs, InAgentNames
    <2> QED BY Zenon, <1>2, <2>1 DEF Excused
  <1>3. CASE \E o \in Owners : Frees(todo[o], d, x) /\ seen[o] = reader
    <2>1. PICK o \in Owners : Frees(todo[o], d, x) /\ seen[o] = reader
      BY Zenon, <1>3
    <2>2. CASE o # t
      <3>1. o \in Senders
        BY Zenon DEF Senders
      <3>2. todo'[o] = todo[o] /\ seen'[o] = reader'
        BY Zenon, <1>1, <2>1, <2>2, <3>1
      <3>3. Frees(todo'[o], d, x)
        BY Zenon, <2>1, <3>2
      <3>4. Frees(todo[o], d, x)'
        BY Zenon, <3>3 DEF Frees
      <3> QED BY Zenon, <3>2, <3>4 DEF Excused
    <2> QED BY Zenon, <2>1, <2>2
  <1> QED BY Zenon, <1>2, <1>3 DEF Excused

\* A frame that is written.
LEMMA SentKeeps ==
    ASSUME InputInv, NEW t \in Senders, agent_transport_send(t), Usable, Send(current, todo[t])
    PROVE  LinkSane' /\ AllCovered'
  <1>1. PICK m : m = todo[t]
    BY Zenon
  <1>2. /\ wire[current].epoch # 0
        /\ wire' = [wire EXCEPT ![current].frames =
                       Append(@, [type |-> m, epoch |-> wire[current].epoch])]
        /\ UNCHANGED <<current, reader, published, hid, held>> /\ m # Nothing
    BY Zenon, <1>1 DEF Send, Published, agent_transport_send
  <1>3. /\ wire \in Seq(WireType) /\ published \in Nat /\ Len(wire) \in Nat
        /\ current \in 0..Len(wire) /\ reader \in 0..Len(wire)
        /\ \A c \in 1..Len(wire) : /\ wire[c].open /\ wire[c].epoch # 0 => c = current
                                   /\ wire[c].epoch = 0 => wire[c].frames = <<>>
        /\ reader = 0 => hid = NothingHeld
        /\ reader # 0 => (wire[reader].epoch = 0 => hid = NothingHeld)
        /\ todo \in [Senders -> Msgs]
    <2>1. LinkSane /\ Len(wire) \in Nat /\ InputTypes
      BY Zenon, InputFacts
    <2> QED BY Zenon, <2>1 DEF LinkSane, InputTypes
  <1>4. current # 0 /\ current \in 1..Len(wire)
    <2>1. current # 0
      BY Zenon DEF Usable
    <2> QED BY <1>3, <2>1
  <1>5. PICK f : f = wire[current].frames
    BY Zenon
  <1>6. f \in Seq(FrameType) /\ wire[current].epoch \in Nat /\ Len(f) \in Nat
    <2>1. f \in Seq(FrameType) /\ wire[current].epoch \in Nat
      BY Zenon, <1>3, <1>4, <1>5, WireFields
    <2> QED BY <2>1, LenProperties
  <1>7. PICK e : e = [type |-> m, epoch |-> wire[current].epoch]
    BY Zenon
  <1>8. e \in FrameType /\ e.type = m
    <2>1. m \in Msgs \ {Nothing}
      BY Zenon, <1>1, <1>2, <1>3
    <2> HIDE DEF Msgs, Nothing
    <2> QED BY <1>6, <1>7, <2>1 DEF FrameType
  <1>9. PICK g : g = Append(f, e)
    BY Zenon
  <1>10. /\ g \in Seq(FrameType) /\ Len(g) = Len(f) + 1
         /\ (\A i \in 1..Len(f) : g[i] = f[i]) /\ g[Len(f) + 1] = e
    <2> HIDE DEF FrameType
    <2> QED BY <1>6, <1>8, <1>9, AppendProperties
  <1>11. PICK w : w = wire'
    BY Zenon
  <1>12. w = WithFrames(wire, current, g)
    BY <1>2, <1>5, <1>7, <1>9, <1>11 DEF WithFrames
  <1>13. /\ w \in Seq(WireType) /\ Len(w) = Len(wire)
         /\ w[current].frames = g /\ w[current].epoch = wire[current].epoch
         /\ w[current].open = wire[current].open
         /\ \A b \in 1..Len(wire) : b # current => w[b] = wire[b]
    BY <1>3, <1>4, <1>10, <1>12, SetFrames
  <1>14. LinkSane'
    <2>1. \A b \in 1..Len(wire) : /\ w[b].open /\ w[b].epoch # 0 => b = current
                                  /\ w[b].epoch = 0 => w[b].frames = <<>>
      BY Zenon, <1>2, <1>3, <1>13
    <2>2. ASSUME reader # 0, w[reader].epoch = 0 PROVE hid = NothingHeld
      <3>1. reader \in 1..Len(wire)
        BY <1>3, <2>2
      <3>2. w[reader].epoch = wire[reader].epoch
        BY Zenon, <1>13, <3>1
      <3> QED BY Zenon, <1>3, <2>2, <3>2
    <2> QED BY Zenon, <1>2, <1>3, <1>11, <1>13, <2>1, <2>2 DEF LinkSane
  <1>15. AllCovered'
    <2>1. ASSUME Live' PROVE reader = current /\ Live
      <3>1. reader # 0 /\ w[reader].open /\ w[reader].epoch # 0
        BY Zenon, <1>2, <1>11, <2>1 DEF Live
      <3>2. reader \in 1..Len(wire)
        BY <1>3, <3>1
      <3>3. wire[reader].open /\ wire[reader].epoch # 0
        BY Zenon, <1>13, <3>1, <3>2
      <3> QED BY Zenon, <1>3, <3>1, <3>2, <3>3 DEF Live
    <2>2. ASSUME Live', NEW d \in Places, NEW x, NEW i \in 0..Len(f),
                 Excused(d, x) \/ FreedLater(f, i, d, x)
          PROVE  Excused(d, x)' \/ FreedLater(g, i, d, x)
      <3>1. CASE FreedLater(f, i, d, x)
        <4>1. PICK j \in (i + 1)..Len(f) : Frees(f[j].type, d, x)
          BY Zenon, <3>1 DEF FreedLater
        <4>2. j \in (i + 1)..Len(g) /\ g[j] = f[j]
          BY <1>6, <1>10
        <4> QED BY Zenon, <4>1, <4>2 DEF FreedLater
      <3>2. CASE Frees(m, d, x)
        <4>1. Len(f) + 1 \in (i + 1)..Len(g)
          BY <1>6, <1>10
        <4>2. Frees(g[Len(f) + 1].type, d, x)
          BY Zenon, <1>8, <1>10, <3>2
        <4> QED BY Zenon, <4>1, <4>2 DEF FreedLater
      <3>3. CASE Excused(d, x)
        BY Zenon, <1>1, <1>2, <3>2, <3>3, ExcusedStill
      <3> QED BY Zenon, <2>2, <3>1, <3>3
    <2>3. ASSUME NEW d \in Places, NEW x, Presses(m, d, x) PROVE Excused(d, x)'
      <3>1. TodoHeld
        BY Zenon, InputFacts
      <3>2. t \in Owners /\ x \in HeldAs(t, d)
        <4>1. t \in Owners \/ t = "main"
          BY Zenon DEF Senders
        <4> QED BY Zenon, <1>1, <2>3, <3>1, <4>1 DEF TodoHeld
      <3>3. x \in HeldAs(t, d)'
        BY Zenon, <1>2, <3>2 DEF HeldAs, InAgentNames
      <3> QED BY Zenon, <3>2, <3>3 DEF Excused
    <2>4. ASSUME Live', NEW d \in Places, NEW x
          PROVE  /\ x \in At(hid, d) => Excused(d, x)' \/ FreedLater(g, 0, d, x)
                 /\ \A i \in 1..Len(g) :
                       Presses(g[i].type, d, x) => Excused(d, x)' \/ FreedLater(g, i, d, x)
      <3>1. /\ x \in At(hid, d) => Excused(d, x) \/ FreedLater(f, 0, d, x)
            /\ \A i \in 1..Len(f) :
                  Presses(f[i].type, d, x) => Excused(d, x) \/ FreedLater(f, i, d, x)
        BY Zenon, <1>5, <2>1, <2>4, CoveredNow
      <3>2. 0 \in 0..Len(f) /\ \A i \in 1..Len(f) : i \in 0..Len(f)
        BY <1>6
      <3>3. ASSUME NEW i \in 1..Len(g), Presses(g[i].type, d, x)
            PROVE  Excused(d, x)' \/ FreedLater(g, i, d, x)
        <4>1. i \in 1..Len(f) \/ i = Len(f) + 1
          BY <1>6, <1>10
        <4>2. CASE i \in 1..Len(f)
          <5>1. Excused(d, x) \/ FreedLater(f, i, d, x)
            BY Zenon, <1>10, <3>1, <3>3, <4>2
          <5> QED BY Zenon, <2>2, <2>4, <3>2, <4>2, <5>1
        <4>3. CASE i = Len(f) + 1
          BY Zenon, <1>8, <1>10, <2>3, <3>3, <4>3
        <4> QED BY Zenon, <4>1, <4>2, <4>3
      <3> QED BY Zenon, <2>2, <2>4, <3>1, <3>2, <3>3
    <2>5. ASSUME Live' PROVE g = wire'[reader'].frames
      BY Zenon, <1>2, <1>11, <1>13, <2>1, <2>5
    <2>6. CASE Live'
      <3>1. g = wire'[reader'].frames /\ hid = hid'
        BY Zenon, <1>2, <2>5, <2>6
      <3> QED BY Zenon, <2>4, <3>1, CoveredThen
    <2> QED BY Zenon, <2>6 DEF AllCovered
  <1> QED BY Zenon, <1>14, <1>15

\* A message that is refused, or whose write cuts the connection.
LEMMA RefusedKeeps ==
    ASSUME InputInv, NEW t \in Senders, agent_transport_send(t), SendFails(t)
    PROVE  LinkSane' /\ AllCovered'
  <1>1. /\ wire \in Seq(WireType) /\ published \in Nat /\ Len(wire) \in Nat
        /\ current \in 0..Len(wire) /\ reader \in 0..Len(wire)
        /\ \A c \in 1..Len(wire) : /\ wire[c].open /\ wire[c].epoch # 0 => c = current
                                   /\ wire[c].epoch = 0 => wire[c].frames = <<>>
        /\ reader = 0 => hid = NothingHeld
        /\ reader # 0 => (wire[reader].epoch = 0 => hid = NothingHeld)
        /\ LinkSane
    <2>1. LinkSane /\ Len(wire) \in Nat
      BY Zenon, InputFacts
    <2> QED BY Zenon, <2>1 DEF LinkSane
  <1>2. UNCHANGED <<hid, held>>
    BY Zenon DEF agent_transport_send
  <1>3. CASE (Usable => seen[t] # current) /\ UNCHANGED linkVars
    <2>1. UNCHANGED <<current, reader, wire, published>>
      BY Zenon, <1>3 DEF linkVars
    <2>2. LinkSane'
      BY Zenon, <1>1, <1>2, <2>1 DEF LinkSane
    <2>3. PICK f : f = wire[reader].frames
      BY Zenon
    <2>4. ASSUME Live', NEW d \in Places, NEW x
          PROVE  /\ x \in At(hid, d) => Excused(d, x)' \/ FreedLater(f, 0, d, x)
                 /\ \A i \in 1..Len(f) :
                       Presses(f[i].type, d, x) => Excused(d, x)' \/ FreedLater(f, i, d, x)
      <3>1. Live
        BY Zenon, <2>1, <2>4 DEF Live
      <3>2. seen[t] # reader
        BY Zenon, <1>3, <3>1, InputFacts
      <3>3. Excused(d, x) => Excused(d, x)'
        BY Zenon, <2>1, <3>2, ExcusedStill
      <3> QED BY Zenon, <2>3, <3>1, <3>3, CoveredNow
    <2>5. f = wire'[reader'].frames /\ hid = hid'
      BY Zenon, <1>2, <2>1, <2>3
    <2>6. AllCovered'
      BY Zenon, <2>4, <2>5, CoveredThen
    <2> QED BY Zenon, <2>2, <2>6
  <1>4. CASE Usable /\ Broken
    <2>1. wire' = Cut(wire, {current}) /\ UNCHANGED <<current, reader, published>>
      BY Zenon, <1>4 DEF Broken
    <2>2. PICK lost : lost = {current}
      BY Zenon
    <2>3. PICK w : w = wire'
      BY Zenon
    <2>4. w = Cut(wire, lost)
      BY Zenon, <2>1, <2>2, <2>3
    <2>5. /\ w \in Seq(WireType) /\ Len(w) = Len(wire)
          /\ \A c \in 1..Len(wire) : /\ w[c].frames = wire[c].frames /\ w[c].epoch = wire[c].epoch
                                     /\ w[c].open <=> wire[c].open /\ c \notin lost
      BY <1>1, <2>4, CutWires
    <2>6. ASSUME NEW c \in 1..Len(wire) PROVE ~(w[c].open /\ w[c].epoch # 0)
      <3>1. CASE c = current
        BY Zenon, <2>2, <2>5, <3>1
      <3>2. CASE c # current
        <4>1. ~(wire[c].open /\ wire[c].epoch # 0)
          BY Zenon, <1>1, <3>2
        <4> QED BY Zenon, <2>5, <4>1
      <3> QED BY Zenon, <3>1, <3>2
    <2>7. \A c \in 1..Len(wire) : w[c].epoch = 0 => w[c].frames = <<>>
      BY Zenon, <1>1, <2>5
    <2>8. reader # 0 => reader \in 1..Len(wire)
      BY <1>1
    <2>9. reader # 0 => (w[reader].epoch = 0 => hid = NothingHeld)
      BY Zenon, <1>1, <2>5, <2>8
    <2>10. LinkSane'
      BY Zenon, <1>1, <1>2, <2>1, <2>3, <2>5, <2>6, <2>7, <2>9 DEF LinkSane
    <2>11. ~Live'
      BY Zenon, <2>1, <2>3, <2>6, <2>8 DEF Live
    <2> QED BY Zenon, <2>10, <2>11 DEF AllCovered
  <1> QED BY Zenon, <1>3, <1>4 DEF SendFails

(***************************************************************************)
(* The invariant                                                           *)
(***************************************************************************)
LEMMA InputInvInit ==
    ASSUME InputInit
    PROVE  InputInv
  <1>1. /\ current = 0 /\ reader = 0 /\ wire = <<>> /\ published = 0
        /\ rdp = "none" /\ http \in {"off", "running"} /\ busy = FALSE
        /\ router = [o \in Owners |-> IdleRouter]
        /\ todo = [t \in Senders |-> Nothing]
        /\ seen = [t \in Senders |-> 0]
        /\ hid = NothingHeld /\ held = [o \in Owners |-> {}]
    BY Zenon DEF InputInit, LinkInit
  <1>2. /\ "rdp" \in Owners /\ "http" \in Owners /\ "main" \in Senders
        /\ "rdp" \in Senders /\ \A o \in Owners : o \in Senders
    BY DEF Senders, Owners
  <1>3. InputTypes
    <2>1. busy \in BOOLEAN /\ http \in {"off", "running", "stopped"}
      BY Zenon, <1>1
    <2>2. router \in [Owners -> RouterType] /\ todo \in [Senders -> Msgs]
      BY Zenon, <1>1, IdleKnows, MsgsMade
    <2>3. /\ seen \in [Senders -> Nat] /\ hid \in [keys : SUBSET AllKeys, buttons : SUBSET Buttons]
          /\ held \in [Owners -> SUBSET (Buttons \cup Keys \cup HttpKeys)]
      BY <1>1 DEF NothingHeld
    <2> QED BY Zenon, <2>1, <2>2, <2>3 DEF InputTypes
  <1>4. RoutersKnow
    <2>1. \A o \in Owners : router[o] = IdleRouter /\ held[o] = {}
      BY Zenon, <1>1
    <2>2. busy = ~RouterIdle(router["http"])
      BY Zenon, <1>1, <1>2, <2>1 DEF RouterIdle
    <2> QED BY Zenon, <2>1, <2>2, IdleKnows DEF RoutersKnow
  <1>5. PeerPlace
    <2>1. todo["rdp"] = Nothing /\ held["rdp"] = {}
      BY Zenon, <1>1, <1>2
    <2> QED BY Zenon, <1>1, <2>1 DEF PeerPlace
  <1>6. LinkSane
    BY <1>1 DEF LinkSane
  <1>7. TodoHeld
    <2>1. \A t \in Senders : todo[t] = Nothing
      BY Zenon, <1>1
    <2>2. ASSUME NEW d, NEW x PROVE ~Presses(Nothing, d, x)
      <3>1. "none" \in PlainKinds
        BY DEF PlainKinds
      <3> QED BY Zenon, <3>1, PlainPresses DEF Nothing
    <2> QED BY Zenon, <1>2, <2>1, <2>2 DEF TodoHeld
  <1>8. AllCovered
    BY Zenon, <1>1 DEF AllCovered, Live
  <1> QED BY Zenon, <1>3, <1>4, <1>5, <1>6, <1>7, <1>8 DEF InputInv

LEMMA InputInvStep ==
    ASSUME InputInv, InputNext
    PROVE  InputInv'
  <1>1. ASSUME NEW t \in Senders, agent_transport_send(t) PROVE InputInv'
    <2>1. PICK sent \in BOOLEAN :
             IF sent THEN Usable /\ MaySend /\ Send(current, todo[t]) ELSE SendFails(t)
      BY Zenon, <1>1 DEF agent_transport_send
    <2>2. LinkSane' /\ AllCovered'
      BY Zenon, <1>1, <2>1, SentKeeps, RefusedKeeps
    <2> QED BY Zenon, <1>1, <2>2, SendElsewhere
  <1> QED BY Zenon, <1>1, HandlerKeeps, LifeKeeps, TakeKeeps, LeaveKeeps, LinkChangesKeeps
          DEF InputNext

LEMMA InputInvStutter ==
    ASSUME InputInv, UNCHANGED allVars
    PROVE  InputInv'
  <1>1. UNCHANGED <<rdp, http, router, busy, todo, seen, held, hid>>
    BY DEF allVars, inputVars
  <1>2. UNCHANGED <<current, reader, wire, published>>
    BY DEF allVars, linkVars
  <1>3. LinkSane' /\ hid' \in [keys : SUBSET AllKeys, buttons : SUBSET Buttons]
    BY Zenon, <1>1, <1>2, InputFacts DEF LinkSane, InputTypes
  <1>4. PICK f : f = wire[reader].frames
    BY Zenon
  <1>5. ASSUME Live', NEW d \in Places, NEW x
        PROVE  /\ x \in At(hid, d) => Excused(d, x)' \/ FreedLater(f, 0, d, x)
               /\ \A i \in 1..Len(f) :
                     Presses(f[i].type, d, x) => Excused(d, x)' \/ FreedLater(f, i, d, x)
    <2>1. Live
      BY Zenon, <1>2, <1>5 DEF Live
    <2>2. Excused(d, x) => Excused(d, x)'
      BY <1>1, <1>2 DEF Excused, HeldAs, InAgentNames, Frees
    <2> QED BY Zenon, <1>4, <2>1, <2>2, CoveredNow
  <1>6. f = wire'[reader'].frames /\ hid = hid'
    BY Zenon, <1>1, <1>2, <1>4
  <1>7. AllCovered'
    BY Zenon, <1>5, <1>6, CoveredThen
  <1> QED BY Zenon, <1>1, <1>3, <1>7, LinkMoves

LEMMA InputInvariant == InputSpec => []InputInv
  <1>1. InputInit => InputInv
    BY Zenon, InputInvInit
  <1>2. InputInv /\ [InputNext]_allVars => InputInv'
    BY Zenon, InputInvStep, InputInvStutter
  <1> QED BY PTL, <1>1, <1>2 DEF InputSpec

\* The routers, the messages being composed and what the agent holds stay within
\* their types, and a peer thread that has ended has left nothing to send
\* (gateway.c, input_router.c).
THEOREM InputTypeCorrect == InputSpec => []InputTypeOK
  <1>1. InputInv => InputTypeOK
    <2> SUFFICES ASSUME InputInv PROVE InputTypeOK
      OBVIOUS
    <2>1. InputTypes /\ PeerPlace
      BY Zenon, InputFacts
    <2>2. hid.keys \subseteq Keys \cup HttpKeys \cup Modifiers /\ hid.buttons \subseteq Buttons
      BY <2>1 DEF InputTypes, AllKeys
    <2>3. /\ rdp \in {"none", "ready", "leaving", "stopping"}
          /\ rdp = "none" => todo["rdp"] = Nothing /\ held["rdp"] = {}
      BY <2>1 DEF PeerPlace
    <2> QED BY Zenon, <2>1, <2>2, <2>3 DEF InputTypeOK, InputTypes
  <1> QED BY PTL, <1>1, InputInvariant

\* Whatever is sent, refused, lost with a connection or composed before another
\* was published, the agent holds no key and no button that neither client holds
\* once nothing is on its way (input_router.c, agent_transport.c, control.c).
THEOREM NoInputStuckAtAgent == InputSpec => []NoPhantomInput
  <1>1. InputInv => NoPhantomInput
    <2> SUFFICES ASSUME InputInv, Settled,
                        NEW d \in Places, NEW x, x \in At(hid, d)
                 PROVE  x \in HeldByClients
      BY DEF NoPhantomInput, Places, At
    <2>1. /\ reader # 0 /\ wire[reader].open /\ wire[reader].frames = <<>>
          /\ \A t \in Senders : todo[t] = Nothing
      BY Zenon DEF Settled
    <2>2. wire[reader].epoch # 0
      <3>1. hid # NothingHeld
        BY DEF At, NothingHeld, Places
      <3> QED BY Zenon, <2>1, <3>1, InputFacts DEF LinkSane
    <2>3. Live
      BY Zenon, <2>1, <2>2 DEF Live
    <2>4. Excused(d, x) \/ FreedLater(wire[reader].frames, 0, d, x)
      BY Zenon, <2>3, CoveredNow
    <2>5. ~FreedLater(wire[reader].frames, 0, d, x)
      BY <2>1 DEF FreedLater
    <2>6. \A o \in Owners : ~Frees(todo[o], d, x)
      <3>1. \A o \in Owners : todo[o] = Nothing
        BY Zenon, <2>1 DEF Senders
      <3> QED BY Zenon, <3>1, PlainPresses
    <2>7. PICK o \in Owners : x \in HeldAs(o, d)
      BY Zenon, <2>4, <2>5, <2>6 DEF Excused
    <2>8. \E t \in held[o] : x = IF t \in Buttons THEN t ELSE hid_map_scancode(t)
      <3>1. CASE d = "keys"
        <4>1. PICK t \in held[o] \ Buttons : x = hid_map_scancode(t)
          BY Zenon, <2>7, <3>1 DEF HeldAs, InAgentNames
        <4> QED BY Zenon, <4>1
      <3>2. CASE d # "keys"
        <4>1. x \in held[o] /\ x \in Buttons
          BY Zenon, <2>7, <3>2 DEF HeldAs, InAgentNames
        <4> QED BY Zenon, <4>1
      <3> QED BY Zenon, <3>1, <3>2
    <2>9. x \in {IF t \in Buttons THEN t ELSE hid_map_scancode(t) : t \in held[o]}
      BY <2>8
    <2> QED BY <2>9 DEF HeldByClients
  <1> QED BY PTL, <1>1, InputInvariant

\* The router of a client that holds nothing is idle and the flag the keepalive
\* reads is clear, for any keys in any order and whichever sends fail
\* (input_router_keyboard, input_router_pointer, server_keepalive).
THEOREM RouterIdleWhenReleased == InputSpec => []IdleWhenNothingHeld
  <1>1. InputInv => IdleWhenNothingHeld
    <2> SUFFICES ASSUME InputInv PROVE IdleWhenNothingHeld
      OBVIOUS
    <2>1. "rdp" \in Owners /\ "http" \in Owners
      BY DEF Owners
    <2>2. /\ \A o \in Owners : router[o] \in RouterType /\ RouterKnows(router[o], held[o])
          /\ http = "running" => busy = ~RouterIdle(router["http"])
      BY Zenon, InputFacts DEF InputTypes, RoutersKnow
    <2>3. \A o \in Owners : held[o] = {} => RouterIdle(router[o])
      BY Zenon, <2>2, IdleKnows DEF RouterIdle
    <2> QED BY Zenon, <2>1, <2>2, <2>3 DEF IdleWhenNothingHeld
  <1> QED BY PTL, <1>1, InputInvariant
=============================================================================
