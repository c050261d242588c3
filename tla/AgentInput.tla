------------------------------ MODULE AgentInput ------------------------------
(***************************************************************************)
(* The input side of nanokvm-agent: src/hid.c (keyboard and pointer state, *)
(* the two ordered USB report queues) driven by the single control thread  *)
(* of src/agent.c (main, handle_control, disconnect_control).              *)
(*                                                                         *)
(* A handler is modelled as the sequence of calls it makes, kept in todo:  *)
(* a report to hand to queue_report, a flush of one queue, the queue reset *)
(* of hid_release_all, or a failure.  The control thread executes todo to  *)
(* the end before it does anything else; the USB host, the kernel and time *)
(* interleave with every call and every iteration of flush_reports.        *)
(***************************************************************************)
EXTENDS Naturals, Sequences, FiniteSets

CONSTANTS
    Capacity,       \* HID_REPORT_QUEUE_CAPACITY
    ReportKeys,     \* usages that fit one boot keyboard report (6)
    Modifiers,      \* modifier keys
    Usages,         \* the other keys, as HID usage numbers
    MouseButtons,   \* buttons of the relative endpoint (mask 0x07)
    SideButtons,    \* buttons of the absolute endpoint (mask 0x18)
    Positions,      \* absolute positions; 0 is the initial one
    HasPan,         \* absolute_report_length = 7
    Texts,          \* TEXT_UTF8 payloads: sequences of text items
    MaxChunks,      \* bound: reports one relative motion is split into
    MaxInputs,      \* bound: input messages the gateway sends
    MaxFaults       \* bound: endpoint losses, stalls and paste failures

Keys == Modifiers \cup Usages
Buttons == MouseButtons \cup SideButtons

\* What the characters of a text become: the tap of an ASCII character's key with
\* its modifiers, one key of a Hangul sequence, a clipboard paste (Command+V), or
\* bytes that cannot be decoded or typed.
TextItem == [kind : {"tap", "jamo", "paste"}, mods : SUBSET Modifiers, usage : Usages]
            \cup [kind : {"bad"}]

ASSUME CapacityAssumption == Capacity \in Nat /\ Capacity >= 2
ASSUME ReportAssumption == ReportKeys \in Nat \ {0}
ASSUME KeysAssumption ==
    Modifiers \subseteq Nat /\ Usages \subseteq Nat /\ Modifiers \cap Usages = {}
ASSUME ButtonsAssumption ==
    /\ MouseButtons \subseteq Nat /\ SideButtons \subseteq Nat
    /\ MouseButtons \cap SideButtons = {}
ASSUME PositionsAssumption == Positions \subseteq Nat /\ 0 \in Positions
ASSUME TextsAssumption == Texts \subseteq Seq(TextItem)
ASSUME BoundsAssumption ==
    HasPan \in BOOLEAN /\ MaxChunks \in Nat /\ MaxInputs \in Nat /\ MaxFaults \in Nat

VARIABLES
    modifiers, usages,      \* HidState.modifiers, HidState.usages
    buttons, position,      \* HidState.buttons, (last_x, last_y)
    reports,                \* HidReportQueue.reports[head..head+count-1]
    delayed,                \* now < ready_at
    blocked,                \* blocked_at: "no", "yes" (set), "stalled" (too old)
    inflight,               \* inflight_endpoint ("none" for 0)
    todo, flushing, space,  \* the call the control thread is in
    onfail, failed,         \* what its caller does with a false result
    phase, connected,       \* where the main loop is; control_fd >= 0
    up, pending, host,      \* the USB gadget and the host behind it
    inputs, faults          \* counters of the bounds

hidVars == <<modifiers, usages, buttons, position>>
queueVars == <<reports, delayed, blocked, inflight>>
callVars == <<todo, flushing, space, onfail, failed>>
loopVars == <<phase, connected>>
usbVars == <<up, pending, host>>
vars == <<hidVars, queueVars, callVars, loopVars, usbVars, inputs, faults>>

-----------------------------------------------------------------------------
(* Reports and the state they carry *)

Endpoint == {"keyboard", "mouse", "touch"}
Queue == {"keyboard", "pointer"}
QueueOf(e) == IF e = "keyboard" THEN "keyboard" ELSE "pointer"

\* held is data[0] (and the key slots of a keyboard report), pos the absolute
\* position, delta says that the report carries relative motion or a wheel step.
Report == [op : {"report"}, endpoint : Endpoint, held : SUBSET Nat, pos : Nat,
           delta : BOOLEAN, motion : BOOLEAN, delay : BOOLEAN, paste : BOOLEAN]
NoReport == [op |-> "none"]
HostState == [held : SUBSET Nat, pos : Nat]
Gone == [held |-> {}]       \* the host has lost the device and forgot its state

MakeReport(e, held, pos, delta, motion) ==
    [op |-> "report", endpoint |-> e, held |-> held, pos |-> pos,
     delta |-> delta, motion |-> motion, delay |-> FALSE, paste |-> FALSE]

\* The six lowest usages fit the report.
LowestUsages(S) == {u \in S : Cardinality({v \in S : v < u}) < ReportKeys}

KeyboardReport(mods, keys, paced, paste) ==
    [op |-> "report", endpoint |-> "keyboard", held |-> mods \cup LowestUsages(keys),
     pos |-> 0, delta |-> FALSE, motion |-> FALSE, delay |-> paced, paste |-> paste]

MouseReport(held, delta) == MakeReport("mouse", held \cap MouseButtons, 0, delta, FALSE)

TouchReport(held, pos, delta, motion) ==
    MakeReport("touch", held \cap SideButtons, pos, delta, motion)

Flush(q) == [op |-> "flush", queue |-> q]
Cancel == [op |-> "cancel"]
Fail == [op |-> "fail"]

\* Mutant: the relative endpoint is forgotten.
NeutralReportsNoMouse ==
    <<KeyboardReport({}, {}, FALSE, FALSE), TouchReport({}, position, FALSE, FALSE)>>

NeutralReports ==
    <<KeyboardReport({}, {}, FALSE, FALSE), MouseReport({}, FALSE),
      TouchReport({}, position, FALSE, FALSE)>>

ReleaseCalls == <<Cancel>> \o NeutralReports

-----------------------------------------------------------------------------
(* Handlers *)

Idle == todo = <<>> /\ flushing = "none"

\* Enter a handler that makes these calls; policy says what a false result of
\* one of them does: "release" (stop and hid_release_all), "release_twice"
\* (hid_type_utf8 and its caller both release), "defer" (go on, then release)
\* or "ignore".
Enter(calls, policy) ==
    /\ todo' = calls
    /\ onfail' = policy
    /\ failed' = FALSE
    /\ UNCHANGED <<flushing, space, queueVars, usbVars, faults>>

NeutralState ==
    /\ modifiers' = {} /\ usages' = {} /\ buttons' = {}
    /\ UNCHANGED position

hid_release_all == NeutralState /\ Enter(ReleaseCalls, "ignore")

\* handle_control is called with the next message.
Message ==
    /\ Idle /\ ~failed
    /\ phase = "net" /\ connected /\ inputs < MaxInputs
    /\ inputs' = inputs + 1
    /\ UNCHANGED loopVars

\* KEY.  A key that is already in the requested state is not reported again.
hid_scancode(key, release) ==
    /\ Message
    /\ IF (key \in modifiers \cup usages) = ~release
         THEN /\ UNCHANGED hidVars
              /\ Enter(<<>>, "release")
         ELSE /\ modifiers' = IF release THEN modifiers \ {key}
                              ELSE modifiers \cup ({key} \cap Modifiers)
              /\ usages' = IF release THEN usages \ {key}
                           ELSE usages \cup ({key} \cap Usages)
              /\ UNCHANGED <<buttons, position>>
              /\ Enter(<<KeyboardReport(modifiers', usages', FALSE, FALSE)>>, "release")

\* The calls of a text typed from a neutral keyboard: the neutral report, then
\* a press and a release per item, up to the first one that cannot be typed.
FirstBad(text, i) ==
    text[i].kind = "bad" /\ \A j \in 1..(i - 1) : text[j].kind # "bad"

TextLength(text) ==
    IF \E i \in DOMAIN text : FirstBad(text, i)
      THEN 2 * (CHOOSE i \in DOMAIN text : FirstBad(text, i))
      ELSE 2 * Len(text) + 1

\* Mutant: the key stays down between two items.
TextCallHolds(text, n) ==
    IF n % 2 = 1 /\ (n = 1 \/ n = TextLength(text)) THEN KeyboardReport({}, {}, TRUE, FALSE)
    ELSE LET item == text[n \div 2] IN
         IF item.kind = "bad" THEN Fail
         ELSE KeyboardReport(item.mods, {item.usage}, TRUE, n % 2 = 0 /\ item.kind = "paste")

TextCall(text, n) ==
    IF n % 2 = 1 THEN KeyboardReport({}, {}, TRUE, FALSE)
    ELSE LET item == text[n \div 2] IN
         IF item.kind = "bad" THEN Fail
         ELSE KeyboardReport(item.mods, {item.usage}, TRUE, item.kind = "paste")

TextCalls(text) == [n \in 1..TextLength(text) |-> TextCall(text, n)]

\* TEXT_UTF8.  A single ASCII character while modifiers are held is a
\* shortcut and keeps them; any other text starts from a neutral keyboard.
hid_type_utf8(text) ==
    /\ Message
    /\ IF Len(text) = 1 /\ modifiers # {} /\ text[1].kind = "tap"
         THEN /\ UNCHANGED hidVars
              /\ Enter(<<KeyboardReport(modifiers \cup text[1].mods,
                                        usages \cup {text[1].usage}, TRUE, FALSE),
                         KeyboardReport(modifiers, usages, TRUE, FALSE)>>, "release_twice")
         ELSE /\ modifiers' = {} /\ usages' = {}
              /\ UNCHANGED <<buttons, position>>
              /\ Enter(TextCalls(text), "release_twice")

\* POINTER_ABS: a position, with the buttons that go down or up.  The position
\* precedes the click, which is on the other endpoint.
hid_absolute(pos, changed, down) ==
    /\ Message
    /\ buttons' = IF down THEN buttons \cup changed ELSE buttons \ changed
    /\ position' = pos
    /\ UNCHANGED <<modifiers, usages>>
    /\ Enter(<<TouchReport(buttons', pos, FALSE, changed = {})>>
             \o (IF buttons' \cap MouseButtons = buttons \cap MouseButtons THEN <<>>
                 ELSE <<MouseReport(buttons', FALSE)>>), "release")

\* POINTER_REL: the button mask, and a motion split into n reports.
hid_relative(next, n) ==
    /\ Message
    /\ buttons' = next
    /\ UNCHANGED <<modifiers, usages, position>>
    /\ Enter((IF next \cap SideButtons = buttons \cap SideButtons THEN <<>>
              ELSE <<TouchReport(next, position, FALSE, FALSE)>>)
             \o (IF n > 0 THEN [i \in 1..n |-> MouseReport(next, TRUE)]
                 ELSE IF next \cap MouseButtons = buttons \cap MouseButtons THEN <<>>
                 ELSE <<MouseReport(next, FALSE)>>), "release")

\* WHEEL: vertical steps are relative reports, horizontal ones need AC Pan.
hid_wheel(horizontal) ==
    /\ Message
    /\ UNCHANGED hidVars
    /\ Enter(IF ~horizontal THEN <<MouseReport(buttons, TRUE)>>
             ELSE IF HasPan THEN <<TouchReport(buttons, position, TRUE, FALSE)>>
             ELSE <<>>, "release")

\* SYNCHRONIZE: ordered, all three reports are attempted.
hid_synchronize ==
    /\ Message
    /\ NeutralState
    /\ Enter(NeutralReports, "defer")

\* RELEASE_ALL and STOP_STREAM.
ReleaseMessage == Message /\ hid_release_all

-----------------------------------------------------------------------------
(* queue_report *)

\* The call in progress returned true.
ReturnTrue ==
    /\ flushing' = "none"
    /\ space' = IF space = "flushing" THEN "tried" ELSE "no"
    /\ UNCHANGED <<hidVars, todo, onfail, failed>>

\* It returned false; rest is what the handler would still have done.  The
\* flush that queue_report makes for space is the one whose result is unused.
ReturnFalse(rest) ==
    /\ flushing' = "none"
    /\ space' = IF space = "flushing" THEN "tried" ELSE "no"
    /\ IF space = "flushing" \/ onfail \in {"ignore", "defer"}
         THEN /\ todo' = rest
              /\ failed' = (failed \/ (space # "flushing" /\ onfail = "defer"))
              /\ UNCHANGED <<hidVars, onfail>>
         ELSE /\ NeutralState
              /\ todo' = IF onfail = "release" THEN ReleaseCalls
                         ELSE ReleaseCalls \o ReleaseCalls
              /\ onfail' = "ignore"
              /\ UNCHANGED failed

CallIs(op) == todo # <<>> /\ flushing = "none" /\ Head(todo).op = op

\* USB takes a report: one transfer per endpoint is outstanding at a time.
Submit(r) == pending' = [pending EXCEPT ![r.endpoint] = r]

\* write_absolute_now: pure motion bypasses an idle queue.
MayBypass(r) ==
    /\ r.motion /\ space = "no"
    /\ reports["pointer"] = <<>> /\ inflight["pointer"] = "none"
    /\ up["touch"] /\ pending["touch"] = NoReport

\* Mutant: motion swallows a change of the buttons.
ReplacesAnyMotion(r, q) ==
    /\ r.motion /\ reports[q] # <<>>
    /\ LET last == reports[q][Len(reports[q])] IN last.endpoint = r.endpoint

\* Motion replaces the motion queued last when the buttons are the same.
Replaces(r, q) ==
    /\ r.motion /\ reports[q] # <<>>
    /\ LET last == reports[q][Len(reports[q])] IN
         last.motion /\ last.endpoint = r.endpoint /\ last.held = r.held

\* Mutant: the ring is taken to be full one report too late.
FullOffByOne(q) == Len(reports[q]) = Capacity + 1

Full(q) == Len(reports[q]) = Capacity

Enqueue(r, q) ==
    /\ reports' = [reports EXCEPT ![q] = Append(@, r)]
    /\ todo' = Tail(todo) /\ flushing' = q /\ space' = "no"
    /\ UNCHANGED <<hidVars, onfail, failed, pending>>

queue_report ==
    /\ CallIs("report")
    /\ UNCHANGED <<delayed, blocked, inflight, loopVars, up, host, inputs, faults>>
    /\ LET r == Head(todo)
           q == QueueOf(r.endpoint)
       IN \/ /\ MayBypass(r)
             /\ Submit(r)
             /\ todo' = Tail(todo)
             /\ UNCHANGED <<hidVars, reports, flushing, space, onfail, failed>>
          \/ /\ ~MayBypass(r) /\ Replaces(r, q)
             /\ reports' = [reports EXCEPT ![q][Len(reports[q])] = r]
             /\ todo' = Tail(todo) /\ flushing' = q
             /\ UNCHANGED <<hidVars, space, onfail, failed, pending>>
          \/ /\ ~MayBypass(r) /\ ~Replaces(r, q) /\ ~Full(q)
             /\ Enqueue(r, q)
          \/ /\ ~Replaces(r, q) /\ Full(q) /\ space = "no"
             /\ flushing' = q /\ space' = "flushing"
             /\ UNCHANGED <<hidVars, reports, todo, onfail, failed, pending>>
          \/ /\ ~Replaces(r, q) /\ Full(q) /\ space = "tried"
             /\ ReturnFalse(Tail(todo))
             /\ UNCHANGED <<reports, pending>>

-----------------------------------------------------------------------------
(* flush_reports: one action per way an iteration of its loop ends *)

Due(q) == flushing = q /\ reports[q] # <<>> /\ ~delayed[q]
Oldest(q) == Head(reports[q])

\* Mutant: submission order is taken for delivery order.
CrossesNever(q) == FALSE

\* The report is for another endpoint than the one submitted last.
Crosses(q) == inflight[q] \notin {"none", Oldest(q).endpoint}

Writable(q) ==
    /\ Due(q) /\ blocked[q] # "stalled"
    /\ Crosses(q) => pending[inflight[q]] = NoReport

PreviousDone(q) == inflight' = [inflight EXCEPT ![q] = IF Crosses(q) THEN "none" ELSE @]
Block(q) == blocked' = [blocked EXCEPT ![q] = IF @ = "no" THEN "yes" ELSE @]
Delay(q, d) == delayed' = [delayed EXCEPT ![q] = d]

flushFrame == <<loopVars, up, host, inputs>>

FlushEnds(q) ==
    /\ flushing = q /\ (reports[q] = <<>> \/ delayed[q])
    /\ ReturnTrue
    /\ UNCHANGED <<flushFrame, queueVars, pending, faults>>

\* Mutant: a stalled queue is waited for.
FlushStalledWaits(q) ==
    /\ Due(q) /\ blocked[q] = "stalled"
    /\ ReturnTrue
    /\ UNCHANGED <<flushFrame, queueVars, pending, faults>>

FlushStalled(q) ==
    /\ Due(q) /\ blocked[q] = "stalled"
    /\ ReturnFalse(todo)
    /\ UNCHANGED <<flushFrame, queueVars, pending, faults>>

FlushAwaitsPrevious(q) ==
    /\ Due(q) /\ blocked[q] # "stalled"
    /\ Crosses(q) /\ pending[inflight[q]] # NoReport
    /\ Block(q) /\ ReturnTrue
    /\ UNCHANGED <<flushFrame, reports, delayed, inflight, pending, faults>>

FlushPreviousLost(q) ==
    /\ Due(q) /\ blocked[q] # "stalled"
    /\ Crosses(q) /\ ~up[inflight[q]]
    /\ ReturnFalse(todo)
    /\ UNCHANGED <<flushFrame, queueVars, pending, faults>>

FlushPastes(q) ==
    /\ Writable(q) /\ Oldest(q).paste
    /\ reports' = [reports EXCEPT ![q][1].paste = FALSE]
    /\ PreviousDone(q) /\ Delay(q, TRUE) /\ ReturnTrue
    /\ UNCHANGED <<flushFrame, blocked, pending, faults>>

FlushPasteFails(q) ==
    /\ Writable(q) /\ Oldest(q).paste
    /\ faults < MaxFaults /\ faults' = faults + 1
    /\ PreviousDone(q) /\ ReturnFalse(todo)
    /\ UNCHANGED <<flushFrame, reports, delayed, blocked, pending>>

FlushWriteFails(q) ==
    /\ Writable(q) /\ ~Oldest(q).paste /\ ~up[Oldest(q).endpoint]
    /\ PreviousDone(q) /\ Block(q) /\ Delay(q, TRUE) /\ ReturnFalse(todo)
    /\ UNCHANGED <<flushFrame, reports, pending, faults>>

\* Mutant: a report the gadget does not take at once is dropped.
FlushDrops(q) ==
    /\ Writable(q) /\ ~Oldest(q).paste /\ up[Oldest(q).endpoint]
    /\ pending[Oldest(q).endpoint] # NoReport
    /\ reports' = [reports EXCEPT ![q] = Tail(@)]
    /\ PreviousDone(q) /\ ReturnTrue
    /\ UNCHANGED <<flushFrame, blocked, delayed, pending, faults>>

\* EAGAIN: the previous transfer of this endpoint is still outstanding.
FlushRetained(q) ==
    /\ Writable(q) /\ ~Oldest(q).paste /\ up[Oldest(q).endpoint]
    /\ pending[Oldest(q).endpoint] # NoReport
    /\ PreviousDone(q) /\ Block(q) /\ ReturnTrue
    /\ UNCHANGED <<flushFrame, reports, delayed, pending, faults>>

FlushSubmits(q) ==
    /\ Writable(q) /\ ~Oldest(q).paste /\ up[Oldest(q).endpoint]
    /\ pending[Oldest(q).endpoint] = NoReport
    /\ Submit(Oldest(q))
    /\ reports' = [reports EXCEPT ![q] = Tail(@)]
    /\ inflight' = [inflight EXCEPT ![q] = Oldest(q).endpoint]
    /\ blocked' = [blocked EXCEPT ![q] = "no"]
    /\ Delay(q, Oldest(q).delay)
    /\ UNCHANGED <<flushFrame, hidVars, callVars, faults>>

flush_reports(q) ==
    \/ FlushEnds(q) \/ FlushStalled(q) \/ FlushAwaitsPrevious(q) \/ FlushPreviousLost(q)
    \/ FlushPastes(q) \/ FlushPasteFails(q) \/ FlushWriteFails(q)
    \/ FlushRetained(q) \/ FlushSubmits(q)

-----------------------------------------------------------------------------
(* The other calls of a handler *)

StartFlush ==
    /\ CallIs("flush")
    /\ flushing' = Head(todo).queue /\ todo' = Tail(todo)
    /\ UNCHANGED <<hidVars, queueVars, space, onfail, failed, loopVars,
                   usbVars, inputs, faults>>

\* Mutant: the pointer queue is not cancelled.
CancelKeyboardQueue ==
    /\ CallIs("cancel")
    /\ reports' = [reports EXCEPT !["keyboard"] = <<>>]
    /\ delayed' = [delayed EXCEPT !["keyboard"] = FALSE]
    /\ blocked' = [blocked EXCEPT !["keyboard"] = "no"]
    /\ todo' = Tail(todo)
    /\ UNCHANGED <<hidVars, inflight, flushing, space, onfail, failed, loopVars,
                   usbVars, inputs, faults>>

\* hid_release_all empties both queues before it queues the neutral reports.
CancelQueues ==
    /\ CallIs("cancel")
    /\ reports' = [q \in Queue |-> <<>>]
    /\ delayed' = [q \in Queue |-> FALSE]
    /\ blocked' = [q \in Queue |-> "no"]
    /\ inflight' = [q \in Queue |-> "none"]
    /\ todo' = Tail(todo)
    /\ UNCHANGED <<hidVars, flushing, space, onfail, failed, loopVars,
                   usbVars, inputs, faults>>

\* A text item that cannot be typed.
CallFails ==
    /\ CallIs("fail")
    /\ ReturnFalse(Tail(todo))
    /\ UNCHANGED <<queueVars, loopVars, usbVars, inputs, faults>>

\* The end of a handler one of whose calls failed and was not acted on yet.
ReleaseAfterFailure ==
    /\ Idle /\ failed
    /\ hid_release_all
    /\ phase' = IF phase = "keepalive" THEN "net" ELSE phase
    /\ UNCHANGED <<connected, inputs>>

-----------------------------------------------------------------------------
(* The main loop of the control thread.  A turn flushes both queues, makes the *)
(* keepalive attempt and then handles what the gateway sent ("net").           *)

hid_pending == \E q \in Queue : reports[q] # <<>>

FlushCalls == <<Flush("keyboard"), Flush("pointer")>>

\* The next turn begins.
hid_flush ==
    /\ Idle /\ ~failed /\ phase \in {"top", "net"}
    /\ Enter(FlushCalls, "defer")
    /\ phase' = "keepalive"
    /\ UNCHANGED <<hidVars, connected, inputs>>

\* One unit of relative motion, when it is due, nothing is held and nothing is
\* queued.  (The time since the last attempt is not kept.)
hid_keepalive(due) ==
    /\ Idle /\ ~failed /\ phase = "keepalive"
    /\ due => inputs < MaxInputs
    /\ LET quiet == ~hid_pending /\ modifiers = {} /\ usages = {} /\ buttons = {}
       IN Enter(IF due /\ quiet THEN <<MouseReport(buttons, TRUE)>> ELSE <<>>, "release")
    /\ inputs' = IF due THEN inputs + 1 ELSE inputs
    /\ phase' = "net"
    /\ UNCHANGED <<hidVars, connected>>

connect_control ==
    /\ Idle /\ ~failed /\ phase = "net" /\ ~connected
    /\ connected' = TRUE
    /\ UNCHANGED <<hidVars, queueVars, callVars, phase, usbVars, inputs, faults>>

\* A receive error, a silent gateway or a failed PING or STATS ends the turn.
disconnect_control ==
    /\ Idle /\ ~failed /\ phase = "net" /\ connected
    /\ hid_release_all
    /\ connected' = FALSE
    /\ phase' = "top"
    /\ UNCHANGED inputs

\* SIGTERM: release, then flush for at most 200 ms.
StopRequested ==
    /\ Idle /\ ~failed /\ phase \in {"top", "net"}
    /\ hid_release_all
    /\ phase' = "drain"
    /\ UNCHANGED <<connected, inputs>>

DrainFlush ==
    /\ Idle /\ phase = "drain" /\ hid_pending
    /\ Enter(FlushCalls, "ignore")
    /\ UNCHANGED <<hidVars, loopVars, inputs>>

\* Nothing is left, or the deadline has passed.
Exit ==
    /\ Idle /\ phase = "drain"
    /\ phase' = "exit" /\ connected' = FALSE
    /\ UNCHANGED <<hidVars, queueVars, callVars, usbVars, inputs, faults>>

-----------------------------------------------------------------------------
(* USB and time *)

\* The host takes the outstanding report of an endpoint.
UsbCompletes(e) ==
    /\ pending[e] # NoReport
    /\ host' = [host EXCEPT ![e] = [held |-> pending[e].held, pos |-> pending[e].pos]]
    /\ pending' = [pending EXCEPT ![e] = NoReport]
    /\ UNCHANGED <<hidVars, queueVars, callVars, loopVars, up, inputs, faults>>

\* The endpoint is disabled: its transfer is lost, and the host, which has
\* lost the device, holds nothing of it any more.
UsbLost(e) ==
    /\ up[e] /\ faults < MaxFaults
    /\ up' = [up EXCEPT ![e] = FALSE]
    /\ pending' = [pending EXCEPT ![e] = NoReport]
    /\ host' = [host EXCEPT ![e] = Gone]
    /\ faults' = faults + 1
    /\ UNCHANGED <<hidVars, queueVars, callVars, loopVars, inputs>>

UsbRestored(e) ==
    /\ ~up[e]
    /\ up' = [up EXCEPT ![e] = TRUE]
    /\ UNCHANGED <<hidVars, queueVars, callVars, loopVars, pending, host,
                   inputs, faults>>

\* ready_at passes.
DelayPasses(q) ==
    /\ delayed[q]
    /\ Delay(q, FALSE)
    /\ UNCHANGED <<hidVars, reports, blocked, inflight, callVars, loopVars,
                   usbVars, inputs, faults>>

\* HID_REPORT_STALL_TIMEOUT_MS passes since blocked_at (the 200 ms the agent
\* drains its queues for before it exits are too short for that).
StallPasses(q) ==
    /\ blocked[q] = "yes" /\ phase # "drain" /\ faults < MaxFaults
    /\ blocked' = [blocked EXCEPT ![q] = "stalled"]
    /\ faults' = faults + 1
    /\ UNCHANGED <<hidVars, reports, delayed, inflight, callVars, loopVars,
                   usbVars, inputs>>

-----------------------------------------------------------------------------
(* The specification *)

\* hid_init, then the hid_release_all main starts with.
Init ==
    /\ modifiers = {} /\ usages = {} /\ buttons = {} /\ position = 0
    /\ reports = [q \in Queue |-> <<>>]
    /\ delayed = [q \in Queue |-> FALSE]
    /\ blocked = [q \in Queue |-> "no"]
    /\ inflight = [q \in Queue |-> "none"]
    /\ todo = ReleaseCalls /\ flushing = "none" /\ space = "no"
    /\ onfail = "ignore" /\ failed = FALSE
    /\ phase = "top" /\ connected = FALSE
    /\ up = [e \in Endpoint |-> TRUE]
    /\ pending = [e \in Endpoint |-> NoReport]
    /\ host = [e \in Endpoint |-> [held |-> {}, pos |-> 0]]
    /\ inputs = 0 /\ faults = 0

handle_control ==
    \/ \E key \in Keys, release \in BOOLEAN : hid_scancode(key, release)
    \/ \E text \in Texts : hid_type_utf8(text)
    \/ \E pos \in Positions, changed \in SUBSET Buttons, down \in BOOLEAN :
          hid_absolute(pos, changed, down)
    \/ \E next \in SUBSET Buttons, n \in 0..MaxChunks : hid_relative(next, n)
    \/ \E horizontal \in BOOLEAN : hid_wheel(horizontal)
    \/ hid_synchronize
    \/ ReleaseMessage

\* The steps the control thread takes by itself.
ThreadStep ==
    \/ queue_report \/ StartFlush \/ CancelQueues \/ CallFails
    \/ \E q \in Queue : flush_reports(q)
    \/ ReleaseAfterFailure
    \/ hid_flush \/ hid_keepalive(FALSE) \/ DrainFlush

Environment ==
    \/ connect_control \/ disconnect_control \/ hid_keepalive(TRUE) \/ StopRequested \/ Exit
    \/ \E e \in Endpoint : UsbCompletes(e) \/ UsbLost(e) \/ UsbRestored(e)
    \/ \E q \in Queue : DelayPasses(q) \/ StallPasses(q)

Next == handle_control \/ ThreadStep \/ Environment

Spec == Init /\ [][Next]_vars

\* The control thread never blocks for ever (every poll has a timeout and every
\* socket write one of 100 ms), the host polls its endpoints, time passes.
Fairness ==
    /\ WF_vars(ThreadStep)
    /\ \A e \in Endpoint : WF_vars(UsbCompletes(e)) /\ WF_vars(UsbRestored(e))
    /\ \A q \in Queue : WF_vars(DelayPasses(q))

FairSpec == Spec /\ Fairness

-----------------------------------------------------------------------------
(* Properties *)

Calls == Report \cup [op : {"flush"}, queue : Queue] \cup {Cancel, Fail}

HidTypes ==
    /\ modifiers \subseteq Modifiers /\ usages \subseteq Usages
    /\ buttons \subseteq Buttons /\ position \in Positions

QueueTypes ==
    /\ reports \in [Queue -> Seq(Report)]
    /\ \A q \in Queue : Len(reports[q]) <= Capacity
    /\ delayed \in [Queue -> BOOLEAN]
    /\ blocked \in [Queue -> {"no", "yes", "stalled"}]
    /\ inflight \in [Queue -> Endpoint \cup {"none"}]

CallTypes ==
    /\ todo \in Seq(Calls)
    /\ flushing \in Queue \cup {"none"} /\ space \in {"no", "flushing", "tried"}
    /\ onfail \in {"release", "release_twice", "defer", "ignore"} /\ failed \in BOOLEAN

LoopTypes ==
    /\ phase \in {"top", "keepalive", "net", "drain", "exit"}
    /\ connected \in BOOLEAN
    /\ inputs \in 0..MaxInputs /\ faults \in 0..MaxFaults

UsbTypes ==
    /\ up \in [Endpoint -> BOOLEAN]
    /\ pending \in [Endpoint -> Report \cup {NoReport}]
    /\ host \in [Endpoint -> HostState \cup {Gone}]

\* Every variable of HidState, of the queues and of the thread has its type, and
\* no queue holds more than HID_REPORT_QUEUE_CAPACITY reports.
TypeOK == HidTypes /\ QueueTypes /\ CallTypes /\ LoopTypes /\ UsbTypes

\* What the host must hold of an endpoint for it to agree with HidState.
Current(e) ==
    CASE e = "keyboard" -> [held |-> modifiers \cup LowestUsages(usages), pos |-> 0]
      [] e = "mouse" -> [held |-> buttons \cap MouseButtons, pos |-> 0]
      [] e = "touch" -> [held |-> buttons \cap SideButtons, pos |-> position]

IsFor(call, e) == call.op = "report" /\ call.endpoint = e
Mentions(s, e) == \E i \in DOMAIN s : IsFor(s[i], e)
Quiet(e) == ~Mentions(reports[QueueOf(e)], e) /\ pending[e] = NoReport

StateOf(r) == [held |-> r.held, pos |-> r.pos]

\* The last report for e in s leaves the endpoint in state v.
LastIs(s, e, v) ==
    \E i \in DOMAIN s :
        /\ IsFor(s[i], e) /\ StateOf(s[i]) = v
        /\ \A j \in DOMAIN s : j > i => ~IsFor(s[j], e)

\* The last thing on its way to the endpoint brings it to its current state.
Agrees(e) ==
    IF Mentions(todo, e) THEN LastIs(todo, e, Current(e))
    ELSE IF Mentions(reports[QueueOf(e)], e) THEN LastIs(reports[QueueOf(e)], e, Current(e))
    ELSE IF pending[e] # NoReport THEN StateOf(pending[e]) = Current(e)
    ELSE host[e] \in {Current(e), Gone}

\* The call of hid_release_all that is d calls before its last one.
ReleaseCall(d, pos) ==
    IF d % 4 = 3 THEN Cancel
    ELSE IF d % 4 = 2 THEN KeyboardReport({}, {}, FALSE, FALSE)
    ELSE IF d % 4 = 1 THEN MouseReport({}, FALSE)
    ELSE TouchReport({}, pos, FALSE, FALSE)

\* Results are ignored only in one or two hid_release_all and in the last flushes.
ReleaseShape ==
    onfail = "ignore" =>
        \/ \A i \in DOMAIN todo : todo[i].op = "flush"
        \/ /\ \A i \in DOMAIN todo : todo[i] = ReleaseCall(Len(todo) - i, position)
           /\ modifiers = {} /\ usages = {} /\ buttons = {}

\* What hid_release_all has still to queue finds the queues this empty.
ReleaseRoom ==
    onfail = "ignore" /\ todo # <<>> /\ Head(todo).op = "report" =>
        /\ Len(todo) % 4 = 3 => reports["keyboard"] = <<>>
        /\ Len(todo) % 4 \in {2, 3} => reports["pointer"] = <<>>
        /\ Len(todo) % 4 = 1 => Len(reports["pointer"]) <= 1

\* Cancel is a call of hid_release_all only, only absolute reports are motion, only
\* a handler that goes on after a failure remembers one, and the last flushes of
\* the agent ignore failures.
CallsSane ==
    /\ \A i \in DOMAIN todo :
          /\ todo[i].op = "cancel" => onfail = "ignore"
          /\ todo[i].op = "report" /\ todo[i].motion => todo[i].endpoint = "touch"
    /\ failed => onfail = "defer"
    /\ phase = "drain" => onfail = "ignore"

QueuesSorted ==
    \A q \in Queue : \A i \in DOMAIN reports[q] : QueueOf(reports[q][i].endpoint) = q

\* Unless a failure is still to be answered by hid_release_all, the last report on
\* its way to each endpoint carries what HidState says is held there: merging,
\* overflow, retries, cancellation and loss of the device never leave an older
\* one behind it.  With the shape of hid_release_all this is inductive.
LastReportIsCurrent ==
    /\ ReleaseShape /\ ReleaseRoom /\ CallsSane /\ QueuesSorted
    /\ ~failed => \A e \in Endpoint : Agrees(e)

\* No key or button is stuck and none is missing: whenever a handler has finished
\* and nothing is on its way to an endpoint, the host holds exactly what
\* HidState says is held there (unless it lost the device and holds nothing),
\* whatever mixture of EAGAIN, merging, overflow, stall, write error and release
\* came before.
NoStuckInput == Idle /\ ~failed => \A e \in Endpoint : Quiet(e) => host[e] \in {Current(e), Gone}

\* A click cannot overtake the position before it, nor motion a click: reports
\* are outstanding on both pointer endpoints only when hid_release_all, which
\* resets inflight_endpoint, has submitted its neutral mouse report.
PointerEndpointsInOrder ==
    pending["mouse"] # NoReport /\ pending["touch"] # NoReport =>
        pending["mouse"].held = {} /\ ~pending["mouse"].delta

\* The neutral reports of hid_release_all, whose results are not looked at, always
\* find room in the queues.
ReleaseFindsRoom ==
    onfail = "ignore" /\ CallIs("report") =>
        Len(reports[QueueOf(Head(todo).endpoint)]) < Capacity

SamePayload(r, u) ==
    r.held = u.held /\ r.pos = u.pos /\ r.delta = u.delta /\ r.motion = u.motion

\* The reports for an endpoint among a sequence of calls, in order.
ReportsFor(s, e) ==
    LET chosen[n \in 0..Len(s)] ==
            IF n = 0 THEN <<>>
            ELSE IF IsFor(s[n], e) THEN Append(chosen[n - 1], s[n])
            ELSE chosen[n - 1]
    IN  chosen[Len(s)]

\* Everything accepted for an endpoint that the host has not taken yet, in order.
Backlog(e) ==
    ReportsFor(<<pending[e]>>, e) \o ReportsFor(reports[QueueOf(e)], e) \o ReportsFor(todo, e)

Extends(s, t) == Len(t) >= Len(s) /\ \A i \in DOMAIN s : SamePayload(s[i], t[i])

\* t is s without one motion report that directly precedes another motion
\* report with the same buttons.
MergesMotion(s, t) ==
    /\ Len(s) = Len(t) + 1
    /\ \E i \in DOMAIN t :
          /\ s[i].motion /\ s[i + 1].motion /\ s[i].held = s[i + 1].held
          /\ \A j \in DOMAIN t : SamePayload(t[j], IF j < i THEN s[j] ELSE s[j + 1])

Cancelling == CallIs("cancel") \/ (todo # <<>> /\ Head(todo).op = "cancel")'

\* s grows at the end, loses its first report to the host, which then has h, or
\* loses a motion report superseded by the next one.
Advances(s, t, h) ==
    \/ Extends(s, t)
    \/ /\ Len(s) = Len(t) + 1 /\ Extends(Tail(s), t)
       /\ h = [held |-> Head(s).held, pos |-> Head(s).pos]
    \/ MergesMotion(s, t)

\* EAGAIN retains a report, transitions stay in order, and only adjacent absolute
\* motion with unchanged buttons is merged: outside a cancellation or the loss of
\* the device, what is on its way to an endpoint only grows at the end, is taken
\* by the host at the front, or loses a motion report superseded by the next one.
InputNeverLostOrReordered ==
    [][\A e \in Endpoint :
          \/ Cancelling
          \/ failed'
          \/ host'[e] = Gone
          \/ Advances(Backlog(e), Backlog(e)', host'[e])]_vars

\* The clipboard is replaced only when the host has taken the Command+V press of
\* the paste before it (write_paste_codepoint runs at the head of the queue).
PasteKeepsOrder ==
    [][(/\ flushing = "keyboard" /\ reports["keyboard"] # <<>> /\ Head(reports["keyboard"]).paste
        /\ Len(reports'["keyboard"]) = Len(reports["keyboard"])
        /\ ~Head(reports'["keyboard"]).paste)
       => pending["keyboard"] = NoReport \/ pending["keyboard"].held = {}]_vars

NothingHeld == modifiers = {} /\ usages = {} /\ buttons = {}
HostNeutral == \A e \in Endpoint : host[e].held = {}

\* A release always arrives: once HidState holds nothing, the host comes to hold
\* nothing, unless something is pressed again or the agent exits first.
ReleaseReachesHost == NothingHeld ~> (HostNeutral \/ ~NothingHeld \/ phase = "exit")
=============================================================================
