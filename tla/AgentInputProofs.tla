--------------------------- MODULE AgentInputProofs ---------------------------
(***************************************************************************)
(* Proofs about AgentInput, for every queue capacity, set of keys, buttons,*)
(* positions and texts.  First, type correctness.  Then the proof that the *)
(* host never keeps a key or button that HidState does not hold:           *)
(* LastReportIsCurrent is inductive, together with TypeOK, and implies     *)
(* NoStuckInput.  It takes the handlers of the agent, whose calls end, for *)
(* each endpoint, with a report of the new HidState; the calls themselves: *)
(* queue_report with its merging, overflow and direct write, the start of  *)
(* a flush, the cancellation of the queues, and a false result; then       *)
(* flush_reports and the host.  With it, two more invariants of the queues *)
(* are inductive: PointerOrder, which implies PointerEndpointsInOrder, and *)
(* PasteOrder, which implies PasteKeepsOrder.                              *)
(***************************************************************************)
EXTENDS AgentInput, TLAPS

-----------------------------------------------------------------------------
(* What the reports carry *)

\* With no key down, send_keyboard's scan finds nothing.
LEMMA LowestOfNone == LowestUsages({}) = {}
  BY Zenon DEF LowestUsages

\* What send_keyboard builds is a report.
LEMMA KeyboardReportType ==
    ASSUME NEW mods \in SUBSET Nat, NEW keys \in SUBSET Nat,
           NEW paced \in BOOLEAN, NEW paste \in BOOLEAN
    PROVE  KeyboardReport(mods, keys, paced, paste) \in Report
  <1> USE Zenon
  <1>1. mods \cup LowestUsages(keys) \in SUBSET Nat
    BY DEF LowestUsages
  <1> QED
    BY <1>1 DEF KeyboardReport, Report, Endpoint

\* It is for the keyboard endpoint and never counts as motion.
LEMMA KeyboardReportIs ==
    ASSUME NEW mods, NEW keys, NEW paced, NEW paste
    PROVE  LET r == KeyboardReport(mods, keys, paced, paste) IN
           r.op = "report" /\ r.endpoint = "keyboard" /\ ~r.motion
  BY Zenon DEF KeyboardReport

\* It carries the modifiers and the lowest usages.
LEMMA KeyboardReportState ==
    ASSUME NEW mods, NEW keys, NEW paced, NEW paste
    PROVE  StateOf(KeyboardReport(mods, keys, paced, paste)) =
               [held |-> mods \cup LowestUsages(keys), pos |-> 0]
  BY Zenon DEF KeyboardReport, StateOf

\* What send_relative builds is a report.
LEMMA MouseReportType ==
    ASSUME NEW held \in SUBSET Nat, NEW delta \in BOOLEAN
    PROVE  MouseReport(held, delta) \in Report
  BY Zenon DEF MouseReport, MakeReport, Report, Endpoint

\* It is for the relative endpoint and never counts as motion.
LEMMA MouseReportIs ==
    ASSUME NEW held, NEW delta
    PROVE  LET r == MouseReport(held, delta) IN
           r.op = "report" /\ r.endpoint = "mouse" /\ ~r.motion
  BY Zenon DEF MouseReport, MakeReport

\* It carries the three standard buttons.
LEMMA MouseReportState ==
    ASSUME NEW held, NEW delta
    PROVE  StateOf(MouseReport(held, delta)) = [held |-> held \cap MouseButtons, pos |-> 0]
  BY Zenon DEF MouseReport, MakeReport, StateOf

\* What send_absolute builds is a report.
LEMMA TouchReportType ==
    ASSUME NEW held \in SUBSET Nat, NEW pos \in Nat, NEW delta \in BOOLEAN,
           NEW motion \in BOOLEAN
    PROVE  TouchReport(held, pos, delta, motion) \in Report
  BY Zenon DEF TouchReport, MakeReport, Report, Endpoint

\* It is for the absolute endpoint.
LEMMA TouchReportIs ==
    ASSUME NEW held, NEW pos, NEW delta, NEW motion
    PROVE  LET r == TouchReport(held, pos, delta, motion) IN
           r.op = "report" /\ r.endpoint = "touch"
  BY Zenon DEF TouchReport, MakeReport

\* It carries the side buttons and the position.
LEMMA TouchReportState ==
    ASSUME NEW held, NEW pos, NEW delta, NEW motion
    PROVE  StateOf(TouchReport(held, pos, delta, motion)) =
               [held |-> held \cap SideButtons, pos |-> pos]
  BY Zenon DEF TouchReport, MakeReport, StateOf

\* Clearing the paste of a report leaves everything else as it is.
LEMMA PastedIs ==
    ASSUME NEW x \in Report
    PROVE  LET r == [x EXCEPT !.paste = FALSE] IN
           /\ r \in Report /\ r.op = x.op /\ r.endpoint = x.endpoint
           /\ StateOf(r) = StateOf(x)
  <1> USE Zenon
  <1> DEFINE r == [x EXCEPT !.paste = FALSE]
  <1>1. /\ r.op = x.op /\ r.endpoint = x.endpoint /\ r.held = x.held /\ r.pos = x.pos
        /\ r.delta = x.delta /\ r.motion = x.motion /\ r.delay = x.delay /\ r.paste = FALSE
    BY DEF Report
  <1>2. r \in Report
    BY DEF Report
  <1> HIDE DEF r
  <1>3. StateOf(r) = StateOf(x)
    BY <1>1 DEF StateOf
  <1> QED BY <1>1, <1>2, <1>3 DEF r

-----------------------------------------------------------------------------
(* Sequences of calls *)

\* Taking the head off a sequence.
LEMMA TailOfCalls ==
    ASSUME NEW S, NEW s \in Seq(S), s # <<>>, NEW e, NEW v
    PROVE  /\ Mentions(Tail(s), e) => Mentions(s, e)
           /\ LastIs(s, e, v) /\ Mentions(Tail(s), e) => LastIs(Tail(s), e, v)
           /\ Mentions(s, e) /\ ~Mentions(Tail(s), e) => IsFor(Head(s), e)
           /\ LastIs(s, e, v) /\ ~Mentions(Tail(s), e) => StateOf(Head(s)) = v
  <1> USE Zenon
  <1> DEFINE t == Tail(s)
  <1>1. /\ t \in Seq(S) /\ Len(t) = Len(s) - 1 /\ Len(s) \in Nat \ {0}
        /\ \A i \in 1..Len(t) : t[i] = s[i + 1]
        /\ Head(s) = s[1] /\ DOMAIN t = 1..Len(t) /\ DOMAIN s = 1..Len(s)
    BY SMT
  <1> HIDE DEF t
  <1>2. Mentions(t, e) => Mentions(s, e)
    <2> SUFFICES ASSUME NEW i \in 1..Len(t), IsFor(t[i], e)
                 PROVE  Mentions(s, e)
      BY <1>1 DEF Mentions
    <2>1. i + 1 \in 1..Len(s) /\ s[i + 1] = t[i]
      BY SMT, <1>1
    <2> QED BY <2>1, <1>1 DEF Mentions
  <1>3. Mentions(s, e) /\ ~Mentions(t, e) => IsFor(s[1], e)
    <2> SUFFICES ASSUME NEW i \in 1..Len(s), IsFor(s[i], e), ~Mentions(t, e)
                 PROVE  i = 1
      BY <1>1 DEF Mentions
    <2>1. CASE i # 1
      <3>1. i - 1 \in 1..Len(t) /\ t[i - 1] = s[i]
        BY SMT, <2>1, <1>1
      <3> QED BY <3>1, <1>1 DEF Mentions
    <2> QED BY <2>1
  <1>4. LastIs(s, e, v) /\ Mentions(t, e) => LastIs(t, e, v)
    <2> SUFFICES ASSUME NEW i \in 1..Len(s), IsFor(s[i], e), StateOf(s[i]) = v,
                        \A j \in 1..Len(s) : j > i => ~IsFor(s[j], e),
                        NEW k \in 1..Len(t), IsFor(t[k], e)
                 PROVE  LastIs(t, e, v)
      BY <1>1 DEF LastIs, Mentions
    <2>1. i - 1 \in 1..Len(t) /\ t[i - 1] = s[i]
      BY SMT, <1>1
    <2>2. \A j \in 1..Len(t) : j > i - 1 => ~IsFor(t[j], e)
      BY SMT, <1>1
    <2> QED BY <1>1, <2>1, <2>2 DEF LastIs
  <1>5. LastIs(s, e, v) /\ ~Mentions(t, e) => StateOf(s[1]) = v
    <2> SUFFICES ASSUME NEW i \in 1..Len(s), IsFor(s[i], e), StateOf(s[i]) = v,
                        ~Mentions(t, e)
                 PROVE  i = 1
      BY <1>1 DEF LastIs
    <2>1. CASE i # 1
      <3>1. i - 1 \in 1..Len(t) /\ t[i - 1] = s[i]
        BY SMT, <2>1, <1>1
      <3> QED BY <3>1, <1>1 DEF Mentions
    <2> QED BY <2>1
  <1> QED
    BY <1>1, <1>2, <1>3, <1>4, <1>5 DEF t

\* Adding a call at the end.
LEMMA AppendToCalls ==
    ASSUME NEW S, NEW s \in Seq(S), NEW r \in S, NEW e, NEW v
    PROVE  /\ IsFor(r, e) =>
                Mentions(Append(s, r), e) /\ LastIs(Append(s, r), e, StateOf(r))
           /\ ~IsFor(r, e) =>
                /\ Mentions(Append(s, r), e) <=> Mentions(s, e)
                /\ LastIs(s, e, v) => LastIs(Append(s, r), e, v)
  <1> DEFINE t == Append(s, r)
  <1>1. /\ Len(t) = Len(s) + 1 /\ Len(s) \in Nat /\ t[Len(t)] = r
        /\ \A i \in 1..Len(s) : t[i] = s[i]
        /\ DOMAIN t = 1..Len(t) /\ DOMAIN s = 1..Len(s)
    OBVIOUS
  <1> HIDE DEF t
  <1>2. IsFor(r, e) => Mentions(t, e) /\ LastIs(t, e, StateOf(r))
    <2>1. Len(t) \in DOMAIN t /\ \A j \in DOMAIN t : ~(j > Len(t))
      BY <1>1
    <2> QED BY Zenon, <1>1, <2>1 DEF Mentions, LastIs
  <1>3. ASSUME ~IsFor(r, e)
        PROVE  /\ Mentions(t, e) <=> Mentions(s, e)
               /\ LastIs(s, e, v) => LastIs(t, e, v)
    <2>1. \A i \in 1..Len(t) : IsFor(t[i], e) => i \in 1..Len(s) /\ IsFor(s[i], e)
      BY <1>1, <1>3
    <2>2. \A i \in 1..Len(s) : i \in 1..Len(t)
      BY <1>1
    <2>3. Mentions(t, e) <=> Mentions(s, e)
      BY Zenon, <1>1, <2>1, <2>2 DEF Mentions
    <2>4. LastIs(s, e, v) => LastIs(t, e, v)
      BY Zenon, <1>1, <2>1, <2>2 DEF LastIs
    <2> QED BY Zenon, <2>3, <2>4
  <1> QED
    BY Zenon, <1>2, <1>3 DEF t

\* Replacing one element.
LEMMA ReplaceOne ==
    ASSUME NEW S, NEW s \in Seq(S), NEW n \in DOMAIN s, NEW x \in S
    PROVE  /\ [s EXCEPT ![n] = x] \in Seq(S)
           /\ Len([s EXCEPT ![n] = x]) = Len(s)
           /\ DOMAIN [s EXCEPT ![n] = x] = DOMAIN s
           /\ [s EXCEPT ![n] = x][n] = x
           /\ \A i \in DOMAIN s : i # n => [s EXCEPT ![n] = x][i] = s[i]
  OBVIOUS

\* What the concatenation of two call sequences holds.
LEMMA Concatenation ==
    ASSUME NEW S, NEW s \in Seq(S), NEW t \in Seq(S)
    PROVE  /\ s \o t \in Seq(S) /\ Len(s \o t) = Len(s) + Len(t)
           /\ \A i \in 1..Len(s) : (s \o t)[i] = s[i]
           /\ \A i \in 1..Len(t) : (s \o t)[Len(s) + i] = t[i]
  OBVIOUS

\* Two sequences that agree on what each call says to e.
LEMMA SameCalls ==
    ASSUME NEW s, NEW t, NEW e, NEW v,
           DOMAIN s = DOMAIN t,
           \A i \in DOMAIN s : /\ IsFor(s[i], e) <=> IsFor(t[i], e)
                               /\ StateOf(s[i]) = StateOf(t[i])
    PROVE  /\ Mentions(s, e) <=> Mentions(t, e)
           /\ LastIs(s, e, v) <=> LastIs(t, e, v)
  BY Zenon DEF Mentions, LastIs

-----------------------------------------------------------------------------
(* The calls the handlers make *)

\* The calls of a handler, told apart by their op.
LEMMA CallsInclude ==
    /\ Report \subseteq Calls /\ Cancel \in Calls /\ Fail \in Calls
    /\ \A q \in Queue : Flush(q) \in Calls /\ Flush(q).op = "flush"
    /\ Cancel.op = "cancel" /\ Fail.op = "fail"
    /\ \A c \in Calls : c.op = "report" <=> c \in Report
    /\ \A c \in Calls : c.op = "flush" => c.queue \in Queue
  BY DEF Calls, Report, Cancel, Fail, Flush

\* The calls of hid_synchronize and of one or two hid_release_all, one by one.
LEMMA NeutralCalls ==
    ASSUME position \in Positions
    PROVE  /\ NeutralReports \in Seq(Calls) /\ ReleaseCalls \in Seq(Calls)
           /\ ReleaseCalls \o ReleaseCalls \in Seq(Calls)
           /\ Len(NeutralReports) = 3
           /\ NeutralReports[1] = KeyboardReport({}, {}, FALSE, FALSE)
           /\ NeutralReports[2] = MouseReport({}, FALSE)
           /\ NeutralReports[3] = TouchReport({}, position, FALSE, FALSE)
           /\ Len(ReleaseCalls) = 4
           /\ \A i \in 1..4 : ReleaseCalls[i] = ReleaseCall(4 - i, position)
           /\ Len(ReleaseCalls \o ReleaseCalls) = 8
           /\ \A i \in 1..8 : (ReleaseCalls \o ReleaseCalls)[i] = ReleaseCall(8 - i, position)
  <1> DEFINE k == KeyboardReport({}, {}, FALSE, FALSE)
             m == MouseReport({}, FALSE)
             t == TouchReport({}, position, FALSE, FALSE)
             n == NeutralReports
             r == ReleaseCalls
  <1>1. k \in Calls /\ m \in Calls /\ t \in Calls
    BY Zenon, KeyboardReportType, MouseReportType, TouchReportType, CallsInclude, PositionsAssumption
  <1>2. n = <<k, m, t>> /\ r = <<Cancel>> \o n
    BY Zenon DEF NeutralReports, ReleaseCalls
  <1>3. /\ \A i \in {0, 4} : ReleaseCall(i, position) = t
        /\ \A i \in {1, 5} : ReleaseCall(i, position) = m
        /\ \A i \in {2, 6} : ReleaseCall(i, position) = k
        /\ \A i \in {3, 7} : ReleaseCall(i, position) = Cancel
    BY DEF ReleaseCall
  <1> HIDE DEF k, m, t, n, r
  <1>4. n \in Seq(Calls) /\ Len(n) = 3 /\ n[1] = k /\ n[2] = m /\ n[3] = t
    BY <1>1, <1>2
  <1>5. /\ r \in Seq(Calls) /\ Len(r) = 4
        /\ r[1] = Cancel /\ r[2] = k /\ r[3] = m /\ r[4] = t
    BY <1>2, <1>4, CallsInclude
  <1>6. /\ r \o r \in Seq(Calls) /\ Len(r \o r) = 8
        /\ (r \o r)[1] = Cancel /\ (r \o r)[2] = k /\ (r \o r)[3] = m /\ (r \o r)[4] = t
        /\ (r \o r)[5] = Cancel /\ (r \o r)[6] = k /\ (r \o r)[7] = m /\ (r \o r)[8] = t
    <2> DEFINE rr == r \o r
    <2>a. r \in Seq(Calls)
      BY Zenon, <1>5
    <2>b. /\ rr \in Seq(Calls) /\ Len(rr) = Len(r) + Len(r)
          /\ \A i \in 1..Len(r) : rr[i] = r[i]
          /\ \A i \in 1..Len(r) : rr[Len(r) + i] = r[i]
      BY <2>a, Concatenation
    <2> /\ rr \in Seq(Calls) /\ Len(rr) = 8
        /\ \A i \in 1..4 : rr[i] = r[i]
        /\ \A i \in 1..4 : rr[4 + i] = r[i]
      BY <1>5, <2>b
    <2> HIDE DEF rr
    <2>2. /\ rr[1] = r[1] /\ rr[2] = r[2] /\ rr[3] = r[3] /\ rr[4] = r[4]
      OBVIOUS
    <2>3. /\ rr[4 + 1] = r[1] /\ rr[4 + 2] = r[2] /\ rr[4 + 3] = r[3] /\ rr[4 + 4] = r[4]
      OBVIOUS
    <2> QED BY <1>5, <2>2, <2>3 DEF rr
  <1>7. \A i \in 1..4 : r[i] = ReleaseCall(4 - i, position)
    BY <1>5, <1>3
  <1>8. \A i \in 1..8 : (r \o r)[i] = ReleaseCall(8 - i, position)
    BY <1>6, <1>3
  <1> QED
    BY Zenon, <1>4, <1>5, <1>6, <1>7, <1>8 DEF k, m, t, n, r

\* A paced report of a typed text.
LEMMA TypedReport ==
    ASSUME NEW mods \in SUBSET Nat, NEW keys \in SUBSET Nat, NEW paste \in BOOLEAN
    PROVE  /\ KeyboardReport(mods, keys, TRUE, paste) \in Report
           /\ KeyboardReport(mods, keys, TRUE, paste).endpoint = "keyboard"
           /\ ~KeyboardReport(mods, keys, TRUE, paste).motion
  BY Zenon, KeyboardReportType, KeyboardReportIs

\* The press that types one item of a text.
LEMMA ItemReport ==
    ASSUME NEW item \in TextItem, item.kind # "bad"
    PROVE  LET r == KeyboardReport(item.mods, {item.usage}, TRUE, item.kind = "paste")
           IN  r \in Report /\ r.endpoint = "keyboard" /\ ~r.motion
  <1> USE Zenon
  <1>1. item.mods \in SUBSET Nat /\ {item.usage} \in SUBSET Nat
    BY KeysAssumption DEF TextItem
  <1> QED
    BY <1>1, TypedReport

\* The calls that hid_type_utf8 makes for a text: keyboard reports, and a failure at
\* the item that cannot be typed.
LEMMA TextCallsType ==
    ASSUME NEW text \in Texts
    PROVE  /\ TextCalls(text) \in Seq(Calls)
           /\ TextLength(text) \in Nat /\ Len(TextCalls(text)) = TextLength(text)
           /\ \A n \in 1..TextLength(text) :
                 /\ TextCalls(text)[n] = TextCall(text, n)
                 /\ TextCall(text, n) = Fail \/ (/\ TextCall(text, n) \in Report
                                                 /\ TextCall(text, n).endpoint = "keyboard"
                                                 /\ ~TextCall(text, n).motion)
  <1> USE Zenon
  <1>1. text \in Seq(TextItem)
    BY TextsAssumption
  <1>2. TextLength(text) \in Nat /\ TextLength(text) <= 2 * Len(text) + 1
    <2>1. CASE \E i \in DOMAIN text : FirstBad(text, i)
      <3>1. (CHOOSE i \in DOMAIN text : FirstBad(text, i)) \in DOMAIN text
        BY <2>1
      <3> QED BY SMT, <3>1, <2>1, <1>1 DEF TextLength
    <2> CASE ~\E i \in DOMAIN text : FirstBad(text, i)
      BY SMT, <1>1 DEF TextLength
    <2> QED BY <2>1
  <1>3. ASSUME NEW n \in 1..TextLength(text)
        PROVE  TextCall(text, n) = Fail \/ (/\ TextCall(text, n) \in Report
                                            /\ TextCall(text, n).endpoint = "keyboard"
                                            /\ ~TextCall(text, n).motion)
    <2>1. CASE n % 2 = 1
      <3>1. TextCall(text, n) = KeyboardReport({}, {}, TRUE, FALSE)
        BY <2>1 DEF TextCall
      <3>2. /\ KeyboardReport({}, {}, TRUE, FALSE) \in Report
            /\ KeyboardReport({}, {}, TRUE, FALSE).endpoint = "keyboard"
            /\ ~KeyboardReport({}, {}, TRUE, FALSE).motion
        BY KeyboardReportType, KeyboardReportIs
      <3> QED BY <3>1, <3>2
    <2>2. CASE n % 2 # 1
      <3> DEFINE item == text[n \div 2]
      <3>1. n \div 2 \in 1..Len(text)
        BY SMT, <2>2, <1>1, <1>2
      <3>2. item \in TextItem
        BY SMT, <3>1, <1>1
      <3>3. TextCall(text, n) = IF item.kind = "bad" THEN Fail
                ELSE KeyboardReport(item.mods, {item.usage}, TRUE, item.kind = "paste")
        BY <2>2 DEF TextCall
      <3> DEFINE typed == KeyboardReport(item.mods, {item.usage}, TRUE, item.kind = "paste")
      <3> CASE item.kind # "bad"
        <4>1. typed \in Report /\ typed.endpoint = "keyboard" /\ ~typed.motion
          BY <3>2, ItemReport
        <4> HIDE DEF typed
        <4> QED BY <3>3, <4>1 DEF typed
      <3> QED BY <3>3
    <2> QED BY <2>1, <2>2
  <1>4. \A n \in 1..TextLength(text) : TextCall(text, n) \in Calls
    BY <1>3, CallsInclude
  <1> QED
    BY SMT, <1>2, <1>3, <1>4 DEF TextCalls

-----------------------------------------------------------------------------
(* Type correctness *)

Policies == {"release", "release_twice", "defer", "ignore"}

\* Entering a handler leaves the queues and USB alone and queues typed calls.
LEMMA EnterTypes ==
    ASSUME TypeOK, NEW calls \in Seq(Calls), NEW policy \in Policies,
           Enter(calls, policy)
    PROVE  QueueTypes' /\ CallTypes' /\ UsbTypes' /\ faults' = faults
  BY Zenon DEF TypeOK, QueueTypes, CallTypes, UsbTypes, Enter, queueVars, usbVars, Policies

\* Receiving a message keeps the main loop's types.
LEMMA MessageTypes ==
    ASSUME TypeOK, Message, faults' = faults
    PROVE  LoopTypes'
  BY BoundsAssumption DEF TypeOK, LoopTypes, Message, loopVars

\* What is held is a set of key and button numbers.
LEMMA HeldTypes ==
    ASSUME TypeOK
    PROVE  /\ modifiers \in SUBSET Nat /\ usages \in SUBSET Nat
           /\ buttons \in SUBSET Nat /\ position \in Nat
           /\ Buttons \subseteq Nat
  BY Zenon, KeysAssumption, ButtonsAssumption, PositionsAssumption
     DEF TypeOK, HidTypes, Buttons

\* The neutral state is a state of HidState.
LEMMA NeutralTypes ==
    ASSUME TypeOK, NeutralState
    PROVE  HidTypes' /\ position' = position
  BY Zenon DEF TypeOK, HidTypes, NeutralState

\* hid_release_all keeps the types.
LEMMA ReleaseTypes ==
    ASSUME TypeOK, hid_release_all
    PROVE  HidTypes' /\ QueueTypes' /\ CallTypes' /\ UsbTypes' /\ faults' = faults
  <1> USE Zenon
  <1>1. ReleaseCalls \in Seq(Calls)
    BY NeutralCalls DEF TypeOK, HidTypes
  <1> QED
    BY <1>1, EnterTypes, NeutralTypes DEF hid_release_all, Policies

\* Every handler of handle_control keeps the type invariant.
LEMMA HandlerTypes ==
    ASSUME TypeOK, handle_control
    PROVE  TypeOK'
  <1> USE Zenon
  <1> SUFFICES /\ Message /\ HidTypes'
               /\ \E calls \in Seq(Calls), policy \in Policies : Enter(calls, policy)
    BY EnterTypes, MessageTypes DEF TypeOK
  <1> USE HeldTypes
  <1>1. ASSUME NEW key \in Keys, NEW release \in BOOLEAN, hid_scancode(key, release)
        PROVE  /\ Message /\ HidTypes'
               /\ \E calls \in Seq(Calls), policy \in Policies : Enter(calls, policy)
    <2>1. HidTypes'
      BY <1>1 DEF hid_scancode, TypeOK, HidTypes, hidVars, Keys
    <2> DEFINE k == KeyboardReport(modifiers', usages', FALSE, FALSE)
    <2>2. k \in Calls
      <3>1. modifiers' \in SUBSET Nat /\ usages' \in SUBSET Nat
        BY <2>1, KeysAssumption DEF HidTypes
      <3> QED BY <3>1, KeyboardReportType, CallsInclude
    <2>3. Message /\ (Enter(<<>>, "release") \/ Enter(<<k>>, "release"))
      BY <1>1 DEF hid_scancode
    <2> HIDE DEF k
    <2>4. <<>> \in Seq(Calls) /\ <<k>> \in Seq(Calls) /\ "release" \in Policies
      BY SMT, <2>2 DEF Policies
    <2> QED BY <2>1, <2>3, <2>4
  <1>2. ASSUME NEW text \in Texts, hid_type_utf8(text)
        PROVE  /\ Message /\ HidTypes'
               /\ \E calls \in Seq(Calls), policy \in Policies : Enter(calls, policy)
    <2>1. Message /\ HidTypes'
      BY <1>2 DEF hid_type_utf8, TypeOK, HidTypes, hidVars
    <2>2. CASE Len(text) = 1 /\ modifiers # {} /\ text[1].kind = "tap"
      <3>1. text[1] \in TextItem /\ text[1].kind # "bad"
        BY SMT, <2>2, TextsAssumption
      <3>2. text[1].mods \in SUBSET Nat /\ {text[1].usage} \in SUBSET Nat
        BY <3>1, KeysAssumption DEF TextItem
      <3> DEFINE r1 == KeyboardReport(modifiers \cup text[1].mods,
                                      usages \cup {text[1].usage}, TRUE, FALSE)
                 r2 == KeyboardReport(modifiers, usages, TRUE, FALSE)
      <3>3. r1 \in Calls
        <4>1. /\ modifiers \cup text[1].mods \in SUBSET Nat
              /\ usages \cup {text[1].usage} \in SUBSET Nat
          BY <3>2
        <4> QED BY <4>1, KeyboardReportType, CallsInclude
      <3>4. r2 \in Calls
        BY KeyboardReportType, CallsInclude
      <3>5. Enter(<<r1, r2>>, "release_twice")
        BY <1>2, <2>2 DEF hid_type_utf8
      <3> HIDE DEF r1, r2
      <3>6. <<r1, r2>> \in Seq(Calls) /\ "release_twice" \in Policies
        BY SMT, <3>3, <3>4 DEF Policies
      <3> QED BY <2>1, <3>5, <3>6
    <2>3. CASE ~(Len(text) = 1 /\ modifiers # {} /\ text[1].kind = "tap")
      <3>1. Enter(TextCalls(text), "release_twice")
        BY <1>2, <2>3 DEF hid_type_utf8
      <3>2. TextCalls(text) \in Seq(Calls) /\ "release_twice" \in Policies
        BY TextCallsType DEF Policies
      <3> QED BY <2>1, <3>1, <3>2
    <2> QED BY <2>2, <2>3
  <1>3. ASSUME NEW pos \in Positions, NEW changed \in SUBSET Buttons,
               NEW down \in BOOLEAN, hid_absolute(pos, changed, down)
        PROVE  /\ Message /\ HidTypes'
               /\ \E calls \in Seq(Calls), policy \in Policies : Enter(calls, policy)
    <2>1. Message /\ HidTypes'
      BY <1>3 DEF hid_absolute, TypeOK, HidTypes
    <2>2. buttons' \in SUBSET Nat /\ pos \in Nat
      BY <2>1, PositionsAssumption DEF HidTypes
    <2> DEFINE t == TouchReport(buttons', pos, FALSE, changed = {})
               m == MouseReport(buttons', FALSE)
    <2>3. t \in Calls
      BY <2>2, TouchReportType, CallsInclude
    <2>4. m \in Calls
      BY <2>2, MouseReportType, CallsInclude
    <2>5. \/ Enter(<<t>> \o <<>>, "release")
          \/ Enter(<<t>> \o <<m>>, "release")
      BY <1>3 DEF hid_absolute
    <2> HIDE DEF t, m
    <2>6. /\ <<t>> \o <<>> \in Seq(Calls) /\ <<t>> \o <<m>> \in Seq(Calls)
          /\ "release" \in Policies
      BY SMT, <2>3, <2>4 DEF Policies
    <2> QED BY <2>1, <2>5, <2>6
  <1>4. ASSUME NEW next \in SUBSET Buttons, NEW n \in 0..MaxChunks, hid_relative(next, n)
        PROVE  /\ Message /\ HidTypes'
               /\ \E calls \in Seq(Calls), policy \in Policies : Enter(calls, policy)
    <2>1. Message /\ HidTypes'
      BY <1>4 DEF hid_relative, TypeOK, HidTypes
    <2>2. next \in SUBSET Nat /\ n \in Nat
      BY SMT, <2>1, BoundsAssumption
    <2> DEFINE t == TouchReport(next, position, FALSE, FALSE)
               d == MouseReport(next, TRUE)
               m == MouseReport(next, FALSE)
    <2>3. t \in Calls /\ d \in Calls /\ m \in Calls
      BY <2>2, TouchReportType, MouseReportType, CallsInclude
    <2>4. \E first \in {<<>>, <<t>>}, second \in {[i \in 1..n |-> d], <<>>, <<m>>} :
             Enter(first \o second, "release")
      BY <1>4 DEF hid_relative
    <2> HIDE DEF t, d, m
    <2>5. /\ <<>> \in Seq(Calls) /\ <<t>> \in Seq(Calls) /\ <<m>> \in Seq(Calls)
          /\ [i \in 1..n |-> d] \in Seq(Calls)
          /\ "release" \in Policies
      BY SMT, <2>2, <2>3 DEF Policies
    <2>6. \A s \in Seq(Calls), t2 \in Seq(Calls) : s \o t2 \in Seq(Calls)
      BY Concatenation
    <2> QED BY <2>1, <2>4, <2>5, <2>6
  <1>5. ASSUME NEW horizontal \in BOOLEAN, hid_wheel(horizontal)
        PROVE  /\ Message /\ HidTypes'
               /\ \E calls \in Seq(Calls), policy \in Policies : Enter(calls, policy)
    <2>1. Message /\ HidTypes'
      BY <1>5 DEF hid_wheel, TypeOK, HidTypes, hidVars
    <2> DEFINE t == TouchReport(buttons, position, TRUE, FALSE)
               m == MouseReport(buttons, TRUE)
    <2>2. t \in Calls /\ m \in Calls
      BY TouchReportType, MouseReportType, CallsInclude
    <2>3. Enter(<<m>>, "release") \/ Enter(<<t>>, "release") \/ Enter(<<>>, "release")
      BY <1>5 DEF hid_wheel
    <2> HIDE DEF t, m
    <2>4. /\ <<>> \in Seq(Calls) /\ <<t>> \in Seq(Calls) /\ <<m>> \in Seq(Calls)
          /\ "release" \in Policies
      BY SMT, <2>2 DEF Policies
    <2> QED BY <2>1, <2>3, <2>4
  <1>6. ASSUME hid_synchronize
        PROVE  /\ Message /\ HidTypes'
               /\ \E calls \in Seq(Calls), policy \in Policies : Enter(calls, policy)
    <2>1. NeutralReports \in Seq(Calls) /\ "defer" \in Policies
      BY NeutralCalls DEF TypeOK, HidTypes, Policies
    <2> QED BY <1>6, <2>1, NeutralTypes DEF hid_synchronize
  <1>7. ASSUME ReleaseMessage
        PROVE  /\ Message /\ HidTypes'
               /\ \E calls \in Seq(Calls), policy \in Policies : Enter(calls, policy)
    <2>1. ReleaseCalls \in Seq(Calls) /\ "ignore" \in Policies
      BY NeutralCalls DEF TypeOK, HidTypes, Policies
    <2> QED BY <1>7, <2>1, NeutralTypes DEF ReleaseMessage, hid_release_all
  <1> QED
    BY <1>1, <1>2, <1>3, <1>4, <1>5, <1>6, <1>7 DEF handle_control

\* A call that returns true keeps the types.
LEMMA ReturnTrueTypes ==
    ASSUME TypeOK, ReturnTrue
    PROVE  HidTypes' /\ CallTypes'
  BY Zenon DEF TypeOK, ReturnTrue, HidTypes, CallTypes, hidVars

\* So does one that returns false, whatever its caller does about it.
LEMMA ReturnFalseTypes ==
    ASSUME TypeOK, NEW rest \in Seq(Calls), ReturnFalse(rest)
    PROVE  HidTypes' /\ CallTypes'
  <1> USE Zenon
  <1>1. ReleaseCalls \in Seq(Calls) /\ ReleaseCalls \o ReleaseCalls \in Seq(Calls)
    BY NeutralCalls DEF TypeOK, HidTypes
  <1>2. CASE space = "flushing" \/ onfail \in {"ignore", "defer"}
    BY <1>2 DEF TypeOK, ReturnFalse, HidTypes, CallTypes, hidVars
  <1>3. CASE ~(space = "flushing" \/ onfail \in {"ignore", "defer"})
    <2>1. HidTypes'
      BY <1>3, NeutralTypes DEF ReturnFalse
    <2>2. CallTypes'
      BY <1>1, <1>3 DEF TypeOK, ReturnFalse, CallTypes
    <2> QED BY <2>1, <2>2
  <1> QED BY <1>2, <1>3

\* The next call of the handler, and the calls after it.
LEMMA HeadOfTodo ==
    ASSUME TypeOK, todo # <<>>
    PROVE  Head(todo) \in Calls /\ Tail(todo) \in Seq(Calls)
  BY DEF TypeOK, CallTypes

\* queue_report keeps the types, and no queue outgrows its capacity.
LEMMA QueueReportTypes ==
    ASSUME TypeOK, queue_report
    PROVE  TypeOK'
  <1> USE Zenon
  <1> DEFINE r == Head(todo)
             q == QueueOf(r.endpoint)
  <1>1. r \in Report /\ Tail(todo) \in Seq(Calls)
    BY HeadOfTodo, CallsInclude DEF queue_report, CallIs
  <1>2. q \in Queue /\ r.endpoint \in Endpoint
    BY <1>1 DEF QueueOf, Queue, Report
  <1>3. LoopTypes'
    BY DEF TypeOK, LoopTypes, queue_report, loopVars
  <1>4. /\ delayed' = delayed /\ blocked' = blocked /\ inflight' = inflight
        /\ up' = up /\ host' = host
    BY DEF queue_report
  <1>5. reports \in [Queue -> Seq(Report)] /\ \A p \in Queue : Len(reports[p]) <= Capacity
    BY DEF TypeOK, QueueTypes
  <1> SUFFICES /\ HidTypes' /\ CallTypes'
               /\ pending' \in [Endpoint -> Report \cup {NoReport}]
               /\ reports' \in [Queue -> Seq(Report)]
               /\ \A p \in Queue : Len(reports'[p]) <= Capacity
    BY <1>3, <1>4 DEF TypeOK, QueueTypes, UsbTypes
  <1>a. CASE /\ MayBypass(r)
             /\ Submit(r)
             /\ todo' = Tail(todo)
             /\ UNCHANGED <<hidVars, reports, flushing, space, onfail, failed>>
    BY <1>a, <1>1, <1>2, <1>5
       DEF TypeOK, HidTypes, CallTypes, UsbTypes, hidVars, Submit
  <1>b. CASE /\ ~MayBypass(r) /\ Replaces(r, q)
             /\ reports' = [reports EXCEPT ![q][Len(reports[q])] = r]
             /\ todo' = Tail(todo) /\ flushing' = q
             /\ UNCHANGED <<hidVars, space, onfail, failed, pending>>
    <2>1. HidTypes' /\ CallTypes' /\ pending' \in [Endpoint -> Report \cup {NoReport}]
      BY <1>b, <1>1, <1>2 DEF TypeOK, HidTypes, CallTypes, UsbTypes, hidVars
    <2>2. /\ reports' \in [Queue -> Seq(Report)]
          /\ \A p \in Queue : Len(reports'[p]) <= Capacity
      <3> DEFINE n == Len(reports[q])
      <3>1. reports[q] \in Seq(Report) /\ n \in DOMAIN reports[q]
        <4>1. reports[q] \in Seq(Report)
          BY <1>2, <1>5
        <4>2. reports[q] # <<>>
          BY <1>b DEF Replaces
        <4> HIDE DEF q
        <4> QED BY SMT, <4>1, <4>2
      <3>2. reports' = [reports EXCEPT ![q] = [reports[q] EXCEPT ![n] = r]]
        BY <1>b, <1>2, <1>5
      <3>3. /\ [reports[q] EXCEPT ![n] = r] \in Seq(Report)
            /\ Len([reports[q] EXCEPT ![n] = r]) = Len(reports[q])
        BY SMT, <3>1, <1>1, ReplaceOne
      <3> QED BY <3>2, <3>3, <1>2, <1>5
    <2> QED BY <2>1, <2>2
  <1>c. CASE ~MayBypass(r) /\ ~Replaces(r, q) /\ ~Full(q) /\ Enqueue(r, q)
    <2>1. HidTypes' /\ CallTypes' /\ pending' \in [Endpoint -> Report \cup {NoReport}]
      BY <1>c, <1>1, <1>2 DEF TypeOK, HidTypes, CallTypes, UsbTypes, hidVars, Enqueue
    <2>2. /\ reports' \in [Queue -> Seq(Report)]
          /\ \A p \in Queue : Len(reports'[p]) <= Capacity
      <3>1. reports' = [reports EXCEPT ![q] = Append(@, r)]
        BY <1>c DEF Enqueue
      <3>2. Len(reports[q]) # Capacity
        BY <1>c DEF Full
      <3> HIDE DEF r, q
      <3>3. /\ reports[q] \in Seq(Report) /\ Len(reports[q]) \in Nat
            /\ Len(reports[q]) < Capacity
        BY SMT, <3>2, <1>2, <1>5, CapacityAssumption
      <3> QED BY SMT, <3>1, <3>3, <1>1, <1>2, <1>5, CapacityAssumption
    <2> QED BY <2>1, <2>2
  <1>d. CASE /\ ~Replaces(r, q) /\ Full(q) /\ space = "no"
             /\ flushing' = q /\ space' = "flushing"
             /\ UNCHANGED <<hidVars, reports, todo, onfail, failed, pending>>
    BY <1>d, <1>2, <1>5 DEF TypeOK, HidTypes, CallTypes, UsbTypes, hidVars
  <1>e. CASE /\ ~Replaces(r, q) /\ Full(q) /\ space = "tried"
             /\ ReturnFalse(Tail(todo))
             /\ UNCHANGED <<reports, pending>>
    BY <1>e, <1>1, <1>5, ReturnFalseTypes DEF TypeOK, UsbTypes
  <1> QED
    BY <1>a, <1>b, <1>c, <1>d, <1>e DEF queue_report

\* An iteration of flush_reports keeps the types.
LEMMA FlushTypes ==
    ASSUME TypeOK, NEW q \in Queue, flush_reports(q)
    PROVE  TypeOK'
  <1> USE Zenon
  <1>0. /\ reports \in [Queue -> Seq(Report)] /\ \A p \in Queue : Len(reports[p]) <= Capacity
        /\ inflight \in [Queue -> Endpoint \cup {"none"}]
        /\ todo \in Seq(Calls)
    BY DEF TypeOK, QueueTypes, CallTypes
  <1>1. Due(q) => /\ Oldest(q) \in Report /\ Oldest(q).endpoint \in Endpoint
                  /\ Tail(reports[q]) \in Seq(Report)
                  /\ Len(Tail(reports[q])) <= Capacity
                  /\ 1 \in DOMAIN reports[q] /\ reports[q][1] \in Report
    <2> SUFFICES ASSUME reports[q] # <<>>
                 PROVE  /\ Head(reports[q]) \in Report /\ Tail(reports[q]) \in Seq(Report)
                        /\ Len(Tail(reports[q])) <= Capacity
                        /\ 1 \in DOMAIN reports[q] /\ reports[q][1] \in Report
      BY DEF Due, Oldest, Report
    <2> QED BY SMT, <1>0, CapacityAssumption
  <1>2. PreviousDone(q) => inflight' \in [Queue -> Endpoint \cup {"none"}]
    BY <1>0 DEF PreviousDone
  <1>3. Block(q) => blocked' \in [Queue -> {"no", "yes", "stalled"}]
    BY DEF TypeOK, QueueTypes, Block
  <1>4. \A d \in BOOLEAN : Delay(q, d) => delayed' \in [Queue -> BOOLEAN]
    BY DEF TypeOK, QueueTypes, Delay
  <1>5. /\ ReturnTrue => HidTypes' /\ CallTypes'
        /\ ReturnFalse(todo) => HidTypes' /\ CallTypes'
    BY <1>0, ReturnTrueTypes, ReturnFalseTypes
  <1>6. UNCHANGED flushFrame =>
          /\ phase' = phase /\ connected' = connected /\ inputs' = inputs
          /\ up' = up /\ host' = host
    BY DEF flushFrame, loopVars
  <1> USE DEF TypeOK, QueueTypes, LoopTypes, UsbTypes
  <1>7. CASE FlushEnds(q)
    BY <1>7, <1>5, <1>6 DEF FlushEnds, queueVars
  <1>8. CASE FlushStalled(q)
    BY <1>8, <1>5, <1>6 DEF FlushStalled, queueVars
  <1>9. CASE FlushAwaitsPrevious(q)
    BY <1>9, <1>3, <1>5, <1>6 DEF FlushAwaitsPrevious, queueVars
  <1>10. CASE FlushPreviousLost(q)
    BY <1>10, <1>5, <1>6 DEF FlushPreviousLost, queueVars
  <1>11. CASE FlushPastes(q)
    <2>1. Due(q)
      BY <1>11 DEF FlushPastes, Writable
    <2> DEFINE r == [reports[q][1] EXCEPT !.paste = FALSE]
    <2>2. r \in Report
      <3>1. reports[q][1] \in Report
        BY <2>1, <1>1
      <3> QED BY <3>1, PastedIs
    <2>3. reports' = [reports EXCEPT ![q] = [reports[q] EXCEPT ![1] = r]]
      BY <1>11, <1>0 DEF FlushPastes
    <2> HIDE DEF r
    <2>4. /\ [reports[q] EXCEPT ![1] = r] \in Seq(Report)
          /\ Len([reports[q] EXCEPT ![1] = r]) = Len(reports[q])
      BY SMT, <2>1, <2>2, <1>0, <1>1, ReplaceOne
    <2>5. /\ reports' \in [Queue -> Seq(Report)]
          /\ \A p \in Queue : Len(reports'[p]) <= Capacity
      BY <2>3, <2>4, <1>0
    <2>6. /\ UNCHANGED flushFrame /\ faults' = faults
          /\ blocked' = blocked /\ pending' = pending
      BY <1>11 DEF FlushPastes
    <2>7. PreviousDone(q) /\ Delay(q, TRUE) /\ ReturnTrue
      BY <1>11 DEF FlushPastes
    <2>8. HidTypes' /\ CallTypes'
      BY <2>7, <1>5
    <2>9. QueueTypes'
      BY <2>5, <2>6, <2>7, <1>2, <1>4
    <2>10. LoopTypes' /\ UsbTypes'
      BY <2>6, <1>6
    <2> QED BY <2>8, <2>9, <2>10 DEF TypeOK
  <1>12. CASE FlushPasteFails(q)
    BY SMT, <1>12, <1>2, <1>5, <1>6, BoundsAssumption DEF FlushPasteFails
  <1>13. CASE FlushWriteFails(q)
    BY <1>13, <1>2, <1>3, <1>4, <1>5, <1>6 DEF FlushWriteFails
  <1>14. CASE FlushRetained(q)
    BY <1>14, <1>2, <1>3, <1>5, <1>6 DEF FlushRetained
  <1>15. CASE FlushSubmits(q)
    <2>1. Oldest(q) \in Report /\ Oldest(q).endpoint \in Endpoint /\ Oldest(q).delay \in BOOLEAN
      BY <1>15, <1>1 DEF FlushSubmits, Writable, Report
    <2>2. pending' \in [Endpoint -> Report \cup {NoReport}]
      BY <1>15, <2>1 DEF FlushSubmits, Submit
    <2>3. /\ reports' \in [Queue -> Seq(Report)]
          /\ \A p \in Queue : Len(reports'[p]) <= Capacity
      BY <1>15, <1>0, <1>1 DEF FlushSubmits, Writable
    <2>4. /\ inflight' \in [Queue -> Endpoint \cup {"none"}]
          /\ blocked' \in [Queue -> {"no", "yes", "stalled"}]
          /\ delayed' \in [Queue -> BOOLEAN]
      BY <1>15, <1>0, <1>4, <2>1 DEF FlushSubmits
    <2>5. HidTypes' /\ CallTypes'
      BY <1>15 DEF FlushSubmits, hidVars, callVars, HidTypes, CallTypes
    <2>6. UNCHANGED flushFrame /\ faults' = faults
      BY <1>15 DEF FlushSubmits
    <2>7. QueueTypes'
      BY <2>3, <2>4
    <2>8. LoopTypes'
      BY <2>6, <1>6
    <2>9. UsbTypes'
      BY <2>2, <2>6, <1>6
    <2> QED BY <2>5, <2>7, <2>8, <2>9 DEF TypeOK
  <1> QED
    BY <1>7, <1>8, <1>9, <1>10, <1>11, <1>12, <1>13, <1>14, <1>15 DEF flush_reports

\* The other steps of the control thread keep the types.
LEMMA OtherThreadTypes ==
    ASSUME TypeOK,
           \/ StartFlush \/ CancelQueues \/ CallFails \/ ReleaseAfterFailure
           \/ hid_flush \/ (\E due \in BOOLEAN : hid_keepalive(due)) \/ DrainFlush
    PROVE  TypeOK'
  <1> USE Zenon
  <1>1. CASE StartFlush
    <2>1. Head(todo).queue \in Queue /\ Tail(todo) \in Seq(Calls)
      BY <1>1, HeadOfTodo, CallsInclude DEF StartFlush, CallIs
    <2> QED
      BY <1>1, <2>1 DEF StartFlush, TypeOK, HidTypes, QueueTypes, CallTypes, LoopTypes,
         UsbTypes, hidVars, queueVars, loopVars, usbVars
  <1>2. CASE CancelQueues
    <2>1. Tail(todo) \in Seq(Calls)
      BY <1>2, HeadOfTodo DEF CancelQueues, CallIs
    <2>2. QueueTypes'
      BY SMT, <1>2, CapacityAssumption DEF CancelQueues, QueueTypes
    <2> QED
      BY SMT, <1>2, <2>1, <2>2 DEF CancelQueues, TypeOK, HidTypes, CallTypes, LoopTypes,
         UsbTypes, hidVars, loopVars, usbVars
  <1>3. CASE CallFails
    <2>1. HidTypes' /\ CallTypes'
      BY <1>3, HeadOfTodo, ReturnFalseTypes DEF CallFails, CallIs
    <2> QED
      BY <1>3, <2>1 DEF CallFails, TypeOK, QueueTypes, LoopTypes, UsbTypes,
         queueVars, loopVars, usbVars
  <1>4. CASE ReleaseAfterFailure
    BY <1>4, ReleaseTypes DEF ReleaseAfterFailure, TypeOK, LoopTypes
  <1>5. FlushCalls \in Seq(Calls)
    <2>1. Flush("keyboard") \in Calls /\ Flush("pointer") \in Calls
      BY CallsInclude DEF Queue
    <2> QED BY SMT, <2>1 DEF FlushCalls
  <1>6. CASE hid_flush
    BY <1>5, <1>6, EnterTypes DEF hid_flush, TypeOK, HidTypes, hidVars, LoopTypes, Policies
  <1>7. ASSUME NEW due \in BOOLEAN, hid_keepalive(due)
        PROVE  TypeOK'
    <2> DEFINE m == MouseReport(buttons, TRUE)
    <2>1. m \in Calls
      BY HeldTypes, MouseReportType, CallsInclude
    <2>2. Enter(<<m>>, "release") \/ Enter(<<>>, "release")
      BY <1>7 DEF hid_keepalive
    <2> HIDE DEF m
    <2>3. <<m>> \in Seq(Calls) /\ <<>> \in Seq(Calls) /\ "release" \in Policies
      BY SMT, <2>1 DEF Policies
    <2>4. QueueTypes' /\ CallTypes' /\ UsbTypes' /\ faults' = faults
      BY <2>2, <2>3, EnterTypes
    <2>5. HidTypes'
      BY <1>7 DEF hid_keepalive, TypeOK, HidTypes, hidVars
    <2>6. phase' = "net" /\ connected' = connected
      BY <1>7 DEF hid_keepalive
    <2>7. inputs' = inputs \/ (inputs < MaxInputs /\ inputs' = inputs + 1)
      BY <1>7 DEF hid_keepalive
    <2>8. inputs' \in 0..MaxInputs
      BY SMT, <2>7, BoundsAssumption DEF TypeOK, LoopTypes
    <2>9. LoopTypes'
      BY <2>4, <2>6, <2>8 DEF TypeOK, LoopTypes
    <2> QED BY <2>4, <2>5, <2>9 DEF TypeOK
  <1> CASE DrainFlush
    BY <1>5, EnterTypes
       DEF DrainFlush, TypeOK, HidTypes, hidVars, LoopTypes, loopVars, Policies
  <1> QED
    BY <1>1, <1>2, <1>3, <1>4, <1>6, <1>7

\* Connection changes, the end of the agent, USB and time keep the types.
LEMMA EnvironmentTypes ==
    ASSUME TypeOK,
           \/ connect_control \/ disconnect_control \/ StopRequested \/ Exit
           \/ \E e \in Endpoint : UsbCompletes(e) \/ UsbLost(e) \/ UsbRestored(e)
           \/ \E q \in Queue : DelayPasses(q) \/ StallPasses(q)
    PROVE  TypeOK'
  <1> USE Zenon
  <1> USE DEF TypeOK, LoopTypes
  <1>1. CASE connect_control \/ Exit
    BY <1>1 DEF connect_control, Exit, HidTypes, QueueTypes, CallTypes, UsbTypes,
       hidVars, queueVars, callVars, usbVars
  <1>2. CASE disconnect_control \/ StopRequested
    BY <1>2, ReleaseTypes DEF disconnect_control, StopRequested
  <1>3. ASSUME NEW e \in Endpoint, UsbCompletes(e) \/ UsbLost(e) \/ UsbRestored(e)
        PROVE  TypeOK'
    <2>1. HidTypes' /\ QueueTypes' /\ CallTypes'
      BY <1>3 DEF UsbCompletes, UsbLost, UsbRestored, HidTypes, QueueTypes, CallTypes,
         hidVars, queueVars, callVars
    <2>2. LoopTypes'
      <3>1. phase' = phase /\ connected' = connected
        BY <1>3 DEF UsbCompletes, UsbLost, UsbRestored, loopVars
      <3>2. /\ inputs' = inputs
            /\ faults' = faults \/ (faults < MaxFaults /\ faults' = faults + 1)
        BY <1>3 DEF UsbCompletes, UsbLost, UsbRestored
      <3>3. inputs' \in 0..MaxInputs /\ faults' \in 0..MaxFaults
        BY SMT, <3>2, BoundsAssumption
      <3> QED BY <3>1, <3>3
    <2>3. UsbTypes'
      <3>1. CASE UsbCompletes(e)
        <4>1. pending[e] \in Report
          BY <3>1 DEF UsbCompletes, UsbTypes
        <4>2. [held |-> pending[e].held, pos |-> pending[e].pos] \in HostState
          BY <4>1 DEF Report, HostState
        <4> QED BY <3>1, <4>2 DEF UsbCompletes, UsbTypes
      <3> CASE UsbLost(e) \/ UsbRestored(e)
        BY DEF UsbLost, UsbRestored, UsbTypes
      <3> QED BY <1>3, <3>1
    <2> QED BY <2>1, <2>2, <2>3
  <1>4. ASSUME NEW q \in Queue, DelayPasses(q) \/ StallPasses(q)
        PROVE  TypeOK'
    <2>1. HidTypes' /\ CallTypes' /\ UsbTypes'
      BY <1>4 DEF DelayPasses, StallPasses, HidTypes, CallTypes, UsbTypes,
         hidVars, callVars, usbVars
    <2>2. LoopTypes'
      <3>1. phase' = phase /\ connected' = connected
        BY <1>4 DEF DelayPasses, StallPasses, loopVars
      <3>2. inputs' \in 0..MaxInputs /\ faults' \in 0..MaxFaults
        <4>1. /\ inputs' = inputs
              /\ faults' = faults \/ (faults < MaxFaults /\ faults' = faults + 1)
          BY <1>4 DEF DelayPasses, StallPasses
        <4> QED BY SMT, <4>1, BoundsAssumption
      <3> QED BY <3>1, <3>2
    <2>3. QueueTypes'
      BY <1>4 DEF DelayPasses, StallPasses, Delay, QueueTypes
    <2> QED BY <2>1, <2>2, <2>3
  <1> QED
    BY <1>1, <1>2, <1>3, <1>4

\* The state of the agent's input side stays within its types: in particular the
\* ring buffers of hid.c never hold more than HID_REPORT_QUEUE_CAPACITY reports.
THEOREM TypeCorrect == Spec => []TypeOK
  <1> USE Zenon
  <1>1. Init => TypeOK
    <2> SUFFICES ASSUME Init PROVE TypeOK
      OBVIOUS
    <2>1. ReleaseCalls \in Seq(Calls)
      BY NeutralCalls, PositionsAssumption DEF Init
    <2>2. [held |-> {}, pos |-> 0] \in HostState
      BY DEF HostState
    <2>3. QueueTypes
      BY SMT, CapacityAssumption DEF Init, QueueTypes
    <2>4. HidTypes
      BY PositionsAssumption DEF Init, HidTypes
    <2>5. CallTypes
      BY <2>1 DEF Init, CallTypes
    <2>6. LoopTypes
      <3>1. 0 \in 0..MaxInputs /\ 0 \in 0..MaxFaults
        BY SMT, BoundsAssumption
      <3> QED BY <3>1 DEF Init, LoopTypes
    <2>7. UsbTypes
      BY <2>2 DEF Init, UsbTypes
    <2> QED
      BY <2>3, <2>4, <2>5, <2>6, <2>7 DEF TypeOK
  <1>2. TypeOK /\ [Next]_vars => TypeOK'
    <2> SUFFICES ASSUME TypeOK, [Next]_vars PROVE TypeOK'
      OBVIOUS
    <2>1. CASE UNCHANGED vars
      <3>1. HidTypes' /\ CallTypes'
        BY <2>1 DEF vars, hidVars, callVars, TypeOK, HidTypes, CallTypes
      <3>2. QueueTypes'
        BY <2>1 DEF vars, queueVars, TypeOK, QueueTypes
      <3>3. LoopTypes' /\ UsbTypes'
        BY <2>1 DEF vars, loopVars, usbVars, TypeOK, LoopTypes, UsbTypes
      <3> QED BY <3>1, <3>2, <3>3 DEF TypeOK
    <2>2. CASE handle_control
      BY <2>2, HandlerTypes
    <2>3. CASE ThreadStep
      BY <2>3, QueueReportTypes, FlushTypes, OtherThreadTypes DEF ThreadStep
    <2> CASE Environment
      BY OtherThreadTypes, EnvironmentTypes DEF Environment
    <2> QED BY <2>1, <2>2, <2>3 DEF Next
  <1> QED
    BY <1>1, <1>2, PTL DEF Spec

-----------------------------------------------------------------------------
(* The invariant *)

IInv == TypeOK /\ LastReportIsCurrent

-----------------------------------------------------------------------------
(* hid_release_all *)

\* The four calls of hid_release_all, counted from its last one.
LEMMA ReleaseCallIs ==
    ASSUME NEW pos \in Nat, NEW d \in Nat
    PROVE  /\ d % 4 = 3 => ReleaseCall(d, pos).op = "cancel"
           /\ d % 4 = 2 => /\ IsFor(ReleaseCall(d, pos), "keyboard")
                           /\ StateOf(ReleaseCall(d, pos)) = [held |-> {}, pos |-> 0]
                           /\ ~ReleaseCall(d, pos).motion
           /\ d % 4 = 1 => /\ IsFor(ReleaseCall(d, pos), "mouse")
                           /\ StateOf(ReleaseCall(d, pos)) = [held |-> {}, pos |-> 0]
                           /\ ~ReleaseCall(d, pos).motion
           /\ d % 4 = 0 => /\ IsFor(ReleaseCall(d, pos), "touch")
                           /\ StateOf(ReleaseCall(d, pos)) = [held |-> {}, pos |-> pos]
                           /\ ~ReleaseCall(d, pos).motion
  <1> USE Zenon
  <1>0. /\ d % 4 = 2 => d % 4 # 3
        /\ d % 4 = 1 => d % 4 # 3 /\ d % 4 # 2
        /\ d % 4 = 0 => d % 4 # 3 /\ d % 4 # 2 /\ d % 4 # 1
    BY SMT
  <1>1. d % 4 = 3 => ReleaseCall(d, pos) = Cancel
    BY <1>0 DEF ReleaseCall
  <1>2. d % 4 = 2 => ReleaseCall(d, pos) = KeyboardReport({}, {}, FALSE, FALSE)
    BY <1>0 DEF ReleaseCall
  <1>3. d % 4 = 1 => ReleaseCall(d, pos) = MouseReport({}, FALSE)
    BY <1>0 DEF ReleaseCall
  <1>4. d % 4 = 0 => ReleaseCall(d, pos) = TouchReport({}, pos, FALSE, FALSE)
    BY <1>0 DEF ReleaseCall
  <1>5. LET r == KeyboardReport({}, {}, FALSE, FALSE) IN
        IsFor(r, "keyboard") /\ StateOf(r) = [held |-> {}, pos |-> 0] /\ ~r.motion
    BY LowestOfNone DEF KeyboardReport, IsFor, StateOf
  <1>6. LET r == MouseReport({}, FALSE) IN
        IsFor(r, "mouse") /\ StateOf(r) = [held |-> {}, pos |-> 0] /\ ~r.motion
    BY DEF MouseReport, MakeReport, IsFor, StateOf
  <1>7. LET r == TouchReport({}, pos, FALSE, FALSE) IN
        IsFor(r, "touch") /\ StateOf(r) = [held |-> {}, pos |-> pos] /\ ~r.motion
    BY DEF TouchReport, MakeReport, IsFor, StateOf
  <1> QED
    BY <1>1, <1>2, <1>3, <1>4, <1>5, <1>6, <1>7, CallsInclude

Neutral(e, pos) == [held |-> {}, pos |-> IF e = "touch" THEN pos ELSE 0]

\* The three neutral reports end the calls of hid_release_all.
LEMMA ReleaseIsNeutral ==
    ASSUME NEW s \in Seq(Calls), Len(s) >= 3, NEW pos \in Nat,
           \A i \in DOMAIN s : s[i] = ReleaseCall(Len(s) - i, pos),
           NEW e \in Endpoint
    PROVE  Mentions(s, e) /\ LastIs(s, e, Neutral(e, pos))
  <1> USE Zenon
  <1> DEFINE n == Len(s)
  <1>1. n \in Nat /\ DOMAIN s = 1..n /\ n >= 3
    BY SMT
  <1>2. /\ s[n] = ReleaseCall(0, pos) /\ s[n - 1] = ReleaseCall(1, pos)
        /\ s[n - 2] = ReleaseCall(2, pos)
    <2>1. n \in DOMAIN s /\ n - 1 \in DOMAIN s /\ n - 2 \in DOMAIN s
      BY SMT, <1>1
    <2>2. n - n = 0 /\ n - (n - 1) = 1 /\ n - (n - 2) = 2
      BY SMT, <1>1
    <2> QED BY <2>1, <2>2
  <1>3. /\ IsFor(s[n], "touch") /\ StateOf(s[n]) = [held |-> {}, pos |-> pos]
        /\ IsFor(s[n - 1], "mouse") /\ StateOf(s[n - 1]) = [held |-> {}, pos |-> 0]
        /\ IsFor(s[n - 2], "keyboard") /\ StateOf(s[n - 2]) = [held |-> {}, pos |-> 0]
    <2>1. 0 % 4 = 0 /\ 1 % 4 = 1 /\ 2 % 4 = 2 /\ 0 \in Nat /\ 1 \in Nat /\ 2 \in Nat
      BY SMT
    <2>2. IsFor(s[n], "touch") /\ StateOf(s[n]) = [held |-> {}, pos |-> pos]
      BY <1>2, <2>1, ReleaseCallIs
    <2>3. IsFor(s[n - 1], "mouse") /\ StateOf(s[n - 1]) = [held |-> {}, pos |-> 0]
      BY <1>2, <2>1, ReleaseCallIs
    <2>4. IsFor(s[n - 2], "keyboard") /\ StateOf(s[n - 2]) = [held |-> {}, pos |-> 0]
      BY SMT, <1>2, <2>1, ReleaseCallIs
    <2> QED BY <2>2, <2>3, <2>4
  <1> HIDE DEF n
  <1>4. \A j \in 1..n : /\ j > n - 1 => j = n
                        /\ j > n - 2 => j = n \/ j = n - 1
                        /\ ~(j > n)
    BY SMT, <1>1
  <1>5. n \in 1..n /\ n - 1 \in 1..n /\ n - 2 \in 1..n
    BY SMT, <1>1
  <1>6. CASE e = "touch"
    BY <1>1, <1>3, <1>4, <1>5, <1>6 DEF Mentions, LastIs, Neutral
  <1>7. CASE e = "mouse"
    <2>1. ~IsFor(s[n], "mouse")
      BY <1>3 DEF IsFor
    <2> QED BY SMTT(30), <2>1, <1>1, <1>3, <1>4, <1>5, <1>7 DEF Mentions, LastIs, Neutral
  <1>8. CASE e = "keyboard"
    <2>1. ~IsFor(s[n], "keyboard") /\ ~IsFor(s[n - 1], "keyboard")
      BY <1>3 DEF IsFor
    <2> QED BY <2>1, <1>1, <1>3, <1>4, <1>5, <1>8 DEF Mentions, LastIs, Neutral
  <1> QED BY <1>6, <1>7, <1>8 DEF Endpoint

\* When nothing is held, the current state of an endpoint is its neutral state.
LEMMA CurrentWhenNeutral ==
    ASSUME NEW e \in Endpoint
    PROVE  /\ modifiers = {} /\ usages = {} /\ buttons = {} => Current(e) = Neutral(e, position)
           /\ modifiers' = {} /\ usages' = {} /\ buttons' = {} =>
                Current(e)' = Neutral(e, position')
  <1> USE Zenon
  <1>1. CASE e = "keyboard"
    BY <1>1, LowestOfNone DEF Current, Neutral
  <1>2. CASE e = "mouse"
    BY <1>2 DEF Current, Neutral
  <1> CASE e = "touch"
    BY DEF Current, Neutral
  <1> QED BY <1>1, <1>2 DEF Endpoint

\* A step that enters hid_release_all, once or twice, establishes the invariant.
LEMMA ReleaseAgrees ==
    ASSUME TypeOK, QueuesSorted, NeutralState, reports' = reports,
           todo' = ReleaseCalls \/ todo' = ReleaseCalls \o ReleaseCalls,
           onfail' = "ignore", failed' = FALSE
    PROVE  LastReportIsCurrent'
  <1> USE Zenon
  <1>1. position \in Positions /\ position \in Nat /\ position' = position
    BY HeldTypes DEF TypeOK, HidTypes, NeutralState
  <1> DEFINE n == Len(todo')
  <1>2. /\ todo' \in Seq(Calls) /\ n \in Nat /\ n >= 4 /\ n % 4 = 0 /\ DOMAIN todo' = 1..n
        /\ \A i \in 1..n : todo'[i] = ReleaseCall(n - i, position)
    <2>1. CASE todo' = ReleaseCalls
      <3> DEFINE r == ReleaseCalls
      <3>1. /\ r \in Seq(Calls) /\ Len(r) = 4
            /\ \A i \in 1..4 : r[i] = ReleaseCall(4 - i, position)
        BY <1>1, NeutralCalls
      <3> HIDE DEF r
      <3>2. todo' = r
        BY <2>1 DEF r
      <3>3. 4 \in Nat /\ 4 >= 4 /\ 4 % 4 = 0 /\ DOMAIN r = 1..4
        BY SMT, <3>1
      <3> QED BY <3>1, <3>2, <3>3
    <2>2. CASE todo' = ReleaseCalls \o ReleaseCalls
      <3> DEFINE rr == ReleaseCalls \o ReleaseCalls
      <3>1. /\ rr \in Seq(Calls) /\ Len(rr) = 8
            /\ \A i \in 1..8 : rr[i] = ReleaseCall(8 - i, position)
        BY <1>1, NeutralCalls
      <3> HIDE DEF rr
      <3>2. todo' = rr
        BY <2>2 DEF rr
      <3>3. 8 \in Nat /\ 8 >= 4 /\ 8 % 4 = 0 /\ DOMAIN rr = 1..8
        BY SMT, <3>1
      <3> QED BY <3>1, <3>2, <3>3
    <2> QED BY <2>1, <2>2
  <1>a. \A i \in DOMAIN todo' : todo'[i] = ReleaseCall(Len(todo') - i, position)
    BY <1>2
  <1> HIDE DEF n
  <1>b. n >= 3
    BY SMT, <1>2
  <1>c. Len(todo') >= 3
    BY <1>b DEF n
  <1>3. modifiers' = {} /\ usages' = {} /\ buttons' = {}
    BY DEF NeutralState
  <1>4. ReleaseShape'
    BY <1>1, <1>2, <1>3 DEF ReleaseShape, n
  <1>5. ReleaseRoom'
    <2>1. n - 1 \in Nat /\ (n - 1) % 4 = 3 /\ 1 \in 1..n
      BY SMT, <1>2
    <2>2. Head(todo') = ReleaseCall(n - 1, position)
      BY SMT, <1>2, <2>1
    <2>3. Head(todo').op = "cancel"
      BY <1>1, <2>1, <2>2, ReleaseCallIs
    <2> QED BY <2>3 DEF ReleaseRoom
  <1>6. CallsSane'
    <2> SUFFICES ASSUME NEW i \in 1..n, todo'[i].op = "report", todo'[i].motion
                 PROVE  FALSE
      BY <1>2 DEF CallsSane
    <2> n - i \in Nat /\ todo'[i] = ReleaseCall(n - i, position)
      BY SMT, <1>2
    <2>2. \/ (n - i) % 4 = 0 \/ (n - i) % 4 = 1 \/ (n - i) % 4 = 2 \/ (n - i) % 4 = 3
      BY SMT
    <2> QED BY <1>1, <2>2, ReleaseCallIs
  <1>7. QueuesSorted'
    BY DEF QueuesSorted
  <1>8. ASSUME NEW e \in Endpoint
        PROVE  Agrees(e)'
    <2>1. Mentions(todo', e) /\ LastIs(todo', e, Neutral(e, position))
      BY <1>1, <1>2, <1>a, <1>c, ReleaseIsNeutral
    <2>2. Current(e)' = Neutral(e, position)
      BY <1>1, <1>3, CurrentWhenNeutral
    <2> QED BY <2>1, <2>2 DEF Agrees
  <1> QED
    BY <1>4, <1>5, <1>6, <1>7, <1>8 DEF LastReportIsCurrent

\* What a handler's calls must do for the invariant: the last report for an
\* endpoint carries its new state, and one without a report keeps its state.
Updates(calls, e) ==
    \/ Mentions(calls, e) /\ LastIs(calls, e, Current(e)')
    \/ ~Mentions(calls, e) /\ Current(e)' = Current(e)

\* A handler keeps the agreement if the last report it makes for an endpoint carries
\* the new state, and an endpoint it makes none for keeps its state.
LEMMA EnterAgrees ==
    ASSUME IInv, Idle, ~failed, phase' # "drain",
           NEW calls \in Seq(Calls), NEW policy, policy # "ignore", Enter(calls, policy),
           \A i \in DOMAIN calls :
              /\ calls[i].op # "cancel"
              /\ calls[i].op = "report" /\ calls[i].motion => calls[i].endpoint = "touch",
           \A e \in Endpoint : Updates(calls, e)
    PROVE  LastReportIsCurrent'
  <1> USE Zenon
  <1>1. /\ todo' = calls /\ onfail' = policy /\ failed' = FALSE
        /\ reports' = reports /\ pending' = pending /\ host' = host
    BY DEF Enter, queueVars, usbVars
  <1>2. ReleaseShape' /\ ReleaseRoom' /\ CallsSane' /\ QueuesSorted'
    BY <1>1 DEF ReleaseShape, ReleaseRoom, CallsSane, QueuesSorted, IInv, LastReportIsCurrent
  <1>3. ASSUME NEW e \in Endpoint
        PROVE  Agrees(e)'
    <2>1. Agrees(e) /\ ~Mentions(todo, e)
      BY SMTT(30) DEF IInv, LastReportIsCurrent, Idle, Mentions
    <2>2. CASE Mentions(calls, e) /\ LastIs(calls, e, Current(e)')
      BY <1>1, <2>2 DEF Agrees
    <2> CASE ~Mentions(calls, e) /\ Current(e)' = Current(e)
      BY <1>1, <2>1 DEF Agrees
    <2> QED BY <2>2 DEF Updates
  <1> QED
    BY <1>2, <1>3 DEF LastReportIsCurrent

\* Steps that change nothing of the calls and at most the paste and delay marks of
\* the queued reports.
LEMMA KeepAgrees ==
    ASSUME IInv, UNCHANGED <<hidVars, todo, onfail, failed, pending, host>>,
           phase' = "drain" => phase = "drain",
           \A q \in Queue :
              /\ Len(reports'[q]) = Len(reports[q])
              /\ DOMAIN reports'[q] = DOMAIN reports[q]
              /\ reports[q] = <<>> <=> reports'[q] = <<>>
              /\ \A i \in DOMAIN reports[q] :
                    /\ reports'[q][i].op = reports[q][i].op
                    /\ reports'[q][i].endpoint = reports[q][i].endpoint
                    /\ StateOf(reports'[q][i]) = StateOf(reports[q][i])
    PROVE  LastReportIsCurrent'
  <1> USE Zenon
  <1>1. ReleaseShape' /\ CallsSane'
    BY SMTT(30) DEF ReleaseShape, CallsSane, IInv, LastReportIsCurrent, hidVars
  <1>2. ReleaseRoom'
    BY DEF ReleaseRoom, IInv, LastReportIsCurrent, Queue
  <1>3. QueuesSorted'
    <2>1. QueuesSorted
      BY DEF IInv, LastReportIsCurrent
    <2> SUFFICES ASSUME NEW p \in Queue, NEW i \in DOMAIN reports'[p]
                 PROVE  QueueOf(reports'[p][i].endpoint) = p
      BY DEF QueuesSorted
    <2>2. i \in DOMAIN reports[p] /\ reports'[p][i].endpoint = reports[p][i].endpoint
      OBVIOUS
    <2> QED BY ZenonT(30), <2>1, <2>2 DEF QueuesSorted
  <1>4. ASSUME ~failed, NEW e \in Endpoint
        PROVE  Agrees(e)'
    <2> DEFINE q == QueueOf(e)
               v == Current(e)
    <2>1. q \in Queue /\ Current(e)' = v
      BY DEF QueueOf, Queue, Current, hidVars
    <2>2. Agrees(e)
      BY <1>4 DEF IInv, LastReportIsCurrent
    <2> HIDE DEF q, v
    <2>3. /\ Mentions(reports[q], e) <=> Mentions(reports'[q], e)
          /\ LastIs(reports[q], e, v) <=> LastIs(reports'[q], e, v)
      <3>1. \A i \in DOMAIN reports[q] :
               /\ IsFor(reports[q][i], e) <=> IsFor(reports'[q][i], e)
               /\ StateOf(reports[q][i]) = StateOf(reports'[q][i])
        BY <2>1 DEF IsFor
      <3> QED BY <2>1, <3>1, SameCalls
    <2> QED BY <2>1, <2>2, <2>3 DEF Agrees, q, v
  <1> QED
    BY <1>1, <1>2, <1>3, <1>4 DEF LastReportIsCurrent

-----------------------------------------------------------------------------
(* The handlers *)

\* The calls a handler makes, one or two reports.
LEMMA OneCall ==
    ASSUME NEW r, NEW e
    PROVE  /\ Mentions(<<r>>, e) <=> IsFor(r, e)
           /\ IsFor(r, e) => LastIs(<<r>>, e, StateOf(r))
           /\ ~Mentions(<<>>, e)
  <1>1. DOMAIN <<r>> = {1} /\ <<r>>[1] = r /\ DOMAIN <<>> = {}
    OBVIOUS
  <1>2. \A j \in {1} : ~(j > 1)
    OBVIOUS
  <1> QED
    BY Zenon, <1>1, <1>2 DEF Mentions, LastIs

\* The last report for an endpoint among two calls.
LEMMA TwoCalls ==
    ASSUME NEW r, NEW t, NEW e
    PROVE  /\ Mentions(<<r, t>>, e) <=> IsFor(r, e) \/ IsFor(t, e)
           /\ IsFor(t, e) => LastIs(<<r, t>>, e, StateOf(t))
           /\ IsFor(r, e) /\ ~IsFor(t, e) => LastIs(<<r, t>>, e, StateOf(r))
  <1>1. DOMAIN <<r, t>> = {1, 2} /\ <<r, t>>[1] = r /\ <<r, t>>[2] = t
    OBVIOUS
  <1>2. \A j \in {1, 2} : ~(j > 2) /\ (j > 1 => j = 2)
    OBVIOUS
  <1> QED
    BY <1>1, <1>2 DEF Mentions, LastIs

\* A key press or release (hid_scancode).
LEMMA ScancodeAgrees ==
    ASSUME IInv, NEW key \in Keys, NEW release \in BOOLEAN, hid_scancode(key, release)
    PROVE  LastReportIsCurrent'
  <1> USE Zenon
  <1>1. TypeOK /\ Idle /\ ~failed /\ phase' # "drain" /\ "release" # "ignore"
    BY DEF IInv, hid_scancode, Message, loopVars
  <1>2. CASE (key \in modifiers \cup usages) = ~release
    <2>1. UNCHANGED hidVars /\ Enter(<<>>, "release") /\ <<>> \in Seq(Calls)
      BY SMT, <1>2 DEF hid_scancode
    <2>2. \A e \in Endpoint : Updates(<<>>, e)
      BY <2>1, OneCall DEF Updates, Current, hidVars
    <2>3. DOMAIN <<>> = {}
      BY SMT
    <2> QED BY <1>1, <2>1, <2>2, <2>3, EnterAgrees
  <1>3. CASE (key \in modifiers \cup usages) # ~release
    <2> DEFINE k == KeyboardReport(modifiers', usages', FALSE, FALSE)
    <2>1. UNCHANGED <<buttons, position>> /\ Enter(<<k>>, "release")
      BY <1>3 DEF hid_scancode
    <2>2. modifiers' \in SUBSET Nat /\ usages' \in SUBSET Nat
      BY <1>3, <1>1, HeldTypes, KeysAssumption DEF hid_scancode, Keys
    <2>3. /\ k \in Report /\ k.op = "report" /\ k.endpoint = "keyboard" /\ ~k.motion
          /\ StateOf(k) = [held |-> modifiers' \cup LowestUsages(usages'), pos |-> 0]
      <3>1. k \in Report
        BY <2>2, KeyboardReportType
      <3>2. k.op = "report" /\ k.endpoint = "keyboard" /\ ~k.motion
        BY KeyboardReportIs
      <3>3. StateOf(k) = [held |-> modifiers' \cup LowestUsages(usages'), pos |-> 0]
        BY KeyboardReportState
      <3> QED BY <3>1, <3>2, <3>3
    <2> HIDE DEF k
    <2>4. <<k>> \in Seq(Calls)
      BY SMT, <2>3, CallsInclude
    <2>5. /\ StateOf(k) = Current("keyboard")'
          /\ Current("mouse")' = Current("mouse") /\ Current("touch")' = Current("touch")
      BY <2>1, <2>3 DEF Current
    <2>6. \A e \in Endpoint : Updates(<<k>>, e)
      BY <2>3, <2>5, OneCall DEF Updates, IsFor, Endpoint
    <2>7. \A i \in DOMAIN <<k>> : <<k>>[i] = k
      BY SMT
    <2> QED BY <1>1, <2>1, <2>3, <2>4, <2>6, <2>7, EnterAgrees
  <1> QED BY <1>2, <1>3

\* The calls of a handler that makes two groups of them.
LEMMA ConcatCalls ==
    ASSUME NEW S, NEW s \in Seq(S), NEW t \in Seq(S), NEW e, NEW v
    PROVE  /\ Mentions(s \o t, e) <=> Mentions(s, e) \/ Mentions(t, e)
           /\ LastIs(t, e, v) => LastIs(s \o t, e, v)
           /\ ~Mentions(t, e) /\ LastIs(s, e, v) => LastIs(s \o t, e, v)
           /\ \A i \in DOMAIN (s \o t) :
                 \/ \E j \in DOMAIN s : (s \o t)[i] = s[j]
                 \/ \E j \in DOMAIN t : (s \o t)[i] = t[j]
  <1> USE Zenon
  <1> DEFINE c == s \o t
             m == Len(s)
             n == Len(t)
  <1>1. /\ DOMAIN c = 1..(m + n) /\ DOMAIN s = 1..m /\ DOMAIN t = 1..n
        /\ m \in Nat /\ n \in Nat
        /\ \A i \in 1..m : c[i] = s[i]
        /\ \A i \in 1..n : c[m + i] = t[i]
    BY SMT, Concatenation
  <1> HIDE DEF c, m, n
  <1>2. /\ \A i \in 1..m : i \in 1..(m + n)
        /\ \A i \in 1..n : m + i \in 1..(m + n)
        /\ \A i \in 1..(m + n) : i \in 1..m \/ (i - m \in 1..n /\ m + (i - m) = i)
    BY SMT, <1>1
  <1>3. \A i \in 1..(m + n) : i \in 1..m \/ (i - m \in 1..n /\ c[i] = t[i - m])
    BY <1>1, <1>2
  <1>4. \A i \in DOMAIN c : \/ \E j \in DOMAIN s : c[i] = s[j]
                            \/ \E j \in DOMAIN t : c[i] = t[j]
    BY <1>1, <1>3
  <1>5. Mentions(c, e) <=> Mentions(s, e) \/ Mentions(t, e)
    BY <1>1, <1>2, <1>3 DEF Mentions
  <1>6. LastIs(t, e, v) => LastIs(c, e, v)
    <2> SUFFICES ASSUME NEW i \in 1..n, IsFor(t[i], e), StateOf(t[i]) = v,
                        \A j \in 1..n : j > i => ~IsFor(t[j], e)
                 PROVE  LastIs(c, e, v)
      BY <1>1 DEF LastIs
    <2>1. m + i \in DOMAIN c /\ c[m + i] = t[i]
      BY <1>1, <1>2
    <2>2. \A j \in DOMAIN c : j > m + i => j - m \in 1..n /\ j - m > i /\ c[j] = t[j - m]
      BY SMT, <1>1, <1>3
    <2> QED BY <2>1, <2>2 DEF LastIs
  <1>7. ~Mentions(t, e) /\ LastIs(s, e, v) => LastIs(c, e, v)
    <2> SUFFICES ASSUME NEW i \in 1..m, IsFor(s[i], e), StateOf(s[i]) = v,
                        \A j \in 1..m : j > i => ~IsFor(s[j], e),
                        \A j \in 1..n : ~IsFor(t[j], e)
                 PROVE  LastIs(c, e, v)
      BY <1>1 DEF LastIs, Mentions
    <2>1. i \in DOMAIN c /\ c[i] = s[i]
      BY <1>1, <1>2
    <2>2. \A j \in DOMAIN c : j > i => ~IsFor(c[j], e)
      BY <1>1, <1>3
    <2> QED BY <2>1, <2>2 DEF LastIs
  <1> QED BY <1>4, <1>5, <1>6, <1>7 DEF c

\* A call made n times.
LEMMA RepeatedCall ==
    ASSUME NEW n \in Nat \ {0}, NEW r, NEW e
    PROVE  /\ Mentions([i \in 1..n |-> r], e) <=> IsFor(r, e)
           /\ IsFor(r, e) => LastIs([i \in 1..n |-> r], e, StateOf(r))
  <1> DEFINE s == [i \in 1..n |-> r]
  <1>1. DOMAIN s = 1..n /\ \A i \in 1..n : s[i] = r
    BY Zenon
  <1> HIDE DEF s
  <1>2. n \in 1..n /\ \A j \in 1..n : ~(j > n)
    OBVIOUS
  <1> QED BY Zenon, <1>1, <1>2 DEF Mentions, LastIs, s

\* A typed text ends with the keyboard released.
LEMMA TextEndsNeutral ==
    ASSUME NEW text \in Texts
    PROVE  /\ Mentions(TextCalls(text), "keyboard")
           /\ LastIs(TextCalls(text), "keyboard", Neutral("keyboard", 0))
           /\ ~Mentions(TextCalls(text), "mouse") /\ ~Mentions(TextCalls(text), "touch")
  <1> USE Zenon
  <1> DEFINE n == TextLength(text)
             s == TextCalls(text)
             k == KeyboardReport({}, {}, TRUE, FALSE)
  <1>1. /\ DOMAIN s = 1..n /\ n \in Nat
        /\ \A i \in 1..n : s[i] = TextCall(text, i)
        /\ \A i \in 1..n : s[i] = Fail \/ (s[i] \in Report /\ s[i].endpoint = "keyboard")
    BY SMT, TextCallsType
  <1>2. text \in Seq(TextItem)
    BY TextsAssumption
  <1>3. \A i \in 1..n : i % 2 = 1 => s[i] = k
    BY <1>1 DEF TextCall
  <1>4. \E m \in 1..n : m % 2 = 1 /\ \A j \in 1..n : j > m => s[j] = Fail
    <2>1. CASE \E i \in DOMAIN text : FirstBad(text, i)
      <3> DEFINE i == CHOOSE i \in DOMAIN text : FirstBad(text, i)
      <3>1. i \in DOMAIN text /\ FirstBad(text, i) /\ n = 2 * i
        BY <2>1 DEF TextLength
      <3> HIDE DEF i, n, s
      <3>2. i \in Nat /\ i >= 1
        BY SMT, <3>1, <1>2
      <3> /\ n - 1 \in 1..n /\ (n - 1) % 2 = 1
          /\ \A j \in 1..n : j > n - 1 => j = n
          /\ n \in 1..n /\ n % 2 # 1 /\ n \div 2 = i
        BY SMT, <3>1, <3>2
      <3>4. s[n] = Fail
        BY <1>1, <3>1 DEF TextCall, FirstBad
      <3> QED BY <3>4
    <2>2. CASE ~\E i \in DOMAIN text : FirstBad(text, i)
      <3>1. n = 2 * Len(text) + 1 /\ Len(text) \in Nat
        BY SMT, <2>2, <1>2 DEF TextLength
      <3> HIDE DEF n, s
      <3>2. n \in 1..n /\ n % 2 = 1 /\ \A j \in 1..n : ~(j > n)
        BY SMT, <3>1
      <3> QED BY <3>2
    <2> QED BY <2>1, <2>2
  <1>5. PICK m \in 1..n : m % 2 = 1 /\ \A j \in 1..n : j > m => s[j] = Fail
    BY <1>4
  <1>6. k.op = "report" /\ k.endpoint = "keyboard"
    BY KeyboardReportIs
  <1>7. StateOf(k) = Neutral("keyboard", 0)
    <2>1. StateOf(k) = [held |-> {} \cup LowestUsages({}), pos |-> 0]
      BY KeyboardReportState
    <2> QED BY <2>1, LowestOfNone DEF Neutral
  <1>8. s[m] = k
    BY <1>3, <1>5
  <1>9. Fail.op # "report"
    BY DEF Fail
  <1> HIDE DEF n, s, k
  <1>10. IsFor(s[m], "keyboard") /\ \A j \in 1..n : j > m => ~IsFor(s[j], "keyboard")
    BY <1>5, <1>6, <1>8, <1>9 DEF IsFor
  <1>11. \A i \in 1..n : ~IsFor(s[i], "mouse") /\ ~IsFor(s[i], "touch")
    BY <1>1, <1>9 DEF IsFor
  <1> QED BY <1>1, <1>7, <1>8, <1>10, <1>11 DEF Mentions, LastIs, s

\* A text (hid_type_utf8): a shortcut ends with the held keys, any other text with
\* a neutral keyboard.
LEMMA TypeUtf8Agrees ==
    ASSUME IInv, NEW text \in Texts, hid_type_utf8(text)
    PROVE  LastReportIsCurrent'
  <1> USE Zenon
  <1>1. TypeOK /\ Idle /\ ~failed /\ phase' # "drain" /\ "release_twice" # "ignore"
    BY DEF IInv, hid_type_utf8, Message, loopVars
  <1>2. CASE Len(text) = 1 /\ modifiers # {} /\ text[1].kind = "tap"
    <2>1. text[1] \in TextItem /\ text[1].kind # "bad"
      BY SMTT(30), <1>2, TextsAssumption
    <2>2. text[1].mods \in SUBSET Nat /\ {text[1].usage} \in SUBSET Nat
      BY <2>1, KeysAssumption DEF TextItem
    <2> DEFINE mods == modifiers \cup text[1].mods
               keys == usages \cup {text[1].usage}
               a == KeyboardReport(mods, keys, TRUE, FALSE)
               b == KeyboardReport(modifiers, usages, TRUE, FALSE)
    <2>3. UNCHANGED hidVars /\ Enter(<<a, b>>, "release_twice")
      BY <1>2 DEF hid_type_utf8
    <2>4. mods \in SUBSET Nat /\ keys \in SUBSET Nat
      BY <2>2, <1>1, HeldTypes
    <2> HIDE DEF mods, keys
    <2>5. a \in Report /\ b \in Report
      BY <2>4, <1>1, HeldTypes, KeyboardReportType
    <2>6. /\ a.op = "report" /\ a.endpoint = "keyboard" /\ ~a.motion
          /\ b.op = "report" /\ b.endpoint = "keyboard" /\ ~b.motion
      BY KeyboardReportIs
    <2>7. StateOf(b) = Current("keyboard")
      <3>1. StateOf(b) = [held |-> modifiers \cup LowestUsages(usages), pos |-> 0]
        BY KeyboardReportState
      <3> HIDE DEF b
      <3> QED BY <3>1 DEF Current
    <2> HIDE DEF a, b
    <2>8. <<a, b>> \in Seq(Calls)
      BY SMT, <2>5, CallsInclude
    <2>9. \A e \in Endpoint : Current(e)' = Current(e)
      BY <2>3 DEF Current, hidVars
    <2>10. \A e \in Endpoint : Updates(<<a, b>>, e)
      <3>1. IsFor(a, "keyboard") /\ IsFor(b, "keyboard")
        BY <2>6 DEF IsFor
      <3>2. \A e \in Endpoint : e # "keyboard" => ~IsFor(a, e) /\ ~IsFor(b, e)
        BY <2>6 DEF IsFor
      <3>3. Updates(<<a, b>>, "keyboard")
        <4>1. Mentions(<<a, b>>, "keyboard") /\ LastIs(<<a, b>>, "keyboard", StateOf(b))
          BY <3>1, TwoCalls
        <4>2. StateOf(b) = Current("keyboard")'
          BY <2>7, <2>9 DEF Endpoint
        <4> QED BY <4>1, <4>2 DEF Updates
      <3>4. \A e \in Endpoint : e # "keyboard" => Updates(<<a, b>>, e)
        BY <3>2, <2>9, TwoCalls DEF Updates
      <3> QED BY <3>3, <3>4
    <2>11. \A i \in DOMAIN <<a, b>> : <<a, b>>[i] = a \/ <<a, b>>[i] = b
      BY SMT
    <2> QED BY <1>1, <2>3, <2>6, <2>8, <2>10, <2>11, EnterAgrees
  <1>3. CASE ~(Len(text) = 1 /\ modifiers # {} /\ text[1].kind = "tap")
    <2> DEFINE s == TextCalls(text)
    <2>1. /\ modifiers' = {} /\ usages' = {} /\ UNCHANGED <<buttons, position>>
          /\ Enter(s, "release_twice")
      BY <1>3 DEF hid_type_utf8
    <2>2. /\ s \in Seq(Calls)
          /\ \A i \in DOMAIN s : s[i] = Fail \/ (s[i] \in Report /\ ~s[i].motion)
      BY SMT, TextCallsType
    <2>3. /\ Mentions(s, "keyboard") /\ LastIs(s, "keyboard", Neutral("keyboard", 0))
          /\ ~Mentions(s, "mouse") /\ ~Mentions(s, "touch")
      BY TextEndsNeutral
    <2> HIDE DEF s
    <2>4. /\ Current("keyboard")' = Neutral("keyboard", 0)
          /\ Current("mouse")' = Current("mouse") /\ Current("touch")' = Current("touch")
      BY <2>1, LowestOfNone DEF Current, Neutral
    <2>5. \A e \in Endpoint : Updates(s, e)
      BY <2>3, <2>4 DEF Updates, Endpoint
    <2>6. \A i \in DOMAIN s : /\ s[i].op # "cancel"
                              /\ s[i].op = "report" /\ s[i].motion => s[i].endpoint = "touch"
      BY SMT, <2>2 DEF Fail, Report
    <2> QED BY <1>1, <2>1, <2>2, <2>5, <2>6, EnterAgrees
  <1> QED BY <1>2, <1>3

\* The three facts about the reports of a pointer handler.
LEMMA PointerReports ==
    ASSUME NEW held \in SUBSET Nat, NEW pos \in Nat, NEW delta \in BOOLEAN, NEW motion \in BOOLEAN
    PROVE  /\ MouseReport(held, delta) \in Report
           /\ TouchReport(held, pos, delta, motion) \in Report
           /\ IsFor(MouseReport(held, delta), "mouse")
           /\ IsFor(TouchReport(held, pos, delta, motion), "touch")
           /\ ~MouseReport(held, delta).motion
  <1> USE Zenon
  <1>1. MouseReport(held, delta) \in Report
    BY MouseReportType
  <1>2. TouchReport(held, pos, delta, motion) \in Report
    BY TouchReportType
  <1>3. IsFor(MouseReport(held, delta), "mouse") /\ ~MouseReport(held, delta).motion
    BY MouseReportIs DEF IsFor
  <1>4. IsFor(TouchReport(held, pos, delta, motion), "touch")
    BY TouchReportIs DEF IsFor
  <1> QED BY <1>1, <1>2, <1>3, <1>4

\* An absolute position with its buttons (hid_absolute).
LEMMA AbsoluteAgrees ==
    ASSUME IInv, NEW pos \in Positions, NEW changed \in SUBSET Buttons,
           NEW down \in BOOLEAN, hid_absolute(pos, changed, down)
    PROVE  LastReportIsCurrent'
  <1> USE Zenon
  <1>1. TypeOK /\ Idle /\ ~failed /\ phase' # "drain" /\ "release" # "ignore"
    BY DEF IInv, hid_absolute, Message, loopVars
  <1>2. /\ modifiers' = modifiers /\ usages' = usages /\ position' = pos
        /\ buttons' \in SUBSET Nat /\ pos \in Nat
    BY <1>1, HeldTypes, PositionsAssumption DEF hid_absolute
  <1> DEFINE motion == changed = {}
             same == buttons' \cap MouseButtons = buttons \cap MouseButtons
             t == TouchReport(buttons', pos, FALSE, motion)
             m == MouseReport(buttons', FALSE)
             tail == IF same THEN <<>> ELSE <<m>>
  <1>3. Enter(<<t>> \o tail, "release") /\ motion \in BOOLEAN
    BY DEF hid_absolute
  <1> HIDE DEF motion
  <1>4. /\ t \in Report /\ m \in Report /\ IsFor(t, "touch") /\ IsFor(m, "mouse") /\ ~m.motion
    <2>1. t \in Report /\ IsFor(t, "touch")
      BY <1>2, <1>3, PointerReports
    <2>2. m \in Report /\ IsFor(m, "mouse") /\ ~m.motion
      BY <1>2, PointerReports
    <2> QED BY <2>1, <2>2
  <1>5. StateOf(t) = [held |-> buttons' \cap SideButtons, pos |-> pos]
    BY TouchReportState
  <1>6. StateOf(m) = [held |-> buttons' \cap MouseButtons, pos |-> 0]
    BY MouseReportState
  <1> HIDE DEF t, m
  <1>7. /\ StateOf(t) = Current("touch")' /\ StateOf(m) = Current("mouse")'
        /\ Current("keyboard")' = Current("keyboard")
        /\ same => Current("mouse")' = Current("mouse")
    BY <1>2, <1>5, <1>6 DEF Current
  <1>8. /\ <<t>> \in Seq(Calls) /\ tail \in Seq(Calls)
        /\ \A i \in DOMAIN <<t>> : <<t>>[i] = t
        /\ \A i \in DOMAIN tail : tail[i] = m
    <2>1. t \in Calls /\ m \in Calls
      BY <1>4, CallsInclude
    <2>2. <<t>> \in Seq(Calls) /\ tail \in Seq(Calls)
      BY SMT, <2>1
    <2>3. \A i \in DOMAIN <<t>> : <<t>>[i] = t
      BY SMT
    <2>4. \A i \in DOMAIN tail : tail[i] = m
      BY SMT
    <2> QED BY <2>2, <2>3, <2>4
  <1>9. tail = <<>> \/ tail = <<m>>
    OBVIOUS
  <1>10. \A e \in Endpoint : Updates(<<t>> \o tail, e)
    <2>1. ~IsFor(t, "keyboard") /\ ~IsFor(t, "mouse") /\ ~IsFor(m, "keyboard") /\ ~IsFor(m, "touch")
      BY <1>4 DEF IsFor
    <2>2. /\ Mentions(<<t>>, "touch") /\ LastIs(<<t>>, "touch", Current("touch")')
          /\ ~Mentions(<<t>>, "keyboard") /\ ~Mentions(<<t>>, "mouse")
      BY <1>4, <1>7, <2>1, OneCall
    <2>3. /\ ~Mentions(tail, "touch") /\ ~Mentions(tail, "keyboard")
          /\ \/ same /\ ~Mentions(tail, "mouse")
             \/ Mentions(tail, "mouse") /\ LastIs(tail, "mouse", Current("mouse")')
      <3>1. CASE same
        BY <3>1, OneCall
      <3> CASE ~same
        BY <1>4, <1>7, <2>1, OneCall
      <3> QED BY <3>1
    <2> HIDE DEF same, tail
    <2>4. Updates(<<t>> \o tail, "touch")
      BY <1>8, <2>2, <2>3, ConcatCalls DEF Updates
    <2>5. Updates(<<t>> \o tail, "keyboard")
      BY <1>7, <1>8, <2>2, <2>3, ConcatCalls DEF Updates
    <2>6. Updates(<<t>> \o tail, "mouse")
      BY <1>7, <1>8, <2>2, <2>3, ConcatCalls DEF Updates
    <2> QED BY <2>4, <2>5, <2>6 DEF Endpoint
  <1> HIDE DEF tail
  <1>11. <<t>> \o tail \in Seq(Calls)
    BY <1>8, Concatenation
  <1>12. \A i \in DOMAIN (<<t>> \o tail) : (<<t>> \o tail)[i] = t \/ (<<t>> \o tail)[i] = m
    BY SMT, <1>8, ConcatCalls
  <1>13. t.op # "cancel" /\ m.op # "cancel" /\ t.endpoint = "touch"
    BY <1>4 DEF IsFor
  <1> QED BY <1>1, <1>3, <1>4, <1>10, <1>11, <1>12, <1>13, EnterAgrees

\* A relative motion with its button mask (hid_relative).
LEMMA RelativeAgrees ==
    ASSUME IInv, NEW next \in SUBSET Buttons, NEW n \in 0..MaxChunks, hid_relative(next, n)
    PROVE  LastReportIsCurrent'
  <1> USE Zenon
  <1>1. TypeOK /\ Idle /\ ~failed /\ phase' # "drain" /\ "release" # "ignore"
    BY DEF IInv, hid_relative, Message, loopVars
  <1>2. /\ modifiers' = modifiers /\ usages' = usages /\ position' = position /\ buttons' = next
        /\ next \in SUBSET Nat /\ position \in Nat /\ n \in Nat
    BY SMT, <1>1, HeldTypes, BoundsAssumption DEF hid_relative
  <1> DEFINE sameSide == next \cap SideButtons = buttons \cap SideButtons
             sameMouse == next \cap MouseButtons = buttons \cap MouseButtons
             t == TouchReport(next, position, FALSE, FALSE)
             d == MouseReport(next, TRUE)
             m == MouseReport(next, FALSE)
             first == IF sameSide THEN <<>> ELSE <<t>>
             second == IF n > 0 THEN [i \in 1..n |-> d] ELSE IF sameMouse THEN <<>> ELSE <<m>>
  <1>3. Enter(first \o second, "release")
    BY DEF hid_relative
  <1>4. /\ t \in Report /\ IsFor(t, "touch") /\ d \in Report /\ IsFor(d, "mouse") /\ ~d.motion
        /\ m \in Report /\ IsFor(m, "mouse") /\ ~m.motion
    BY <1>2, PointerReports
  <1>5. StateOf(t) = [held |-> next \cap SideButtons, pos |-> position]
    BY TouchReportState
  <1>6. /\ StateOf(d) = [held |-> next \cap MouseButtons, pos |-> 0]
        /\ StateOf(m) = [held |-> next \cap MouseButtons, pos |-> 0]
    BY MouseReportState
  <1> HIDE DEF t, d, m
  <1>7. /\ StateOf(t) = Current("touch")' /\ Current("keyboard")' = Current("keyboard")
        /\ StateOf(d) = Current("mouse")' /\ StateOf(m) = Current("mouse")'
        /\ sameSide => Current("touch")' = Current("touch")
        /\ sameMouse => Current("mouse")' = Current("mouse")
    BY <1>2, <1>5, <1>6 DEF Current
  <1> HIDE DEF sameSide, sameMouse
  <1>8. t \in Calls /\ m \in Calls /\ d \in Calls
    BY <1>4, CallsInclude
  <1>9. first \in Seq(Calls) /\ \A i \in DOMAIN first : first[i] = t
    BY SMT, <1>8
  <1>10. second \in Seq(Calls) /\ \A i \in DOMAIN second : second[i] = d \/ second[i] = m
    <2>1. CASE n > 0
      BY SMT, <1>2, <1>8, <2>1
    <2> CASE ~(n > 0)
      BY SMT, <1>8
    <2> QED BY <2>1
  <1>11. ~IsFor(t, "keyboard") /\ ~IsFor(t, "mouse")
    BY <1>4 DEF IsFor
  <1>12. /\ ~IsFor(m, "keyboard") /\ ~IsFor(m, "touch")
         /\ ~IsFor(d, "keyboard") /\ ~IsFor(d, "touch")
    BY <1>4 DEF IsFor
  <1>13. /\ ~Mentions(first, "keyboard") /\ ~Mentions(first, "mouse")
         /\ \/ sameSide /\ ~Mentions(first, "touch")
            \/ Mentions(first, "touch") /\ LastIs(first, "touch", Current("touch")')
    <2>1. CASE sameSide
      BY <2>1, OneCall
    <2> CASE ~sameSide
      BY <1>4, <1>7, <1>11, OneCall
    <2> QED BY <2>1
  <1>14. /\ ~Mentions(second, "keyboard") /\ ~Mentions(second, "touch")
         /\ \/ sameMouse /\ ~Mentions(second, "mouse")
            \/ Mentions(second, "mouse") /\ LastIs(second, "mouse", Current("mouse")')
    <2>1. CASE n > 0
      <3>1. second = [i \in 1..n |-> d] /\ n \in Nat \ {0}
        BY SMT, <2>1, <1>2
      <3> HIDE DEF second
      <3> QED BY <3>1, <1>4, <1>7, <1>12, RepeatedCall
    <2>2. CASE ~(n > 0) /\ sameMouse
      BY <2>2, OneCall
    <2>3. CASE ~(n > 0) /\ ~sameMouse
      <3>1. second = <<m>>
        BY <2>3
      <3> HIDE DEF second
      <3> QED BY <3>1, <1>4, <1>7, <1>12, OneCall
    <2> QED BY <2>1, <2>2, <2>3
  <1> HIDE DEF first, second
  <1>15. \A e \in Endpoint : Updates(first \o second, e)
    <2>1. Updates(first \o second, "touch")
      <3>1. CASE sameSide /\ ~Mentions(first, "touch")
        <4>1. ~Mentions(first \o second, "touch")
          BY <3>1, <1>9, <1>10, <1>14, ConcatCalls
        <4> QED BY <3>1, <4>1, <1>7 DEF Updates
      <3>2. CASE Mentions(first, "touch") /\ LastIs(first, "touch", Current("touch")')
        <4>1. /\ Mentions(first \o second, "touch")
              /\ LastIs(first \o second, "touch", Current("touch")')
          BY <3>2, <1>9, <1>10, <1>14, ConcatCalls
        <4> QED BY <4>1 DEF Updates
      <3> QED BY <3>1, <3>2, <1>13
    <2>2. Updates(first \o second, "keyboard")
      <3>1. ~Mentions(first \o second, "keyboard")
        BY <1>9, <1>10, <1>13, <1>14, ConcatCalls
      <3> QED BY <3>1, <1>7 DEF Updates
    <2>3. Updates(first \o second, "mouse")
      <3>1. CASE sameMouse /\ ~Mentions(second, "mouse")
        <4>1. ~Mentions(first \o second, "mouse")
          BY <3>1, <1>9, <1>10, <1>13, ConcatCalls
        <4> QED BY <3>1, <4>1, <1>7 DEF Updates
      <3>2. CASE Mentions(second, "mouse") /\ LastIs(second, "mouse", Current("mouse")')
        <4>1. /\ Mentions(first \o second, "mouse")
              /\ LastIs(first \o second, "mouse", Current("mouse")')
          BY <3>2, <1>9, <1>10, ConcatCalls
        <4> QED BY <4>1 DEF Updates
      <3> QED BY <3>1, <3>2, <1>14
    <2> QED BY <2>1, <2>2, <2>3 DEF Endpoint
  <1>16. first \o second \in Seq(Calls)
    BY <1>9, <1>10, Concatenation
  <1>17. \A i \in DOMAIN (first \o second) : (first \o second)[i] \in {t, d, m}
    BY SMT, <1>9, <1>10, ConcatCalls
  <1>18. t.op # "cancel" /\ m.op # "cancel" /\ d.op # "cancel" /\ t.endpoint = "touch"
    BY <1>4 DEF IsFor
  <1> QED BY <1>1, <1>3, <1>4, <1>15, <1>16, <1>17, <1>18, EnterAgrees

\* A handler that reports the state of one endpoint and changes no other.
LEMMA OneReportAgrees ==
    ASSUME IInv, Idle, ~failed, phase' # "drain", NEW r \in Report, NEW ep \in Endpoint, IsFor(r, ep),
           r.motion => ep = "touch", Enter(<<r>>, "release"),
           StateOf(r) = Current(ep)',
           \A e \in Endpoint : e # ep => Current(e)' = Current(e)
    PROVE  LastReportIsCurrent'
  <1> USE Zenon
  <1>1. <<r>> \in Seq(Calls) /\ "release" # "ignore"
    BY SMT, CallsInclude
  <1>2. ASSUME NEW e \in Endpoint PROVE Updates(<<r>>, e)
    <2>1. CASE e = ep
      BY <2>1, OneCall DEF Updates
    <2> CASE e # ep
      <3>1. ~IsFor(r, e)
        BY DEF IsFor
      <3> QED BY <3>1, OneCall DEF Updates
    <2> QED BY <2>1
  <1>3. \A i \in DOMAIN <<r>> : <<r>>[i] = r
    BY SMT
  <1>4. \A i \in DOMAIN <<r>> :
           /\ <<r>>[i].op # "cancel"
           /\ <<r>>[i].op = "report" /\ <<r>>[i].motion => <<r>>[i].endpoint = "touch"
    BY <1>3 DEF IsFor
  <1> QED BY <1>1, <1>2, <1>4, EnterAgrees

\* A handler that makes no report.
LEMMA NoReportAgrees ==
    ASSUME IInv, Idle, ~failed, phase' # "drain", UNCHANGED hidVars,
           NEW calls \in Seq(Calls), NEW policy, policy # "ignore", Enter(calls, policy),
           \A i \in DOMAIN calls : calls[i].op = "flush"
    PROVE  LastReportIsCurrent'
  <1> USE Zenon
  <1>1. \A e \in Endpoint : Current(e)' = Current(e)
    BY DEF Current, hidVars
  <1>2. \A e \in Endpoint : ~Mentions(calls, e)
    BY DEF Mentions, IsFor
  <1> QED BY <1>1, <1>2, EnterAgrees DEF Updates

\* A wheel step (hid_wheel).
LEMMA WheelAgrees ==
    ASSUME IInv, NEW horizontal \in BOOLEAN, hid_wheel(horizontal)
    PROVE  LastReportIsCurrent'
  <1> USE Zenon
  <1>1. TypeOK /\ Idle /\ ~failed /\ phase' # "drain" /\ "release" # "ignore" /\ UNCHANGED hidVars
    BY DEF IInv, hid_wheel, Message, loopVars
  <1> DEFINE t == TouchReport(buttons, position, TRUE, FALSE)
             m == MouseReport(buttons, TRUE)
  <1>2. Enter(<<m>>, "release") \/ Enter(<<t>>, "release") \/ Enter(<<>>, "release")
    BY DEF hid_wheel
  <1>3. /\ t \in Report /\ IsFor(t, "touch") /\ m \in Report /\ IsFor(m, "mouse") /\ ~m.motion
    BY <1>1, HeldTypes, PointerReports
  <1>4. StateOf(t) = [held |-> buttons \cap SideButtons, pos |-> position]
    BY TouchReportState
  <1>5. StateOf(m) = [held |-> buttons \cap MouseButtons, pos |-> 0]
    BY MouseReportState
  <1> HIDE DEF t, m
  <1>6. /\ StateOf(t) = Current("touch")' /\ StateOf(m) = Current("mouse")'
        /\ \A e \in Endpoint : Current(e)' = Current(e)
    BY <1>1, <1>4, <1>5 DEF Current, hidVars
  <1>7. CASE Enter(<<m>>, "release")
    <2>1. "mouse" \in Endpoint
      BY DEF Endpoint
    <2> QED BY <1>1, <1>3, <1>6, <1>7, <2>1, OneReportAgrees
  <1>8. CASE Enter(<<t>>, "release")
    <2>1. "touch" \in Endpoint
      BY DEF Endpoint
    <2> QED BY <1>1, <1>3, <1>6, <1>8, <2>1, OneReportAgrees
  <1>9. CASE Enter(<<>>, "release")
    <2>1. <<>> \in Seq(Calls) /\ DOMAIN <<>> = {}
      BY SMT
    <2> QED BY <1>1, <1>9, <2>1, NoReportAgrees
  <1> QED BY <1>2, <1>7, <1>8, <1>9

\* SYNCHRONIZE: the three neutral reports behind everything queued.
LEMMA SynchronizeAgrees ==
    ASSUME IInv, hid_synchronize
    PROVE  LastReportIsCurrent'
  <1> USE Zenon
  <1> DEFINE s == NeutralReports
  <1>1. /\ TypeOK /\ Idle /\ ~failed /\ phase' # "drain" /\ "defer" # "ignore"
        /\ Enter(s, "defer") /\ NeutralState
    BY DEF IInv, hid_synchronize, Message, loopVars
  <1>2. position \in Positions /\ position \in Nat /\ position' = position
    BY <1>1, HeldTypes DEF TypeOK, HidTypes, NeutralState
  <1>3. /\ s \in Seq(Calls) /\ Len(s) = 3
        /\ s[1] = KeyboardReport({}, {}, FALSE, FALSE) /\ s[2] = MouseReport({}, FALSE)
        /\ s[3] = TouchReport({}, position, FALSE, FALSE)
    BY <1>2, NeutralCalls
  <1> HIDE DEF s
  <1>4. DOMAIN s = 1..3 /\ 3 >= 3
    BY SMT, <1>3
  <1>5. /\ 2 % 4 = 2 /\ 1 % 4 = 1 /\ 0 % 4 = 0 /\ 3 - 1 = 2 /\ 3 - 2 = 1 /\ 3 - 3 = 0
    BY SMT
  <1>6. /\ s[1] = ReleaseCall(2, position) /\ s[2] = ReleaseCall(1, position)
        /\ s[3] = ReleaseCall(0, position)
    BY SMT, <1>3, <1>5 DEF ReleaseCall
  <1>7. \A i \in 1..3 : i = 1 \/ i = 2 \/ i = 3
    BY SMT
  <1>8. \A i \in DOMAIN s : s[i] = ReleaseCall(Len(s) - i, position)
    BY <1>3, <1>4, <1>5, <1>6, <1>7
  <1>9. ASSUME NEW e \in Endpoint PROVE Updates(s, e)
    <2>1. Mentions(s, e) /\ LastIs(s, e, Neutral(e, position))
      BY <1>2, <1>3, <1>4, <1>8, ReleaseIsNeutral
    <2>2. Current(e)' = Neutral(e, position)
      BY <1>1, <1>2, CurrentWhenNeutral DEF NeutralState
    <2> QED BY <2>1, <2>2 DEF Updates
  <1>10. \A i \in DOMAIN s :
            /\ s[i].op # "cancel"
            /\ s[i].op = "report" /\ s[i].motion => s[i].endpoint = "touch"
    <2>1. /\ IsFor(s[1], "keyboard") /\ ~s[1].motion /\ IsFor(s[2], "mouse") /\ ~s[2].motion
          /\ IsFor(s[3], "touch")
      BY <1>2, <1>5, <1>6, ReleaseCallIs
    <2> QED BY <1>4, <1>7, <2>1 DEF IsFor
  <1> QED BY <1>1, <1>3, <1>9, <1>10, EnterAgrees

\* The keepalive motion (hid_keepalive).
LEMMA KeepaliveAgrees ==
    ASSUME IInv, NEW due \in BOOLEAN, hid_keepalive(due)
    PROVE  LastReportIsCurrent'
  <1> USE Zenon
  <1>1. TypeOK /\ Idle /\ ~failed /\ phase' # "drain" /\ UNCHANGED hidVars
    BY DEF IInv, hid_keepalive
  <1> DEFINE m == MouseReport(buttons, TRUE)
  <1>2. Enter(<<m>>, "release") \/ Enter(<<>>, "release")
    BY DEF hid_keepalive
  <1>3. m \in Report /\ IsFor(m, "mouse") /\ ~m.motion
    BY <1>1, HeldTypes, PointerReports
  <1>4. StateOf(m) = [held |-> buttons \cap MouseButtons, pos |-> 0]
    BY MouseReportState
  <1> HIDE DEF m
  <1>5. StateOf(m) = Current("mouse")' /\ \A e \in Endpoint : Current(e)' = Current(e)
    BY <1>1, <1>4 DEF Current, hidVars
  <1>6. CASE Enter(<<m>>, "release")
    <2>1. "mouse" \in Endpoint
      BY DEF Endpoint
    <2> QED BY <1>1, <1>3, <1>5, <1>6, <2>1, OneReportAgrees
  <1>7. CASE Enter(<<>>, "release")
    <2>1. <<>> \in Seq(Calls) /\ DOMAIN <<>> = {} /\ "release" # "ignore"
      BY SMT
    <2> QED BY <1>1, <1>7, <2>1, NoReportAgrees
  <1> QED BY <1>2, <1>6, <1>7

\* hid_flush flushes the two queues and makes no report.
LEMMA FlushCallsAre ==
    /\ FlushCalls \in Seq(Calls)
    /\ \A i \in DOMAIN FlushCalls : FlushCalls[i].op = "flush"
  <1> USE Zenon
  <1> DEFINE a == Flush("keyboard")
             b == Flush("pointer")
  <1>1. a \in Calls /\ b \in Calls /\ a.op = "flush" /\ b.op = "flush"
    BY CallsInclude DEF Queue
  <1> HIDE DEF a, b
  <1>2. <<a, b>> \in Seq(Calls) /\ \A i \in DOMAIN <<a, b>> : <<a, b>>[i] = a \/ <<a, b>>[i] = b
    BY SMT, <1>1
  <1>3. FlushCalls = <<a, b>>
    BY DEF FlushCalls, a, b
  <1> QED BY <1>1, <1>2, <1>3

\* The flush at the top of a turn, and those of the agent's last 200 ms.
LEMMA FlushAllAgrees ==
    ASSUME IInv, hid_flush \/ DrainFlush
    PROVE  LastReportIsCurrent'
  <1> USE Zenon
  <1>1. CASE hid_flush
    <2>1. /\ Idle /\ ~failed /\ phase' # "drain" /\ UNCHANGED hidVars
          /\ Enter(FlushCalls, "defer") /\ "defer" # "ignore"
      BY <1>1 DEF hid_flush
    <2> QED BY <2>1, FlushCallsAre, NoReportAgrees
  <1>2. CASE DrainFlush
    <2>1. /\ Idle /\ phase = "drain" /\ UNCHANGED hidVars
          /\ Enter(FlushCalls, "ignore")
      BY <1>2 DEF DrainFlush
    <2>2. ~failed
      BY <2>1 DEF IInv, LastReportIsCurrent, CallsSane
    <2>3. /\ todo' = FlushCalls /\ onfail' = "ignore" /\ failed' = FALSE
          /\ reports' = reports /\ pending' = pending /\ host' = host
      BY <2>1 DEF Enter, queueVars, usbVars
    <2>4. ReleaseShape' /\ CallsSane'
      BY <2>3, FlushCallsAre DEF ReleaseShape, CallsSane
    <2>5. ReleaseRoom'
      <3>1. todo' # <<>> => Head(todo').op = "flush"
        BY SMT, <2>3, FlushCallsAre
      <3> QED BY <3>1 DEF ReleaseRoom
    <2>6. QueuesSorted'
      BY <2>3 DEF IInv, LastReportIsCurrent, QueuesSorted
    <2>7. ASSUME NEW e \in Endpoint PROVE Agrees(e)'
      <3>1. Agrees(e) /\ ~Mentions(todo, e)
        BY SMT, <2>1, <2>2 DEF IInv, LastReportIsCurrent, Idle, Mentions
      <3>2. ~Mentions(todo', e)
        BY <2>3, FlushCallsAre DEF Mentions, IsFor
      <3>3. Current(e)' = Current(e)
        BY <2>1 DEF Current, hidVars
      <3> QED BY <2>3, <3>1, <3>2, <3>3 DEF Agrees
    <2> QED BY <2>4, <2>5, <2>6, <2>7 DEF LastReportIsCurrent
  <1> QED BY <1>1, <1>2

\* hid_release_all, from any state and after any failure.
LEMMA ReleasesAgree ==
    ASSUME IInv, hid_release_all
    PROVE  LastReportIsCurrent'
  <1> USE Zenon
  <1>1. /\ TypeOK /\ QueuesSorted /\ NeutralState /\ reports' = reports
        /\ todo' = ReleaseCalls /\ onfail' = "ignore" /\ failed' = FALSE
    BY DEF IInv, LastReportIsCurrent, hid_release_all, Enter, queueVars
  <1> QED BY <1>1, ReleaseAgrees

-----------------------------------------------------------------------------
(* The calls *)

\* Steps that change none of this.
LEMMA SameAgrees ==
    ASSUME IInv, UNCHANGED <<hidVars, todo, onfail, failed, reports, pending, host>>,
           phase' = "drain" => phase = "drain"
    PROVE  LastReportIsCurrent'
  BY Zenon, KeepAgrees

\* The shape of hid_release_all rules these heads out.
LEMMA IgnoredHead ==
    ASSUME IInv, todo # <<>>, onfail = "ignore"
    PROVE  /\ Head(todo).op \in {"flush", "cancel", "report"}
           /\ Head(todo).op = "flush" => \A i \in DOMAIN todo : todo[i].op = "flush"
           /\ Head(todo).op \in {"cancel", "report"} =>
                /\ \A i \in DOMAIN todo : todo[i] = ReleaseCall(Len(todo) - i, position)
                /\ modifiers = {} /\ usages = {} /\ buttons = {}
                /\ Len(todo) - 1 \in Nat
                /\ Head(todo) = ReleaseCall(Len(todo) - 1, position)
           /\ Head(todo).op = "cancel" => Len(todo) % 4 = 0 /\ Len(todo) >= 4
           /\ Head(todo).op = "report" =>
                /\ Len(todo) % 4 # 0 /\ ~Head(todo).motion
                /\ Len(todo) % 4 = 3 => Head(todo).endpoint = "keyboard"
                /\ Len(todo) % 4 = 2 => Head(todo).endpoint = "mouse"
                /\ Len(todo) % 4 = 1 => Head(todo).endpoint = "touch"
  <1> USE Zenon
  <1> DEFINE n == Len(todo)
  <1>1. /\ n \in Nat /\ n >= 1 /\ DOMAIN todo = 1..n /\ Head(todo) = todo[1] /\ 1 \in DOMAIN todo
    BY SMT DEF IInv, TypeOK, CallTypes
  <1>2. position \in Nat
    BY HeldTypes DEF IInv
  <1>3. CASE \A i \in DOMAIN todo : todo[i].op = "flush"
    BY <1>1, <1>3
  <1>4. CASE /\ \A i \in DOMAIN todo : todo[i] = ReleaseCall(n - i, position)
             /\ modifiers = {} /\ usages = {} /\ buttons = {}
    <2>1. Head(todo) = ReleaseCall(n - 1, position)
      BY <1>1, <1>4
    <2> HIDE DEF n
    <2> /\ n - 1 \in Nat
        /\ (n - 1) % 4 = 3 => n % 4 = 0 /\ n >= 4
        /\ (n - 1) % 4 = 2 => n % 4 = 3
        /\ (n - 1) % 4 = 1 => n % 4 = 2
        /\ (n - 1) % 4 = 0 => n % 4 = 1
        /\ (n - 1) % 4 \in {0, 1, 2, 3}
      BY SMT, <1>1
    <2>3. CASE (n - 1) % 4 = 3
      BY <1>2, <1>4, <2>1, <2>3, ReleaseCallIs DEF n
    <2>4. CASE (n - 1) % 4 = 2
      <3>1. IsFor(Head(todo), "keyboard") /\ ~Head(todo).motion /\ n % 4 = 3
        BY <1>2, <2>1, <2>4, ReleaseCallIs
      <3> QED BY SMT, <1>4, <2>1, <3>1 DEF IsFor, n
    <2>5. CASE (n - 1) % 4 = 1
      <3>1. IsFor(Head(todo), "mouse") /\ ~Head(todo).motion /\ n % 4 = 2
        BY <1>2, <2>1, <2>5, ReleaseCallIs
      <3> QED BY SMT, <1>4, <2>1, <3>1 DEF IsFor, n
    <2>6. CASE (n - 1) % 4 = 0
      <3>1. IsFor(Head(todo), "touch") /\ ~Head(todo).motion /\ n % 4 = 1
        BY <1>2, <2>1, <2>6, ReleaseCallIs
      <3> QED BY SMT, <1>4, <2>1, <3>1 DEF IsFor, n
    <2> QED BY <2>3, <2>4, <2>5, <2>6
  <1> QED BY <1>3, <1>4 DEF IInv, LastReportIsCurrent, ReleaseShape

\* What is left of the calls after the first.
LEMMA TailIs ==
    ASSUME IInv, todo # <<>>
    PROVE  /\ Head(todo) \in Calls /\ Tail(todo) \in Seq(Calls)
           /\ Len(todo) \in Nat /\ Len(todo) >= 1 /\ Len(Tail(todo)) = Len(todo) - 1
           /\ DOMAIN Tail(todo) = 1..(Len(todo) - 1) /\ DOMAIN todo = 1..Len(todo)
           /\ \A i \in DOMAIN Tail(todo) : i + 1 \in DOMAIN todo /\ Tail(todo)[i] = todo[i + 1]
  BY DEF IInv, TypeOK, CallTypes

\* A step that makes the first of the calls leaves the others sane.
LEMMA TailSane ==
    ASSUME IInv, todo # <<>>, todo' = Tail(todo), onfail' = onfail,
           failed' => onfail = "defer", phase' = phase
    PROVE  CallsSane' /\ (onfail # "ignore" => ReleaseShape' /\ ReleaseRoom')
  <1> USE Zenon
  <1>1. \A i \in DOMAIN todo' : i + 1 \in DOMAIN todo /\ todo'[i] = todo[i + 1]
    BY TailIs
  <1>2. CallsSane
    BY DEF IInv, LastReportIsCurrent
  <1>3. CallsSane'
    BY <1>1, <1>2 DEF CallsSane
  <1> QED BY <1>3 DEF ReleaseShape, ReleaseRoom

\* After a call of hid_release_all the rest of it is as long as its length says.
LEMMA TailReleases ==
    ASSUME IInv, todo # <<>>, onfail = "ignore", Head(todo).op \in {"cancel", "report"}
    PROVE  \A i \in DOMAIN Tail(todo) :
              Tail(todo)[i] = ReleaseCall(Len(Tail(todo)) - i, position)
  <1> DEFINE n == Len(todo)
             t == Tail(todo)
  <1>1. /\ DOMAIN t = 1..(n - 1) /\ Len(t) = n - 1 /\ n \in Nat /\ n >= 1
        /\ \A i \in DOMAIN t : i + 1 \in DOMAIN todo /\ t[i] = todo[i + 1]
    BY Zenon, TailIs
  <1>2. \A i \in DOMAIN todo : todo[i] = ReleaseCall(n - i, position)
    BY Zenon, IgnoredHead
  <1> HIDE DEF n, t
  <1>3. \A i \in 1..(n - 1) : n - (i + 1) = (n - 1) - i
    BY <1>1
  <1> QED BY <1>1, <1>2, <1>3 DEF n, t

\* A false result that ends in hid_release_all.
LEMMA ReturnFalseReleases ==
    ASSUME IInv, NEW rest, ReturnFalse(rest), reports' = reports,
           ~(space = "flushing" \/ onfail \in {"ignore", "defer"})
    PROVE  LastReportIsCurrent'
  <1> USE Zenon
  <1>1. /\ NeutralState /\ onfail' = "ignore" /\ failed' = failed
        /\ todo' = ReleaseCalls \/ todo' = ReleaseCalls \o ReleaseCalls
    BY DEF ReturnFalse
  <1>2. TypeOK /\ QueuesSorted /\ failed = FALSE
    <2>1. TypeOK /\ QueuesSorted /\ ~failed
      BY DEF IInv, LastReportIsCurrent, CallsSane
    <2> QED BY <2>1 DEF TypeOK, CallTypes
  <1> QED BY <1>1, <1>2, ReleaseAgrees

\* flush_reports returned false.
LEMMA FlushFalseAgrees ==
    ASSUME IInv, ReturnFalse(todo), UNCHANGED <<reports, pending, host, phase>>
    PROVE  LastReportIsCurrent'
  <1> USE Zenon
  <1>1. CASE ~(space = "flushing" \/ onfail \in {"ignore", "defer"})
    BY <1>1, ReturnFalseReleases
  <1>2. CASE space = "flushing" \/ onfail \in {"ignore", "defer"}
    <2>1. /\ todo' = todo /\ onfail' = onfail /\ UNCHANGED hidVars
          /\ failed' = (failed \/ (space # "flushing" /\ onfail = "defer"))
      BY <1>2 DEF ReturnFalse
    <2>2. CASE failed' = failed
      BY <2>1, <2>2, SameAgrees
    <2>3. CASE failed' # failed
      <3> onfail' = "defer" /\ failed'
        BY <2>1, <2>3 DEF IInv, TypeOK, CallTypes
      <3>2. ReleaseShape' /\ ReleaseRoom'
        BY DEF ReleaseShape, ReleaseRoom
      <3>3. CallsSane' /\ QueuesSorted'
        BY <2>1 DEF IInv, LastReportIsCurrent, CallsSane, QueuesSorted
      <3> QED BY <3>2, <3>3 DEF LastReportIsCurrent
    <2> QED BY <2>2, <2>3
  <1> QED BY <1>1, <1>2

\* A call that is no report is done, and nothing else changes.
LEMMA SkipAgrees ==
    ASSUME IInv, todo # <<>>, Head(todo).op # "report", todo' = Tail(todo),
           UNCHANGED <<hidVars, reports, pending, host, onfail, failed, phase>>,
           NEW e \in Endpoint, Agrees(e)
    PROVE  Agrees(e)'
  <1> USE Zenon
  <1>1. todo \in Seq(Calls) /\ ~IsFor(Head(todo), e)
    BY DEF IInv, TypeOK, CallTypes, IsFor
  <1> DEFINE v == Current(e)
  <1>2. Current(e)' = v
    BY DEF Current, hidVars
  <1>3. Agrees(e)
    OBVIOUS
  <1> HIDE DEF v
  <1>4. /\ Mentions(todo', e) <=> Mentions(todo, e)
        /\ LastIs(todo, e, v) /\ Mentions(todo', e) => LastIs(todo', e, v)
    BY <1>1, TailOfCalls
  <1> QED BY <1>2, <1>3, <1>4 DEF Agrees, v

\* Starting to flush a queue.
LEMMA StartFlushAgrees ==
    ASSUME IInv, StartFlush
    PROVE  LastReportIsCurrent'
  <1> USE Zenon
  <1>1. /\ todo # <<>> /\ Head(todo).op = "flush" /\ todo' = Tail(todo)
        /\ UNCHANGED <<hidVars, reports, pending, host, onfail, failed, phase>>
    BY DEF StartFlush, CallIs, queueVars, usbVars, loopVars
  <1>2. QueuesSorted' /\ (failed' => onfail = "defer")
    BY <1>1 DEF IInv, LastReportIsCurrent, QueuesSorted, CallsSane
  <1>3. CallsSane'
    BY <1>1, <1>2, TailSane
  <1>4. ReleaseShape' /\ ReleaseRoom'
    <2>1. CASE onfail # "ignore"
      BY <1>1, <1>2, <2>1, TailSane
    <2>2. CASE onfail = "ignore"
      <3>1. \A i \in DOMAIN todo' : todo'[i].op = "flush"
        BY <1>1, <2>2, IgnoredHead, TailIs
      <3>2. todo' # <<>> => Head(todo').op = "flush"
        <4>1. todo' \in Seq(Calls)
          BY <1>1, TailIs
        <4>2. todo' # <<>> => Head(todo') = todo'[1] /\ 1 \in DOMAIN todo'
          BY SMT, <4>1
        <4> QED BY <3>1, <4>2
      <3> QED BY <3>1, <3>2 DEF ReleaseShape, ReleaseRoom
    <2> QED BY <2>1, <2>2
  <1>5. ASSUME ~failed', NEW e \in Endpoint PROVE Agrees(e)'
    <2>1. Agrees(e)
      BY <1>1, <1>5 DEF IInv, LastReportIsCurrent
    <2> QED BY <1>1, <2>1, SkipAgrees
  <1> QED BY <1>2, <1>3, <1>4, <1>5 DEF LastReportIsCurrent

\* A text item that cannot be typed.
LEMMA CallFailsAgrees ==
    ASSUME IInv, CallFails
    PROVE  LastReportIsCurrent'
  <1> USE Zenon
  <1>1. /\ todo # <<>> /\ Head(todo).op = "fail" /\ ReturnFalse(Tail(todo))
        /\ UNCHANGED <<reports, pending, host, phase>>
    BY DEF CallFails, CallIs, queueVars, usbVars, loopVars
  <1>2. onfail # "ignore"
    BY <1>1, IgnoredHead
  <1>3. CASE ~(space = "flushing" \/ onfail \in {"ignore", "defer"})
    BY <1>1, <1>3, ReturnFalseReleases
  <1>4. CASE space = "flushing" \/ onfail \in {"ignore", "defer"}
    <2>1. /\ todo' = Tail(todo) /\ onfail' = onfail /\ UNCHANGED hidVars
          /\ failed' = (failed \/ (space # "flushing" /\ onfail = "defer"))
      BY <1>1, <1>4 DEF ReturnFalse
    <2>2. QueuesSorted' /\ (failed' => onfail = "defer")
      BY <1>1, <2>1 DEF IInv, LastReportIsCurrent, QueuesSorted, CallsSane
    <2>3. CallsSane' /\ ReleaseShape' /\ ReleaseRoom'
      BY <1>1, <1>2, <2>1, <2>2, TailSane
    <2>4. ASSUME ~failed', NEW e \in Endpoint PROVE Agrees(e)'
      <3>1. Agrees(e) /\ failed' = failed
        BY <2>1, <2>4 DEF IInv, LastReportIsCurrent, TypeOK, CallTypes
      <3> QED BY <1>1, <2>1, <3>1, SkipAgrees
    <2> QED BY <2>2, <2>3, <2>4 DEF LastReportIsCurrent
  <1> QED BY <1>3, <1>4

\* The queues are emptied: the neutral reports that follow restore the agreement.
LEMMA CancelAgrees ==
    ASSUME IInv, CancelQueues
    PROVE  LastReportIsCurrent'
  <1> USE Zenon
  <1>1. /\ todo # <<>> /\ Head(todo).op = "cancel" /\ todo' = Tail(todo)
        /\ reports' = [q \in Queue |-> <<>>]
        /\ UNCHANGED <<hidVars, pending, host, onfail, failed, phase>>
    BY DEF CancelQueues, CallIs, usbVars, loopVars
  <1>2. onfail = "ignore" /\ ~failed
    <2>1. 1 \in DOMAIN todo /\ Head(todo) = todo[1]
      BY SMT, <1>1, TailIs
    <2> QED BY <1>1, <2>1 DEF IInv, LastReportIsCurrent, CallsSane
  <1>3. /\ modifiers = {} /\ usages = {} /\ buttons = {} /\ position \in Nat
        /\ Len(todo') >= 3 /\ todo' \in Seq(Calls)
        /\ \A i \in DOMAIN todo' : todo'[i] = ReleaseCall(Len(todo') - i, position)
    BY SMT, <1>1, <1>2, IgnoredHead, TailReleases, TailIs, HeldTypes DEF IInv
  <1>4. CallsSane'
    BY <1>1, <1>2, TailSane
  <1>5. ReleaseShape'
    BY <1>1, <1>2, <1>3 DEF ReleaseShape, hidVars
  <1>6. ReleaseRoom' /\ QueuesSorted'
    <2>1. reports'["keyboard"] = <<>> /\ reports'["pointer"] = <<>>
      BY <1>1 DEF Queue
    <2>2. Len(<<>>) = 0 /\ 0 <= 1 /\ DOMAIN <<>> = {}
      BY SMT
    <2>3. ReleaseRoom'
      BY <2>1, <2>2 DEF ReleaseRoom
    <2>4. QueuesSorted'
      BY <2>1, <2>2 DEF QueuesSorted, Queue
    <2> QED BY <2>3, <2>4
  <1>7. ASSUME NEW e \in Endpoint PROVE Agrees(e)'
    <2>1. Mentions(todo', e) /\ LastIs(todo', e, Neutral(e, position))
      BY <1>3, ReleaseIsNeutral
    <2>2. Current(e)' = Neutral(e, position)
      <3>1. modifiers' = {} /\ usages' = {} /\ buttons' = {} /\ position' = position
        BY <1>1, <1>3 DEF hidVars
      <3> QED BY <3>1, CurrentWhenNeutral
    <2> QED BY <2>1, <2>2 DEF Agrees
  <1> QED BY <1>4, <1>5, <1>6, <1>7 DEF LastReportIsCurrent

\* The report queued last gives way to a newer one for the same endpoint.
LEMMA ReplaceLast ==
    ASSUME NEW S, NEW s \in Seq(S), s # <<>>, NEW r \in S, NEW ep,
           IsFor(s[Len(s)], ep), IsFor(r, ep), NEW e, NEW v
    PROVE  LET t == [s EXCEPT ![Len(s)] = r] IN
           /\ t \in Seq(S) /\ DOMAIN t = DOMAIN s
           /\ \A i \in DOMAIN t : t[i] = r \/ t[i] = s[i]
           /\ Mentions(t, ep) /\ LastIs(t, ep, StateOf(r))
           /\ e # ep => /\ Mentions(t, e) <=> Mentions(s, e)
                        /\ LastIs(s, e, v) => LastIs(t, e, v)
  <1> USE Zenon
  <1> DEFINE n == Len(s)
             t == [s EXCEPT ![n] = r]
  <1>1. n \in DOMAIN s /\ DOMAIN s = 1..n /\ n \in Nat
    BY SMT
  <1>2. /\ t \in Seq(S) /\ DOMAIN t = DOMAIN s /\ t[n] = r
        /\ \A i \in DOMAIN s : i # n => t[i] = s[i]
    BY <1>1, ReplaceOne
  <1>3. IsFor(s[n], ep)
    OBVIOUS
  <1> HIDE DEF n, t
  <1>4. \A j \in 1..n : ~(j > n)
    BY SMT, <1>1
  <1>5. Mentions(t, ep) /\ LastIs(t, ep, StateOf(r))
    BY <1>1, <1>2, <1>4 DEF Mentions, LastIs
  <1>6. e # ep => \A i \in DOMAIN s : /\ IsFor(t[i], e) <=> IsFor(s[i], e)
                                      /\ IsFor(s[i], e) => t[i] = s[i]
    BY <1>1, <1>2, <1>3 DEF IsFor
  <1>7. e # ep => /\ Mentions(t, e) <=> Mentions(s, e)
                  /\ LastIs(s, e, v) => LastIs(t, e, v)
    BY <1>2, <1>6 DEF Mentions, LastIs
  <1> QED BY <1>2, <1>5, <1>7 DEF n, t

\* queue_report: bypass, merge, append, flush for space and overflow.
LEMMA QueueReportAgrees ==
    ASSUME IInv, queue_report
    PROVE  LastReportIsCurrent'
  <1> USE Zenon
  <1> DEFINE r == Head(todo)
             q == QueueOf(r.endpoint)
  <1>1. todo # <<>> /\ r.op = "report" /\ host' = host /\ phase' = phase
    BY DEF queue_report, CallIs, loopVars
  <1>2. r \in Report /\ IsFor(r, r.endpoint) /\ r.endpoint \in Endpoint /\ q \in Queue
    <2> r \in Report
      BY <1>1, TailIs, CallsInclude
    <2>2. r.endpoint \in Endpoint
      BY DEF Report
    <2> QED BY <1>1, <2>2 DEF IsFor, QueueOf, Queue
  <1>3. r.motion => r.endpoint = "touch" /\ onfail # "ignore"
    <2>1. 1 \in DOMAIN todo /\ r = todo[1]
      BY SMT, <1>1, TailIs
    <2>2. r.motion => r.endpoint = "touch"
      BY <1>1, <2>1 DEF IInv, LastReportIsCurrent, CallsSane
    <2>3. onfail = "ignore" => ~r.motion
      BY <1>1, IgnoredHead
    <2> QED BY <2>2, <2>3
  <1>4. /\ todo \in Seq(Calls) /\ reports \in [Queue -> Seq(Report)]
        /\ pending \in [Endpoint -> Report \cup {NoReport}]
        /\ QueuesSorted /\ CallsSane /\ ReleaseRoom /\ failed \in BOOLEAN
    BY DEF IInv, TypeOK, CallTypes, QueueTypes, UsbTypes, LastReportIsCurrent
  <1>5. ASSUME NEW e \in Endpoint, Agrees(e)
        PROVE  /\ Mentions(Tail(todo), e) => LastIs(Tail(todo), e, Current(e))
               /\ ~Mentions(Tail(todo), e) /\ IsFor(r, e) => StateOf(r) = Current(e)
               /\ ~Mentions(Tail(todo), e) /\ ~IsFor(r, e) => ~Mentions(todo, e)
    <2> DEFINE v == Current(e)
    <2>1. Mentions(todo, e) => LastIs(todo, e, v)
      BY <1>5 DEF Agrees
    <2> HIDE DEF v
    <2>2. IsFor(r, e) => Mentions(todo, e)
      <3>1. 1 \in DOMAIN todo /\ r = todo[1]
        BY SMT, <1>1, TailIs
      <3> QED BY <3>1 DEF Mentions
    <2>3. /\ Mentions(Tail(todo), e) => Mentions(todo, e)
          /\ LastIs(todo, e, v) /\ Mentions(Tail(todo), e) => LastIs(Tail(todo), e, v)
          /\ Mentions(todo, e) /\ ~Mentions(Tail(todo), e) => IsFor(r, e)
          /\ LastIs(todo, e, v) /\ ~Mentions(Tail(todo), e) => StateOf(r) = v
      BY <1>1, <1>4, TailOfCalls
    <2> QED BY <2>1, <2>2, <2>3 DEF v
  <1>6. r # NoReport
    BY SMT, <1>1 DEF NoReport
  <1> HIDE DEF r, q
  <1>a. CASE /\ MayBypass(r)
             /\ Submit(r)
             /\ todo' = Tail(todo)
             /\ UNCHANGED <<hidVars, reports, flushing, space, onfail, failed>>
    <2>1. r.endpoint = "touch" /\ onfail # "ignore" /\ reports["pointer"] = <<>>
      BY <1>a, <1>3 DEF MayBypass
    <2>2. pending'["touch"] = r /\ \A e \in Endpoint : e # "touch" => pending'[e] = pending[e]
      BY <1>a, <1>2, <1>4, <2>1 DEF Submit
    <2>3. (failed' => onfail = "defer") /\ QueuesSorted'
      BY <1>a, <1>4 DEF CallsSane, QueuesSorted
    <2>4. CallsSane' /\ ReleaseShape' /\ ReleaseRoom'
      BY <1>1, <1>a, <2>1, <2>3, TailSane
    <2>5. ASSUME ~failed', NEW e \in Endpoint PROVE Agrees(e)'
      <3>1. Agrees(e)
        BY <1>a, <2>5 DEF IInv, LastReportIsCurrent
      <3>2. Current(e)' = Current(e)
        BY <1>a DEF Current, hidVars
      <3>3. CASE e = "touch"
        <4>1. ~Mentions(reports'["pointer"], e)
          BY SMT, <1>a, <2>1 DEF Mentions
        <4>2. IsFor(r, e) /\ QueueOf(e) = "pointer"
          BY <1>2, <2>1, <3>3 DEF QueueOf
        <4> QED BY SMT, <1>5, <1>6, <1>a, <2>2, <3>1, <3>2, <3>3, <4>1, <4>2 DEF Agrees
      <3> CASE e # "touch"
        <4>1. ~IsFor(r, e)
          BY <2>1 DEF IsFor
        <4> QED BY <1>1, <1>5, <1>a, <2>2, <3>1, <3>2, <4>1 DEF Agrees
      <3> QED BY <3>3
    <2> QED BY <2>3, <2>4, <2>5 DEF LastReportIsCurrent
  <1>b. CASE /\ ~MayBypass(r) /\ Replaces(r, q)
             /\ reports' = [reports EXCEPT ![q][Len(reports[q])] = r]
             /\ todo' = Tail(todo) /\ flushing' = q
             /\ UNCHANGED <<hidVars, space, onfail, failed, pending>>
    <2> DEFINE s == reports[q]
               t == [s EXCEPT ![Len(s)] = r]
    <2>1. r.endpoint = "touch" /\ onfail # "ignore" /\ s # <<>> /\ s[Len(s)].endpoint = r.endpoint
      BY <1>b, <1>3 DEF Replaces
    <2>2. s \in Seq(Report) /\ q = "pointer"
      BY <1>2, <1>4, <2>1 DEF QueueOf, q
    <2>3. IsFor(s[Len(s)], "touch") /\ IsFor(r, "touch")
      <3>1. s[Len(s)] \in Report
        BY SMT, <2>1, <2>2
      <3> QED BY <1>1, <2>1, <3>1 DEF IsFor, Report, r
    <2>4. reports' = [reports EXCEPT ![q] = t]
      BY <1>b, <1>2, <1>4
    <2>5. /\ DOMAIN t = DOMAIN s /\ \A i \in DOMAIN t : t[i] = r \/ t[i] = s[i]
          /\ Mentions(t, "touch") /\ LastIs(t, "touch", StateOf(r))
      BY <1>2, <2>1, <2>2, <2>3, ReplaceLast
    <2>6. \A e, v : e # "touch" => /\ Mentions(t, e) <=> Mentions(s, e)
                                   /\ LastIs(s, e, v) => LastIs(t, e, v)
      BY ZenonT(30), <1>2, <2>1, <2>2, <2>3, ReplaceLast
    <2> HIDE DEF s, t
    <2>7. /\ reports'["pointer"] = t /\ s = reports["pointer"]
          /\ reports'["keyboard"] = reports["keyboard"]
      BY <1>4, <2>2, <2>4 DEF Queue, s
    <2>8. failed' => onfail = "defer"
      BY <1>b, <1>4 DEF CallsSane
    <2>9. QueuesSorted'
      <3>1. QueueOf(r.endpoint) = "pointer"
        BY <2>1 DEF QueueOf
      <3> QED BY SMT, <1>4, <2>5, <2>7, <3>1 DEF QueuesSorted, Queue
    <2>10. CallsSane' /\ ReleaseShape' /\ ReleaseRoom'
      BY <1>1, <1>b, <2>1, <2>8, TailSane
    <2>11. ASSUME ~failed', NEW e \in Endpoint PROVE Agrees(e)'
      <3>1. Agrees(e)
        BY <1>b, <2>11 DEF IInv, LastReportIsCurrent
      <3>2. Current(e)' = Current(e)
        BY <1>b DEF Current, hidVars
      <3>3. CASE e = "touch"
        <4>1. QueueOf(e) = "pointer"
          BY <3>3 DEF QueueOf
        <4> QED BY <1>5, <1>b, <2>3, <2>5, <2>7, <3>1, <3>2, <3>3, <4>1 DEF Agrees
      <3>4. CASE e = "mouse"
        <4>1. ~IsFor(r, e) /\ QueueOf(e) = "pointer"
          BY <2>1, <3>4 DEF IsFor, QueueOf
        <4> QED BY SMT, <1>1, <1>5, <1>b, <2>6, <2>7, <3>1, <3>2, <3>4, <4>1 DEF Agrees
      <3>5. CASE e = "keyboard"
        <4>1. ~IsFor(r, e) /\ QueueOf(e) = "keyboard"
          BY <2>1, <3>5 DEF IsFor, QueueOf
        <4> QED BY SMT, <1>1, <1>5, <1>b, <2>7, <3>1, <3>2, <4>1 DEF Agrees
      <3> QED BY <3>3, <3>4, <3>5 DEF Endpoint
    <2> QED BY <2>9, <2>10, <2>11 DEF LastReportIsCurrent
  <1>c. CASE ~MayBypass(r) /\ ~Replaces(r, q) /\ ~Full(q) /\ Enqueue(r, q)
    <2> DEFINE s == reports[q]
               t == Append(s, r)
    <2>1. /\ reports' = [reports EXCEPT ![q] = t] /\ todo' = Tail(todo)
          /\ UNCHANGED <<hidVars, onfail, failed, pending>>
      BY <1>c DEF Enqueue
    <2>2. s \in Seq(Report)
      BY <1>2, <1>4
    <2>3. /\ Len(t) = Len(s) + 1 /\ \A i \in DOMAIN t : t[i] = r \/ (i \in DOMAIN s /\ t[i] = s[i])
      BY SMT, <1>2, <2>2
    <2>4. \A e, v : /\ IsFor(r, e) => Mentions(t, e) /\ LastIs(t, e, StateOf(r))
                    /\ ~IsFor(r, e) => /\ Mentions(t, e) <=> Mentions(s, e)
                                       /\ LastIs(s, e, v) => LastIs(t, e, v)
      BY <1>2, <2>2, AppendToCalls
    <2> HIDE DEF t
    <2>5. reports'[q] = t /\ \A p \in Queue : p # q => reports'[p] = reports[p]
      BY <1>2, <1>4, <2>1
    <2>6. failed' => onfail = "defer"
      BY <2>1, <1>4 DEF CallsSane
    <2>7. CallsSane' /\ (onfail # "ignore" => ReleaseShape' /\ ReleaseRoom')
      BY <1>1, <2>1, <2>6, TailSane
    <2>8. QueuesSorted'
      <3>1. QueueOf(r.endpoint) = q
        BY DEF q
      <3>2. \A i \in DOMAIN s : QueueOf(s[i].endpoint) = q
        BY <1>2, <1>4 DEF QueuesSorted
      <3> HIDE DEF s
      <3>3. \A i \in DOMAIN t : QueueOf(t[i].endpoint) = q
        BY SMT, <2>3, <3>1, <3>2
      <3> SUFFICES ASSUME NEW p \in Queue, NEW i \in DOMAIN reports'[p]
                   PROVE  QueueOf(reports'[p][i].endpoint) = p
        BY DEF QueuesSorted
      <3>4. CASE p = q
        BY <2>5, <3>3, <3>4
      <3> CASE p # q
        BY <1>4, <2>5 DEF QueuesSorted
      <3> QED BY <3>4
    <2>9. ASSUME onfail = "ignore" PROVE ReleaseShape'
      <3>1. /\ modifiers = {} /\ usages = {} /\ buttons = {}
            /\ \A i \in DOMAIN todo' : todo'[i] = ReleaseCall(Len(todo') - i, position)
        BY <1>1, <2>1, <2>9, IgnoredHead, TailReleases DEF r
      <3> QED BY <2>1, <3>1 DEF ReleaseShape, hidVars
    <2>10. ASSUME onfail = "ignore" PROVE ReleaseRoom'
      <3> DEFINE n == Len(todo)
                 m == Len(todo')
      <3>1. /\ n % 4 # 0
            /\ n % 4 = 3 => r.endpoint = "keyboard"
            /\ n % 4 = 2 => r.endpoint = "mouse"
            /\ n % 4 = 1 => r.endpoint = "touch"
        BY <1>1, <2>10, IgnoredHead DEF r
      <3>2. /\ n % 4 = 3 => reports["keyboard"] = <<>> /\ reports["pointer"] = <<>>
            /\ n % 4 = 2 => reports["pointer"] = <<>>
        BY <1>1, <1>4, <2>10 DEF ReleaseRoom, r
      <3>3. n \in Nat /\ n >= 1 /\ m = n - 1
        BY <1>1, <2>1, TailIs
      <3>4. m >= 1 /\ m % 4 = 0 => Head(todo').op = "cancel"
        <4> SUFFICES ASSUME m >= 1, m % 4 = 0 PROVE Head(todo').op = "cancel"
          OBVIOUS
        <4>1. todo' \in Seq(Calls) /\ 1 \in DOMAIN todo' /\ Head(todo') = todo'[1] /\ m \in Nat
          BY SMT, <1>1, <2>1, TailIs
        <4>2. Head(todo') = ReleaseCall(m - 1, position)
          BY <4>1, <1>1, <2>1, <2>10, TailReleases DEF r
        <4> HIDE DEF m
        <4>3. m - 1 \in Nat /\ (m - 1) % 4 = 3
          BY SMT, <4>1
        <4>4. position \in Nat
          BY HeldTypes DEF IInv
        <4> QED BY <4>2, <4>3, <4>4, ReleaseCallIs
      <3>5. todo' # <<>> => m >= 1
        BY SMT, <1>1, <2>1, TailIs
      <3> HIDE DEF m, n
      <3>6. /\ n % 4 = 3 => m % 4 = 2
            /\ n % 4 = 2 => m % 4 = 1
            /\ n % 4 = 1 => m % 4 = 0
            /\ n % 4 \in {0, 1, 2, 3}
        BY SMT, <3>3
      <3>7. CASE n % 4 = 3
        <4>1. reports'["pointer"] = <<>> /\ m % 4 = 2
          BY <2>5, <3>1, <3>2, <3>6, <3>7 DEF q, QueueOf, Queue
        <4> QED BY SMT, <4>1 DEF ReleaseRoom, m
      <3>8. CASE n % 4 = 2
        <4>1. q = "pointer" /\ s = <<>> /\ m % 4 = 1
          BY <3>1, <3>2, <3>6, <3>8 DEF q, QueueOf
        <4>2. Len(reports'["pointer"]) <= 1
          <5>1. Len(s) = 0
            BY <4>1
          <5> HIDE DEF s
          <5>2. Len(t) <= 1
            BY SMT, <2>3, <5>1
          <5> QED BY <2>5, <4>1, <5>2
        <4> QED BY SMT, <4>1, <4>2 DEF ReleaseRoom, m
      <3> CASE n % 4 = 1
        BY <3>4, <3>5, <3>6 DEF ReleaseRoom
      <3> QED BY <3>1, <3>6, <3>7, <3>8
    <2>11. ASSUME ~failed', NEW e \in Endpoint PROVE Agrees(e)'
      <3>1. Agrees(e)
        BY <2>1, <2>11 DEF IInv, LastReportIsCurrent
      <3>2. Current(e)' = Current(e)
        BY <2>1 DEF Current, hidVars
      <3> HIDE DEF s
      <3>3. CASE IsFor(r, e)
        <4>1. QueueOf(e) = q
          BY <3>3 DEF IsFor, q
        <4> QED BY <1>5, <2>1, <2>4, <2>5, <3>1, <3>2, <3>3, <4>1 DEF Agrees
      <3>4. CASE ~IsFor(r, e)
        <4>1. QueueOf(e) \in Queue
          BY DEF QueueOf, Queue
        <4>2. CASE QueueOf(e) = q
          BY <1>1, <1>5, <2>1, <2>4, <2>5, <3>1, <3>2, <3>4, <4>2 DEF Agrees, s
        <4> CASE QueueOf(e) # q
          BY <1>1, <1>5, <2>1, <2>5, <3>1, <3>2, <3>4, <4>1 DEF Agrees
        <4> QED BY <4>2
      <3> QED BY <3>3, <3>4
    <2> QED BY <2>7, <2>8, <2>9, <2>10, <2>11 DEF LastReportIsCurrent
  <1>d. CASE /\ ~Replaces(r, q) /\ Full(q) /\ space = "no"
             /\ flushing' = q /\ space' = "flushing"
             /\ UNCHANGED <<hidVars, reports, todo, onfail, failed, pending>>
    BY <1>1, <1>d, SameAgrees
  <1>e. CASE /\ ~Replaces(r, q) /\ Full(q) /\ space = "tried"
             /\ ReturnFalse(Tail(todo))
             /\ UNCHANGED <<reports, pending>>
    <2>1. onfail # "ignore"
      <3> SUFFICES ASSUME onfail = "ignore" PROVE FALSE
        OBVIOUS
      <3> DEFINE n == Len(todo)
      <3>1. /\ n % 4 # 0
            /\ n % 4 = 3 => r.endpoint = "keyboard"
            /\ n % 4 = 2 => r.endpoint = "mouse"
            /\ n % 4 = 1 => r.endpoint = "touch"
        BY <1>1, IgnoredHead DEF r
      <3>2. /\ n % 4 = 3 => reports["keyboard"] = <<>>
            /\ n % 4 = 2 => reports["pointer"] = <<>>
            /\ n % 4 = 1 => Len(reports["pointer"]) <= 1
        BY <1>1, <1>4 DEF ReleaseRoom, r
      <3>3. n \in Nat
        BY <1>1, TailIs
      <3> HIDE DEF n
      <3>4. n % 4 \in {0, 1, 2, 3}
        BY SMT, <3>3
      <3>5. Len(reports[q]) = Capacity /\ Capacity >= 2
        BY <1>e, CapacityAssumption DEF Full
      <3>6. Len(<<>>) = 0
        OBVIOUS
      <3> QED BY SMT, <3>1, <3>2, <3>4, <3>5, <3>6 DEF q, QueueOf
    <2>2. CASE onfail = "defer"
      <3>1. todo' = Tail(todo) /\ failed' /\ UNCHANGED <<hidVars, onfail>>
        BY <1>e, <2>2 DEF ReturnFalse
      <3>2. CallsSane' /\ ReleaseShape' /\ ReleaseRoom'
        BY <1>1, <2>1, <2>2, <3>1, TailSane
      <3>3. QueuesSorted'
        BY <1>4, <1>e DEF QueuesSorted
      <3> QED BY <3>1, <3>2, <3>3 DEF LastReportIsCurrent
    <2> CASE onfail # "defer"
      BY <1>e, <2>1, ReturnFalseReleases
    <2> QED BY <2>2
  <1> QED
    BY <1>a, <1>b, <1>c, <1>d, <1>e DEF queue_report, r, q

-----------------------------------------------------------------------------
(* flush_reports, the host and the whole specification *)

\* A report leaves the head of a queue for USB.
LEMMA SubmitAgrees ==
    ASSUME IInv, NEW q \in Queue, FlushSubmits(q)
    PROVE  LastReportIsCurrent'
  <1> USE Zenon
  <1> DEFINE s == reports[q]
             h == Head(s)
             t == Tail(s)
  <1>1. /\ s # <<>> /\ pending[h.endpoint] = NoReport
        /\ pending' = [pending EXCEPT ![h.endpoint] = h]
        /\ reports' = [reports EXCEPT ![q] = t]
        /\ UNCHANGED <<hidVars, todo, onfail, failed, host, phase>>
    BY DEF FlushSubmits, Writable, Due, Oldest, Submit, flushFrame, loopVars, callVars
  <1>2. /\ reports \in [Queue -> Seq(Report)] /\ QueuesSorted
        /\ pending \in [Endpoint -> Report \cup {NoReport}]
    BY DEF IInv, TypeOK, QueueTypes, UsbTypes, LastReportIsCurrent
  <1>3. s \in Seq(Report)
    BY <1>2
  <1>4. /\ h \in Report /\ h = s[1] /\ 1 \in DOMAIN s /\ t \in Seq(Report)
        /\ Len(t) = Len(s) - 1 /\ Len(s) \in Nat
        /\ \A i \in DOMAIN t : i + 1 \in DOMAIN s /\ t[i] = s[i + 1]
    BY SMT, <1>1, <1>3
  <1>5. \A e, v :
           /\ Mentions(t, e) => Mentions(s, e)
           /\ LastIs(s, e, v) /\ Mentions(t, e) => LastIs(t, e, v)
           /\ Mentions(s, e) /\ ~Mentions(t, e) => IsFor(h, e)
           /\ LastIs(s, e, v) /\ ~Mentions(t, e) => StateOf(h) = v
    BY <1>1, <1>3, TailOfCalls
  <1>6. \A i \in DOMAIN s : QueueOf(s[i].endpoint) = q
    BY <1>2 DEF QueuesSorted
  <1>7. reports'[q] = t /\ \A p \in Queue : p # q => reports'[p] = reports[p]
    BY <1>1, <1>2
  <1> HIDE DEF h, t
  <1>8. h.endpoint \in Endpoint /\ h # NoReport /\ h.op = "report" /\ QueueOf(h.endpoint) = q
    BY SMT, <1>4, <1>6 DEF Report, NoReport
  <1>9. /\ pending'[h.endpoint] = h
        /\ \A e \in Endpoint : e # h.endpoint => pending'[e] = pending[e]
    BY <1>1, <1>2, <1>8
  <1>10. ReleaseShape' /\ CallsSane'
    BY <1>1 DEF IInv, LastReportIsCurrent, ReleaseShape, CallsSane, hidVars
  <1>11. ReleaseRoom'
    <2>1. ReleaseRoom
      BY DEF IInv, LastReportIsCurrent
    <2>2. \A p \in Queue : /\ reports[p] = <<>> => reports'[p] = <<>>
                           /\ Len(reports[p]) <= 1 => Len(reports'[p]) <= 1
      <3> SUFFICES ASSUME NEW p \in Queue
                   PROVE  /\ reports[p] = <<>> => reports'[p] = <<>>
                          /\ Len(reports[p]) <= 1 => Len(reports'[p]) <= 1
        OBVIOUS
      <3>1. CASE p # q
        BY <1>7, <3>1
      <3>2. CASE p = q
        <4>1. Len(s) <= 1 => Len(t) <= 1
          BY SMT, <1>4
        <4> QED BY <1>1, <1>7, <3>2, <4>1
      <3> QED BY <3>1, <3>2
    <2> QED BY <1>1, <2>1, <2>2 DEF ReleaseRoom, Queue
  <1>12. QueuesSorted'
    <2> SUFFICES ASSUME NEW p \in Queue, NEW i \in DOMAIN reports'[p]
                 PROVE  QueueOf(reports'[p][i].endpoint) = p
      BY DEF QueuesSorted
    <2>1. CASE p = q
      BY SMT, <1>4, <1>6, <1>7, <2>1
    <2> CASE p # q
      BY <1>2, <1>7 DEF QueuesSorted
    <2> QED BY <2>1
  <1>13. ASSUME ~failed', NEW e \in Endpoint PROVE Agrees(e)'
    <2>1. Agrees(e)
      BY <1>1, <1>13 DEF IInv, LastReportIsCurrent
    <2>2. Current(e)' = Current(e)
      BY <1>1 DEF Current, hidVars
    <2>3. QueueOf(e) \in Queue
      BY DEF QueueOf, Queue
    <2>4. CASE Mentions(todo, e)
      BY <1>1, <2>1, <2>2, <2>4 DEF Agrees
    <2>5. CASE ~Mentions(todo, e) /\ QueueOf(e) # q
      <3>1. pending'[e] = pending[e] /\ reports'[QueueOf(e)] = reports[QueueOf(e)]
        BY <1>7, <1>8, <1>9, <2>3, <2>5
      <3> QED BY <1>1, <2>1, <2>2, <2>5, <3>1 DEF Agrees
    <2>6. CASE ~Mentions(todo, e) /\ QueueOf(e) = q
      <3>1. Mentions(s, e) => LastIs(s, e, Current(e))
        BY <2>1, <2>6 DEF Agrees
      <3>2. CASE Mentions(t, e)
        BY <1>1, <1>5, <1>7, <2>2, <2>6, <3>1, <3>2 DEF Agrees
      <3>3. CASE ~Mentions(t, e) /\ Mentions(s, e)
        <4> StateOf(h) = Current(e) /\ IsFor(h, e)
          BY <1>5, <3>1, <3>3
        <4>2. pending'[e] = h
          BY ZenonT(30), <1>9 DEF IsFor
        <4> QED BY <1>1, <1>7, <1>8, <2>2, <2>6, <3>3, <4>2 DEF Agrees
      <3> CASE ~Mentions(t, e) /\ ~Mentions(s, e)
        <4>1. e # h.endpoint
          BY <1>4, <1>8 DEF Mentions, IsFor
        <4> QED BY SMT, <1>1, <1>7, <1>9, <2>1, <2>2, <2>6, <4>1 DEF Agrees
      <3> QED BY <3>2, <3>3
    <2> QED BY <2>4, <2>5, <2>6
  <1> QED BY <1>10, <1>11, <1>12, <1>13 DEF LastReportIsCurrent

\* Every way an iteration of flush_reports ends.
LEMMA FlushAgrees ==
    ASSUME IInv, NEW q \in Queue, flush_reports(q)
    PROVE  LastReportIsCurrent'
  <1> USE Zenon
  <1>1. UNCHANGED flushFrame => host' = host /\ phase' = phase
    BY DEF flushFrame, loopVars
  <1>2. ReturnTrue => UNCHANGED <<hidVars, todo, onfail, failed>>
    BY DEF ReturnTrue
  <1>3. CASE FlushEnds(q) \/ FlushAwaitsPrevious(q) \/ FlushRetained(q)
    <2>1. ReturnTrue /\ UNCHANGED flushFrame /\ reports' = reports /\ pending' = pending
      BY <1>3 DEF FlushEnds, FlushAwaitsPrevious, FlushRetained, queueVars
    <2> QED BY <1>1, <1>2, <2>1, SameAgrees
  <1>4. CASE FlushStalled(q) \/ FlushPreviousLost(q) \/ FlushPasteFails(q) \/ FlushWriteFails(q)
    <2>1. ReturnFalse(todo) /\ UNCHANGED flushFrame /\ reports' = reports /\ pending' = pending
      BY <1>4 DEF FlushStalled, FlushPreviousLost, FlushPasteFails, FlushWriteFails, queueVars
    <2> QED BY <1>1, <2>1, FlushFalseAgrees
  <1>5. CASE FlushPastes(q)
    <2>1. /\ ReturnTrue /\ UNCHANGED flushFrame /\ pending' = pending /\ reports[q] # <<>>
          /\ reports' = [reports EXCEPT ![q][1].paste = FALSE]
      BY <1>5 DEF FlushPastes, Writable, Due
    <2>2. reports \in [Queue -> Seq(Report)] /\ reports[q] \in Seq(Report)
      BY DEF IInv, TypeOK, QueueTypes
    <2> DEFINE s == reports[q]
               x == [s[1] EXCEPT !.paste = FALSE]
               t == [s EXCEPT ![1] = x]
    <2>3. 1 \in DOMAIN s /\ s[1] \in Report
      BY SMT, <2>1, <2>2
    <2>4. x \in Report /\ x.op = s[1].op /\ x.endpoint = s[1].endpoint /\ StateOf(x) = StateOf(s[1])
      BY <2>3, PastedIs
    <2>5. reports' = [reports EXCEPT ![q] = t]
      BY <2>1, <2>2
    <2> HIDE DEF x
    <2>6. /\ Len(t) = Len(s) /\ DOMAIN t = DOMAIN s /\ t[1] = x
          /\ \A i \in DOMAIN s : i # 1 => t[i] = s[i]
      BY SMT, <2>2, <2>3, <2>4, ReplaceOne
    <2> HIDE DEF t
    <2>7. reports'[q] = t /\ \A p \in Queue : p # q => reports'[p] = reports[p]
      BY <2>2, <2>5
    <2>8. t # <<>>
      BY SMT, <2>3, <2>6
    <2>9. \A p \in Queue :
             /\ Len(reports'[p]) = Len(reports[p])
             /\ DOMAIN reports'[p] = DOMAIN reports[p]
             /\ reports[p] = <<>> <=> reports'[p] = <<>>
             /\ \A i \in DOMAIN reports[p] :
                   /\ reports'[p][i].op = reports[p][i].op
                   /\ reports'[p][i].endpoint = reports[p][i].endpoint
                   /\ StateOf(reports'[p][i]) = StateOf(reports[p][i])
      BY <2>1, <2>4, <2>6, <2>7, <2>8
    <2> QED BY <1>1, <1>2, <2>1, <2>9, KeepAgrees
  <1> CASE FlushSubmits(q)
    BY SubmitAgrees
  <1> QED
    BY <1>3, <1>4, <1>5 DEF flush_reports

\* The host takes a report, or loses the device.
LEMMA UsbAgrees ==
    ASSUME IInv, NEW e0 \in Endpoint, UsbCompletes(e0) \/ UsbLost(e0)
    PROVE  LastReportIsCurrent'
  <1> USE Zenon
  <1>1. UNCHANGED <<hidVars, reports, todo, onfail, failed, phase>>
    BY DEF UsbCompletes, UsbLost, queueVars, callVars, loopVars
  <1>2. /\ pending \in [Endpoint -> Report \cup {NoReport}]
        /\ host \in [Endpoint -> HostState \cup {Gone}]
    BY DEF IInv, TypeOK, UsbTypes
  <1>3. /\ pending'[e0] = NoReport
        /\ host'[e0] = Gone \/ (pending[e0] # NoReport /\ host'[e0] = StateOf(pending[e0]))
        /\ \A e \in Endpoint : e # e0 => pending'[e] = pending[e] /\ host'[e] = host[e]
    BY <1>2 DEF UsbCompletes, UsbLost, StateOf
  <1>4. ReleaseShape' /\ ReleaseRoom' /\ CallsSane' /\ QueuesSorted'
    BY <1>1 DEF IInv, LastReportIsCurrent, ReleaseShape, ReleaseRoom, CallsSane, QueuesSorted,
       hidVars
  <1>5. ASSUME ~failed', NEW e \in Endpoint PROVE Agrees(e)'
    <2>1. Agrees(e)
      BY <1>1, <1>5 DEF IInv, LastReportIsCurrent
    <2>2. Current(e)' = Current(e)
      BY <1>1 DEF Current, hidVars
    <2>3. CASE e = e0
      BY <1>1, <1>3, <2>1, <2>2, <2>3 DEF Agrees
    <2> CASE e # e0
      BY <1>1, <1>3, <2>1, <2>2 DEF Agrees
    <2> QED BY <2>3
  <1> QED BY <1>4, <1>5 DEF LastReportIsCurrent

\* The agent starts in hid_release_all.
LEMMA InitAgrees ==
    ASSUME Init
    PROVE  LastReportIsCurrent
  <1> USE Zenon
  <1>1. /\ modifiers = {} /\ usages = {} /\ buttons = {} /\ position = 0 /\ failed = FALSE
        /\ todo = ReleaseCalls /\ onfail = "ignore" /\ phase = "top"
        /\ reports = [q \in Queue |-> <<>>]
    BY DEF Init
  <1>2. 0 \in Positions /\ 0 \in Nat
    BY PositionsAssumption
  <1>3. /\ todo \in Seq(Calls) /\ Len(todo) = 4
        /\ \A i \in 1..4 : todo[i] = ReleaseCall(4 - i, position)
    BY <1>1, <1>2, NeutralCalls
  <1>4. DOMAIN todo = 1..4 /\ \A i \in DOMAIN todo : todo[i] = ReleaseCall(Len(todo) - i, position)
    BY SMT, <1>3
  <1>5. ReleaseShape
    BY <1>1, <1>4 DEF ReleaseShape
  <1>6. QueuesSorted
    <2>1. DOMAIN <<>> = {}
      BY SMT
    <2> QED BY <1>1, <2>1 DEF QueuesSorted
  <1>7. ReleaseRoom
    <2>1. Head(todo) = ReleaseCall(3, position)
      BY SMT, <1>3
    <2>2. Head(todo).op = "cancel"
      BY SMT, <1>1, <1>2, <2>1, ReleaseCallIs
    <2> QED BY <2>2 DEF ReleaseRoom
  <1>8. CallsSane
    <2> SUFFICES ASSUME NEW i \in DOMAIN todo, todo[i].op = "report", todo[i].motion
                 PROVE  FALSE
      BY <1>1 DEF CallsSane
    <2> 4 - i \in Nat /\ todo[i] = ReleaseCall(4 - i, position)
      BY SMT, <1>3, <1>4
    <2>2. \/ (4 - i) % 4 = 0 \/ (4 - i) % 4 = 1 \/ (4 - i) % 4 = 2 \/ (4 - i) % 4 = 3
      BY SMT
    <2> QED BY <1>1, <1>2, <2>2, ReleaseCallIs
  <1>9. ASSUME NEW e \in Endpoint PROVE Agrees(e)
    <2>1. Mentions(todo, e) /\ LastIs(todo, e, Neutral(e, position))
      <3>1. Len(todo) >= 3
        BY SMT, <1>3
      <3> QED BY <1>1, <1>2, <1>3, <1>4, <3>1, ReleaseIsNeutral
    <2>2. Current(e) = Neutral(e, position)
      BY <1>1, CurrentWhenNeutral
    <2> QED BY <2>1, <2>2 DEF Agrees
  <1> QED BY <1>5, <1>6, <1>7, <1>8, <1>9 DEF LastReportIsCurrent

\* Every step keeps the agreement.
LEMMA NextAgrees ==
    ASSUME IInv, [Next]_vars
    PROVE  LastReportIsCurrent'
  <1> USE Zenon
  <1>1. CASE UNCHANGED vars
    BY <1>1, SameAgrees DEF vars, queueVars, callVars, loopVars, usbVars
  <1>2. CASE handle_control
    <2> CASE ReleaseMessage
      BY ReleasesAgree DEF ReleaseMessage
    <2> QED BY <1>2, ScancodeAgrees, TypeUtf8Agrees, AbsoluteAgrees, RelativeAgrees,
               WheelAgrees, SynchronizeAgrees DEF handle_control
  <1>3. CASE ThreadStep
    <2>1. CASE ReleaseAfterFailure
      BY <2>1, ReleasesAgree DEF ReleaseAfterFailure
    <2> CASE hid_keepalive(FALSE)
      BY KeepaliveAgrees
    <2> QED BY <1>3, <2>1, QueueReportAgrees, StartFlushAgrees, CancelAgrees,
               CallFailsAgrees, FlushAgrees, FlushAllAgrees DEF ThreadStep
  <1>4. CASE Environment
    <2>1. CASE connect_control \/ Exit
      <3>1. /\ UNCHANGED <<hidVars, todo, onfail, failed, reports, pending, host>>
            /\ phase' = "drain" => phase = "drain"
        BY <2>1 DEF connect_control, Exit, queueVars, callVars, usbVars
      <3> QED BY <3>1, SameAgrees
    <2>2. CASE disconnect_control \/ StopRequested
      BY <2>2, ReleasesAgree DEF disconnect_control, StopRequested
    <2>3. CASE hid_keepalive(TRUE)
      BY <2>3, KeepaliveAgrees
    <2>4. ASSUME NEW e \in Endpoint, UsbRestored(e)
          PROVE  LastReportIsCurrent'
      BY <2>4, SameAgrees DEF UsbRestored, queueVars, callVars, loopVars
    <2>5. ASSUME NEW q \in Queue, DelayPasses(q) \/ StallPasses(q)
          PROVE  LastReportIsCurrent'
      <3>1. UNCHANGED <<hidVars, todo, onfail, failed, reports, pending, host, phase>>
        BY <2>5 DEF DelayPasses, StallPasses, callVars, usbVars, loopVars
      <3> QED BY <3>1, SameAgrees
    <2> QED BY <1>4, <2>1, <2>2, <2>3, <2>4, <2>5, UsbAgrees DEF Environment
  <1> QED BY <1>1, <1>2, <1>3, <1>4 DEF Next

-----------------------------------------------------------------------------

\* The last report on its way to each endpoint carries what HidState says is held
\* there, through merging, overflow, retries, cancellation and loss of the device
\* (queue_report, flush_reports and hid_release_all).
THEOREM ReportsAgree == Spec => []LastReportIsCurrent
  <1> USE Zenon
  <1>1. Init => LastReportIsCurrent
    BY InitAgrees
  <1>2. TypeOK /\ LastReportIsCurrent /\ [Next]_vars => LastReportIsCurrent'
    BY NextAgrees DEF IInv
  <1> QED
    BY <1>1, <1>2, TypeCorrect, PTL DEF Spec

\* No key or button is stuck and none is missing on the host once the control
\* thread has finished a handler and the queues of hid.c have drained.
THEOREM InputIsNeverStuck == Spec => []NoStuckInput
  <1> USE Zenon
  <1>1. LastReportIsCurrent => NoStuckInput
    <2> SUFFICES ASSUME LastReportIsCurrent, Idle, ~failed, NEW e \in Endpoint, Quiet(e)
                 PROVE  host[e] \in {Current(e), Gone}
      BY DEF NoStuckInput
    <2>1. Agrees(e)
      BY DEF LastReportIsCurrent
    <2>2. ~Mentions(todo, e)
      BY SMT DEF Idle, Mentions
    <2> QED BY <2>1, <2>2 DEF Agrees, Quiet
  <1> QED
    BY <1>1, ReportsAgree, PTL

\* The neutral reports of hid_release_all, whose results nobody looks at, always
\* find room in the queues of hid.c.
THEOREM ReleaseAlwaysFits == Spec => []ReleaseFindsRoom
  <1> USE Zenon
  <1>1. TypeOK /\ LastReportIsCurrent => ReleaseFindsRoom
    <2> SUFFICES ASSUME IInv, onfail = "ignore", CallIs("report")
                 PROVE  Len(reports[QueueOf(Head(todo).endpoint)]) < Capacity
      BY DEF ReleaseFindsRoom, IInv
    <2> DEFINE n == Len(todo)
    <2>1. todo # <<>> /\ Head(todo).op = "report"
      BY DEF CallIs
    <2>2. /\ n % 4 # 0
          /\ n % 4 = 3 => Head(todo).endpoint = "keyboard"
          /\ n % 4 = 2 => Head(todo).endpoint = "mouse"
          /\ n % 4 = 1 => Head(todo).endpoint = "touch"
      BY <2>1, IgnoredHead
    <2>3. /\ n % 4 = 3 => reports["keyboard"] = <<>>
          /\ n % 4 = 2 => reports["pointer"] = <<>>
          /\ n % 4 = 1 => Len(reports["pointer"]) <= 1
      BY <2>1 DEF IInv, LastReportIsCurrent, ReleaseRoom
    <2>4. n \in Nat /\ \A p \in Queue : Len(reports[p]) \in Nat
      BY SMT, <2>1, TailIs DEF IInv, TypeOK, QueueTypes
    <2> HIDE DEF n
    <2>5. n % 4 \in {0, 1, 2, 3} /\ Len(<<>>) = 0
      BY SMT, <2>4
    <2>6. Capacity \in Nat /\ Capacity >= 2
      BY CapacityAssumption
    <2>7. Len(reports[QueueOf(Head(todo).endpoint)]) <= 1
      BY SMT, <2>2, <2>3, <2>5 DEF QueueOf
    <2>8. QueueOf(Head(todo).endpoint) \in Queue
      BY DEF QueueOf, Queue
    <2> QED BY SMT, <2>4, <2>6, <2>7, <2>8
  <1> QED
    BY <1>1, TypeCorrect, ReportsAgree, PTL

-----------------------------------------------------------------------------
(* The order of the pointer endpoints *)

NeutralMouse(r) == r.endpoint = "mouse" /\ r.held = {} /\ ~r.delta

\* hid_release_all has still to queue its mouse report, or only its touch report.
MouseDue == /\ onfail = "ignore" /\ todo # <<>> /\ Head(todo).op # "flush"
            /\ Len(todo) % 4 # 1
TouchDue == /\ onfail = "ignore" /\ todo # <<>> /\ Head(todo).op # "flush"
            /\ Len(todo) % 4 = 1

\* The report at place i of the pointer queue p is, or will be, for touch.
TouchNext(p, i, due) == IF i <= Len(p) THEN p[i].endpoint = "touch" ELSE due

\* Of a pointer queue p, its inflight endpoint f, and what is outstanding on mouse
\* (m) and touch (t).  Only hid_release_all forgets an endpoint that has something
\* outstanding; its neutral mouse report then comes first, followed by the touch
\* report, which waits for both.
Ordered(p, f, m, t) ==
    /\ f \in {"none", "mouse", "touch"}
    /\ m # NoReport /\ t # NoReport => NeutralMouse(m)
    /\ f = "none" =>
          \/ p = <<>> /\ MouseDue
          \/ p # <<>> /\ NeutralMouse(p[1]) /\ (t = NoReport \/ TouchNext(p, 2, TouchDue))
          \/ p # <<>> /\ p[1].endpoint = "touch" /\ m = NoReport
          \/ p # <<>> /\ p[1].endpoint = "mouse" /\ t = NoReport
    /\ f = "mouse" => t = NoReport \/ TouchNext(p, 1, TouchDue)
    /\ f = "touch" => m = NoReport

PointerOrder ==
    Ordered(reports["pointer"], inflight["pointer"], pending["mouse"], pending["touch"])

\* Steps that leave the pointer queue alone, or let the host take a report.
LEMMA OrderStays ==
    ASSUME PointerOrder, reports'["pointer"] = reports["pointer"],
           inflight'["pointer"] = inflight["pointer"],
           pending'["mouse"] \in {pending["mouse"], NoReport},
           pending'["touch"] \in {pending["touch"], NoReport},
           MouseDue => MouseDue', TouchDue => TouchDue'
    PROVE  PointerOrder'
  BY Zenon DEF PointerOrder, Ordered, TouchNext, NeutralMouse

\* Nothing of hid_release_all is left.
LEMMA NothingDue ==
    ASSUME todo = <<>> \/ onfail # "ignore" \/ Head(todo).op = "flush"
    PROVE  ~MouseDue /\ ~TouchDue
  BY Zenon DEF MouseDue, TouchDue

\* A handler begins.
LEMMA EnterOrder ==
    ASSUME PointerOrder, Idle, UNCHANGED <<queueVars, usbVars>>
    PROVE  PointerOrder'
  <1> USE Zenon
  <1>1. ~MouseDue /\ ~TouchDue
    BY NothingDue DEF Idle
  <1>2. UNCHANGED <<reports, inflight, pending>>
    BY DEF queueVars, usbVars
  <1> QED BY <1>1, <1>2, OrderStays

\* A call ends that was not one of hid_release_all, or leaves the calls as they are.
LEMMA ReturnOrder ==
    ASSUME PointerOrder, NEW rest, ReturnTrue \/ ReturnFalse(rest),
           rest = todo \/ onfail # "ignore"
    PROVE  (MouseDue => MouseDue') /\ (TouchDue => TouchDue')
  <1> USE Zenon
  <1>1. CASE onfail # "ignore"
    BY <1>1, NothingDue
  <1>2. CASE onfail = "ignore"
    <2>1. todo' = todo /\ onfail' = onfail
      BY <1>2 DEF ReturnTrue, ReturnFalse
    <2> QED BY <2>1 DEF MouseDue, TouchDue
  <1> QED BY <1>1, <1>2

\* What hid_release_all has to queue after its first call.
LEMMA DueAfter ==
    ASSUME IInv, todo # <<>>, onfail = "ignore", Head(todo).op \in {"cancel", "report"},
           todo' = Tail(todo), onfail' = onfail
    PROVE  /\ Len(todo) % 4 \in {0, 3} => MouseDue'
           /\ Len(todo) % 4 = 2 => TouchDue' /\ NeutralMouse(Head(todo))
  <1> USE Zenon
  <1> DEFINE n == Len(todo)
             t == Tail(todo)
  <1>1. /\ n \in Nat /\ n >= 1 /\ Len(t) = n - 1 /\ DOMAIN t = 1..(n - 1) /\ t \in Seq(Calls)
        /\ \A i \in DOMAIN t : t[i] = ReleaseCall(Len(t) - i, position)
    BY TailIs, TailReleases
  <1>2. position \in Nat
    BY HeldTypes DEF IInv
  <1> HIDE DEF t
  <1>3. ASSUME n % 4 \in {0, 2, 3}
        PROVE  t # <<>> /\ Head(t).op # "flush"
    <2>1. n - 1 >= 1 /\ 1 \in DOMAIN t /\ Len(t) - 1 \in Nat
      <3> HIDE DEF n
      <3> QED BY SMT, <1>1, <1>3
    <2>2. Head(t) = t[1] /\ t # <<>>
      BY SMT, <1>1, <2>1
    <2>3. Head(t) = ReleaseCall(Len(t) - 1, position)
      BY <1>1, <2>1, <2>2
    <2> DEFINE d == Len(t) - 1
    <2> d \in Nat /\ Head(t) = ReleaseCall(d, position)
      BY <2>1, <2>3
    <2> HIDE DEF d
    <2>5. d % 4 = 0 \/ d % 4 = 1 \/ d % 4 = 2 \/ d % 4 = 3
      BY SMT
    <2>6. ReleaseCall(d, position).op \in {"cancel", "report"}
      BY <1>2, <2>5, ReleaseCallIs DEF IsFor
    <2> QED BY <2>2, <2>6
  <1>4. /\ n % 4 = 0 => (n - 1) % 4 = 3
        /\ n % 4 = 3 => (n - 1) % 4 = 2
        /\ n % 4 = 2 => (n - 1) % 4 = 1
    <2>1. n \in Nat /\ n >= 1
      BY <1>1
    <2> HIDE DEF n
    <2> QED BY SMT, <2>1
  <1>5. n % 4 \in {0, 3} => MouseDue'
    BY SMT, <1>1, <1>3, <1>4 DEF MouseDue, t
  <1>6. ASSUME n % 4 = 2 PROVE TouchDue' /\ NeutralMouse(Head(todo))
    <2>1. TouchDue'
      BY <1>1, <1>3, <1>4, <1>6 DEF TouchDue, t
    <2>2. Head(todo) = ReleaseCall(n - 1, position)
      BY IgnoredHead
    <2>3. ReleaseCall(n - 1, position) = MouseReport({}, FALSE)
      <3> (n - 1) % 4 = 1
        BY <1>4, <1>6
      <3> HIDE DEF n
      <3>2. (n - 1) % 4 # 3 /\ (n - 1) % 4 # 2
        BY SMT
      <3> QED BY <3>2 DEF ReleaseCall
    <2>4. NeutralMouse(MouseReport({}, FALSE))
      BY DEF NeutralMouse, MouseReport, MakeReport
    <2> QED BY <2>1, <2>2, <2>3, <2>4
  <1> QED BY <1>5, <1>6

\* The pointer queue keeps its endpoints, and a neutral mouse report at its head.
LEMMA OrderSimilar ==
    ASSUME NEW p, p = reports["pointer"], NEW s, s = reports'["pointer"],
           Ordered(p, inflight'["pointer"], pending["mouse"], pending["touch"]),
           p # <<>> /\ s # <<>> /\ Len(s) = Len(p) /\ Len(p) \in Nat /\ Len(p) >= 1,
           \A i \in 1..Len(p) : s[i].endpoint = p[i].endpoint,
           NeutralMouse(p[1]) => NeutralMouse(s[1]),
           pending' = pending,
           MouseDue => MouseDue', TouchDue => TouchDue'
    PROVE  PointerOrder'
  <1> 1 \in 1..Len(p) /\ (2 <= Len(p) => 2 \in 1..Len(p))
    OBVIOUS
  <1>2. /\ TouchNext(p, 1, TouchDue) => TouchNext(s, 1, TouchDue')
        /\ TouchNext(p, 2, TouchDue) => TouchNext(s, 2, TouchDue')
    BY Zenon DEF TouchNext
  <1> QED BY Zenon, <1>2 DEF PointerOrder, Ordered

\* queue_report appends a report to the pointer queue.
LEMMA EnqueueOrder ==
    ASSUME IInv, PointerOrder, todo # <<>>, Head(todo).op = "report",
           NEW r \in Report, r = Head(todo), QueueOf(r.endpoint) = "pointer",
           NEW p \in Seq(Report), p = reports["pointer"],
           NEW s, s = reports'["pointer"], s = Append(p, r),
           todo' = Tail(todo), UNCHANGED <<onfail, pending, inflight>>
    PROVE  PointerOrder'
  <1> USE Zenon
  <1> DEFINE n == Len(todo)
  <1>1. /\ Len(p) \in Nat /\ Len(s) = Len(p) + 1 /\ s # <<>> /\ s[Len(p) + 1] = r
        /\ \A i \in 1..Len(p) : s[i] = p[i]
        /\ p = <<>> <=> Len(p) = 0
    BY SMT
  <1>2. n \in Nat /\ n >= 1
    BY TailIs
  <1>3. TouchDue => r.endpoint = "touch"
    BY IgnoredHead DEF TouchDue
  <1>4. MouseDue => NeutralMouse(r) /\ TouchDue'
    <2> SUFFICES ASSUME MouseDue PROVE NeutralMouse(r) /\ TouchDue'
      OBVIOUS
    <2>1. onfail = "ignore" /\ n % 4 # 1
      BY DEF MouseDue
    <2>2. n % 4 # 0 /\ (n % 4 = 3 => r.endpoint = "keyboard")
      BY <2>1, IgnoredHead
    <2>3. n % 4 # 3
      BY <2>2 DEF QueueOf
    <2> HIDE DEF n
    <2>4. n % 4 = 2
      BY SMT, <1>2, <2>1, <2>2, <2>3
    <2> QED BY <2>1, <2>4, DueAfter DEF n
  <1>5. \A i \in {1, 2} : i <= Len(p) + 1 /\ TouchNext(p, i, TouchDue) => TouchNext(s, i, TouchDue')
    <2> SUFFICES ASSUME NEW i \in {1, 2}, i <= Len(p) + 1, TouchNext(p, i, TouchDue)
                 PROVE  i <= Len(s) /\ s[i].endpoint = "touch"
      BY <1>1 DEF TouchNext
    <2>1. CASE i <= Len(p)
      BY SMT, <1>1, <2>1 DEF TouchNext
    <2> CASE ~(i <= Len(p))
      <3>1. i = Len(p) + 1
        BY SMT, <1>1
      <3> QED BY <1>1, <1>3, <3>1 DEF TouchNext
    <2> QED BY <2>1
  <1>6. p # <<>> => s[1] = p[1] /\ 1 <= Len(p) + 1 /\ 2 <= Len(p) + 1
    BY SMT, <1>1
  <1>7. p = <<>> => s[1] = r /\ ~(2 <= Len(s)) /\ 1 <= Len(p) + 1
    BY SMT, <1>1
  <1>8. p = <<>> /\ MouseDue => NeutralMouse(s[1]) /\ TouchNext(s, 2, TouchDue')
    BY <1>4, <1>7 DEF TouchNext
  <1>9. TouchNext(p, 1, TouchDue) => TouchNext(s, 1, TouchDue')
    BY SMT, <1>1, <1>5
  <1>10. p # <<>> /\ TouchNext(p, 2, TouchDue) => TouchNext(s, 2, TouchDue')
    BY <1>5, <1>6
  <1> QED BY <1>1, <1>6, <1>8, <1>9, <1>10 DEF PointerOrder, Ordered

\* A report is queued, or motion takes the place of the motion queued last; it is
\* never written directly.
LEMMA QueueReportOrder ==
    ASSUME IInv, PointerOrder, queue_report
    PROVE  PointerOrder'
  <1> USE Zenon
  <1> DEFINE r == Head(todo)
             q == QueueOf(r.endpoint)
             p == reports["pointer"]
             n == Len(todo)
  <1>1. /\ todo # <<>> /\ r.op = "report" /\ inflight' = inflight
        /\ \/ MayBypass(r)
           \/ /\ Replaces(r, q) /\ reports' = [reports EXCEPT ![q][Len(reports[q])] = r]
              /\ todo' = Tail(todo) /\ UNCHANGED <<onfail, pending>>
           \/ Enqueue(r, q)
           \/ UNCHANGED <<reports, todo, onfail, pending>>
           \/ Full(q) /\ ReturnFalse(Tail(todo)) /\ UNCHANGED <<reports, pending>>
    BY DEF queue_report, CallIs
  <1>2. /\ reports \in [Queue -> Seq(Report)] /\ "pointer" \in Queue /\ p \in Seq(Report)
        /\ Len(p) \in Nat /\ q \in Queue /\ "keyboard" \in Queue
    BY SMT DEF IInv, TypeOK, QueueTypes, Queue, QueueOf
  <1>3. n \in Nat /\ n >= 1 /\ r \in Report /\ r.endpoint \in Endpoint
    <2> r \in Calls /\ n \in Nat /\ n >= 1
      BY <1>1, TailIs
    <2>2. r \in Report
      BY <1>1, CallsInclude
    <2> QED BY <2>2 DEF Report
  <1>4. /\ r.motion => onfail # "ignore"
        /\ r.motion => q = "pointer"
    <2>1. onfail = "ignore" => ~r.motion
      BY <1>1, IgnoredHead
    <2>2. 1 \in DOMAIN todo /\ r = todo[1]
      BY SMT, <1>1, TailIs DEF IInv, TypeOK, CallTypes
    <2>3. r.motion => r.endpoint = "touch"
      BY <1>1, <2>2 DEF IInv, LastReportIsCurrent, CallsSane
    <2> QED BY <2>1, <2>3 DEF QueueOf
  <1>5. ~MayBypass(r)
    <2> SUFFICES ASSUME MayBypass(r) PROVE FALSE
      OBVIOUS
    <2> r.motion /\ p = <<>> /\ inflight["pointer"] = "none"
      BY DEF MayBypass
    <2>2. MouseDue
      BY DEF PointerOrder, Ordered
    <2> QED BY <1>4, <2>2 DEF MouseDue
  <1>6. CASE UNCHANGED <<reports, todo, onfail, pending>>
    BY <1>1, <1>6, OrderStays DEF MouseDue, TouchDue
  <1>7. CASE Full(q) /\ ReturnFalse(Tail(todo)) /\ UNCHANGED <<reports, pending>>
    <2>1. onfail # "ignore"
      <3> SUFFICES ASSUME onfail = "ignore" PROVE FALSE
        OBVIOUS
      <3>1. ReleaseRoom
        BY DEF IInv, LastReportIsCurrent
      <3>2. /\ n % 4 # 0
            /\ n % 4 = 3 => r.endpoint = "keyboard" /\ reports["keyboard"] = <<>>
            /\ n % 4 = 2 => r.endpoint = "mouse" /\ reports["pointer"] = <<>>
            /\ n % 4 = 1 => r.endpoint = "touch" /\ Len(reports["pointer"]) <= 1
        BY <1>1, <3>1, IgnoredHead DEF ReleaseRoom
      <3> HIDE DEF n
      <3>3. n % 4 \in {0, 1, 2, 3} /\ Len(<<>>) = 0
        BY SMT, <1>3
      <3>4. Len(reports[q]) <= 1
        BY SMT, <3>2, <3>3 DEF QueueOf
      <3>5. Capacity \in Nat /\ Capacity >= 2 /\ Len(reports[q]) = Capacity
        BY <1>7, CapacityAssumption DEF Full
      <3> QED BY SMT, <3>4, <3>5
    <2>2. (MouseDue => MouseDue') /\ (TouchDue => TouchDue')
      BY <1>7, <2>1, ReturnOrder
    <2> QED BY <1>1, <1>7, <2>2, OrderStays
  <1>8. CASE /\ Replaces(r, q) /\ reports' = [reports EXCEPT ![q][Len(reports[q])] = r]
             /\ todo' = Tail(todo) /\ UNCHANGED <<onfail, pending>>
    <2>1. /\ q = "pointer" /\ onfail # "ignore" /\ p # <<>>
          /\ p[Len(p)].endpoint = r.endpoint /\ r.endpoint # "mouse"
      <3>1. r.motion /\ reports[q] # <<>> /\ reports[q][Len(reports[q])].endpoint = r.endpoint
        BY <1>8 DEF Replaces
      <3>2. 1 \in DOMAIN todo /\ r = todo[1]
        BY SMT, <1>1, TailIs DEF IInv, TypeOK, CallTypes
      <3>3. r.endpoint = "touch"
        BY <1>1, <3>1, <3>2 DEF IInv, LastReportIsCurrent, CallsSane
      <3> QED BY <1>4, <3>1, <3>3
    <2>2. Len(p) >= 1 /\ Len(p) \in DOMAIN p
      BY SMT, <1>2, <2>1
    <2> DEFINE s == [p EXCEPT ![Len(p)] = r]
    <2>3. reports'["pointer"] = s
      BY <1>2, <1>8, <2>1
    <2>4. /\ Len(s) = Len(p) /\ s[Len(p)] = r
          /\ \A i \in DOMAIN p : i # Len(p) => s[i] = p[i]
      BY SMT, <1>2, <1>3, <2>2, ReplaceOne
    <2> HIDE DEF s
    <2>5. \A i \in 1..Len(p) : s[i].endpoint = p[i].endpoint
      BY SMT, <1>2, <2>1, <2>4
    <2>6. NeutralMouse(p[1]) => NeutralMouse(s[1])
      <3>1. CASE Len(p) = 1
        BY <2>1, <3>1 DEF NeutralMouse
      <3>2. CASE Len(p) # 1
        <4>1. 1 \in DOMAIN p
          BY SMT, <1>2, <2>2
        <4> QED BY <2>4, <3>2, <4>1
      <3> QED BY <3>1, <3>2
    <2>7. s # <<>>
      BY SMT, <2>2, <2>4
    <2>8. ~MouseDue /\ ~TouchDue
      BY <2>1, NothingDue
    <2>9. /\ pending' = pending
          /\ Ordered(p, inflight'["pointer"], pending["mouse"], pending["touch"])
      BY <1>1, <1>8 DEF PointerOrder
    <2> HIDE DEF r, q
    <2> QED BY SMT, <1>2, <2>1, <2>2, <2>3, <2>4, <2>5, <2>6, <2>7, <2>8, <2>9, OrderSimilar
  <1>9. CASE Enqueue(r, q)
    <2>1. /\ reports' = [reports EXCEPT ![q] = Append(@, r)] /\ todo' = Tail(todo)
          /\ UNCHANGED <<onfail, pending, inflight>>
      BY <1>1, <1>9 DEF Enqueue
    <2>2. CASE q = "pointer"
      <3>1. reports'["pointer"] = Append(p, r)
        BY <1>2, <2>1, <2>2
      <3> QED BY <1>1, <1>2, <1>3, <2>1, <2>2, <3>1, EnqueueOrder
    <2>3. CASE q # "pointer"
      <3>1. reports'["pointer"] = reports["pointer"]
        BY <1>2, <2>1, <2>3
      <3>2. r.endpoint = "keyboard"
        BY <1>3, <2>3 DEF QueueOf, Endpoint
      <3>3. TouchDue => FALSE
        BY <3>2, <1>1, IgnoredHead DEF TouchDue
      <3>4. ASSUME MouseDue PROVE MouseDue'
        <4>1. onfail = "ignore"
          BY <3>4 DEF MouseDue
        <4>2. n % 4 # 0 /\ n % 4 # 1 /\ n % 4 # 2
          BY <1>1, <3>2, <4>1, IgnoredHead
        <4>3. n % 4 = 3
          <5> HIDE DEF n
          <5> QED BY SMT, <1>3, <4>2
        <4> QED BY <1>1, <2>1, <4>1, <4>3, DueAfter
      <3> QED BY <2>1, <3>1, <3>3, <3>4, OrderStays
    <2> QED BY <2>2, <2>3
  <1> QED BY <1>1, <1>5, <1>6, <1>7, <1>8, <1>9

\* flush_reports finds the previous endpoint done when the oldest pointer report is
\* for the other one.
LEMMA DoneOrder ==
    ASSUME IInv, PointerOrder, Writable("pointer"), PreviousDone("pointer")
    PROVE  Ordered(reports["pointer"], inflight'["pointer"], pending["mouse"], pending["touch"])
  <1> USE Zenon
  <1> DEFINE p == reports["pointer"]
             f == inflight["pointer"]
  <1>1. /\ p \in Seq(Report) /\ "pointer" \in Queue /\ inflight \in [Queue -> Endpoint \cup {"none"}]
    BY DEF IInv, TypeOK, QueueTypes, Queue
  <1>2. p # <<>> /\ (Crosses("pointer") => pending[f] = NoReport)
    BY DEF Writable, Due
  <1>3. 1 \in DOMAIN p /\ Head(p) = p[1] /\ p[1].endpoint \in Endpoint
    <2>1. 1 \in DOMAIN p /\ Head(p) = p[1] /\ p[1] \in Report
      BY SMT, <1>1, <1>2
    <2> QED BY <2>1 DEF Report
  <1>4. p[1].endpoint \in {"mouse", "touch"}
    <2>1. QueueOf(p[1].endpoint) = "pointer"
      BY <1>1, <1>3 DEF IInv, LastReportIsCurrent, QueuesSorted
    <2> QED BY <1>3, <2>1 DEF QueueOf, Endpoint
  <1>5. inflight'["pointer"] = IF Crosses("pointer") THEN "none" ELSE f
    BY <1>1 DEF PreviousDone
  <1>6. CASE ~Crosses("pointer")
    BY <1>5, <1>6 DEF PointerOrder
  <1>7. CASE Crosses("pointer")
    <2>1. f # "none" /\ f # p[1].endpoint /\ pending[f] = NoReport
      BY <1>2, <1>3, <1>7 DEF Crosses, Oldest
    <2>2. f \in {"mouse", "touch"}
      BY <2>1 DEF PointerOrder, Ordered
    <2>3. \/ p[1].endpoint = "touch" /\ pending["mouse"] = NoReport
          \/ p[1].endpoint = "mouse" /\ pending["touch"] = NoReport
      BY <1>4, <2>1, <2>2
    <2>4. inflight'["pointer"] = "none"
      BY <1>5, <1>7
    <2> HIDE DEF p, f
    <2>5. pending["mouse"] = NoReport \/ pending["touch"] = NoReport
      BY <2>3
    <2>6. "none" # "mouse" /\ "none" # "touch"
      OBVIOUS
    <2> QED BY <1>2, <2>3, <2>4, <2>5, <2>6 DEF Ordered, p
  <1> QED BY <1>6, <1>7

\* The oldest pointer report goes to USB.
LEMMA SubmitOrder ==
    ASSUME IInv, PointerOrder, FlushSubmits("pointer")
    PROVE  PointerOrder'
  <1> USE Zenon
  <1> DEFINE p == reports["pointer"]
             f == inflight["pointer"]
             h == Head(p)
             m == pending["mouse"]
             t == pending["touch"]
  <1>1. /\ p # <<>> /\ (Crosses("pointer") => pending[f] = NoReport)
        /\ pending[h.endpoint] = NoReport
        /\ pending' = [pending EXCEPT ![h.endpoint] = h]
        /\ reports' = [reports EXCEPT !["pointer"] = Tail(@)]
        /\ inflight' = [inflight EXCEPT !["pointer"] = h.endpoint]
        /\ UNCHANGED <<todo, onfail>>
    BY DEF FlushSubmits, Writable, Due, Submit, Oldest, callVars
  <1>2. /\ p \in Seq(Report) /\ "pointer" \in Queue /\ inflight \in [Queue -> Endpoint \cup {"none"}]
        /\ reports \in [Queue -> Seq(Report)] /\ pending \in [Endpoint -> Report \cup {NoReport}]
    BY DEF IInv, TypeOK, QueueTypes, UsbTypes, Queue
  <1>3. /\ 1 \in DOMAIN p /\ h = p[1] /\ h.endpoint \in Endpoint /\ Len(p) \in Nat /\ Len(p) >= 1
        /\ Len(Tail(p)) = Len(p) - 1
        /\ \A i \in 1..(Len(p) - 1) : Tail(p)[i] = p[i + 1]
    <2> /\ 1 \in DOMAIN p /\ h = p[1] /\ h \in Report /\ Len(p) \in Nat /\ Len(p) >= 1
        /\ Len(Tail(p)) = Len(p) - 1
        /\ \A i \in 1..(Len(p) - 1) : Tail(p)[i] = p[i + 1]
      BY SMT, <1>1, <1>2
    <2>2. h.endpoint \in Endpoint
      BY DEF Report
    <2> QED BY <2>2
  <1>4. h.endpoint \in {"mouse", "touch"}
    <2>1. QueueOf(h.endpoint) = "pointer"
      BY SMT, <1>2, <1>3 DEF IInv, LastReportIsCurrent, QueuesSorted
    <2> QED BY <1>3, <2>1 DEF QueueOf, Endpoint
  <1>5. /\ reports'["pointer"] = Tail(p) /\ inflight'["pointer"] = h.endpoint
        /\ pending'[h.endpoint] = h
        /\ \A e \in Endpoint : e # h.endpoint => pending'[e] = pending[e]
    BY <1>1, <1>2, <1>3
  <1>6. (MouseDue <=> MouseDue') /\ (TouchDue <=> TouchDue')
    BY <1>1 DEF MouseDue, TouchDue
  <1>7. f \notin {"none", h.endpoint} => pending[f] = NoReport
    BY <1>1 DEF Crosses, Oldest
  <1>8. CASE h.endpoint = "mouse"
    <2>1. pending'["mouse"] = h /\ pending'["touch"] = t /\ inflight'["pointer"] = "mouse"
      BY <1>5, <1>8 DEF Endpoint
    <2>2. TouchNext(p, 2, TouchDue) => TouchNext(Tail(p), 1, TouchDue')
      <3>1. CASE 2 <= Len(p)
        <4>1. 1 <= Len(Tail(p)) /\ Tail(p)[1] = p[2]
          BY SMT, <1>3, <3>1
        <4> QED BY <3>1, <4>1 DEF TouchNext
      <3> CASE ~(2 <= Len(p))
        <4>1. ~(1 <= Len(Tail(p)))
          BY SMT, <1>3
        <4> QED BY <1>6, <4>1 DEF TouchNext
      <3> QED BY <3>1
    <2>3. TouchNext(p, 1, TouchDue) => FALSE
      BY <1>3, <1>8 DEF TouchNext
    <2>4. t = NoReport \/ (NeutralMouse(h) /\ TouchNext(p, 2, TouchDue))
      <3>1. "mouse" # "touch" /\ "touch" # "none"
        OBVIOUS
      <3>2. CASE f = "none"
        BY <1>1, <1>3, <1>8, <3>1, <3>2 DEF PointerOrder, Ordered
      <3>3. CASE f = "mouse"
        BY <2>3, <3>3 DEF PointerOrder, Ordered
      <3>4. CASE f = "touch"
        BY <1>7, <1>8, <3>4
      <3>5. f \in {"none", "mouse", "touch"}
        BY DEF PointerOrder, Ordered
      <3> QED BY <3>2, <3>3, <3>4, <3>5
    <2>5. "mouse" # "none" /\ "mouse" # "touch"
      OBVIOUS
    <2> HIDE DEF h, t, p
    <2> QED BY <1>5, <2>1, <2>2, <2>4, <2>5 DEF PointerOrder, Ordered
  <1>9. CASE h.endpoint = "touch"
    <2>1. pending'["touch"] = h /\ pending'["mouse"] = m /\ inflight'["pointer"] = "touch"
      BY <1>5, <1>9 DEF Endpoint
    <2>2. "mouse" # "touch" /\ "touch" # "none"
      OBVIOUS
    <2>3. m = NoReport
      <3>1. CASE f = "none"
        BY <1>1, <1>3, <1>9, <2>2, <3>1 DEF PointerOrder, Ordered, NeutralMouse
      <3>2. CASE f = "mouse"
        BY <1>7, <1>9, <3>2
      <3>3. CASE f = "touch"
        BY <3>3 DEF PointerOrder, Ordered
      <3>4. f \in {"none", "mouse", "touch"}
        BY DEF PointerOrder, Ordered
      <3> QED BY <3>1, <3>2, <3>3, <3>4
    <2> HIDE DEF h, m, p
    <2> QED BY <2>1, <2>2, <2>3 DEF PointerOrder, Ordered
  <1> QED BY <1>4, <1>8, <1>9

\* Every way an iteration of flush_reports ends.
LEMMA FlushOrder ==
    ASSUME IInv, PointerOrder, NEW q \in Queue, flush_reports(q)
    PROVE  PointerOrder'
  <1> USE Zenon
  <1>1. /\ reports \in [Queue -> Seq(Report)] /\ inflight \in [Queue -> Endpoint \cup {"none"}]
        /\ pending \in [Endpoint -> Report \cup {NoReport}] /\ "pointer" \in Queue
    BY DEF IInv, TypeOK, QueueTypes, UsbTypes, Queue
  <1>2. (MouseDue => MouseDue') /\ (TouchDue => TouchDue')
    <2>1. \/ ReturnTrue \/ ReturnFalse(todo)
          \/ UNCHANGED <<todo, onfail>>
      BY DEF flush_reports, FlushEnds, FlushStalled, FlushAwaitsPrevious, FlushPreviousLost,
         FlushPastes, FlushPasteFails, FlushWriteFails, FlushRetained, FlushSubmits, callVars
    <2>2. CASE UNCHANGED <<todo, onfail>>
      BY <2>2 DEF MouseDue, TouchDue
    <2> CASE ReturnTrue \/ ReturnFalse(todo)
      BY ReturnOrder
    <2> QED BY <2>1, <2>2
  <1>3. CASE FlushEnds(q) \/ FlushStalled(q) \/ FlushAwaitsPrevious(q) \/ FlushPreviousLost(q)
    <2>1. UNCHANGED <<reports, inflight, pending>>
      BY <1>3 DEF FlushEnds, FlushStalled, FlushAwaitsPrevious, FlushPreviousLost, queueVars
    <2> QED BY <1>2, <2>1, OrderStays
  <1>4. CASE FlushPasteFails(q) \/ FlushWriteFails(q) \/ FlushRetained(q) \/ FlushPastes(q)
    <2>1. /\ Writable(q) /\ PreviousDone(q) /\ pending' = pending /\ reports[q] # <<>>
          /\ \/ reports' = reports
             \/ reports' = [reports EXCEPT ![q][1].paste = FALSE]
      BY <1>4 DEF FlushPasteFails, FlushWriteFails, FlushRetained, FlushPastes, Writable, Due
    <2>2. CASE q # "pointer"
      <3>1. reports'["pointer"] = reports["pointer"] /\ inflight'["pointer"] = inflight["pointer"]
        BY <1>1, <2>1, <2>2 DEF PreviousDone
      <3> QED BY <1>2, <2>1, <3>1, OrderStays
    <2>3. CASE q = "pointer"
      <3> DEFINE p == reports["pointer"]
                 s == reports'["pointer"]
      <3>1. Ordered(p, inflight'["pointer"], pending["mouse"], pending["touch"])
        BY <2>1, <2>3, DoneOrder
      <3>2. /\ p \in Seq(Report) /\ p # <<>> /\ Len(p) \in Nat /\ Len(p) >= 1
            /\ 1 \in DOMAIN p /\ p[1] \in Report
        BY SMT, <1>1, <2>1, <2>3
      <3>3. /\ Len(s) = Len(p) /\ s # <<>>
            /\ \A i \in 1..Len(p) : s[i].endpoint = p[i].endpoint
            /\ NeutralMouse(p[1]) => NeutralMouse(s[1])
        <4>1. CASE reports' = reports
          BY <3>2, <4>1
        <4>2. CASE reports' = [reports EXCEPT ![q][1].paste = FALSE]
          <5> DEFINE x == [p[1] EXCEPT !.paste = FALSE]
          <5>1. s = [p EXCEPT ![1] = x]
            BY <1>1, <2>3, <4>2
          <5>2. /\ x \in Report /\ x.endpoint = p[1].endpoint
                /\ x.held = p[1].held /\ x.delta = p[1].delta
            <6>1. x \in Report /\ x.endpoint = p[1].endpoint
              BY <3>2, PastedIs
            <6>2. x.held = p[1].held /\ x.delta = p[1].delta
              BY <3>2 DEF Report
            <6> QED BY <6>1, <6>2
          <5> HIDE DEF x, p
          <5> /\ Len(s) = Len(p) /\ s[1] = x
              /\ \A i \in DOMAIN p : i # 1 => s[i] = p[i]
            BY SMT, <3>2, <5>1, <5>2, ReplaceOne
          <5> HIDE DEF s
          <5>4. \A i \in 1..Len(p) : s[i].endpoint = p[i].endpoint
            BY SMT, <3>2, <5>2
          <5>5. NeutralMouse(p[1]) => NeutralMouse(s[1])
            BY <5>2 DEF NeutralMouse
          <5>6. s # <<>>
            BY SMT, <3>2
          <5> QED BY <5>4, <5>5, <5>6
        <4> QED BY <2>1, <4>1, <4>2
      <3> QED BY <1>2, <2>1, <3>1, <3>2, <3>3, OrderSimilar
    <2> QED BY <2>2, <2>3
  <1>5. CASE FlushSubmits(q)
    <2>1. CASE q = "pointer"
      BY <1>5, <2>1, SubmitOrder
    <2>2. CASE q # "pointer"
      <3> DEFINE h == Head(reports[q])
      <3>1. /\ pending' = [pending EXCEPT ![h.endpoint] = h] /\ reports[q] # <<>>
            /\ reports'["pointer"] = reports["pointer"]
            /\ inflight'["pointer"] = inflight["pointer"]
        BY <1>1, <1>5, <2>2 DEF FlushSubmits, Submit, Oldest, Writable, Due
      <3>2. 1 \in DOMAIN reports[q] /\ h = reports[q][1]
        BY SMT, <1>1, <3>1
      <3>3. QueueOf(h.endpoint) = q
        BY <3>2 DEF IInv, LastReportIsCurrent, QueuesSorted
      <3> HIDE DEF h
      <3>4. h.endpoint = "keyboard"
        BY <2>2, <3>3 DEF QueueOf
      <3>5. pending'["mouse"] = pending["mouse"] /\ pending'["touch"] = pending["touch"]
        BY <1>1, <3>1, <3>4 DEF Endpoint
      <3> QED BY <1>2, <3>1, <3>5, OrderStays
    <2> QED BY <2>1, <2>2
  <1> QED BY <1>3, <1>4, <1>5 DEF flush_reports

\* Every message starts from an idle control thread.
LEMMA HandleOrder ==
    ASSUME PointerOrder, handle_control
    PROVE  PointerOrder'
  <1> USE Zenon
  <1>1. Message
    BY DEF handle_control, hid_scancode, hid_type_utf8, hid_absolute, hid_relative,
       hid_wheel, hid_synchronize, ReleaseMessage
  <1>2. \E calls, policy : Enter(calls, policy)
    BY DEF handle_control, hid_scancode, hid_type_utf8, hid_absolute, hid_relative,
       hid_wheel, hid_synchronize, ReleaseMessage, hid_release_all
  <1>3. UNCHANGED <<queueVars, usbVars>>
    BY <1>2 DEF Enter
  <1> QED BY <1>1, <1>3, EnterOrder DEF Message

\* hid_release_all forgets the pointer queue and what it submitted last; its mouse
\* report comes next.
LEMMA CancelOrder ==
    ASSUME IInv, PointerOrder, CancelQueues
    PROVE  PointerOrder'
  <1> USE Zenon
  <1>1. /\ todo # <<>> /\ Head(todo).op = "cancel"
        /\ reports' = [q \in Queue |-> <<>>] /\ inflight' = [q \in Queue |-> "none"]
        /\ todo' = Tail(todo) /\ onfail' = onfail /\ pending' = pending
    BY DEF CancelQueues, CallIs, usbVars
  <1>2. onfail = "ignore"
    <2>1. 1 \in DOMAIN todo /\ Head(todo) = todo[1]
      BY SMT, <1>1, TailIs DEF IInv, TypeOK, CallTypes
    <2> QED BY <1>1, <2>1 DEF IInv, LastReportIsCurrent, CallsSane
  <1>3. MouseDue'
    BY <1>1, <1>2, IgnoredHead, DueAfter
  <1>4. reports'["pointer"] = <<>> /\ inflight'["pointer"] = "none" /\ "none" \in {"none", "mouse", "touch"}
    BY <1>1 DEF Queue
  <1>5. "none" # "mouse" /\ "none" # "touch"
    OBVIOUS
  <1> QED BY <1>1, <1>3, <1>4, <1>5 DEF PointerOrder, Ordered

\* Every step keeps the order of the pointer endpoints.
LEMMA NextOrder ==
    ASSUME IInv, PointerOrder, [Next]_vars
    PROVE  PointerOrder'
  <1> USE Zenon
  <1>1. ASSUME UNCHANGED <<reports, inflight, pending, todo, onfail>>
        PROVE  PointerOrder'
    BY <1>1, OrderStays DEF MouseDue, TouchDue
  <1>2. CASE UNCHANGED vars
    BY <1>1, <1>2 DEF vars, queueVars, callVars, usbVars
  <1>3. CASE ThreadStep
    <2>1. CASE CallFails
      <3> /\ ReturnFalse(Tail(todo)) /\ UNCHANGED <<reports, inflight, pending>>
          /\ todo # <<>> /\ Head(todo).op = "fail"
        BY <2>1 DEF CallFails, CallIs, queueVars, usbVars
      <3>2. onfail # "ignore"
        BY IgnoredHead
      <3> QED BY <3>2, ReturnOrder, OrderStays
    <2>2. CASE StartFlush
      <3> /\ UNCHANGED <<reports, inflight, pending>> /\ todo # <<>> /\ Head(todo).op = "flush"
        BY <2>2 DEF StartFlush, CallIs, queueVars, usbVars
      <3>2. ~MouseDue /\ ~TouchDue
        BY NothingDue
      <3> QED BY <3>2, OrderStays
    <2>3. CASE ReleaseAfterFailure \/ hid_flush \/ hid_keepalive(FALSE) \/ DrainFlush
      <3> Idle /\ \E calls, policy : Enter(calls, policy)
        BY <2>3 DEF ReleaseAfterFailure, hid_release_all, hid_flush, hid_keepalive, DrainFlush
      <3>2. UNCHANGED <<queueVars, usbVars>>
        BY DEF Enter
      <3> QED BY <3>2, EnterOrder
    <2> QED BY <1>3, <2>1, <2>2, <2>3, QueueReportOrder, CancelOrder, FlushOrder
            DEF ThreadStep
  <1>4. CASE Environment
    <2>1. CASE disconnect_control \/ hid_keepalive(TRUE) \/ StopRequested
      <3> Idle /\ \E calls, policy : Enter(calls, policy)
        BY <2>1 DEF disconnect_control, StopRequested, hid_release_all, hid_keepalive
      <3>2. UNCHANGED <<queueVars, usbVars>>
        BY DEF Enter
      <3> QED BY <3>2, EnterOrder
    <2>2. CASE connect_control \/ Exit
      BY <1>1, <2>2 DEF connect_control, Exit, queueVars, callVars, usbVars
    <2>3. ASSUME NEW e \in Endpoint, UsbCompletes(e) \/ UsbLost(e)
          PROVE  PointerOrder'
      <3>1. /\ pending' = [pending EXCEPT ![e] = NoReport]
            /\ UNCHANGED <<reports, inflight, todo, onfail>>
        BY <2>3 DEF UsbCompletes, UsbLost, queueVars, callVars
      <3>2. pending \in [Endpoint -> Report \cup {NoReport}]
        BY DEF IInv, TypeOK, UsbTypes
      <3>3. /\ pending'["mouse"] \in {pending["mouse"], NoReport}
            /\ pending'["touch"] \in {pending["touch"], NoReport}
        BY <3>1, <3>2 DEF Endpoint
      <3>4. (MouseDue => MouseDue') /\ (TouchDue => TouchDue')
        BY <3>1 DEF MouseDue, TouchDue
      <3> QED BY <3>1, <3>3, <3>4, OrderStays
    <2>4. ASSUME NEW e \in Endpoint, UsbRestored(e)
          PROVE  PointerOrder'
      BY <1>1, <2>4 DEF UsbRestored, queueVars, callVars
    <2> ASSUME NEW q \in Queue, DelayPasses(q) \/ StallPasses(q)
        PROVE  PointerOrder'
      BY <1>1 DEF DelayPasses, StallPasses, callVars, usbVars
    <2> QED BY <1>4, <2>1, <2>2, <2>3, <2>4 DEF Environment
  <1> QED BY <1>2, <1>3, <1>4, HandleOrder DEF Next

\* The agent starts with a release.
LEMMA InitOrder ==
    ASSUME Init
    PROVE  PointerOrder
  <1>1. /\ todo = ReleaseCalls /\ onfail = "ignore" /\ position = 0
        /\ reports = [q \in Queue |-> <<>>] /\ inflight = [q \in Queue |-> "none"]
        /\ pending = [e \in Endpoint |-> NoReport]
    BY Zenon DEF Init
  <1>2. /\ reports["pointer"] = <<>> /\ inflight["pointer"] = "none"
        /\ pending["mouse"] = NoReport /\ pending["touch"] = NoReport
    BY Zenon, <1>1 DEF Queue, Endpoint
  <1>3. MouseDue
    <2>1. 0 \in Positions /\ 0 \in Nat
      BY Zenon, PositionsAssumption
    <2>2. todo \in Seq(Calls) /\ Len(todo) = 4 /\ todo[1] = ReleaseCall(3, position)
      BY <1>1, <2>1, NeutralCalls
    <2>3. ReleaseCall(3, position).op = "cancel"
      BY <1>1, <2>1, ReleaseCallIs
    <2>4. todo # <<>> /\ Head(todo) = todo[1]
      BY <2>2
    <2> QED BY <1>1, <2>2, <2>3, <2>4 DEF MouseDue
  <1> QED BY Zenon, <1>2, <1>3 DEF PointerOrder, Ordered

-----------------------------------------------------------------------------

\* The order of the pointer queue, of inflight_endpoint and of what USB still holds
\* is kept by every step of queue_report, flush_reports and hid_release_all.
THEOREM PointerQueueOrdered == Spec => []PointerOrder
  <1> USE Zenon
  <1>1. Init => PointerOrder
    BY InitOrder
  <1>2. TypeOK /\ LastReportIsCurrent /\ PointerOrder /\ [Next]_vars => PointerOrder'
    BY NextOrder DEF IInv
  <1> QED
    BY <1>1, <1>2, TypeCorrect, ReportsAgree, PTL DEF Spec

\* A click cannot overtake the position before it, nor motion a click: reports are
\* outstanding on both pointer endpoints only behind the neutral mouse report of
\* hid_release_all (the crossing rule of flush_reports).
THEOREM PointerEndpointsOrdered == Spec => []PointerEndpointsInOrder
  <1>1. PointerOrder => PointerEndpointsInOrder
    BY Zenon DEF PointerOrder, Ordered, NeutralMouse, PointerEndpointsInOrder
  <1> QED
    BY <1>1, PointerQueueOrdered, PTL

\* write_absolute_now never writes: when queue_report calls it for a motion report,
\* the pointer queue is not empty or inflight_endpoint is still that of the report
\* submitted last, which flush_reports keeps after the host has taken it.
THEOREM DirectWriteNeverTaken == Spec => [](CallIs("report") => ~MayBypass(Head(todo)))
  <1> USE Zenon
  <1>1. TypeOK /\ LastReportIsCurrent /\ PointerOrder => (CallIs("report") => ~MayBypass(Head(todo)))
    <2> SUFFICES ASSUME IInv, PointerOrder, CallIs("report"), MayBypass(Head(todo))
                 PROVE  FALSE
      BY DEF IInv
    <2>1. /\ todo # <<>> /\ Head(todo).op = "report" /\ Head(todo).motion
          /\ reports["pointer"] = <<>> /\ inflight["pointer"] = "none"
      BY DEF CallIs, MayBypass
    <2>2. MouseDue
      BY <2>1 DEF PointerOrder, Ordered
    <2>3. onfail = "ignore"
      BY <2>2 DEF MouseDue
    <2> QED BY <2>1, <2>3, IgnoredHead
  <1> QED
    BY <1>1, TypeCorrect, ReportsAgree, PointerQueueOrdered, PTL

-----------------------------------------------------------------------------
(* The order of pastes *)

Pastes(c) == c.op = "report" /\ c.paste
NeutralKeys(c) == c.op = "report" /\ c.endpoint = "keyboard" /\ c.held = {}

\* What comes before place i of the keyboard queue k, if the host has not taken it
\* yet, holds no key.
Behind(k, i, m) == IF i = 1 THEN m = NoReport \/ m.held = {} ELSE NeutralKeys(k[i - 1])

\* Of a keyboard queue k and what is outstanding on its endpoint (m): every paste,
\* to be made or queued, comes behind a release of all keys.
PastesBehind(k, m) ==
    /\ \A i \in DOMAIN todo : Pastes(todo[i]) =>
          /\ onfail = "release_twice"
          /\ IF i = 1 THEN Behind(k, Len(k) + 1, m) ELSE NeutralKeys(todo[i - 1])
    /\ \A i \in DOMAIN k : k[i].paste => Behind(k, i, m)

PasteOrder == PastesBehind(reports["keyboard"], pending["keyboard"])

Pasteless(s) == \A i \in DOMAIN s : ~Pastes(s[i])

\* Steps that leave the keyboard queue alone, or let the host take a report.
LEMMA PasteStays ==
    ASSUME PasteOrder, reports'["keyboard"] = reports["keyboard"],
           pending'["keyboard"] = pending["keyboard"] \/ pending'["keyboard"] = NoReport,
           UNCHANGED <<todo, onfail>> \/ Pasteless(todo')
    PROVE  PasteOrder'
  <1> USE Zenon
  <1> DEFINE k == reports["keyboard"]
             m == pending["keyboard"]
             v == pending'["keyboard"]
  <1>1. ASSUME NEW i, Behind(k, i, m) PROVE Behind(k, i, v)
    BY <1>1 DEF Behind
  <1>2. \A i \in DOMAIN k : k[i].paste => Behind(k, i, v)
    BY <1>1 DEF PasteOrder, PastesBehind
  <1>3. \A i \in DOMAIN todo' : Pastes(todo'[i]) =>
           /\ onfail' = "release_twice"
           /\ IF i = 1 THEN Behind(k, Len(k) + 1, v) ELSE NeutralKeys(todo'[i - 1])
    <2>1. CASE UNCHANGED <<todo, onfail>>
      BY <1>1, <2>1 DEF PasteOrder, PastesBehind
    <2> CASE Pasteless(todo')
      BY DEF Pasteless
    <2> QED BY <2>1
  <1> HIDE DEF m, v
  <1>4. reports'["keyboard"] = k /\ pending'["keyboard"] = v
    BY DEF v
  <1> HIDE DEF k
  <1> QED BY <1>2, <1>3, <1>4 DEF PasteOrder, PastesBehind

\* A call that does not queue a release of all keys is not followed by a paste.
LEMMA PasteAfterOther ==
    ASSUME IInv, PasteOrder, todo # <<>>, ~NeutralKeys(Head(todo)),
           todo' = Tail(todo), onfail' = onfail,
           reports'["keyboard"] = reports["keyboard"],
           pending'["keyboard"] = pending["keyboard"]
    PROVE  PasteOrder'
  <1> USE Zenon
  <1> DEFINE k == reports["keyboard"]
             v == pending["keyboard"]
  <1>0. \A j \in DOMAIN todo : Pastes(todo[j]) /\ j # 1 =>
           onfail = "release_twice" /\ NeutralKeys(todo[j - 1])
    BY DEF PasteOrder, PastesBehind
  <1>1. ASSUME NEW i \in DOMAIN todo', Pastes(todo'[i])
        PROVE  onfail' = "release_twice" /\ i # 1 /\ NeutralKeys(todo'[i - 1])
    <2>1. /\ i \in Nat /\ i + 1 \in DOMAIN todo /\ todo'[i] = todo[i + 1] /\ i + 1 # 1
          /\ i + 1 - 1 = i /\ Head(todo) = todo[1]
          /\ i # 1 => i - 1 \in DOMAIN todo' /\ i - 1 + 1 = i
      <3>1. /\ Len(todo) \in Nat /\ i \in 1..(Len(todo) - 1) /\ DOMAIN todo = 1..Len(todo)
            /\ DOMAIN todo' = 1..(Len(todo) - 1) /\ todo'[i] = todo[i + 1]
        BY <1>1, TailIs
      <3>2. Head(todo) = todo[1]
        BY SMT DEF IInv, TypeOK, CallTypes
      <3> HIDE DEF k, v
      <3> QED BY SMT, <3>1, <3>2
    <2>2. onfail = "release_twice" /\ NeutralKeys(todo[i])
      <3>1. Pastes(todo[i + 1])
        BY <1>1, <2>1
      <3>2. onfail = "release_twice" /\ NeutralKeys(todo[i + 1 - 1])
        <4>1. i + 1 \in DOMAIN todo /\ i + 1 # 1
          BY <2>1
        <4> HIDE DEF k, v
        <4> QED BY SMT, <1>0, <3>1, <4>1
      <3> QED BY <2>1, <3>2
    <2> i # 1
      BY <2>1, <2>2
    <2>4. todo'[i - 1] = todo[i]
      BY <2>1, TailIs
    <2> QED BY <2>2, <2>4
  <1>2. \A i \in DOMAIN k : k[i].paste => Behind(k, i, v)
    BY DEF PasteOrder, PastesBehind
  <1> QED BY <1>1, <1>2 DEF PasteOrder, PastesBehind

\* The calls of hid_release_all, hid_synchronize and hid_flush have no paste.
LEMMA PastelessCalls ==
    ASSUME IInv
    PROVE  /\ Pasteless(<<>>) /\ Pasteless(ReleaseCalls) /\ Pasteless(NeutralReports)
           /\ Pasteless(ReleaseCalls \o ReleaseCalls) /\ Pasteless(FlushCalls)
           /\ \A c : ~Pastes(c) => Pasteless(<<c>>)
           /\ \A c, d : ~Pastes(c) /\ ~Pastes(d) => Pasteless(<<c, d>>)
  <1> USE Zenon
  <1>1. position \in Positions
    BY DEF IInv, TypeOK, HidTypes
  <1>2. ASSUME NEW d, NEW pos PROVE ~Pastes(ReleaseCall(d, pos))
    BY DEF Pastes, ReleaseCall, Cancel, KeyboardReport, MouseReport, TouchReport, MakeReport
  <1>3. Pasteless(ReleaseCalls)
    <2>1. DOMAIN ReleaseCalls = 1..4 /\ \A i \in 1..4 : ReleaseCalls[i] = ReleaseCall(4 - i, position)
      <3>1. ReleaseCalls \in Seq(Calls) /\ Len(ReleaseCalls) = 4
        BY <1>1, NeutralCalls, HeldTypes DEF IInv
      <3>2. \A i \in 1..4 : ReleaseCalls[i] = ReleaseCall(4 - i, position)
        BY <1>1, NeutralCalls
      <3> QED BY SMT, <3>1, <3>2
    <2> QED BY <1>2, <2>1 DEF Pasteless
  <1>4. Pasteless(ReleaseCalls \o ReleaseCalls)
    <2>1. ReleaseCalls \o ReleaseCalls \in Seq(Calls) /\ Len(ReleaseCalls \o ReleaseCalls) = 8
      BY <1>1, NeutralCalls
    <2>2. \A i \in 1..8 : (ReleaseCalls \o ReleaseCalls)[i] = ReleaseCall(8 - i, position)
      BY <1>1, NeutralCalls
    <2> DEFINE s == ReleaseCalls \o ReleaseCalls
    <2> HIDE DEF s
    <2>3. DOMAIN s = 1..8
      BY SMT, <2>1 DEF s
    <2> QED BY <1>2, <2>2, <2>3 DEF Pasteless, s
  <1>5. Pasteless(NeutralReports)
    <2>1. /\ ~Pastes(KeyboardReport({}, {}, FALSE, FALSE)) /\ ~Pastes(MouseReport({}, FALSE))
          /\ ~Pastes(TouchReport({}, position, FALSE, FALSE))
      BY DEF Pastes, KeyboardReport, MouseReport, TouchReport, MakeReport
    <2> ASSUME NEW a, NEW b, NEW c, ~Pastes(a), ~Pastes(b), ~Pastes(c)
        PROVE  Pasteless(<<a, b, c>>)
      BY SMT DEF Pasteless
    <2> QED BY <2>1 DEF NeutralReports
  <1>6. Pasteless(FlushCalls)
    BY SMT DEF Pasteless, FlushCalls, Flush, Pastes
  <1>7. Pasteless(<<>>)
    BY SMT DEF Pasteless
  <1>8. \A c : ~Pastes(c) => Pasteless(<<c>>)
    BY SMT DEF Pasteless
  <1>9. \A c, d : ~Pastes(c) /\ ~Pastes(d) => Pasteless(<<c, d>>)
    BY SMT DEF Pasteless
  <1> QED BY <1>3, <1>4, <1>5, <1>6, <1>7, <1>8, <1>9

\* Neither have two sequences of calls without one.
LEMMA PastelessJoin ==
    ASSUME NEW S, NEW s \in Seq(S), NEW t \in Seq(S), Pasteless(s), Pasteless(t)
    PROVE  Pasteless(s \o t)
  <1> USE Zenon
  <1> SUFFICES ASSUME NEW i \in DOMAIN (s \o t) PROVE ~Pastes((s \o t)[i])
    BY DEF Pasteless
  <1>1. CASE i \in DOMAIN s
    <2>1. (s \o t)[i] = s[i]
      BY SMT, <1>1
    <2> QED BY <1>1, <2>1 DEF Pasteless
  <1>2. CASE i \notin DOMAIN s
    <2>1. i - Len(s) \in DOMAIN t /\ (s \o t)[i] = t[i - Len(s)]
      BY SMT, <1>2
    <2> QED BY <2>1 DEF Pasteless
  <1> QED BY <1>1, <1>2

\* A call returns: the handler goes on, or releases everything.
LEMMA ReturnPaste ==
    ASSUME IInv, NEW rest, ReturnTrue \/ ReturnFalse(rest)
    PROVE  \/ UNCHANGED <<todo, onfail>>
           \/ todo' = rest /\ onfail' = onfail /\ (space = "flushing" \/ onfail # "release_twice")
           \/ Pasteless(todo')
  <1> USE Zenon
  <1>1. CASE ReturnTrue
    BY <1>1 DEF ReturnTrue
  <1>2. CASE ReturnFalse(rest)
    <2>1. \/ /\ space = "flushing" \/ onfail \in {"ignore", "defer"}
             /\ todo' = rest /\ onfail' = onfail
          \/ todo' = ReleaseCalls \/ todo' = ReleaseCalls \o ReleaseCalls
      BY <1>2 DEF ReturnFalse
    <2>2. onfail \in {"ignore", "defer"} => onfail # "release_twice"
      OBVIOUS
    <2> QED BY <2>1, <2>2, PastelessCalls
  <1> QED BY <1>1, <1>2

\* queue_report appends a report to the keyboard queue.
LEMMA EnqueuePaste ==
    ASSUME IInv, PasteOrder, todo # <<>>, NEW r \in Report, r = todo[1],
           NEW k \in Seq(Report), k = reports["keyboard"],
           NEW s, s = reports'["keyboard"], s = Append(k, r),
           todo' = Tail(todo), UNCHANGED <<onfail, pending>>
    PROVE  PasteOrder'
  <1> USE Zenon
  <1> DEFINE m == pending["keyboard"]
             n == Len(k)
  <1>1. /\ n \in Nat /\ Len(s) = n + 1 /\ s[n + 1] = r /\ DOMAIN s = 1..(n + 1)
        /\ DOMAIN k = 1..n /\ \A i \in 1..n : s[i] = k[i]
    BY SMT
  <1>2. /\ \A i \in DOMAIN k : k[i].paste => Behind(k, i, m)
        /\ 1 \in DOMAIN todo /\ Pastes(todo[1]) => Behind(k, n + 1, m)
        /\ \A i \in DOMAIN todo : Pastes(todo[i]) => onfail = "release_twice"
        /\ \A i \in DOMAIN todo : Pastes(todo[i]) /\ i # 1 => NeutralKeys(todo[i - 1])
    BY DEF PasteOrder, PastesBehind
  <1>3. /\ Len(todo) \in Nat /\ Len(todo) >= 1 /\ DOMAIN todo = 1..Len(todo)
        /\ DOMAIN todo' = 1..(Len(todo) - 1)
        /\ \A i \in DOMAIN todo' : todo'[i] = todo[i + 1]
    BY TailIs
  <1> HIDE DEF m
  <1>4. \A i \in 1..(n + 1) : Behind(k, i, m) => Behind(s, i, m)
    <2> SUFFICES ASSUME NEW i \in 1..(n + 1), i # 1, NeutralKeys(k[i - 1])
                 PROVE  NeutralKeys(s[i - 1])
      BY DEF Behind
    <2>1. i - 1 \in 1..n
      BY SMT, <1>1
    <2> QED BY <1>1, <2>1
  <1>5. ASSUME NEW i \in DOMAIN s, s[i].paste PROVE Behind(s, i, m)
    <2>1. CASE i = n + 1
      <3>1. Pastes(todo[1]) /\ 1 \in DOMAIN todo
        BY SMT, <1>1, <1>3, <1>5, <2>1 DEF Pastes, Report
      <3> QED BY <1>1, <1>2, <1>4, <1>5, <2>1, <3>1
    <2>2. CASE i # n + 1
      <3>1. i \in 1..n /\ i \in 1..(n + 1)
        BY SMT, <1>1, <1>5, <2>2
      <3>2. s[i] = k[i] /\ i \in DOMAIN k
        BY <1>1, <3>1
      <3>3. Behind(k, i, m)
        BY <1>2, <1>5, <3>2
      <3> QED BY <1>4, <3>1, <3>3
    <2> QED BY <2>1, <2>2
  <1>6. ASSUME NEW i \in DOMAIN todo', Pastes(todo'[i])
        PROVE  /\ onfail' = "release_twice"
               /\ IF i = 1 THEN Behind(s, Len(s) + 1, m) ELSE NeutralKeys(todo'[i - 1])
    <2>1. /\ i + 1 \in DOMAIN todo /\ i + 1 # 1 /\ i + 1 - 1 = i /\ todo'[i] = todo[i + 1]
          /\ i # 1 => i - 1 \in DOMAIN todo' /\ i - 1 + 1 = i
      BY SMT, <1>3, <1>6
    <2>2. Pastes(todo[i + 1])
      BY <1>6, <2>1
    <2>3. onfail = "release_twice" /\ NeutralKeys(todo[i + 1 - 1])
      BY SMT, <1>2, <2>1, <2>2
    <2>4. NeutralKeys(todo[i])
      BY <2>1, <2>3
    <2>5. CASE i = 1
      <3>1. Len(s) + 1 # 1 /\ s[Len(s) + 1 - 1] = r
        BY SMT, <1>1
      <3>2. NeutralKeys(s[Len(s) + 1 - 1])
        BY <2>4, <2>5, <3>1
      <3>3. Behind(s, Len(s) + 1, m)
        BY SMT, <3>1, <3>2 DEF Behind
      <3> QED BY <2>3, <2>5, <3>3
    <2> CASE i # 1
      <3>1. todo'[i - 1] = todo[i]
        BY <1>3, <2>1
      <3> QED BY <2>3, <2>4, <3>1
    <2> QED BY <2>5
  <1>7. pending'["keyboard"] = m
    BY DEF m
  <1> QED BY <1>5, <1>6, <1>7 DEF PasteOrder, PastesBehind

\* A report is queued, merged or dropped.
LEMMA QueueReportPaste ==
    ASSUME IInv, PasteOrder, queue_report
    PROVE  PasteOrder'
  <1> USE Zenon
  <1> DEFINE r == Head(todo)
             q == QueueOf(r.endpoint)
  <1>1. /\ todo # <<>> /\ r.op = "report"
        /\ \/ /\ r.motion /\ Submit(r) /\ todo' = Tail(todo) /\ UNCHANGED <<reports, onfail>>
           \/ /\ r.motion /\ reports' = [reports EXCEPT ![q][Len(reports[q])] = r]
              /\ todo' = Tail(todo) /\ UNCHANGED <<onfail, pending>>
           \/ Enqueue(r, q)
           \/ UNCHANGED <<reports, todo, onfail, pending>>
           \/ /\ space = "tried" /\ ReturnFalse(Tail(todo)) /\ UNCHANGED <<reports, pending>>
    BY DEF queue_report, CallIs, MayBypass, Replaces
  <1>2. /\ reports \in [Queue -> Seq(Report)] /\ "keyboard" \in Queue /\ q \in Queue
        /\ pending \in [Endpoint -> Report \cup {NoReport}]
    BY DEF IInv, TypeOK, QueueTypes, UsbTypes, Queue, QueueOf
  <1>3. r \in Report /\ r = todo[1] /\ 1 \in DOMAIN todo
    <2>1. r \in Calls /\ 1 \in DOMAIN todo /\ r = todo[1]
      BY SMT, <1>1, TailIs DEF IInv, TypeOK, CallTypes
    <2> QED BY SMT, <1>1, <2>1, CallsInclude
  <1>4. r.motion => r.endpoint = "touch"
    BY <1>1, <1>3 DEF IInv, LastReportIsCurrent, CallsSane
  <1>5. CASE r.motion /\ Submit(r) /\ todo' = Tail(todo) /\ UNCHANGED <<reports, onfail>>
    <2>1. pending'["keyboard"] = pending["keyboard"]
      BY SMT, <1>2, <1>4, <1>5 DEF Submit, Endpoint
    <2>2. ~NeutralKeys(r)
      BY <1>4, <1>5 DEF NeutralKeys
    <2> QED BY <1>1, <1>5, <2>1, <2>2, PasteAfterOther
  <1>6. CASE /\ r.motion /\ reports' = [reports EXCEPT ![q][Len(reports[q])] = r]
             /\ todo' = Tail(todo) /\ UNCHANGED <<onfail, pending>>
    <2>1. reports'["keyboard"] = reports["keyboard"]
      BY SMT, <1>2, <1>4, <1>6 DEF QueueOf
    <2>2. ~NeutralKeys(r)
      BY <1>4, <1>6 DEF NeutralKeys
    <2> QED BY <1>1, <1>6, <2>1, <2>2, PasteAfterOther
  <1>7. CASE Enqueue(r, q)
    <2>1. /\ reports' = [reports EXCEPT ![q] = Append(@, r)] /\ todo' = Tail(todo)
          /\ UNCHANGED <<onfail, pending>>
      BY <1>7 DEF Enqueue
    <2>2. CASE q = "keyboard"
      <3>1. reports'["keyboard"] = Append(reports["keyboard"], r) /\ reports["keyboard"] \in Seq(Report)
        BY <1>2, <2>1, <2>2
      <3> QED BY <1>1, <1>3, <2>1, <3>1, EnqueuePaste
    <2>3. CASE q # "keyboard"
      <3>1. reports'["keyboard"] = reports["keyboard"]
        BY SMT, <1>2, <2>1, <2>3
      <3>2. ~NeutralKeys(r)
        BY <2>3 DEF NeutralKeys, QueueOf
      <3> QED BY <1>1, <2>1, <3>1, <3>2, PasteAfterOther
    <2> QED BY <2>2, <2>3
  <1>8. CASE UNCHANGED <<reports, todo, onfail, pending>>
    BY <1>8, PasteStays
  <1>9. CASE space = "tried" /\ ReturnFalse(Tail(todo)) /\ UNCHANGED <<reports, pending>>
    <2>1. \/ UNCHANGED <<todo, onfail>>
          \/ todo' = Tail(todo) /\ onfail' = onfail /\ onfail # "release_twice"
          \/ Pasteless(todo')
      <3>1. space # "flushing"
        BY <1>9
      <3> QED BY <1>9, <3>1, ReturnPaste
    <2>2. ASSUME todo' = Tail(todo), onfail # "release_twice"
          PROVE  Pasteless(todo')
      <3>1. \A i \in DOMAIN todo : ~Pastes(todo[i])
        BY <2>2 DEF PasteOrder, PastesBehind
      <3>2. \A i \in DOMAIN Tail(todo) : i + 1 \in DOMAIN todo /\ Tail(todo)[i] = todo[i + 1]
        BY <1>1, TailIs
      <3> QED BY <2>2, <3>1, <3>2 DEF Pasteless
    <2> QED BY <1>9, <2>1, <2>2, PasteStays
  <1> QED BY <1>1, <1>5, <1>6, <1>7, <1>8, <1>9

\* The oldest keyboard report goes to USB.
LEMMA SubmitPaste ==
    ASSUME IInv, PasteOrder, FlushSubmits("keyboard")
    PROVE  PasteOrder'
  <1> USE Zenon
  <1> DEFINE k == reports["keyboard"]
             m == pending["keyboard"]
             h == k[1]
             t == Tail(k)
             n == Len(k)
  <1>1. /\ k # <<>> /\ pending' = [pending EXCEPT ![Head(k).endpoint] = Head(k)]
        /\ reports' = [reports EXCEPT !["keyboard"] = Tail(@)]
        /\ UNCHANGED <<todo, onfail>>
    BY DEF FlushSubmits, Writable, Due, Submit, Oldest, callVars
  <1>2. /\ k \in Seq(Report) /\ "keyboard" \in Queue
        /\ reports \in [Queue -> Seq(Report)] /\ pending \in [Endpoint -> Report \cup {NoReport}]
    BY DEF IInv, TypeOK, QueueTypes, UsbTypes, Queue
  <1>3. /\ 1 \in DOMAIN k /\ h = Head(k) /\ h \in Report /\ n \in Nat /\ n >= 1
        /\ Len(t) = n - 1 /\ DOMAIN t = 1..(n - 1) /\ DOMAIN k = 1..n
        /\ \A i \in 1..(n - 1) : t[i] = k[i + 1]
    BY SMT, <1>1, <1>2
  <1>4. h.endpoint = "keyboard"
    <2>1. QueueOf(h.endpoint) = "keyboard"
      BY SMT, <1>2, <1>3 DEF IInv, LastReportIsCurrent, QueuesSorted
    <2> QED BY <2>1 DEF QueueOf
  <1>5. reports'["keyboard"] = t /\ pending'["keyboard"] = h
    BY SMT, <1>1, <1>2, <1>3, <1>4 DEF Endpoint
  <1>6. /\ \A i \in DOMAIN k : k[i].paste => Behind(k, i, m)
        /\ \A i \in DOMAIN todo : Pastes(todo[i]) =>
              /\ onfail = "release_twice"
              /\ IF i = 1 THEN Behind(k, n + 1, m) ELSE NeutralKeys(todo[i - 1])
    BY DEF PasteOrder, PastesBehind
  <1> HIDE DEF k, m, h, t, n
  <1>7. \A i \in 1..n : Behind(k, i + 1, m) => Behind(t, i, h)
    <2> SUFFICES ASSUME NEW i \in 1..n, Behind(k, i + 1, m) PROVE Behind(t, i, h)
      OBVIOUS
    <2>1. NeutralKeys(k[i])
      <3> i + 1 # 1 /\ i + 1 - 1 = i
        BY SMT, <1>3
      <3>2. NeutralKeys(k[i + 1 - 1])
        BY SMT DEF Behind
      <3> QED BY <3>2
    <2>2. CASE i = 1
      <3>1. h.held = {}
        BY <2>1, <2>2 DEF NeutralKeys, h
      <3> QED BY <2>2, <3>1 DEF Behind
    <2>3. CASE i # 1
      <3>1. i - 1 \in 1..(n - 1) /\ i - 1 + 1 = i
        BY SMT, <1>3, <2>3
      <3>2. t[i - 1] = k[i]
        BY <1>3, <3>1
      <3> QED BY <2>1, <2>3, <3>2 DEF Behind
    <2> QED BY <2>2, <2>3
  <1>8. ASSUME NEW i \in DOMAIN t, t[i].paste PROVE Behind(t, i, h)
    <2> i \in 1..n /\ i + 1 \in DOMAIN k /\ t[i] = k[i + 1]
      BY SMT, <1>3, <1>8
    <2>2. Behind(k, i + 1, m)
      BY SMT, <1>6, <1>8
    <2> QED BY <1>7, <2>2
  <1>9. Behind(k, n + 1, m) => Behind(t, Len(t) + 1, h)
    <2>1. n \in 1..n /\ Len(t) + 1 = n
      BY SMT, <1>3
    <2> QED BY <1>7, <2>1
  <1>10. \A i \in DOMAIN todo : Pastes(todo[i]) =>
            /\ onfail = "release_twice"
            /\ IF i = 1 THEN Behind(t, Len(t) + 1, h) ELSE NeutralKeys(todo[i - 1])
    BY <1>6, <1>9
  <1> QED BY <1>1, <1>5, <1>8, <1>10 DEF PasteOrder, PastesBehind

\* The clipboard has been replaced for the oldest keyboard report.
LEMMA PastedOrder ==
    ASSUME IInv, PasteOrder, FlushPastes("keyboard")
    PROVE  PasteOrder'
  <1> USE Zenon
  <1> DEFINE k == reports["keyboard"]
             m == pending["keyboard"]
             x == [k[1] EXCEPT !.paste = FALSE]
             s == [k EXCEPT ![1] = x]
  <1>1. /\ k # <<>> /\ pending' = pending /\ UNCHANGED <<todo, onfail>>
        /\ reports' = [reports EXCEPT !["keyboard"][1].paste = FALSE]
    BY DEF FlushPastes, Writable, Due, ReturnTrue
  <1>2. k \in Seq(Report) /\ "keyboard" \in Queue /\ reports \in [Queue -> Seq(Report)]
    BY DEF IInv, TypeOK, QueueTypes, Queue
  <1>3. 1 \in DOMAIN k /\ k[1] \in Report /\ Len(k) \in Nat /\ Len(k) >= 1 /\ DOMAIN k = 1..Len(k)
    BY SMT, <1>1, <1>2
  <1>4. reports'["keyboard"] = s
    BY <1>1, <1>2
  <1>5. x \in Report /\ x.op = k[1].op /\ x.endpoint = k[1].endpoint
    BY <1>3, PastedIs
  <1>6. x.held = k[1].held /\ x.paste = FALSE
    BY <1>3 DEF Report
  <1> HIDE DEF x, k
  <1>7. /\ Len(s) = Len(k) /\ DOMAIN s = DOMAIN k /\ s[1] = x
        /\ \A i \in DOMAIN k : i # 1 => s[i] = k[i]
    BY SMT, <1>2, <1>3, <1>5, ReplaceOne
  <1>8. /\ \A i \in DOMAIN k : k[i].paste => Behind(k, i, m)
        /\ \A i \in DOMAIN todo : Pastes(todo[i]) =>
              /\ onfail = "release_twice"
              /\ IF i = 1 THEN Behind(k, Len(k) + 1, m) ELSE NeutralKeys(todo[i - 1])
    BY DEF PasteOrder, PastesBehind, k
  <1> HIDE DEF s, m
  <1>9. \A i \in DOMAIN k : NeutralKeys(k[i]) => NeutralKeys(s[i])
    BY <1>5, <1>6, <1>7 DEF NeutralKeys
  <1>10. \A i \in 1..(Len(k) + 1) : Behind(k, i, m) => Behind(s, i, m)
    <2> SUFFICES ASSUME NEW i \in 1..(Len(k) + 1), i # 1, NeutralKeys(k[i - 1])
                 PROVE  NeutralKeys(s[i - 1])
      BY DEF Behind
    <2>1. i - 1 \in DOMAIN k
      BY SMT, <1>3
    <2> QED BY <1>9, <2>1
  <1>11. ASSUME NEW i \in DOMAIN s, s[i].paste PROVE Behind(s, i, m)
    <2>1. i # 1 /\ i \in DOMAIN k /\ s[i] = k[i]
      BY <1>6, <1>7, <1>11
    <2>2. Behind(k, i, m)
      BY <1>8, <1>11, <2>1
    <2>3. i \in 1..(Len(k) + 1)
      BY SMT, <1>3, <2>1
    <2> QED BY <1>10, <2>2, <2>3
  <1>12. Behind(k, Len(k) + 1, m) => Behind(s, Len(s) + 1, m)
    <2>1. Len(k) + 1 \in 1..(Len(k) + 1)
      BY SMT, <1>3
    <2> QED BY <1>7, <1>10, <2>1
  <1>13. \A i \in DOMAIN todo : Pastes(todo[i]) =>
            /\ onfail = "release_twice"
            /\ IF i = 1 THEN Behind(s, Len(s) + 1, m) ELSE NeutralKeys(todo[i - 1])
    BY <1>8, <1>12
  <1>14. pending'["keyboard"] = m
    BY <1>1 DEF m
  <1> QED BY <1>1, <1>4, <1>11, <1>13, <1>14 DEF PasteOrder, PastesBehind

\* Every way an iteration of flush_reports ends.
LEMMA FlushPasteOrder ==
    ASSUME IInv, PasteOrder, NEW q \in Queue, flush_reports(q)
    PROVE  PasteOrder'
  <1> USE Zenon
  <1>1. /\ reports \in [Queue -> Seq(Report)] /\ "keyboard" \in Queue
        /\ pending \in [Endpoint -> Report \cup {NoReport}]
    BY DEF IInv, TypeOK, QueueTypes, UsbTypes, Queue
  <1>2. ASSUME ReturnTrue \/ ReturnFalse(todo)
        PROVE  UNCHANGED <<todo, onfail>> \/ Pasteless(todo')
    BY <1>2, ReturnPaste
  <1>3. CASE \/ FlushEnds(q) \/ FlushStalled(q) \/ FlushAwaitsPrevious(q) \/ FlushPreviousLost(q)
             \/ FlushPasteFails(q) \/ FlushWriteFails(q) \/ FlushRetained(q)
    <2>1. UNCHANGED <<reports, pending>> /\ (ReturnTrue \/ ReturnFalse(todo))
      BY <1>3 DEF FlushEnds, FlushStalled, FlushAwaitsPrevious, FlushPreviousLost,
         FlushPasteFails, FlushWriteFails, FlushRetained, queueVars
    <2> QED BY <1>2, <2>1, PasteStays
  <1>4. CASE q = "keyboard" /\ (FlushPastes(q) \/ FlushSubmits(q))
    BY <1>4, PastedOrder, SubmitPaste
  <1>5. CASE q # "keyboard" /\ FlushPastes(q)
    <2>1. reports'["keyboard"] = reports["keyboard"] /\ pending' = pending /\ ReturnTrue
      BY <1>1, <1>5 DEF FlushPastes
    <2> QED BY <1>2, <2>1, PasteStays
  <1>6. CASE q # "keyboard" /\ FlushSubmits(q)
    <2> DEFINE h == Head(reports[q])
    <2>1. /\ pending' = [pending EXCEPT ![h.endpoint] = h] /\ reports[q] # <<>>
          /\ reports'["keyboard"] = reports["keyboard"] /\ UNCHANGED <<todo, onfail>>
      BY SMT, <1>1, <1>6 DEF FlushSubmits, Submit, Oldest, Writable, Due, callVars
    <2>2. 1 \in DOMAIN reports[q] /\ h = reports[q][1]
      BY SMT, <1>1, <2>1
    <2>3. QueueOf(h.endpoint) = q
      BY <2>2 DEF IInv, LastReportIsCurrent, QueuesSorted
    <2> HIDE DEF h
    <2>4. h.endpoint # "keyboard"
      BY <1>6, <2>3 DEF QueueOf
    <2>5. pending'["keyboard"] = pending["keyboard"]
      BY SMT, <1>1, <2>1, <2>4 DEF Endpoint
    <2> QED BY ZenonT(30), <2>1, <2>5, PasteStays
  <1> QED BY <1>3, <1>4, <1>5, <1>6 DEF flush_reports

\* A text is typed from a neutral keyboard, which it returns to between two items.
LEMMA TextPaste ==
    ASSUME PasteOrder, NEW text \in Texts, Enter(TextCalls(text), "release_twice")
    PROVE  PasteOrder'
  <1> USE Zenon
  <1> DEFINE n == TextLength(text)
  <1>1. /\ n \in Nat /\ todo' = TextCalls(text) /\ onfail' = "release_twice"
        /\ UNCHANGED <<reports, pending>>
    BY TextCallsType DEF Enter, queueVars, usbVars
  <1>2. DOMAIN todo' = 1..n /\ \A i \in 1..n : todo'[i] = TextCall(text, i)
    BY <1>1 DEF TextCalls
  <1> HIDE DEF n
  <1>3. ASSUME NEW i \in 1..n, Pastes(TextCall(text, i))
        PROVE  i # 1 /\ i - 1 \in 1..n /\ NeutralKeys(TextCall(text, i - 1))
    <2>1. ~Pastes(KeyboardReport({}, {}, TRUE, FALSE)) /\ NeutralKeys(KeyboardReport({}, {}, TRUE, FALSE))
      BY DEF Pastes, NeutralKeys, KeyboardReport, LowestUsages
    <2>2. i % 2 # 1
      BY <1>3, <2>1 DEF TextCall
    <2>3. i # 1 /\ i - 1 \in 1..n /\ (i - 1) % 2 = 1
      BY SMT, <1>1, <2>2
    <2> QED BY <2>1, <2>3 DEF TextCall
  <1>4. \A i \in DOMAIN todo' : Pastes(todo'[i]) =>
           onfail' = "release_twice" /\ i # 1 /\ NeutralKeys(todo'[i - 1])
    BY <1>1, <1>2, <1>3
  <1>5. \A i \in DOMAIN reports["keyboard"] :
           reports["keyboard"][i].paste => Behind(reports["keyboard"], i, pending["keyboard"])
    BY DEF PasteOrder, PastesBehind
  <1> QED BY <1>1, <1>4, <1>5 DEF PasteOrder, PastesBehind

\* The reports of a handler other than hid_type_utf8 have no paste.
LEMMA HandlePasteless ==
    ASSUME IInv, handle_control
    PROVE  \/ Pasteless(todo')
           \/ \E text \in Texts : Enter(TextCalls(text), "release_twice")
  <1> USE Zenon
  <1>1. ASSUME NEW held, NEW pos, NEW delta, NEW motion, NEW paced, NEW mods, NEW keys
        PROVE  /\ ~Pastes(MouseReport(held, delta)) /\ ~Pastes(TouchReport(held, pos, delta, motion))
               /\ ~Pastes(KeyboardReport(mods, keys, paced, FALSE))
    BY DEF Pastes, MouseReport, TouchReport, KeyboardReport, MakeReport
  <1>2. ASSUME NEW key \in Keys, NEW release \in BOOLEAN, hid_scancode(key, release)
        PROVE  Pasteless(todo')
    <2>1. todo' = <<>> \/ todo' = <<KeyboardReport(modifiers', usages', FALSE, FALSE)>>
      BY <1>2 DEF hid_scancode, Enter
    <2> QED BY <1>1, <2>1, PastelessCalls
  <1>3. ASSUME NEW text \in Texts, hid_type_utf8(text)
        PROVE  Pasteless(todo') \/ Enter(TextCalls(text), "release_twice")
    <2>1. \/ todo' = <<KeyboardReport(modifiers \cup text[1].mods,
                                      usages \cup {text[1].usage}, TRUE, FALSE),
                       KeyboardReport(modifiers, usages, TRUE, FALSE)>>
          \/ Enter(TextCalls(text), "release_twice")
      BY <1>3 DEF hid_type_utf8, Enter
    <2> QED BY <1>1, <2>1, PastelessCalls
  <1>4. ASSUME NEW pos \in Positions, NEW changed \in SUBSET Buttons, NEW down \in BOOLEAN,
               hid_absolute(pos, changed, down)
        PROVE  Pasteless(todo')
    <2>1. PICK a, b : /\ ~Pastes(a) /\ ~Pastes(b)
                      /\ todo' = <<a>> \o <<>> \/ todo' = <<a>> \o <<b>>
      BY <1>1, <1>4 DEF hid_absolute, Enter
    <2>2. <<>> \in Seq({a, b}) /\ <<a>> \in Seq({a, b}) /\ <<b>> \in Seq({a, b})
      BY SMT
    <2>3. Pasteless(<<>>) /\ Pasteless(<<a>>) /\ Pasteless(<<b>>)
      BY <2>1, PastelessCalls
    <2>4. Pasteless(<<a>> \o <<>>) /\ Pasteless(<<a>> \o <<b>>)
      BY <2>2, <2>3, PastelessJoin
    <2> QED BY <2>1, <2>4
  <1>5. ASSUME NEW next \in SUBSET Buttons, NEW n \in 0..MaxChunks, hid_relative(next, n)
        PROVE  Pasteless(todo')
    <2> DEFINE a == TouchReport(next, position, FALSE, FALSE)
               b == MouseReport(next, TRUE)
               c == MouseReport(next, FALSE)
               f == [i \in 1..n |-> b]
    <2>1. \E s \in {<<>>, <<a>>}, t \in {f, <<>>, <<c>>} : todo' = s \o t
      BY <1>5 DEF hid_relative, Enter
    <2>2. ~Pastes(a) /\ ~Pastes(b) /\ ~Pastes(c)
      BY <1>1
    <2>3. n \in Nat
      BY SMT, BoundsAssumption
    <2> HIDE DEF a, b, c
    <2>4. /\ <<>> \in Seq({a, b, c}) /\ <<a>> \in Seq({a, b, c}) /\ <<c>> \in Seq({a, b, c})
          /\ f \in Seq({a, b, c})
      BY SMT, <2>3
    <2>5. Pasteless(f)
      BY <2>2 DEF Pasteless
    <2> HIDE DEF f
    <2>6. Pasteless(<<>>) /\ Pasteless(<<a>>) /\ Pasteless(<<c>>)
      BY <2>2, PastelessCalls
    <2>7. \A s \in {<<>>, <<a>>}, t \in {f, <<>>, <<c>>} : Pasteless(s \o t)
      BY <2>4, <2>5, <2>6, PastelessJoin
    <2> QED BY <2>1, <2>7
  <1>6. ASSUME NEW horizontal \in BOOLEAN, hid_wheel(horizontal)
        PROVE  Pasteless(todo')
    <2>1. \/ todo' = <<MouseReport(buttons, TRUE)>> \/ todo' = <<>>
          \/ todo' = <<TouchReport(buttons, position, TRUE, FALSE)>>
      BY <1>6 DEF hid_wheel, Enter
    <2> QED BY <1>1, <2>1, PastelessCalls
  <1>7. CASE hid_synchronize \/ ReleaseMessage
    <2>1. todo' = NeutralReports \/ todo' = ReleaseCalls
      BY <1>7 DEF hid_synchronize, ReleaseMessage, hid_release_all, Enter
    <2> QED BY <2>1, PastelessCalls
  <1> QED BY <1>2, <1>3, <1>4, <1>5, <1>6, <1>7 DEF handle_control

\* Every step keeps the order of pastes.
LEMMA NextPaste ==
    ASSUME IInv, PasteOrder, [Next]_vars
    PROVE  PasteOrder'
  <1> USE Zenon
  <1>1. ASSUME UNCHANGED <<reports, pending, todo, onfail>>
        PROVE  PasteOrder'
    BY <1>1, PasteStays
  <1>2. ASSUME NEW calls, NEW policy, Enter(calls, policy), Pasteless(todo')
        PROVE  PasteOrder'
    <2>1. UNCHANGED <<reports, pending>>
      BY <1>2 DEF Enter, queueVars, usbVars
    <2> QED BY <1>2, <2>1, PasteStays
  <1>3. CASE UNCHANGED vars
    BY <1>1, <1>3 DEF vars, queueVars, callVars, usbVars
  <1>4. CASE handle_control
    <2>1. \E calls, policy : Enter(calls, policy)
      BY <1>4 DEF handle_control, hid_scancode, hid_type_utf8, hid_absolute, hid_relative,
         hid_wheel, hid_synchronize, ReleaseMessage, hid_release_all
    <2> QED BY <1>2, <1>4, <2>1, HandlePasteless, TextPaste
  <1>5. ~Pastes(MouseReport(buttons, TRUE))
    BY DEF Pastes, MouseReport, MakeReport
  <1>6. ASSUME NEW due \in BOOLEAN, hid_keepalive(due)
        PROVE  PasteOrder'
    <2> PICK calls : Enter(calls, "release") /\ (calls = <<MouseReport(buttons, TRUE)>> \/ calls = <<>>)
      BY <1>6 DEF hid_keepalive
    <2>2. todo' = calls
      BY DEF Enter
    <2> QED BY <1>2, <1>5, <2>2, PastelessCalls
  <1>7. CASE ReleaseAfterFailure \/ hid_flush \/ DrainFlush \/ disconnect_control \/ StopRequested
    <2> PICK calls, policy : Enter(calls, policy) /\ (calls = ReleaseCalls \/ calls = FlushCalls)
      BY <1>7 DEF ReleaseAfterFailure, hid_flush, DrainFlush, disconnect_control,
         StopRequested, hid_release_all
    <2>2. todo' = calls
      BY DEF Enter
    <2> QED BY <1>2, <2>2, PastelessCalls
  <1>8. CASE CallFails
    <2> /\ ReturnFalse(Tail(todo)) /\ UNCHANGED <<reports, pending>>
        /\ todo # <<>> /\ Head(todo).op = "fail"
      BY <1>8 DEF CallFails, CallIs, queueVars, usbVars
    <2>2. ~NeutralKeys(Head(todo))
      BY DEF NeutralKeys
    <2>3. CASE UNCHANGED <<todo, onfail>> \/ Pasteless(todo')
      BY <2>3, PasteStays
    <2> CASE todo' = Tail(todo) /\ onfail' = onfail
      BY <2>2, PasteAfterOther
    <2> QED BY <2>3, ReturnPaste
  <1>9. CASE StartFlush
    <2> /\ UNCHANGED <<reports, pending, onfail>> /\ todo' = Tail(todo)
        /\ todo # <<>> /\ Head(todo).op = "flush"
      BY <1>9 DEF StartFlush, CallIs, queueVars, usbVars
    <2>2. ~NeutralKeys(Head(todo))
      BY DEF NeutralKeys
    <2> QED BY <2>2, PasteAfterOther
  <1>10. CASE CancelQueues
    <2>1. /\ todo # <<>> /\ Head(todo).op = "cancel" /\ todo' = Tail(todo)
          /\ reports' = [q \in Queue |-> <<>>]
      BY <1>10 DEF CallIs, CancelQueues, usbVars
    <2>2. onfail # "release_twice"
      <3>1. 1 \in DOMAIN todo /\ Head(todo) = todo[1]
        BY SMT, <2>1, TailIs DEF IInv, TypeOK, CallTypes
      <3>2. onfail = "ignore"
        BY <2>1, <3>1 DEF IInv, LastReportIsCurrent, CallsSane
      <3> QED BY <3>2
    <2>3. \A i \in DOMAIN todo' : ~Pastes(todo'[i])
      <3>1. \A i \in DOMAIN todo : ~Pastes(todo[i])
        BY <2>2 DEF PasteOrder, PastesBehind
      <3>2. \A i \in DOMAIN Tail(todo) : i + 1 \in DOMAIN todo /\ Tail(todo)[i] = todo[i + 1]
        BY <2>1, TailIs
      <3> QED BY <2>1, <3>1, <3>2
    <2>4. reports'["keyboard"] = <<>> /\ DOMAIN <<>> = {}
      BY SMT, <2>1 DEF Queue
    <2> QED BY <2>3, <2>4 DEF PasteOrder, PastesBehind
  <1>11. CASE ThreadStep
    <2>1. FALSE \in BOOLEAN
      OBVIOUS
    <2> QED BY <1>6, <1>7, <1>8, <1>9, <1>10, <1>11, <2>1, QueueReportPaste,
               FlushPasteOrder DEF ThreadStep
  <1>12. CASE Environment
    <2>1. TRUE \in BOOLEAN
      OBVIOUS
    <2>2. CASE connect_control \/ Exit
      BY <1>1, <2>2 DEF connect_control, Exit, queueVars, callVars, usbVars
    <2>3. ASSUME NEW e \in Endpoint, UsbCompletes(e) \/ UsbLost(e)
          PROVE  PasteOrder'
      <3>1. /\ pending' = [pending EXCEPT ![e] = NoReport]
            /\ UNCHANGED <<reports, todo, onfail>>
        BY <2>3 DEF UsbCompletes, UsbLost, queueVars, callVars
      <3>2. pending \in [Endpoint -> Report \cup {NoReport}]
        BY DEF IInv, TypeOK, UsbTypes
      <3>3. pending'["keyboard"] = pending["keyboard"] \/ pending'["keyboard"] = NoReport
        BY SMT, <3>1, <3>2 DEF Endpoint
      <3> QED BY <3>1, <3>3, PasteStays
    <2>4. ASSUME NEW e \in Endpoint, UsbRestored(e)
          PROVE  PasteOrder'
      BY <1>1, <2>4 DEF UsbRestored, queueVars, callVars
    <2> ASSUME NEW q \in Queue, DelayPasses(q) \/ StallPasses(q)
        PROVE  PasteOrder'
      BY <1>1 DEF DelayPasses, StallPasses, callVars, usbVars
    <2> QED BY <1>6, <1>7, <1>12, <2>1, <2>2, <2>3, <2>4 DEF Environment
  <1> QED BY <1>3, <1>4, <1>11, <1>12 DEF Next

-----------------------------------------------------------------------------

\* The clipboard is replaced only when the host has taken the Command+V press of
\* the paste before it: hid_type_utf8 queues a release of all keys before each
\* paste, and merging, overflow and failures never take it away.
THEOREM PasteOrderKept == Spec => PasteKeepsOrder
  <1> USE Zenon
  <1>1. TypeOK /\ Init => PasteOrder
    <2> SUFFICES ASSUME TypeOK, Init PROVE PasteOrder
      OBVIOUS
    <2>1. todo = ReleaseCalls /\ reports = [q \in Queue |-> <<>>]
      BY DEF Init
    <2>2. IInv
      BY InitAgrees DEF IInv
    <2>3. Pasteless(todo)
      BY <2>1, <2>2, PastelessCalls
    <2>4. reports["keyboard"] = <<>> /\ DOMAIN <<>> = {}
      BY SMT, <2>1 DEF Queue
    <2> QED BY <2>3, <2>4 DEF PasteOrder, PastesBehind, Pasteless
  <1>2. TypeOK /\ LastReportIsCurrent /\ PasteOrder /\ [Next]_vars => PasteOrder'
    BY NextPaste DEF IInv
  <1> DEFINE Replaced ==
               /\ flushing = "keyboard" /\ reports["keyboard"] # <<>> /\ Head(reports["keyboard"]).paste
               /\ Len(reports'["keyboard"]) = Len(reports["keyboard"])
               /\ ~Head(reports'["keyboard"]).paste
             Released == pending["keyboard"] = NoReport \/ pending["keyboard"].held = {}
  <1>3. TypeOK /\ PasteOrder => [Replaced => Released]_vars
    <2> SUFFICES ASSUME TypeOK, PasteOrder, reports["keyboard"] # <<>>,
                        Head(reports["keyboard"]).paste
                 PROVE  Released
      OBVIOUS
    <2>1. reports["keyboard"] \in Seq(Report)
      BY DEF TypeOK, QueueTypes, Queue
    <2>2. 1 \in DOMAIN reports["keyboard"] /\ Head(reports["keyboard"]) = reports["keyboard"][1]
      BY SMT, <2>1
    <2>3. Behind(reports["keyboard"], 1, pending["keyboard"])
      BY <2>2 DEF PasteOrder, PastesBehind
    <2> QED BY <2>3 DEF Behind
  <1> QED
    BY <1>1, <1>2, <1>3, TypeCorrect, ReportsAgree, PTL DEF Spec, PasteKeepsOrder
=============================================================================
