----------------------------- MODULE MCAgentInput -----------------------------
(* Instances of AgentInput for TLC. *)
EXTENDS AgentInput

Tap(u) == [kind |-> "tap", mods |-> {}, usage |-> u]
Jamo(u) == [kind |-> "jamo", mods |-> {}, usage |-> u]
Paste(m, u) == [kind |-> "paste", mods |-> {m}, usage |-> u]
Untypeable == [kind |-> "bad"]

\* A shortcut or a typed character, a Hangul letter, two emoji in a row, and a text that fails.
KeyboardTexts == {<<Tap(4)>>, <<Jamo(4)>>, <<Paste(227, 25), Paste(227, 25)>>, <<Tap(4), Untypeable>>}
OnePaste == {<<Paste(227, 25)>>}
=============================================================================
