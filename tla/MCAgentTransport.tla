-------------------------- MODULE MCAgentTransport --------------------------
(* Instances of AgentTransport for TLC. *)
EXTENDS AgentTransport

\* One descriptor: its number is reused at once.
OneFd == {3}

\* The RDP peer thread.
PeerCaller == {"peer"}

\* An agent that acknowledges keys, and a peer that is no agent.
KeyAckHellos == {"HELLO_KEY_ACK", "OTHER"}

OnlyPings == {"PING"}
=============================================================================
