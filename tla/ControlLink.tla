----------------------------- MODULE ControlLink -----------------------------
(***************************************************************************)
(* What the control connection promises to the code that uses it: the      *)
(* threads of the gateway that call agent_transport_send and the agent     *)
(* that reads the frames.                                                  *)
(*                                                                         *)
(* Connections are numbered in the order in which they are made.  At most  *)
(* one is published at a time and each publication has an epoch of its     *)
(* own.  A frame is handed to a connection as a whole or not at all, and   *)
(* only within the epoch its sender saw.  The frames of a connection are   *)
(* taken in the order in which they were handed over; a connection that    *)
(* has been cut takes no more of them, and the agent may still take the    *)
(* ones it holds.                                                          *)
(***************************************************************************)
EXTENDS Naturals, Sequences

CONSTANT Messages        \* the types of the frames the gateway sends

VARIABLES
    current,             \* the published connection (0: none)
    reader,              \* the connection the agent reads (0: none)
    wire,                \* connection -> its frames, its epoch, whether it is open
    published            \* publications so far: the latest epoch

linkVars == <<current, reader, wire, published>>

Wires == DOMAIN wire

\* 0 is the epoch of a connection that has not been published.
NewWire == [frames |-> <<>>, epoch |-> 0, open |-> TRUE]

Published(c) == wire[c].epoch # 0

\* Any connections may be cut: by either end, by a failed write, by a timeout.
Cut(w, lost) == [c \in DOMAIN w |-> [w[c] EXCEPT !.open = @ /\ c \notin lost]]

LinkInit == current = 0 /\ reader = 0 /\ wire = <<>> /\ published = 0

Connect == /\ reader = 0
           /\ wire' = Append(wire, NewWire)
           /\ reader' = Len(wire')
           /\ UNCHANGED <<current, published>>

Lose == /\ \E lost \in SUBSET Wires : wire' = Cut(wire, lost)
        /\ UNCHANGED <<current, reader, published>>

\* The connection that is replaced is cut in the same step.
Publish(c) == /\ ~Published(c)
              /\ published' = published + 1
              /\ wire' = [Cut(wire, {current}) EXCEPT ![c].epoch = published']
              /\ current' = c
              /\ UNCHANGED reader

\* A connection is never left open without being the published one.
Retire == /\ current # 0
          /\ wire' = Cut(wire, {current})
          /\ current' = 0
          /\ UNCHANGED <<reader, published>>

\* The sender has seen the connection as the published one; by now another may
\* have taken its place.
Send(c, m) == /\ wire[c].open /\ Published(c)
              /\ wire' = [wire EXCEPT ![c].frames =
                            Append(@, [type |-> m, epoch |-> wire[c].epoch])]
              /\ UNCHANGED <<current, reader, published>>

Take == /\ reader # 0
        /\ wire[reader].frames # <<>>
        /\ wire' = [wire EXCEPT ![reader].frames = Tail(@)]
        /\ UNCHANGED <<current, reader, published>>

Leave == /\ reader # 0
         /\ wire' = [Cut(wire, {reader}) EXCEPT ![reader].frames = <<>>]
         /\ reader' = 0
         /\ UNCHANGED <<current, published>>

LinkNext ==
    \/ Connect \/ Lose \/ Retire \/ Take \/ Leave
    \/ \E c \in Wires : Publish(c) \/ \E m \in Messages : Send(c, m)

LinkSpec == LinkInit /\ [][LinkNext]_linkVars
=============================================================================
