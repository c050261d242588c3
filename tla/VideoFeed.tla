------------------------------ MODULE VideoFeed ------------------------------
(***************************************************************************)
(* What the video path promises to the gateway threads that read access    *)
(* units from it (device_session_read): the AVC sender, the bitmap decoder *)
(* and the HTTP decoder.                                                   *)
(*                                                                         *)
(* The encoder numbers its pictures; a P picture can be decoded only after *)
(* the picture before it.  A unit without the packet_loss mark is whole.   *)
(* A P picture is handed over only whole, unmarked and directly after the  *)
(* picture it refers to; a picture of either kind only after an SPS and a  *)
(* PPS.  The promise ends when `assured' becomes FALSE, perhaps with the   *)
(* very unit that is handed over: see VideoPath.                           *)
(***************************************************************************)
EXTENDS Naturals

VARIABLES
    unit,      \* the unit handed over last
    last,      \* its picture, or that of the last unit that had one (0: none)
    params,    \* the kinds of parameter sets handed over since the opening
    assured

feedVars == <<unit, last, params, assured>>

Pictures == {"IDR", "P"}
ParameterSets == {"SPS", "PPS"}

Units == [kind : Pictures \cup ParameterSets, picture : Nat,
          whole : BOOLEAN, packet_loss : BOOLEAN]

NoUnit == [kind |-> "none", picture |-> 0, whole |-> FALSE,
           packet_loss |-> FALSE]

\* What a reader may rely on when it is given the unit u.
Usable(u) ==
    /\ u.packet_loss \/ u.whole
    /\ u.kind \in Pictures => params = ParameterSets
    /\ u.kind = "P" => u.whole /\ ~u.packet_loss /\ u.picture = last + 1

FeedInit == unit = NoUnit /\ last = 0 /\ params = {} /\ assured = TRUE

HandOver ==
    /\ unit' \in Units
    /\ assured' \in BOOLEAN /\ (assured' => assured /\ Usable(unit'))
    /\ last' = IF unit'.kind \in Pictures THEN unit'.picture ELSE last
    /\ params' = params \cup ({unit'.kind} \cap ParameterSets)

Reopen == unit' = NoUnit /\ last' = 0 /\ params' = {} /\ UNCHANGED assured

Forfeit == assured' = FALSE /\ UNCHANGED <<unit, last, params>>

FeedNext == HandOver \/ Reopen \/ Forfeit

FeedSpec == FeedInit /\ [][FeedNext]_feedVars
=============================================================================
