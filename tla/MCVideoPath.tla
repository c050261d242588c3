----------------------------- MODULE MCVideoPath -----------------------------
(* Instances of VideoPath for TLC. *)
EXTENDS VideoPath

\* Parameter sets in one packet, an IDR picture of two NAL units, a P picture
\* of one NAL unit in two fragments.
SmallShapes == [SPS |-> {<<1>>}, PPS |-> {<<1>>}, IDR |-> {<<1, 1>>},
                P |-> {<<2>>}]
=============================================================================
