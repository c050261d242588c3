---------------------------- MODULE MCAvcOutput ----------------------------
(* Instances of AvcOutput for TLC. *)
EXTENDS AvcOutput

\* A small frame, and one that exceeds the byte budget by itself.
SmallAndLarge == {1, 4}
=============================================================================
