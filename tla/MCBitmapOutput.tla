--------------------------- MODULE MCBitmapOutput ----------------------------
(* Instances of BitmapOutput for TLC. *)
EXTENDS BitmapOutput

AllModes == {"avc", "bitmap", "progressive"}
DecodedModes == {"bitmap", "progressive"}
BitmapOnly == {"bitmap"}

\* The AVC reader gives up early, the bitmap reader needs a few attempts.
FewAttempts == [avc |-> 2, bitmap |-> 5]
=============================================================================
