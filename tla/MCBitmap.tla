------------------------------ MODULE MCBitmap ------------------------------
(* An instance of Bitmap for TLC: the bits about the words' boundary.      *)
EXTENDS Bitmap

MCFilled == {1, 31, 32, 33, 34}
MCFreed  == {0, 1, 30, 31, 32, 33}

=============================================================================
