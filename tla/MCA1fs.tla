------------------------------- MODULE MCA1fs -------------------------------
(* Instances of A1fs and Intact for TLC.                                   *)
EXTENDS Intact, TLC

NameSymmetry == Permutations(Names)

=============================================================================
