------------------------------ MODULE MCMount -------------------------------
(* Two processes on one image file, killed at any time.                    *)
EXTENDS Mount, TLC

Symmetry == Permutations(Procs)

=============================================================================
