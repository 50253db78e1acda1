---------------------------- MODULE MCFernetKeys ----------------------------
(* Instances of FernetKeys for TLC. *)
EXTENDS FernetKeys, TLC

CONSTANTS p1, p2

\* The pods are alike.
PodSymmetry == Permutations(Pods)
=============================================================================
