---------------------------- MODULE MCKeystoneAPI ----------------------------
(* Instances of KeystoneAPI for TLC. *)
EXTENDS KeystoneAPI

CONSTANTS p1, p2
=============================================================================
