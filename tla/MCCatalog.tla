------------------------------ MODULE MCCatalog ------------------------------
(* Instances of Catalog for TLC. *)
EXTENDS Catalog

CONSTANTS i1, public, internal, u1, u2
=============================================================================
