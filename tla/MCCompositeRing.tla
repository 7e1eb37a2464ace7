--------------------------- MODULE MCCompositeRing ---------------------------
(* Small instances of CompositeRing for TLC.                               *)
EXTENDS CompositeRing
=============================================================================
