--------------------------- MODULE MCRingReaders ---------------------------
EXTENDS RingReaders

(* Past the reuse of a map entry for the refinement, past the reuse of a   *)
(* window's first slot for the skimmer, past RingKeys rows and two rounds  *)
(* of the file for the others.                                             *)
MCBlocks == [k \in Kinds |->
  CASE k = "refine" -> 32 [] k = "skimmer" -> 24 [] k = "none" -> 0 [] OTHER -> 10]

=============================================================================
