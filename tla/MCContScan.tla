---------------------------- MODULE MCContScan ----------------------------
(* Small instances of ContScan for TLC, of both variants.                  *)
EXTENDS ContScan
=============================================================================
