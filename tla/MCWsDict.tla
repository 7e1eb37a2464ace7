------------------------------ MODULE MCWsDict ------------------------------
(* Two overlapping patterns: one key, and all of them.                     *)
EXTENDS WsDict

MCMatches == [p \in {"a", "**"} |-> IF p = "a" THEN {"a"} ELSE {"a", "b"}]
=============================================================================
