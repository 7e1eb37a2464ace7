----------------------------- MODULE MCFT8Decode -----------------------------
(* The FT8 receiver: in a behaviour either the decode callback and the     *)
(* refine worker run, or the callsign table of one of them, whose contents *)
(* the window of spots does not depend on.                                 *)
EXTENDS FT8Decode, CallsignTable, TLC

VARIABLE part  \* what runs: "callback" or "table"

(* Two messages; candidates that each decoder cracks, two of them in one   *)
(* bin, one that only the refine worker cracks and one that nobody does.   *)
Cand(bin, score, bp, osd, ref) ==
  [bin |-> bin, score |-> score, bp |-> bp, osd |-> osd, ref |-> ref]

MCCandidates == {
  Cand(1, 2, "m1", "bad", "bad"),
  Cand(1, 1, "fail", "bad", "m1"),
  Cand(2, 3, "fail", "bad", "m1"),
  Cand(2, 2, "fail", "m2", "bad"),
  Cand(3, 1, "bad", "bad", "bad") }

(* Five callsigns, more than the table holds; two share their hash and     *)
(* three their home slot.                                                  *)
CONSTANTS c1, c2, c3, c4, c5

MCHash22 == (c1 :> 1) @@ (c2 :> 5) @@ (c3 :> 1) @@ (c4 :> 2) @@ (c5 :> 7)

mcVars == <<part, vars, tableVars>>

MCInit ==
  /\ part \in {"callback", "table"}
  /\ Init /\ TableInit
  /\ part = "table" => ws

MCNext ==
  \/ part = "callback" /\ Next /\ UNCHANGED <<part, tableVars>>
  \/ part = "table" /\ TableNext /\ UNCHANGED <<part, vars>>

MCSpec == MCInit /\ [][MCNext]_mcVars
=============================================================================
