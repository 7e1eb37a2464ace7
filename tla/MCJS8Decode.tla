----------------------------- MODULE MCJS8Decode -----------------------------
(* Two messages, one of them on two frequencies; candidates that each      *)
(* decoder cracks, two of them in one bin.                                 *)
EXTENDS JS8Decode

Cand(bin, score, sp, osd, ref) ==
  [bin |-> bin, score |-> score, sp |-> sp, osd |-> osd, ref |-> ref]

MCCandidates == {
  Cand(1, 2, "m1", "bad", "bad"),
  Cand(1, 1, "fail", "bad", "m1"),
  Cand(2, 2, "fail", "m1", "bad"),
  Cand(2, 1, "bad", "bad", "bad"),
  Cand(3, 1, "fail", "bad", "m2") }
=============================================================================
