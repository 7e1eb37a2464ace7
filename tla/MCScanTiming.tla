---------------------------- MODULE MCScanTiming ----------------------------
(* A ring with exactly the slack the timing assumptions ask for, scanned   *)
(* by FT8's thread, which starts the most scans.                           *)
EXTENDS ScanTiming

MCInit == TimedInit /\ variant = "FT8"

MCSpec == MCInit /\ [][TimedNext]_timedVars
=============================================================================
