----------------------------- MODULE ScanTiming -----------------------------
(***************************************************************************)
(* Nothing in the code stops MagBlock from overwriting ring blocks that a  *)
(* scan still reads: the writer never looks at its readers.  What protects *)
(* a window is the depth of the ring.  This module adds time to ContScan,  *)
(* measured in mag blocks, and asks how long a scan may take before a      *)
(* window can be overwritten under it.                                     *)
(*                                                                         *)
(* Assumed of the environment, per mag block period:                       *)
(*   - a block's copy into the ring executes before the next is enqueued;  *)
(*   - the scan thread enqueues a scan within HostDelay blocks of reading  *)
(*     write_idx (one at least: write_idx itself trails the enqueued       *)
(*     copies by a block between MagBlock's record and its increment);     *)
(*   - the device starts a scan as soon as its stream is free and finishes *)
(*     it within ScanTime blocks.                                          *)
(* The backlog in front of a scan is not assumed: it is bounded by the     *)
(* slot handshake.                                                         *)
(***************************************************************************)
EXTENDS ContScan

CONSTANTS HostDelay, ScanTime

ASSUME TimingAssumption == HostDelay \in Nat \ {0} /\ ScanTime \in Nat

(* What the windows need of the ring: room for a window, for the delay of  *)
(* the thread and for the scans of all slots one after the other.          *)
RingDeepEnough == Cap + HostDelay + Slots * ScanTime <= N

VARIABLE startedAt   \* number of blocks enqueued when the running scan started

timedVars == <<vars, startedAt>>

(* MagBlock may enqueue another block only if no deadline has passed.      *)
OnTime ==
  /\ magDone = readyIdx
  /\ spc \in {"claim", "enqueue"} => readyIdx < scanWi + HostDelay
  /\ scanQ # << >> => running
  /\ running => readyIdx < startedAt + ScanTime

TimedInit == Init /\ startedAt = 0

Tick == MagRecord /\ OnTime /\ UNCHANGED startedAt

TimedGpuStart == GpuStart /\ startedAt' = readyIdx

(* Every other step takes no time of its own.  Stopping the scanner is left *)
(* out: it only takes scans away.                                          *)
Untimed ==
  /\ \/ MagPublish \/ MagCopy \/ ScanThread \/ Worker
     \/ \E r \in {"ok", "err"} : GpuFinish(r)
     \/ Start
  /\ UNCHANGED startedAt

TimedNext == Tick \/ TimedGpuStart \/ Untimed

TimedSpec == TimedInit /\ [][TimedNext]_timedVars

(* No block of the window a scan reads, or will read once it reaches the   *)
(* head of the stream, is overwritten or being overwritten: the copy of    *)
(* block snap + N, which goes to the ring slot of block snap, has not been *)
(* enqueued while the scan is on the stream.                               *)
WindowIntact ==
  \A i \in DOMAIN scanQ : readyIdx <= scanQ[i].snap + N

(***************************************************************************)
(* The strengthening the proof needs: scan number i of the stream ends at  *)
(* most i * ScanTime blocks after the head of the stream started, which is *)
(* still inside the ring.                                                  *)
(***************************************************************************)
HeadStart == IF running THEN startedAt ELSE readyIdx

DeadlineInv ==
  /\ startedAt \in Nat /\ startedAt <= readyIdx
  /\ readyIdx <= writeIdx + 1
  /\ spc \in {"claim", "enqueue"} => readyIdx <= scanWi + HostDelay
  /\ running => readyIdx <= startedAt + ScanTime
  /\ \A i \in 1 .. Len(scanQ) : HeadStart + i * ScanTime <= scanQ[i].snap + N

=============================================================================
