------------------------------ MODULE ContScan ------------------------------
(***************************************************************************)
(* The continuous Costas scan of FT8Cuda (and of JS8Cuda, which runs the   *)
(* same protocol with two differences, see variant): MagBlock writes mag   *)
(* blocks into a device ring on one CUDA stream; a scan thread polls       *)
(* write_idx, claims one of Slots result slots and enqueues a scan of the  *)
(* last Cap blocks on a second stream; a worker thread waits for the       *)
(* slot's event, runs the decode callback on it and gives the slot back.   *)
(*                                                                         *)
(* A mag block is its sequence number, a scan result is the number of the  *)
(* first block of the window it was computed from.  The contents of the    *)
(* blocks and of the candidate lists are left out; which window a result   *)
(* belongs to is what can go wrong.                                        *)
(***************************************************************************)
EXTENDS Integers, Sequences

CONSTANTS
  N,        \* depth of the mag ring (200, or 128 for the fast JS8 modes)
  Cap,      \* FT8_CAPTURE_BLOCKS / cap_blocks_: blocks in one scan window
  Stride,   \* cont_stride_ / STRIDE: a scan every Stride blocks
  Slots,    \* CONTINUOUS_SLOTS
  MaxWi     \* bound: MagBlock produces this many blocks

ASSUME ScanAssumption ==
  /\ N \in Nat /\ Cap \in Nat \ {0} /\ Stride \in Nat \ {0}
  /\ Slots \in Nat \ {0}
  /\ Cap <= N
  /\ MaxWi \in Nat

VARIABLES
  variant,    \* whose scanner this is: "FT8" (FT8Cuda) or "JS8" (JS8Cuda)
  writeIdx,   \* ring_.write_idx
  readyIdx,   \* blocks covered by the last cudaEventRecord(ring_.ready)
  magDone,    \* blocks whose copy into the ring has executed on MagBlock's stream
  active,     \* cont_scan_active_ / running_
  spc,        \* where the scan thread is
  scanWi,     \* its local wi
  lastScan,   \* last_cont_scan / last_triggered
  stores,     \* slot.dispatched / cont_write_idx_ stores not yet visible
  contWrite,  \* cont_write_idx_
  contRead,   \* cont_read_idx_
  snap,       \* slot.snap_start
  dispatched, \* slot.dispatched
  event,      \* what cudaEventQuery(slot.event) answers
  hostSnap,   \* window whose results are in the slot's pinned host arrays
  scanQ,      \* scans enqueued on the scan stream, the oldest first
  running,    \* the head of scanQ has started executing
  stuck,      \* the scan stream has stopped executing for good
  wpc,        \* where the worker thread is
  ri,         \* the worker's local ri
  stopPc,     \* progress of stop() / the destructor
  stopAt      \* history: slots claimed when stop() / the destructor began

ringVars == <<writeIdx, readyIdx, magDone>>
slotVars == <<snap, dispatched, event, hostSnap>>
scanVars == <<spc, scanWi, lastScan, stores, contWrite>>
gpuVars  == <<scanQ, running, stuck>>
workVars == <<wpc, ri, contRead>>
lifeVars == <<variant, active, stopPc, stopAt>>
vars == <<ringVars, slotVars, scanVars, gpuVars, workVars, lifeVars>>

SlotIds == 0 .. Slots - 1
SlotOf(k) == k % Slots
NoData == -1

Job == [slot : SlotIds, snap : Nat, waits : Nat]

(***************************************************************************)
(* A fresh event that was never recorded answers success.                  *)
(***************************************************************************)
Init ==
  /\ variant \in {"FT8", "JS8"}
  /\ writeIdx = 0 /\ readyIdx = 0 /\ magDone = 0
  /\ active = FALSE
  /\ spc = "poll" /\ scanWi = 0 /\ lastScan = 0 /\ stores = {}
  /\ contWrite = 0 /\ contRead = 0
  /\ snap = [s \in SlotIds |-> 0]
  /\ dispatched = [s \in SlotIds |-> FALSE]
  /\ event = [s \in SlotIds |-> "ok"]
  /\ hostSnap = [s \in SlotIds |-> NoData]
  /\ scanQ = << >> /\ running = FALSE /\ stuck = FALSE
  /\ wpc = "off" /\ ri = 0
  /\ stopPc = "idle" /\ stopAt = 0

-----------------------------------------------------------------------------
(* MagBlock: enqueue the copy of one block and record `ready' after it,    *)
(* then make the block visible.  The device executes the copies in order.  *)
(* The record, and the scan thread's wait on the event it records, each    *)
(* hold ready_mu, so neither sees the other half done.                     *)

MagRecord ==
  /\ readyIdx = writeIdx
  /\ writeIdx < MaxWi
  /\ readyIdx' = writeIdx + 1
  /\ UNCHANGED <<writeIdx, magDone, slotVars, scanVars, gpuVars, workVars, lifeVars>>

MagPublish ==
  /\ writeIdx < readyIdx
  /\ writeIdx' = writeIdx + 1
  /\ UNCHANGED <<readyIdx, magDone, slotVars, scanVars, gpuVars, workVars, lifeVars>>

MagCopy ==
  /\ magDone < readyIdx
  /\ magDone' = magDone + 1
  /\ UNCHANGED <<writeIdx, readyIdx, slotVars, scanVars, gpuVars, workVars, lifeVars>>

-----------------------------------------------------------------------------
(* The scan thread.                                                        *)

(* Mutant of Due: a scan thread that does not look at the running flag.    *)
DueWhenStopped == /\ writeIdx >= Cap
                  /\ writeIdx > lastScan
                  /\ writeIdx % Stride = 0

Due == /\ active
       /\ writeIdx >= Cap
       /\ writeIdx > lastScan
       /\ writeIdx % Stride = 0

(* Slots claimed so far; the scan thread's local cw is Claimed - 1 while   *)
(* it launches a scan.                                                     *)
Claimed == IF "index" \in stores THEN contWrite + 1 ELSE contWrite

(* Mutant of Full: off by one.                                             *)
FullOneLate == contWrite - contRead > Slots

Full == contWrite - contRead >= Slots

(* The loop's poll.  FT8 marks the window as scanned before it looks for a *)
(* slot; JS8 only once it has one.                                         *)
ScanPoll ==
  /\ spc = "poll"
  /\ Due
  /\ scanWi' = writeIdx
  /\ lastScan' = IF variant = "FT8" THEN writeIdx ELSE lastScan
  /\ spc' = "claim"
  /\ UNCHANGED <<stores, contWrite, ringVars, slotVars, gpuVars, workVars, lifeVars>>

(* All slots taken: FT8 drops this window, JS8 polls again.                *)
ScanFull ==
  /\ spc = "claim"
  /\ Full
  /\ spc' = "poll"
  /\ UNCHANGED <<scanWi, lastScan, stores, contWrite, ringVars, slotVars, gpuVars,
                 workVars, lifeVars>>

ScanClaim ==
  /\ spc = "claim"
  /\ ~Full
  /\ snap' = [snap EXCEPT ![SlotOf(contWrite)] = scanWi - Cap]
  /\ lastScan' = scanWi
  /\ stores' = {"dispatched", "index"}
  /\ spc' = "enqueue"
  /\ UNCHANGED <<scanWi, contWrite, dispatched, event, hostSnap, ringVars,
                 gpuVars, workVars, lifeVars>>

(* Stream-wait on the ring's last recorded event, the kernels and the      *)
(* copies to the host arrays, and the record of the slot's event.          *)
EnqueueScan(first, waits) ==
  LET s == SlotOf(Claimed - 1) IN
  /\ spc = "enqueue"
  /\ scanQ' = Append(scanQ, [slot |-> s, snap |-> first, waits |-> waits])
  /\ event' = [event EXCEPT ![s] = "pending"]
  /\ spc' = "publish"
  /\ UNCHANGED <<scanWi, lastScan, stores, contWrite, snap, dispatched, hostSnap,
                 running, stuck, ringVars, workVars, lifeVars>>

(* Mutants of ScanEnqueue: no wait for the ring's event, and a window that *)
(* starts one block early.                                                 *)
ScanEnqueueUnordered == EnqueueScan(scanWi - Cap, 0)

ScanEnqueueOneEarly == EnqueueScan(scanWi - Cap - 1, readyIdx)

ScanEnqueue == EnqueueScan(scanWi - Cap, readyIdx)

(* The two stores that publish the slot.  The store to dispatched is a     *)
(* release, after everything above.  The increment of the index is a       *)
(* relaxed operation: the worker may see it before that store, and before  *)
(* the event is recorded.                                                  *)
StoreFlag(value) ==
  /\ spc = "publish"
  /\ "dispatched" \in stores
  /\ dispatched' = [dispatched EXCEPT ![SlotOf(Claimed - 1)] = value]
  /\ stores' = stores \ {"dispatched"}
  /\ spc' = IF stores' = {} THEN "poll" ELSE "publish"
  /\ UNCHANGED <<scanWi, lastScan, contWrite, snap, event, hostSnap, gpuVars,
                 ringVars, workVars, lifeVars>>

(* Mutants of StoreDispatched: the store is forgotten, and a scan thread   *)
(* that gives up on a claimed slot when it sees the running flag drop.     *)
StoreDispatchedLost == StoreFlag(FALSE)

StoreDispatchedUnlessStopping == StoreFlag(active)

StoreDispatched == StoreFlag(TRUE)

StoreIndex ==
  /\ "index" \in stores
  /\ contWrite' = contWrite + 1
  /\ stores' = stores \ {"index"}
  /\ spc' = IF stores' = {} THEN "poll" ELSE spc
  /\ UNCHANGED <<scanWi, lastScan, slotVars, gpuVars, ringVars, workVars, lifeVars>>

(* JS8's loop ends with the running flag; FT8's scan thread keeps polling, *)
(* with nothing due any more.                                              *)
ScanExit ==
  /\ variant = "JS8"
  /\ spc = "poll"
  /\ ~active /\ stopPc # "idle"
  /\ spc' = "exited"
  /\ UNCHANGED <<scanWi, lastScan, stores, contWrite, slotVars, gpuVars, ringVars,
                 workVars, lifeVars>>

-----------------------------------------------------------------------------
(* The scan stream executes its jobs one after the other, each once the    *)
(* event it waits for has completed, unless it stops for good: the wedge   *)
(* that contWorker's watchdog reports, whatever its cause, at any time.    *)

GpuStart ==
  /\ ~stuck
  /\ scanQ # << >> /\ ~running
  /\ magDone >= Head(scanQ).waits
  /\ running' = TRUE
  /\ UNCHANGED <<scanQ, stuck, slotVars, scanVars, ringVars, workVars, lifeVars>>

(* A scan that fails leaves an error in its event and the host arrays as   *)
(* they were.                                                              *)
GpuFinish(result) ==
  LET j == Head(scanQ) IN
  /\ ~stuck
  /\ scanQ # << >> /\ running
  /\ running' = FALSE
  /\ scanQ' = Tail(scanQ)
  /\ event' = [event EXCEPT ![j.slot] = result]
  /\ hostSnap' = IF result = "ok" THEN [hostSnap EXCEPT ![j.slot] = j.snap] ELSE hostSnap
  /\ UNCHANGED <<snap, dispatched, stuck, scanVars, ringVars, workVars, lifeVars>>

Wedge ==
  /\ ~stuck
  /\ stuck' = TRUE
  /\ UNCHANGED <<scanQ, running, slotVars, scanVars, ringVars, workVars, lifeVars>>

-----------------------------------------------------------------------------
(* contWorker / workerLoop.                                                *)

WorkPoll ==
  /\ wpc = "poll"
  /\ active
  /\ ri # contWrite
  /\ wpc' = "await"
  /\ UNCHANGED <<ri, contRead, slotVars, scanVars, gpuVars, ringVars, lifeVars>>

(* Mutant of WorkDispatched: the index is taken as proof of dispatch.      *)
WorkDispatchedUnchecked ==
  /\ wpc = "await"
  /\ wpc' = "event"
  /\ UNCHANGED <<ri, contRead, slotVars, scanVars, gpuVars, ringVars, lifeVars>>

WorkDispatched ==
  /\ wpc = "await"
  /\ dispatched[SlotOf(ri)]
  /\ wpc' = "event"
  /\ UNCHANGED <<ri, contRead, slotVars, scanVars, gpuVars, ringVars, lifeVars>>

(* The event has completed: run the decode callback if the scan succeeded  *)
(* and found candidates, otherwise go straight to the release.             *)
WorkEvent(candidates) ==
  /\ wpc = "event"
  /\ event[SlotOf(ri)] # "pending"
  /\ wpc' = IF event[SlotOf(ri)] = "ok" /\ candidates THEN "decode" ELSE "release"
  /\ UNCHANGED <<ri, contRead, slotVars, scanVars, gpuVars, ringVars, lifeVars>>

(* The callback returns, or throws and is caught.                          *)
WorkDecoded ==
  /\ wpc = "decode"
  /\ wpc' = "release"
  /\ UNCHANGED <<ri, contRead, slotVars, scanVars, gpuVars, ringVars, lifeVars>>

WorkRelease ==
  /\ wpc = "release"
  /\ dispatched' = [dispatched EXCEPT ![SlotOf(ri)] = FALSE]
  /\ wpc' = "advance"
  /\ UNCHANGED <<ri, contRead, snap, event, hostSnap, scanVars, gpuVars, ringVars, lifeVars>>

WorkAdvance ==
  /\ wpc = "advance"
  /\ ri' = ri + 1
  /\ contRead' = ri + 1
  /\ wpc' = "poll"
  /\ UNCHANGED <<slotVars, scanVars, gpuVars, ringVars, lifeVars>>

WorkExit ==
  /\ wpc = "poll"
  /\ ~active
  /\ wpc' = "exited"
  /\ UNCHANGED <<ri, contRead, slotVars, scanVars, gpuVars, ringVars, lifeVars>>

-----------------------------------------------------------------------------
(* startContinuousScan / start, and stop / the destructor: JS8 joins the   *)
(* scan thread and then the worker, FT8 only the worker.                   *)

Start ==
  /\ stopPc = "idle" /\ ~active
  /\ active' = TRUE
  /\ wpc' = "poll"
  /\ UNCHANGED <<variant, stopPc, stopAt, ri, contRead, slotVars, scanVars, gpuVars, ringVars>>

Stop ==
  /\ stopPc = "idle" /\ active
  /\ active' = FALSE
  /\ stopPc' = IF variant = "JS8" THEN "joinScan" ELSE "joinWorker"
  /\ stopAt' = Claimed
  /\ UNCHANGED <<variant, slotVars, scanVars, gpuVars, ringVars, workVars>>

Join ==
  /\ \/ stopPc = "joinScan" /\ spc = "exited" /\ stopPc' = "joinWorker"
     \/ stopPc = "joinWorker" /\ wpc = "exited" /\ stopPc' = "stopped"
  /\ UNCHANGED <<variant, active, stopAt, slotVars, scanVars, gpuVars, ringVars, workVars>>

Gpu == GpuStart \/ \E r \in {"ok", "err"} : GpuFinish(r)

ScanThread ==
  \/ ScanPoll \/ ScanFull \/ ScanClaim \/ ScanEnqueue
  \/ StoreDispatched \/ StoreIndex \/ ScanExit

Worker ==
  \/ WorkPoll \/ WorkDispatched \/ (\E c \in BOOLEAN : WorkEvent(c))
  \/ WorkDecoded \/ WorkRelease \/ WorkAdvance \/ WorkExit

Next ==
  \/ MagRecord \/ MagPublish \/ MagCopy
  \/ ScanThread \/ Gpu \/ Wedge \/ Worker
  \/ Start \/ Stop \/ Join

Spec == Init /\ [][Next]_vars

(***************************************************************************)
(* Fairness: the operating system keeps running both threads and the       *)
(* joining caller, and the device executes what is on its streams as long  *)
(* as the scan stream is not stuck.  Nothing is assumed of MagBlock's      *)
(* input, of Start or of Stop, nor that a stuck stream never happens.      *)
(***************************************************************************)
Fairness ==
  /\ WF_vars(MagPublish) /\ WF_vars(MagCopy)
  /\ WF_vars(ScanThread) /\ WF_vars(Gpu) /\ WF_vars(Worker) /\ WF_vars(Join)

FairSpec == Spec /\ Fairness

-----------------------------------------------------------------------------
(* Types; a scan on the stream names one of the slots that the code has    *)
(* allocated.                                                              *)
TypeOK ==
  /\ variant \in {"FT8", "JS8"}
  /\ writeIdx \in Nat /\ readyIdx \in Nat /\ magDone \in Nat
  /\ active \in BOOLEAN
  /\ spc \in {"poll", "claim", "enqueue", "publish", "exited"}
  /\ scanWi \in Nat /\ lastScan \in Nat
  /\ stores \in SUBSET {"dispatched", "index"}
  /\ contWrite \in Nat /\ contRead \in Nat /\ ri \in Nat
  /\ snap \in [SlotIds -> Nat]
  /\ dispatched \in [SlotIds -> BOOLEAN]
  /\ event \in [SlotIds -> {"ok", "err", "pending"}]
  /\ hostSnap \in [SlotIds -> Nat \cup {NoData}]
  /\ scanQ \in Seq(Job)
  /\ running \in BOOLEAN /\ stuck \in BOOLEAN
  /\ wpc \in {"off", "poll", "await", "event", "decode", "release", "advance", "exited"}
  /\ stopPc \in {"idle", "joinScan", "joinWorker", "stopped"} /\ stopAt \in Nat

(* The slot the worker is decoding holds the results of the very window    *)
(* its snap_start names, and no scan that would overwrite them is under    *)
(* way: the decoder never pairs one window's candidates with another       *)
(* window's time (FT8Cuda.cc contWorker, launchContScan).                  *)
DecodeCoherent ==
  wpc = "decode" =>
    /\ hostSnap[SlotOf(ri)] = snap[SlotOf(ri)]
    /\ \A i \in DOMAIN scanQ : scanQ[i].slot # SlotOf(ri)

(* A scan kernel only starts when every block of its window has reached    *)
(* the ring: MagBlock's record-then-publish order and the stream wait are  *)
(* enough although the scan thread never waits for the copies.             *)
WindowComplete ==
  running => magDone >= Head(scanQ).snap + Cap

(* Two scans in flight never share a slot, and the scans on the stream     *)
(* never outnumber the slots: the full check bounds the device backlog.    *)
ScansHaveOwnSlots ==
  /\ \A i, j \in DOMAIN scanQ : i # j => scanQ[i].slot # scanQ[j].slot
  /\ Len(scanQ) <= Slots

(***************************************************************************)
(* The strengthening the proofs need.  Scans are numbered by the value of  *)
(* cont_write_idx_ they were claimed with: those below ri are released,    *)
(* those in ri .. Finished - 1 have completed on the device, those in      *)
(* Finished .. Enqueued - 1 are on the stream.                             *)
(***************************************************************************)
Enqueued == IF spc = "enqueue" THEN Claimed - 1 ELSE Claimed
Finished == Enqueued - Len(scanQ)

(* Every block counted by write_idx is covered by a recorded `ready'.      *)
RingOrder == magDone <= readyIdx /\ writeIdx <= readyIdx

ScanThreadInv ==
  /\ spc \in {"claim", "enqueue", "publish"} => Cap <= scanWi /\ scanWi <= writeIdx
  /\ spc \in {"enqueue", "publish"} <=> stores # {}
  /\ spc = "enqueue" => "dispatched" \in stores
  /\ spc = "enqueue" => snap[SlotOf(Claimed - 1)] = scanWi - Cap
  /\ "dispatched" \in stores => ri < Claimed /\ ~(wpc = "advance" /\ ri = Claimed - 1)

CountersInv ==
  /\ contRead = ri
  /\ ri <= Finished
  /\ ri <= contWrite
  /\ Claimed <= ri + Slots

(* A slot is marked dispatched only from the scan thread's store, which    *)
(* follows the event record, to the worker's reset.                        *)
DispatchedInv ==
  \A s \in SlotIds : dispatched[s] =>
    \E k \in ri .. Claimed - 1 :
      /\ s = SlotOf(k)
      /\ ~(wpc = "advance" /\ k = ri)
      /\ ~("dispatched" \in stores /\ k = Claimed - 1)

QueueInv ==
  \A i \in 1 .. Len(scanQ) :
    LET s == SlotOf(Finished + i - 1) IN
    /\ scanQ[i].slot = s
    /\ scanQ[i].snap = snap[s]
    /\ scanQ[i].waits >= scanQ[i].snap + Cap
    /\ event[s] = "pending"

CompletedInv ==
  \A k \in ri .. Finished - 1 :
    /\ event[SlotOf(k)] # "pending"
    /\ event[SlotOf(k)] = "ok" => hostSnap[SlotOf(k)] = snap[SlotOf(k)]

RunningInv == running => scanQ # << >> /\ magDone >= Head(scanQ).waits

WorkerInv ==
  /\ wpc \in {"await", "event", "decode", "release", "advance"} => ri < contWrite
  /\ wpc \in {"event", "decode", "release"} => dispatched[SlotOf(ri)]
  /\ wpc \in {"decode", "release", "advance"} => ri < Finished
  /\ wpc = "decode" => event[SlotOf(ri)] = "ok"

IInv ==
  /\ TypeOK /\ RingOrder /\ ScanThreadInv /\ CountersInv /\ DispatchedInv
  /\ QueueInv /\ CompletedInv /\ RunningInv /\ WorkerInv

(* From the moment stop() or the destructor begins, at most one more slot  *)
(* is claimed and one more scan put on the stream, the one the scan thread *)
(* was already launching, in the scan thread that JS8's stop() joins and   *)
(* in FT8's, which nobody joins and which may do it after freeContSlots    *)
(* (~FT8Cuda, run, launchContScan, JS8Cuda::stop, scanLoop).               *)
OneMoreAfterStop == stopPc # "idle" => Claimed <= stopAt + 1

(***************************************************************************)
(* The refinement of ScanFifo: the queue is the slots claimed and not yet  *)
(* given back, by the window each is for.                                  *)
(***************************************************************************)
Pending == [i \in 1 .. Claimed - ri |-> snap[SlotOf(ri + i - 1)]]
LastPut == IF Claimed = 0 THEN -1 ELSE snap[SlotOf(Claimed - 1)]
Phase == CASE wpc = "decode" -> "decoding"
           [] wpc \in {"release", "advance"} -> "done"
           [] OTHER -> "idle"

Fifo == INSTANCE ScanFifo WITH
  Windows <- 0 .. MaxWi, fifo <- Pending, last <- LastPut, phase <- Phase

(* The slots, flags, events and indices together are a bounded queue of    *)
(* windows: whatever the order of the two publishing stores, each claimed  *)
(* window is handed to the decoder once, in order, before its slot is used *)
(* again (launchContScan, scanLoop, contWorker, workerLoop).               *)
ImplementsFifo == Fifo!Spec

(* Every scan that was published is eventually given back: the two         *)
(* unbounded waits of the worker end, unless the scanner is stopped first  *)
(* or the scan stream is stuck (contWorker, workerLoop).  Stated of the    *)
(* scans up to the first that uses a slot again.                           *)
PublishedIsReleased ==
  \A k \in 1 .. Slots + 1 : contWrite >= k ~> (contRead >= k \/ ~active \/ stuck)

(* stop() returns: the worker's two waits, neither of which looks at the   *)
(* running flag, end by themselves, and a stuck scan stream is the only    *)
(* thing that can keep the caller in the join for ever.                    *)
StopReturns == stopPc # "idle" ~> (stopPc = "stopped" \/ stuck)

=============================================================================
