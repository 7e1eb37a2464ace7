--------------------------- MODULE ContScanProofs ---------------------------
(***************************************************************************)
(* Proofs about ContScan for every ring depth, window, stride, number of   *)
(* slots and run length.  The one fact of arithmetic they need is that two *)
(* scan numbers less than Slots apart never share a slot.  The last part   *)
(* is the timing theorem, about ScanTiming.                                *)
(***************************************************************************)
EXTENDS ScanTiming, SequenceTheorems, TLAPS

(* A multiple of S that is smaller than S in size is 0.                    *)
LEMMA SmallMultiple ==
  ASSUME NEW S \in Nat \ {0}, NEW q \in Int, S * q >= 0, S * q < S
  PROVE  q = 0
<1>1. CASE q >= 1
  <2>1. S * q = S * (q - 1) + S
    BY SMT
  <2>2. S * (q - 1) >= 0
    BY <1>1, SMT
  <2> QED BY <2>1, <2>2, SMT
<1>2. CASE q <= -1
  <2>1. S * q = S * (q + 1) - S
    BY SMT
  <2>2. S * (q + 1) <= 0
    BY <1>2, SMT
  <2> QED BY <2>1, <2>2, SMT
<1> QED BY <1>1, <1>2

(* Division with remainder, for the slot arithmetic.                       *)
LEMMA ModDiv ==
  ASSUME NEW S \in Nat \ {0}, NEW a \in Nat
  PROVE  /\ a % S \in 0 .. S - 1
         /\ a \div S \in Int
         /\ a = S * (a \div S) + (a % S)
  BY SMT

(* Numbers less than S apart have different remainders.                    *)
LEMMA ModInjective ==
  ASSUME NEW S \in Nat \ {0}, NEW a \in Nat, NEW b \in Nat,
         a <= b, b < a + S, a % S = b % S
  PROVE  a = b
<1> DEFINE qa == a \div S
           qb == b \div S
<1>1. /\ qa \in Int /\ qb \in Int /\ a % S \in Int
      /\ a = S * qa + (a % S) /\ b = S * qb + (b % S)
  BY ModDiv
<1> HIDE DEF qa, qb
<1>2. b - a = S * (qb - qa)
  BY <1>1, Z3T(60)
<1>3. qb - qa = 0
  <2> DEFINE q == qb - qa
  <2>1. q \in Int /\ S * q >= 0 /\ S * q < S
    BY <1>1, <1>2, SMT
  <2> HIDE DEF q
  <2>2. q = 0
    BY <2>1, SmallMultiple
  <2> QED BY <2>2 DEF q
<1> QED BY <1>1, <1>3, SMT

(* SlotOf maps scan numbers to slots ...                                   *)
LEMMA SlotOfType ==
  ASSUME NEW k \in Nat
  PROVE  SlotOf(k) \in SlotIds
  BY ScanAssumption, ModDiv DEF SlotOf, SlotIds

(* ... and separates any Slots consecutive scans.                          *)
LEMMA SlotOfInjective ==
  ASSUME NEW a \in Nat, NEW b \in Nat,
         a < b + Slots, b < a + Slots, SlotOf(a) = SlotOf(b)
  PROVE  a = b
<1>1. CASE a <= b
  BY <1>1, ScanAssumption, ModInjective DEF SlotOf
<1>2. CASE b <= a
  BY <1>2, ScanAssumption, ModInjective DEF SlotOf
<1> QED BY <1>1, <1>2

-----------------------------------------------------------------------------
(* The counters are naturals, and what the numbers of the scans mean in    *)
(* terms of each other.                                                    *)
LEMMA CountTypes ==
  ASSUME TypeOK, ScanThreadInv, CountersInv
  PROVE  /\ Claimed \in Nat /\ Enqueued \in Nat /\ Finished \in Nat
         /\ Len(scanQ) \in Nat
         /\ ri <= Finished /\ Finished <= Enqueued /\ Enqueued <= Claimed
         /\ contWrite <= Claimed
         /\ "dispatched" \in stores => Claimed - 1 \in Nat
<1>1. Claimed \in Nat /\ contWrite <= Claimed
  BY DEF TypeOK, Claimed
<1>2. "dispatched" \in stores => Claimed - 1 \in Nat
  BY <1>1 DEF TypeOK, ScanThreadInv
<1>3. Enqueued \in Nat /\ Enqueued <= Claimed
  BY <1>1, <1>2 DEF ScanThreadInv, Enqueued
<1>4. Len(scanQ) \in Nat
  BY DEF TypeOK
<1>5. Finished \in Nat /\ Finished <= Enqueued
  BY <1>3, <1>4 DEF Finished, CountersInv, TypeOK
<1> QED BY <1>1, <1>2, <1>3, <1>4, <1>5 DEF CountersInv

(* What appending to a sequence does to its length and its elements.       *)
LEMMA AppendFacts ==
  ASSUME NEW S, NEW q \in Seq(S), NEW e \in S
  PROVE  /\ Len(q) \in Nat /\ Append(q, e) \in Seq(S)
         /\ Len(Append(q, e)) = Len(q) + 1
         /\ \A i \in 1 .. Len(q) : Append(q, e)[i] = q[i]
         /\ Append(q, e)[Len(q) + 1] = e
  OBVIOUS

(* The head of a non-empty stream and the rest of it.                      *)
LEMMA QueueHead ==
  ASSUME TypeOK, scanQ # << >>
  PROVE  /\ Len(scanQ) \in Nat /\ Len(scanQ) >= 1
         /\ Head(scanQ) = scanQ[1]
         /\ scanQ[1].slot \in SlotIds /\ scanQ[1].snap \in Nat /\ scanQ[1].waits \in Nat
         /\ Tail(scanQ) \in Seq(Job)
         /\ Len(Tail(scanQ)) = Len(scanQ) - 1
         /\ \A i \in 1 .. Len(scanQ) - 1 : Tail(scanQ)[i] = scanQ[i + 1]
<1> DEFINE q == scanQ
<1>1. q \in Seq(Job) /\ q # << >>
  BY DEF TypeOK
<1> HIDE DEF q
<1>2. Len(q) \in Nat /\ Len(q) >= 1 /\ Head(q) = q[1]
  BY <1>1
<1>3. q[1] \in Job
  BY <1>1, <1>2
<1>4. /\ Tail(q) \in Seq(Job)
      /\ Len(Tail(q)) = Len(q) - 1
      /\ \A i \in 1 .. Len(q) - 1 : Tail(q)[i] = q[i + 1]
  BY <1>1, <1>2
<1>5. q[1].slot \in SlotIds /\ q[1].snap \in Nat /\ q[1].waits \in Nat
  BY <1>3 DEF Job
<1> QED BY <1>2, <1>4, <1>5 DEF q

(* Nothing is claimed, enqueued or dispatched initially.                   *)
LEMMA InitInv == Init => IInv
<1> SUFFICES ASSUME Init PROVE IInv
  OBVIOUS
<1> USE ScanAssumption DEF Init
<1>1. TypeOK
  <2>1. scanQ \in Seq(Job) /\ Len(scanQ) = 0
    OBVIOUS
  <2>2. stores \in SUBSET {"dispatched", "index"}
    OBVIOUS
  <2> QED BY <2>1, <2>2 DEF TypeOK, SlotIds, NoData
<1>2. Claimed = 0 /\ Enqueued = 0 /\ Finished = 0
  BY DEF Claimed, Enqueued, Finished
<1>3. RingOrder /\ ScanThreadInv /\ CountersInv
  BY <1>2 DEF RingOrder, ScanThreadInv, CountersInv
<1>4. DispatchedInv /\ QueueInv /\ CompletedInv /\ RunningInv /\ WorkerInv
  BY <1>2 DEF DispatchedInv, QueueInv, CompletedInv, RunningInv, WorkerInv
<1> QED BY <1>1, <1>3, <1>4 DEF IInv

-----------------------------------------------------------------------------
(* MagBlock's steps and the lifecycle steps leave the handshake alone.     *)
LEMMA MagStep ==
  ASSUME IInv, MagRecord \/ MagPublish \/ MagCopy
  PROVE  IInv'
<1> USE ScanAssumption DEF IInv
<1>1. /\ UNCHANGED <<slotVars, scanVars, gpuVars, workVars, lifeVars>>
      /\ magDone' >= magDone /\ writeIdx' >= writeIdx
      /\ magDone' <= readyIdx' /\ writeIdx' <= readyIdx'
      /\ magDone' \in Nat /\ writeIdx' \in Nat /\ readyIdx' \in Nat
  BY DEF MagRecord, MagPublish, MagCopy, TypeOK, RingOrder
<1> USE <1>1 DEF slotVars, scanVars, gpuVars, workVars, lifeVars
<1>2. Claimed' = Claimed /\ Enqueued' = Enqueued /\ Finished' = Finished
  BY DEF Claimed, Enqueued, Finished
<1>3. TypeOK' /\ RingOrder'
  BY DEF TypeOK, RingOrder
<1>4. ScanThreadInv' /\ CountersInv'
  BY <1>2 DEF ScanThreadInv, CountersInv, TypeOK
<1>5. DispatchedInv' /\ WorkerInv' /\ CompletedInv' /\ QueueInv'
  BY <1>2 DEF DispatchedInv, WorkerInv, CompletedInv, QueueInv
<1>6. RunningInv'
  <2>1. running => Head(scanQ).waits \in Nat
    BY QueueHead DEF RunningInv
  <2> QED BY <2>1 DEF RunningInv, TypeOK
<1> QED BY <1>3, <1>4, <1>5, <1>6

(* start, stop and join change flags and end threads only.                 *)
LEMMA LifecycleStep ==
  ASSUME IInv, Start \/ Stop \/ Join
  PROVE  IInv'
<1> USE ScanAssumption DEF IInv
<1>1. /\ UNCHANGED <<slotVars, scanVars, gpuVars, ringVars, ri, contRead>>
      /\ wpc' = wpc \/ wpc' = "poll"
      /\ active' \in BOOLEAN
      /\ stopPc' \in {"idle", "joinScan", "joinWorker", "stopped"}
      /\ stopAt' \in Nat /\ variant' = variant
  BY CountTypes DEF Start, Stop, Join, TypeOK, workVars
<1> USE <1>1 DEF slotVars, scanVars, gpuVars, ringVars
<1>2. Claimed' = Claimed /\ Enqueued' = Enqueued /\ Finished' = Finished
  BY DEF Claimed, Enqueued, Finished
<1>4. TypeOK' /\ RingOrder' /\ CountersInv' /\ QueueInv' /\ CompletedInv' /\ RunningInv'
  BY <1>2 DEF TypeOK, RingOrder, CountersInv, QueueInv, CompletedInv, RunningInv
<1>5. ScanThreadInv' /\ WorkerInv'
  BY <1>2 DEF ScanThreadInv, WorkerInv
<1>6. DispatchedInv'
  BY <1>2 DEF DispatchedInv
<1> QED BY <1>4, <1>5, <1>6

-----------------------------------------------------------------------------
(* The scan thread.                                                        *)
LEMMA ScanPollStep ==
  ASSUME IInv, ScanPoll \/ ScanFull \/ ScanExit
  PROVE  IInv'
<1> USE ScanAssumption DEF IInv
<1>1. /\ UNCHANGED <<slotVars, ringVars, gpuVars, workVars, lifeVars, stores, contWrite>>
      /\ spc \in {"poll", "claim"} /\ spc' \in {"poll", "claim", "exited"}
      /\ spc' = "claim" => scanWi' = writeIdx /\ writeIdx >= Cap
      /\ scanWi' \in Nat /\ lastScan' \in Nat
  BY DEF ScanPoll, ScanFull, ScanExit, Due, scanVars, ringVars, TypeOK
<1> USE <1>1 DEF slotVars, ringVars, gpuVars, workVars, lifeVars
<1>2. Claimed' = Claimed /\ Enqueued' = Enqueued /\ Finished' = Finished
  BY DEF Claimed, Enqueued, Finished
<1>3. TypeOK' /\ RingOrder' /\ CountersInv' /\ CompletedInv' /\ RunningInv' /\ QueueInv'
  BY <1>2 DEF TypeOK, RingOrder, CountersInv, CompletedInv, RunningInv, QueueInv
<1>4. ScanThreadInv'
  BY <1>2 DEF ScanThreadInv, TypeOK
<1>5. DispatchedInv' /\ WorkerInv'
  BY <1>2 DEF DispatchedInv, WorkerInv
<1> QED BY <1>3, <1>4, <1>5

(* A claim writes the snap_start of a slot none of the outstanding scans   *)
(* uses, because fewer than Slots are outstanding.                         *)
LEMMA ScanClaimStep ==
  ASSUME IInv, ScanClaim
  PROVE  IInv'
<1> USE ScanAssumption DEF IInv
<1>1. /\ UNCHANGED <<ringVars, gpuVars, workVars, lifeVars>>
      /\ UNCHANGED <<scanWi, contWrite, dispatched, event, hostSnap>>
      /\ stores = {} /\ stores' = {"dispatched", "index"}
      /\ spc = "claim" /\ spc' = "enqueue"
      /\ snap' = [snap EXCEPT ![SlotOf(contWrite)] = scanWi - Cap]
      /\ lastScan' = scanWi
      /\ contWrite < ri + Slots
      /\ Cap <= scanWi /\ scanWi - Cap \in Nat
  BY DEF ScanClaim, Full, ScanThreadInv, CountersInv, TypeOK
<1> USE <1>1 DEF ringVars, gpuVars, workVars, lifeVars
<1>2. /\ Claimed = contWrite /\ Claimed' = contWrite + 1
      /\ Enqueued' = Enqueued /\ Finished' = Finished
      /\ Enqueued = contWrite
  BY DEF Claimed, Enqueued, Finished, TypeOK
<1>3. /\ Finished \in Nat /\ Len(scanQ) \in Nat /\ ri <= Finished /\ Finished <= contWrite
      /\ Finished + Len(scanQ) = contWrite
  BY <1>2, CountTypes DEF Finished, TypeOK
<1>4. SlotOf(contWrite) \in SlotIds
  BY SlotOfType DEF TypeOK
<1>5. \A k \in Nat : ri <= k /\ k < contWrite =>
         SlotOf(k) # SlotOf(contWrite) /\ snap'[SlotOf(k)] = snap[SlotOf(k)]
  <2> TAKE k \in Nat
  <2>1. ASSUME ri <= k, k < contWrite PROVE SlotOf(k) # SlotOf(contWrite)
    BY <2>1, SlotOfInjective DEF TypeOK
  <2>2. SlotOf(k) \in SlotIds
    BY SlotOfType
  <2> QED BY <2>1, <2>2 DEF TypeOK
<1>6. TypeOK'
  <2>1. snap' \in [SlotIds -> Nat]
    BY DEF TypeOK
  <2>2. stores' \in SUBSET {"dispatched", "index"}
    BY <1>1
  <2> QED BY <2>1, <2>2 DEF TypeOK
<1>7. RingOrder' /\ CountersInv' /\ RunningInv'
  BY <1>2 DEF RingOrder, CountersInv, RunningInv, TypeOK
<1>8. ScanThreadInv'
  BY <1>2, <1>3, <1>4 DEF ScanThreadInv, TypeOK, WorkerInv
<1>9. DispatchedInv'
  <2> SUFFICES ASSUME NEW s \in SlotIds, dispatched[s]
               PROVE  \E k \in ri .. contWrite : /\ s = SlotOf(k)
                                                 /\ ~(wpc = "advance" /\ k = ri)
                                                 /\ ~(k = contWrite)
    BY <1>2 DEF DispatchedInv, TypeOK
  <2>1. PICK k \in ri .. contWrite - 1 : s = SlotOf(k) /\ ~(wpc = "advance" /\ k = ri)
    BY <1>2 DEF DispatchedInv
  <2>2. k \in ri .. contWrite /\ k # contWrite
    BY <2>1 DEF TypeOK
  <2> QED BY <2>1, <2>2
<1>10. QueueInv'
  <2> SUFFICES ASSUME NEW i \in 1 .. Len(scanQ)
               PROVE  LET s == SlotOf(Finished + i - 1) IN
                      /\ scanQ[i].slot = s
                      /\ scanQ[i].snap = snap'[s]
                      /\ scanQ[i].waits >= scanQ[i].snap + Cap
                      /\ event[s] = "pending"
    BY <1>2 DEF QueueInv
  <2>1. Finished + i - 1 \in Nat /\ ri <= Finished + i - 1 /\ Finished + i - 1 < contWrite
    BY <1>3 DEF TypeOK
  <2> QED BY <2>1, <1>5 DEF QueueInv
<1>11. CompletedInv'
  <2> SUFFICES ASSUME NEW k \in ri .. Finished - 1
               PROVE  /\ event[SlotOf(k)] # "pending"
                      /\ event[SlotOf(k)] = "ok" => hostSnap[SlotOf(k)] = snap'[SlotOf(k)]
    BY <1>2 DEF CompletedInv
  <2>1. k \in Nat /\ ri <= k /\ k < contWrite
    BY <1>3 DEF TypeOK
  <2> QED BY <2>1, <1>5 DEF CompletedInv
<1>12. WorkerInv'
  BY <1>2 DEF WorkerInv
<1> QED BY <1>6, <1>7, <1>8, <1>9, <1>10, <1>11, <1>12

(* Enqueueing appends scan Claimed - 1 to the stream and makes its event   *)
(* pending; the scans before it use other slots.                           *)
LEMMA ScanEnqueueStep ==
  ASSUME IInv, ScanEnqueue
  PROVE  IInv'
<1> USE ScanAssumption DEF IInv
<1> DEFINE cw == Claimed - 1
           job == [slot |-> SlotOf(cw), snap |-> scanWi - Cap, waits |-> readyIdx]
<1>1. /\ UNCHANGED <<ringVars, workVars, lifeVars, stuck>>
      /\ UNCHANGED <<scanWi, lastScan, stores, contWrite, snap, dispatched, hostSnap, running>>
      /\ spc = "enqueue" /\ spc' = "publish"
      /\ scanQ' = Append(scanQ, job)
      /\ event' = [event EXCEPT ![SlotOf(cw)] = "pending"]
      /\ "dispatched" \in stores
      /\ Cap <= scanWi /\ scanWi <= writeIdx
      /\ snap[SlotOf(cw)] = scanWi - Cap
      /\ ri < Claimed /\ ~(wpc = "advance" /\ ri = cw)
  BY DEF ScanEnqueue, EnqueueScan, ScanThreadInv
<1> USE <1>1 DEF ringVars, workVars, lifeVars
<1>2. /\ cw \in Nat /\ Claimed \in Nat /\ Len(scanQ) \in Nat /\ Finished \in Nat
      /\ ri <= Finished /\ Finished + Len(scanQ) = cw /\ cw < ri + Slots
  <2>1. /\ Claimed \in Nat /\ Claimed - 1 \in Nat /\ Len(scanQ) \in Nat /\ Finished \in Nat
        /\ ri <= Finished
    BY <1>1, CountTypes
  <2>2. Finished + Len(scanQ) = Claimed - 1
    BY <1>1, <2>1 DEF Enqueued, Finished
  <2>3. Claimed - 1 < ri + Slots
    BY <2>1 DEF CountersInv, TypeOK
  <2> QED BY <2>1, <2>2, <2>3
<1>3. SlotOf(cw) \in SlotIds
  BY <1>2, SlotOfType
<1>4. job \in Job
  BY <1>3 DEF Job, TypeOK
<1> HIDE DEF cw
<1>5. /\ scanQ' \in Seq(Job) /\ Len(scanQ') = Len(scanQ) + 1
      /\ \A i \in 1 .. Len(scanQ) : scanQ'[i] = scanQ[i]
      /\ scanQ'[Len(scanQ) + 1] = job
  <2> HIDE DEF job
  <2> QED BY <1>4 DEF TypeOK
<1>6. Claimed' = Claimed /\ Enqueued' = Claimed /\ Finished' = Finished
  BY <1>2, <1>5 DEF Claimed, Enqueued, Finished, cw
<1>7. \A k \in Nat : ri <= k /\ k < cw =>
         SlotOf(k) # SlotOf(cw) /\ event'[SlotOf(k)] = event[SlotOf(k)]
  <2> TAKE k \in Nat
  <2>1. ASSUME ri <= k, k < cw PROVE SlotOf(k) # SlotOf(cw)
    BY <2>1, <1>2, SlotOfInjective DEF TypeOK
  <2>2. SlotOf(k) \in SlotIds
    BY SlotOfType
  <2> QED BY <2>1, <2>2 DEF TypeOK
<1>8. TypeOK' /\ RingOrder'
  BY <1>5 DEF TypeOK, RingOrder
<1>9. ScanThreadInv' /\ CountersInv'
  BY <1>6 DEF ScanThreadInv, CountersInv, cw
<1>10. DispatchedInv'
  BY <1>6 DEF DispatchedInv
<1>11. QueueInv'
  <2> SUFFICES ASSUME NEW i \in 1 .. Len(scanQ) + 1
               PROVE  LET s == SlotOf(Finished + i - 1) IN
                      /\ scanQ'[i].slot = s
                      /\ scanQ'[i].snap = snap[s]
                      /\ scanQ'[i].waits >= scanQ'[i].snap + Cap
                      /\ event'[s] = "pending"
    BY <1>5, <1>6 DEF QueueInv
  <2>1. CASE i \in 1 .. Len(scanQ)
    <3>1. /\ Finished + i - 1 \in Nat
          /\ ri <= Finished + i - 1 /\ Finished + i - 1 < cw
      BY <1>2, <2>1 DEF TypeOK
    <3> QED BY <3>1, <2>1, <1>5, <1>7 DEF QueueInv
  <2>2. CASE i = Len(scanQ) + 1
    <3>1. Finished + i - 1 = cw
      BY <1>2, <2>2
    <3>2. event'[SlotOf(cw)] = "pending"
      BY <1>3 DEF TypeOK
    <3>3. readyIdx >= scanWi - Cap + Cap
      BY DEF RingOrder, TypeOK
    <3> QED BY <3>1, <3>2, <3>3, <2>2, <1>5
  <2> QED BY <2>1, <2>2, <1>2
<1>12. CompletedInv'
  <2> SUFFICES ASSUME NEW k \in ri .. Finished - 1
               PROVE  /\ event'[SlotOf(k)] # "pending"
                      /\ event'[SlotOf(k)] = "ok" => hostSnap[SlotOf(k)] = snap[SlotOf(k)]
    BY <1>6 DEF CompletedInv
  <2>1. k \in Nat /\ ri <= k /\ k < cw
    BY <1>2 DEF TypeOK
  <2> QED BY <2>1, <1>7 DEF CompletedInv
<1>13. RunningInv'
  <2>1. ASSUME running PROVE scanQ' # << >> /\ Head(scanQ') = Head(scanQ)
    <3>1. scanQ # << >>
      BY <2>1 DEF RunningInv
    <3>2. Len(scanQ) >= 1 /\ Len(scanQ) \in Nat /\ Head(scanQ) = scanQ[1]
      BY <3>1, QueueHead
    <3>3. scanQ'[1] = scanQ[1] /\ Len(scanQ') >= 1
      BY <3>2, <1>5
    <3>4. scanQ' # << >> /\ Head(scanQ') = scanQ'[1]
      <4> DEFINE q == scanQ'
      <4>1. q \in Seq(Job) /\ Len(q) >= 1
        BY <3>3, <1>5
      <4> HIDE DEF q
      <4>2. q # << >> /\ Head(q) = q[1]
        BY <4>1
      <4> QED BY <4>2 DEF q
    <3> QED BY <3>2, <3>3, <3>4
  <2> QED BY <2>1 DEF RunningInv
<1>14. WorkerInv'
  <2>1. wpc = "decode" => event'[SlotOf(ri)] = "ok"
    BY <1>2, <1>7 DEF WorkerInv, TypeOK
  <2> QED BY <2>1, <1>6 DEF WorkerInv
<1> QED BY <1>8, <1>9, <1>10, <1>11, <1>12, <1>13, <1>14

(* The release store of dispatched: the slot belongs to the last claimed   *)
(* scan alone.                                                             *)
LEMMA StoreDispatchedStep ==
  ASSUME IInv, StoreDispatched
  PROVE  IInv'
<1> USE ScanAssumption DEF IInv
<1>1. /\ UNCHANGED <<gpuVars, ringVars, workVars, lifeVars>>
      /\ UNCHANGED <<scanWi, lastScan, contWrite, snap, event, hostSnap>>
      /\ spc = "publish" /\ "dispatched" \in stores
      /\ dispatched' = [dispatched EXCEPT ![SlotOf(Claimed - 1)] = TRUE]
      /\ stores' = stores \ {"dispatched"}
      /\ spc' = IF stores' = {} THEN "poll" ELSE "publish"
      /\ ri < Claimed /\ ~(wpc = "advance" /\ ri = Claimed - 1)
  BY DEF StoreDispatched, StoreFlag, ScanThreadInv
<1> USE <1>1 DEF gpuVars, ringVars, workVars, lifeVars
<1>2. Claimed' = Claimed /\ Enqueued' = Enqueued /\ Finished' = Finished
  BY DEF Claimed, Enqueued, Finished
<1>3. Claimed \in Nat /\ Claimed - 1 \in Nat
  BY CountTypes
<1>4. TypeOK' /\ RingOrder' /\ CountersInv' /\ CompletedInv' /\ QueueInv' /\ RunningInv'
  BY <1>2 DEF TypeOK, RingOrder, CountersInv, CompletedInv, QueueInv, RunningInv
<1>5. ScanThreadInv'
  <2>1. spc' \in {"enqueue", "publish"} <=> stores' # {}
    OBVIOUS
  <2> QED BY <2>1, <1>2 DEF ScanThreadInv
<1>6. DispatchedInv'
  <2> SUFFICES ASSUME NEW s \in SlotIds, dispatched'[s]
               PROVE  \E k \in ri .. Claimed - 1 :
                        s = SlotOf(k) /\ ~(wpc = "advance" /\ k = ri)
    BY <1>2 DEF DispatchedInv
  <2>1. CASE s = SlotOf(Claimed - 1)
    <3>1. Claimed - 1 \in ri .. Claimed - 1
      BY <1>3 DEF TypeOK
    <3>2. ~(wpc = "advance" /\ Claimed - 1 = ri)
      OBVIOUS
    <3> QED BY <2>1, <3>1, <3>2
  <2>2. CASE s # SlotOf(Claimed - 1)
    <3>1. dispatched[s]
      BY <2>2 DEF TypeOK
    <3> QED BY <3>1 DEF DispatchedInv
  <2> QED BY <2>1, <2>2
<1>7. WorkerInv'
  <2>1. dispatched[SlotOf(ri)] => dispatched'[SlotOf(ri)]
    BY SlotOfType DEF TypeOK
  <2> QED BY <2>1, <1>2 DEF WorkerInv
<1> QED BY <1>4, <1>5, <1>6, <1>7

(* The relaxed increment of the write index: the scan it publishes is      *)
(* enqueued.                                                               *)
LEMMA StoreIndexStep ==
  ASSUME IInv, StoreIndex
  PROVE  IInv'
<1> USE ScanAssumption DEF IInv
<1>1. /\ UNCHANGED <<slotVars, gpuVars, ringVars, workVars, lifeVars, scanWi, lastScan>>
      /\ "index" \in stores /\ stores' = stores \ {"index"}
      /\ contWrite' = contWrite + 1
      /\ spc \in {"enqueue", "publish"}
      /\ spc' = IF stores' = {} THEN "poll" ELSE spc
      /\ spc = "enqueue" => spc' = "enqueue"
      /\ spc' = "enqueue" => spc = "enqueue"
  BY DEF StoreIndex, ScanThreadInv
<1> USE <1>1 DEF slotVars, gpuVars, ringVars, workVars, lifeVars
<1>2. Claimed' = Claimed /\ Enqueued' = Enqueued /\ Finished' = Finished
  BY DEF Claimed, Enqueued, Finished
<1>3. TypeOK' /\ RingOrder' /\ CountersInv' /\ CompletedInv' /\ QueueInv' /\ RunningInv'
  BY <1>2 DEF TypeOK, RingOrder, CountersInv, CompletedInv, QueueInv, RunningInv
<1>4. ScanThreadInv'
  <2>1. spc' \in {"enqueue", "publish"} <=> stores' # {}
    OBVIOUS
  <2> QED BY <2>1, <1>2 DEF ScanThreadInv
<1>5. DispatchedInv' /\ WorkerInv'
  BY <1>2 DEF DispatchedInv, WorkerInv, TypeOK
<1> QED BY <1>3, <1>4, <1>5

-----------------------------------------------------------------------------
(* The scan stream.                                                        *)
LEMMA WedgeStep ==
  ASSUME IInv, Wedge
  PROVE  IInv'
<1> USE ScanAssumption DEF IInv
<1>1. /\ UNCHANGED <<scanQ, running, slotVars, scanVars, ringVars, workVars, lifeVars>>
      /\ stuck' = TRUE
  BY DEF Wedge
<1> USE <1>1 DEF slotVars, scanVars, ringVars, workVars, lifeVars
<1>2. Claimed' = Claimed /\ Enqueued' = Enqueued /\ Finished' = Finished
  BY DEF Claimed, Enqueued, Finished
<1>3. TypeOK' /\ RingOrder' /\ CountersInv' /\ CompletedInv' /\ QueueInv' /\ RunningInv'
  BY <1>2 DEF TypeOK, RingOrder, CountersInv, CompletedInv, QueueInv, RunningInv
<1>4. ScanThreadInv' /\ DispatchedInv' /\ WorkerInv'
  BY <1>2 DEF ScanThreadInv, DispatchedInv, WorkerInv
<1> QED BY <1>3, <1>4

LEMMA GpuStartStep ==
  ASSUME IInv, GpuStart
  PROVE  IInv'
<1> USE ScanAssumption DEF IInv
<1>1. /\ UNCHANGED <<scanQ, stuck, slotVars, scanVars, ringVars, workVars, lifeVars>>
      /\ running' = TRUE /\ scanQ # << >> /\ magDone >= Head(scanQ).waits
  BY DEF GpuStart
<1> USE <1>1 DEF slotVars, scanVars, ringVars, workVars, lifeVars
<1>2. Claimed' = Claimed /\ Enqueued' = Enqueued /\ Finished' = Finished
  BY DEF Claimed, Enqueued, Finished
<1>3. TypeOK' /\ RingOrder' /\ CountersInv' /\ CompletedInv' /\ QueueInv' /\ RunningInv'
  BY <1>2 DEF TypeOK, RingOrder, CountersInv, CompletedInv, QueueInv, RunningInv
<1>4. ScanThreadInv' /\ DispatchedInv' /\ WorkerInv'
  BY <1>2 DEF ScanThreadInv, DispatchedInv, WorkerInv
<1> QED BY <1>3, <1>4

(* The scan that completes is the oldest on the stream, number Finished.   *)
LEMMA GpuFinishStep ==
  ASSUME IInv, NEW r \in {"ok", "err"}, GpuFinish(r)
  PROVE  IInv'
<1> USE ScanAssumption DEF IInv
<1> DEFINE f == Finished
<1>1. /\ UNCHANGED <<snap, dispatched, stuck, scanVars, ringVars, workVars, lifeVars>>
      /\ scanQ # << >> /\ running' = FALSE /\ scanQ' = Tail(scanQ)
      /\ event' = [event EXCEPT ![scanQ[1].slot] = r]
      /\ hostSnap' = IF r = "ok" THEN [hostSnap EXCEPT ![scanQ[1].slot] = scanQ[1].snap]
                     ELSE hostSnap
  BY QueueHead DEF GpuFinish
<1> USE <1>1 DEF scanVars, ringVars, workVars, lifeVars
<1>2. /\ f \in Nat /\ Len(scanQ) \in Nat /\ Len(scanQ) >= 1 /\ ri <= f
      /\ f + Len(scanQ) = Enqueued /\ Enqueued <= Claimed
      /\ Claimed \in Nat /\ Enqueued \in Nat
      /\ Claimed <= ri + Slots
  BY CountTypes, QueueHead DEF Finished, CountersInv
<1>3. /\ scanQ' \in Seq(Job) /\ Len(scanQ') = Len(scanQ) - 1
      /\ \A i \in 1 .. Len(scanQ) - 1 : scanQ'[i] = scanQ[i + 1]
  BY QueueHead
<1>4. Claimed' = Claimed /\ Enqueued' = Enqueued /\ Finished' = f + 1
  BY <1>2, <1>3 DEF Claimed, Enqueued, Finished
<1>5. scanQ[1].slot = SlotOf(f) /\ scanQ[1].snap = snap[SlotOf(f)] /\ SlotOf(f) \in SlotIds
  <2>1. 1 \in 1 .. Len(scanQ) /\ f + 1 - 1 = f
    BY <1>2
  <2> QED BY <2>1, <1>2, SlotOfType DEF QueueInv
<1> HIDE DEF f
<1>6. \A k \in Nat : ri <= k /\ k < Claimed /\ k # f =>
         /\ event'[SlotOf(k)] = event[SlotOf(k)]
         /\ hostSnap'[SlotOf(k)] = hostSnap[SlotOf(k)]
  <2> SUFFICES ASSUME NEW k \in Nat, ri <= k, k < Claimed, k # f
               PROVE  /\ event'[SlotOf(k)] = event[SlotOf(k)]
                      /\ hostSnap'[SlotOf(k)] = hostSnap[SlotOf(k)]
    OBVIOUS
  <2>1. f < Claimed
    BY <1>2
  <2>2. SlotOf(k) # SlotOf(f)
    BY <2>1, <1>2, SlotOfInjective DEF TypeOK
  <2>3. SlotOf(k) \in SlotIds
    BY SlotOfType
  <2> QED BY <2>2, <2>3, <1>5 DEF TypeOK
<1>7. TypeOK'
  <2>1. snap[SlotOf(f)] \in Nat
    BY <1>5 DEF TypeOK
  <2>2. hostSnap' \in [SlotIds -> Nat \cup {NoData}]
    BY <2>1, <1>5 DEF TypeOK
  <2>3. event' \in [SlotIds -> {"ok", "err", "pending"}]
    BY DEF TypeOK
  <2> HIDE <1>1
  <2>4. UNCHANGED <<snap, dispatched, stuck, scanVars, ringVars, workVars, lifeVars>> /\ running' = FALSE
    BY <1>1
  <2> QED BY <1>3, <2>2, <2>3, <2>4 DEF TypeOK, scanVars, ringVars, workVars, lifeVars
<1>8. RingOrder' /\ RunningInv' /\ DispatchedInv'
  BY <1>4 DEF RingOrder, RunningInv, DispatchedInv
<1>9. ScanThreadInv' /\ CountersInv'
  BY <1>2, <1>4 DEF ScanThreadInv, CountersInv, TypeOK, f
<1>10. QueueInv'
  <2> SUFFICES ASSUME NEW i \in 1 .. Len(scanQ) - 1
               PROVE  LET s == SlotOf(f + 1 + i - 1) IN
                      /\ scanQ'[i].slot = s
                      /\ scanQ'[i].snap = snap[s]
                      /\ scanQ'[i].waits >= scanQ'[i].snap + Cap
                      /\ event'[s] = "pending"
    BY <1>3, <1>4 DEF QueueInv
  <2>1. i + 1 \in 1 .. Len(scanQ) /\ f + 1 + i - 1 = f + (i + 1) - 1
    BY <1>2
  <2>2. /\ f + 1 + i - 1 \in Nat /\ ri <= f + 1 + i - 1 /\ f + 1 + i - 1 < Claimed
        /\ f + 1 + i - 1 # f
    BY <1>2 DEF TypeOK
  <2> QED BY <2>1, <2>2, <1>3, <1>6 DEF QueueInv, f
<1>11. CompletedInv'
  <2> SUFFICES ASSUME NEW k \in ri .. f
               PROVE  /\ event'[SlotOf(k)] # "pending"
                      /\ event'[SlotOf(k)] = "ok" => hostSnap'[SlotOf(k)] = snap[SlotOf(k)]
    BY <1>2, <1>4 DEF CompletedInv
  <2>1. CASE k = f
    BY <2>1, <1>5 DEF TypeOK
  <2>2. CASE k # f
    <3>1. k \in Nat /\ ri <= k /\ k < Claimed /\ k \in ri .. f - 1
      BY <2>2, <1>2 DEF TypeOK
    <3> QED BY <3>1, <2>2, <1>6 DEF CompletedInv, f
  <2> QED BY <2>1, <2>2
<1>12. WorkerInv'
  <2>1. wpc \in {"decode", "release", "advance"} => ri < f /\ ri < f + 1
    BY <1>2 DEF WorkerInv, f, TypeOK
  <2>2. wpc = "decode" => event'[SlotOf(ri)] = event[SlotOf(ri)]
    BY <2>1, <1>2, <1>6 DEF TypeOK
  <2> QED BY <2>1, <2>2, <1>4 DEF WorkerInv
<1> QED BY <1>7, <1>8, <1>9, <1>10, <1>11, <1>12

-----------------------------------------------------------------------------
(* The worker.                                                             *)

(* A slot the worker finds dispatched holds scan ri, already enqueued.     *)
LEMMA DispatchedIsOwn ==
  ASSUME IInv, dispatched[SlotOf(ri)]
  PROVE  /\ ri < Claimed
         /\ wpc # "advance"
         /\ ~("dispatched" \in stores /\ ri = Claimed - 1)
         /\ ri < Enqueued
<1> USE ScanAssumption DEF IInv
<1>1. SlotOf(ri) \in SlotIds
  BY SlotOfType DEF TypeOK
<1>2. PICK k \in ri .. Claimed - 1 : /\ SlotOf(ri) = SlotOf(k)
                                     /\ ~(wpc = "advance" /\ k = ri)
                                     /\ ~("dispatched" \in stores /\ k = Claimed - 1)
  BY <1>1 DEF DispatchedInv
<1>3. k \in Nat /\ k < ri + Slots /\ Claimed \in Nat
  BY CountTypes DEF CountersInv, TypeOK
<1>4. k = ri
  BY <1>2, <1>3, SlotOfInjective DEF TypeOK
<1>5. ri < Enqueued
  BY <1>2, <1>3, <1>4 DEF Enqueued, ScanThreadInv, TypeOK
<1> QED BY <1>2, <1>3, <1>4, <1>5 DEF TypeOK

(* The worker's waits change only where it is.                             *)
LEMMA WorkWaitStep ==
  ASSUME IInv,
         \/ WorkPoll \/ WorkDispatched \/ (\E c \in BOOLEAN : WorkEvent(c))
         \/ WorkDecoded \/ WorkExit
  PROVE  IInv'
<1> USE ScanAssumption DEF IInv
<1>1. /\ UNCHANGED <<ri, contRead, slotVars, scanVars, gpuVars, ringVars, lifeVars>>
      /\ wpc # "advance" /\ wpc' # "advance"
      /\ wpc' \in {"await", "event", "decode", "release", "exited"}
  BY DEF WorkPoll, WorkDispatched, WorkEvent, WorkDecoded, WorkExit
<1>2. /\ wpc' # "exited" => ri < contWrite
      /\ wpc' \in {"event", "decode", "release"} => dispatched[SlotOf(ri)]
      /\ wpc' = "decode" => event[SlotOf(ri)] = "ok"
  BY DEF WorkPoll, WorkDispatched, WorkEvent, WorkDecoded, WorkExit, WorkerInv,
         CountersInv, TypeOK
<1>3. wpc' \in {"decode", "release"} => ri < Finished
  <2>1. CASE wpc = "decode"
    BY <2>1 DEF WorkerInv
  <2>2. ASSUME wpc = "event", event[SlotOf(ri)] # "pending" PROVE ri < Finished
    <3>1. ri < Enqueued
      BY <2>2, DispatchedIsOwn DEF WorkerInv
    <3>2. /\ Finished \in Nat /\ Enqueued \in Nat /\ Len(scanQ) \in Nat
          /\ Finished + Len(scanQ) = Enqueued /\ ri <= Finished
      BY CountTypes DEF Finished
    <3>3. ASSUME ri = Finished PROVE FALSE
      <4>1. 1 \in 1 .. Len(scanQ) /\ Finished + 1 - 1 = ri
        BY <3>1, <3>2, <3>3 DEF TypeOK
      <4> QED BY <4>1, <2>2 DEF QueueInv
    <3> QED BY <3>2, <3>3 DEF TypeOK
  <2> QED BY <2>1, <2>2 DEF WorkPoll, WorkDispatched, WorkEvent, WorkDecoded, WorkExit
<1> USE <1>1 DEF slotVars, scanVars, gpuVars, ringVars, lifeVars
<1>4. Claimed' = Claimed /\ Enqueued' = Enqueued /\ Finished' = Finished
  BY DEF Claimed, Enqueued, Finished
<1>5. TypeOK' /\ RingOrder' /\ CountersInv' /\ CompletedInv' /\ QueueInv' /\ RunningInv'
  BY <1>4 DEF TypeOK, RingOrder, CountersInv, CompletedInv, QueueInv, RunningInv
<1>6. ScanThreadInv' /\ DispatchedInv'
  BY <1>4 DEF ScanThreadInv, DispatchedInv
<1>7. WorkerInv'
  BY <1>2, <1>3, <1>4 DEF WorkerInv
<1> QED BY <1>5, <1>6, <1>7

(* The worker clears the flag of its own slot; the other scans' slots      *)
(* differ.                                                                 *)
LEMMA WorkReleaseStep ==
  ASSUME IInv, WorkRelease
  PROVE  IInv'
<1> USE ScanAssumption DEF IInv
<1>1. /\ UNCHANGED <<ri, contRead, snap, event, hostSnap, scanVars, gpuVars, ringVars, lifeVars>>
      /\ dispatched' = [dispatched EXCEPT ![SlotOf(ri)] = FALSE]
      /\ wpc = "release" /\ wpc' = "advance"
      /\ dispatched[SlotOf(ri)] /\ ri < Finished /\ ri < contWrite
  BY DEF WorkRelease, WorkerInv
<1> USE <1>1 DEF scanVars, gpuVars, ringVars, lifeVars
<1>2. Claimed' = Claimed /\ Enqueued' = Enqueued /\ Finished' = Finished
  BY DEF Claimed, Enqueued, Finished
<1>3. ~("dispatched" \in stores /\ ri = Claimed - 1)
  BY DispatchedIsOwn
<1>4. TypeOK' /\ RingOrder' /\ CountersInv' /\ CompletedInv' /\ QueueInv' /\ RunningInv'
  BY <1>2 DEF TypeOK, RingOrder, CountersInv, CompletedInv, QueueInv, RunningInv
<1>5. ScanThreadInv' /\ WorkerInv'
  BY <1>2, <1>3 DEF ScanThreadInv, WorkerInv
<1>6. DispatchedInv'
  <2> SUFFICES ASSUME NEW s \in SlotIds, dispatched'[s]
               PROVE  \E k \in ri .. Claimed - 1 :
                        /\ s = SlotOf(k)
                        /\ k # ri
                        /\ ~("dispatched" \in stores /\ k = Claimed - 1)
    BY <1>2 DEF DispatchedInv
  <2>1. s # SlotOf(ri) /\ dispatched[s]
    BY DEF TypeOK
  <2>2. PICK k \in ri .. Claimed - 1 : /\ s = SlotOf(k)
                                       /\ ~("dispatched" \in stores /\ k = Claimed - 1)
    BY <2>1 DEF DispatchedInv
  <2> QED BY <2>1, <2>2
<1> QED BY <1>4, <1>5, <1>6

(* The worker goes on to the next number; the slot it leaves is free.      *)
LEMMA WorkAdvanceStep ==
  ASSUME IInv, WorkAdvance
  PROVE  IInv'
<1> USE ScanAssumption DEF IInv
<1>1. /\ UNCHANGED <<slotVars, scanVars, gpuVars, ringVars, lifeVars>>
      /\ ri' = ri + 1 /\ contRead' = ri + 1
      /\ wpc = "advance" /\ wpc' = "poll"
      /\ ri < Finished /\ ri < contWrite
  BY DEF WorkAdvance, WorkerInv
<1> USE <1>1 DEF slotVars, scanVars, gpuVars, ringVars, lifeVars
<1>2. Claimed' = Claimed /\ Enqueued' = Enqueued /\ Finished' = Finished
  BY DEF Claimed, Enqueued, Finished
<1>3. Claimed \in Nat /\ Finished \in Nat
  BY CountTypes
<1>4. TypeOK' /\ RingOrder' /\ QueueInv' /\ RunningInv' /\ WorkerInv'
  BY <1>2 DEF TypeOK, RingOrder, QueueInv, RunningInv, WorkerInv
<1>5. CountersInv' /\ ScanThreadInv' /\ CompletedInv'
  BY <1>2, <1>3 DEF CountersInv, ScanThreadInv, CompletedInv, TypeOK
<1>6. DispatchedInv'
  <2> SUFFICES ASSUME NEW s \in SlotIds, dispatched[s]
               PROVE  \E k \in ri + 1 .. Claimed - 1 :
                        s = SlotOf(k) /\ ~("dispatched" \in stores /\ k = Claimed - 1)
    BY <1>2 DEF DispatchedInv
  <2>1. PICK k \in ri .. Claimed - 1 : /\ s = SlotOf(k) /\ k # ri
                                       /\ ~("dispatched" \in stores /\ k = Claimed - 1)
    BY DEF DispatchedInv
  <2>2. k \in ri + 1 .. Claimed - 1
    BY <2>1, <1>3 DEF TypeOK
  <2> QED BY <2>1, <2>2
<1> QED BY <1>4, <1>5, <1>6

(* A step that changes nothing.                                            *)
LEMMA StutterStep ==
  ASSUME IInv, UNCHANGED vars
  PROVE  IInv'
<1> USE DEF IInv, vars, ringVars, slotVars, scanVars, gpuVars, workVars, lifeVars
<1>1. Claimed' = Claimed /\ Enqueued' = Enqueued /\ Finished' = Finished
  BY DEF Claimed, Enqueued, Finished
<1>2. TypeOK' /\ RingOrder' /\ CountersInv' /\ CompletedInv' /\ QueueInv' /\ RunningInv'
  BY <1>1 DEF TypeOK, RingOrder, CountersInv, CompletedInv, QueueInv, RunningInv
<1>3. ScanThreadInv' /\ DispatchedInv' /\ WorkerInv'
  BY <1>1 DEF ScanThreadInv, DispatchedInv, WorkerInv
<1> QED BY <1>2, <1>3

(* Every step keeps the strengthening.                                     *)
LEMMA NextStep == IInv /\ [Next]_vars => IInv'
<1> SUFFICES ASSUME IInv, [Next]_vars PROVE IInv'
  OBVIOUS
<1>1. CASE MagRecord \/ MagPublish \/ MagCopy
  BY <1>1, MagStep
<1>2. CASE ScanThread
  BY <1>2, ScanPollStep, ScanClaimStep, ScanEnqueueStep, StoreDispatchedStep, StoreIndexStep
     DEF ScanThread
<1>3. CASE Gpu \/ Wedge
  BY <1>3, GpuStartStep, GpuFinishStep, WedgeStep DEF Gpu
<1>4. CASE Worker
  BY <1>4, WorkWaitStep, WorkReleaseStep, WorkAdvanceStep DEF Worker
<1>5. CASE Start \/ Stop \/ Join
  BY <1>5, LifecycleStep
<1>6. CASE UNCHANGED vars
  BY <1>6, StutterStep
<1> QED BY <1>1, <1>2, <1>3, <1>4, <1>5, <1>6 DEF Next

-----------------------------------------------------------------------------
(* The inductive invariant of the slot handshake holds of every behaviour  *)
(* of the scanner, in whichever order the two publishing stores become     *)
(* visible.                                                                *)
THEOREM HandshakeInvariant == Spec => []IInv
  BY InitInv, NextStep, PTL DEF Spec

(* Type correctness: in particular the snap_start stored by launchContScan *)
(* never wraps below block 0 and every enqueued scan names a real slot.    *)
THEOREM TypeCorrect == Spec => []TypeOK
<1>1. IInv => TypeOK
  BY DEF IInv
<1> QED BY <1>1, HandshakeInvariant, PTL

(* Two scans on the stream never share a slot, and they are never more     *)
(* than the slots (the full check of launchContScan and scanLoop).         *)
THEOREM OwnSlots == Spec => []ScansHaveOwnSlots
<1>1. IInv => ScansHaveOwnSlots
  <2> SUFFICES ASSUME IInv PROVE ScansHaveOwnSlots
    OBVIOUS
  <2> USE ScanAssumption DEF IInv
  <2>1. /\ Finished \in Nat /\ Len(scanQ) \in Nat /\ Claimed \in Nat /\ Enqueued \in Nat
        /\ ri <= Finished /\ Enqueued <= Claimed /\ Finished + Len(scanQ) = Enqueued
        /\ Claimed <= ri + Slots
    BY CountTypes DEF Finished, CountersInv
  <2>2. Len(scanQ) <= Slots
    BY <2>1 DEF TypeOK
  <2>3. ASSUME NEW i \in DOMAIN scanQ, NEW j \in DOMAIN scanQ, i # j
        PROVE  scanQ[i].slot # scanQ[j].slot
    <3>1. i \in 1 .. Len(scanQ) /\ j \in 1 .. Len(scanQ)
      BY <2>3 DEF TypeOK
    <3>2. /\ Finished + i - 1 \in Nat /\ Finished + j - 1 \in Nat
          /\ Finished + i - 1 < Finished + j - 1 + Slots
          /\ Finished + j - 1 < Finished + i - 1 + Slots
          /\ Finished + i - 1 # Finished + j - 1
      BY <3>1, <2>1, <2>2, <2>3
    <3>3. SlotOf(Finished + i - 1) # SlotOf(Finished + j - 1)
      BY <3>2, SlotOfInjective
    <3> QED BY <3>1, <3>3 DEF QueueInv
  <2> QED BY <2>2, <2>3 DEF ScansHaveOwnSlots
<1> QED BY <1>1, HandshakeInvariant, PTL

(* The decode callback sees the results of the window its slot names, and  *)
(* the device is not about to overwrite them.                              *)
THEOREM DecodesCoherently == Spec => []DecodeCoherent
<1>1. IInv => DecodeCoherent
  <2> SUFFICES ASSUME IInv, wpc = "decode"
               PROVE  /\ hostSnap[SlotOf(ri)] = snap[SlotOf(ri)]
                      /\ \A i \in DOMAIN scanQ : scanQ[i].slot # SlotOf(ri)
    BY DEF DecodeCoherent
  <2> USE ScanAssumption DEF IInv
  <2>1. /\ Finished \in Nat /\ Len(scanQ) \in Nat /\ Claimed \in Nat /\ Enqueued \in Nat
        /\ Enqueued <= Claimed /\ Finished + Len(scanQ) = Enqueued
        /\ Claimed <= ri + Slots /\ ri < Finished
    BY CountTypes DEF Finished, CountersInv, WorkerInv
  <2>2. hostSnap[SlotOf(ri)] = snap[SlotOf(ri)]
    <3>1. ri \in ri .. Finished - 1
      BY <2>1 DEF TypeOK
    <3> QED BY <3>1 DEF CompletedInv, WorkerInv
  <2>3. ASSUME NEW i \in DOMAIN scanQ PROVE scanQ[i].slot # SlotOf(ri)
    <3>1. i \in 1 .. Len(scanQ)
      BY <2>3 DEF TypeOK
    <3>2. /\ Finished + i - 1 \in Nat /\ ri # Finished + i - 1
          /\ Finished + i - 1 < ri + Slots /\ ri < Finished + i - 1 + Slots
      BY <3>1, <2>1 DEF TypeOK
    <3>3. SlotOf(Finished + i - 1) # SlotOf(ri)
      BY <3>2, SlotOfInjective DEF TypeOK
    <3> QED BY <3>1, <3>3 DEF QueueInv
  <2> QED BY <2>2, <2>3
<1> QED BY <1>1, HandshakeInvariant, PTL

(* A scan kernel never runs before every block of its window is in the     *)
(* ring.                                                                   *)
THEOREM ScansCompleteWindows == Spec => []WindowComplete
<1>1. IInv => WindowComplete
  <2> SUFFICES ASSUME IInv, running PROVE magDone >= Head(scanQ).snap + Cap
    BY DEF WindowComplete
  <2> USE ScanAssumption DEF IInv
  <2>1. scanQ # << >> /\ magDone >= Head(scanQ).waits
    BY DEF RunningInv
  <2>2. /\ Len(scanQ) >= 1 /\ Len(scanQ) \in Nat /\ Head(scanQ) = scanQ[1]
        /\ scanQ[1].snap \in Nat /\ scanQ[1].waits \in Nat
    BY <2>1, QueueHead
  <2>3. scanQ[1].waits >= scanQ[1].snap + Cap
    BY <2>2 DEF QueueInv
  <2> QED BY <2>1, <2>2, <2>3 DEF TypeOK
<1> QED BY <1>1, HandshakeInvariant, PTL

-----------------------------------------------------------------------------
(***************************************************************************)
(* Stopping.  Nothing restarts the scanner, so the scan thread's poll has  *)
(* nothing due any more; what is left is the claim it may be on the way    *)
(* to, which it makes once.                                                *)
(***************************************************************************)
LifeInv ==
  /\ stopPc # "idle" =>
       /\ ~active
       /\ Claimed <= stopAt + 1
       /\ spc = "claim" => Claimed <= stopAt
  /\ stopPc = "idle" /\ ~active => wpc = "off"

(* The lifecycle invariant holds initially and is kept by every step.      *)
LEMMA LifeInit == Init => LifeInv
  BY DEF Init, LifeInv

LEMMA LifeStep == IInv /\ LifeInv /\ [Next]_vars => LifeInv'
<1> SUFFICES ASSUME IInv, LifeInv, [Next]_vars PROVE LifeInv'
  OBVIOUS
<1> USE DEF LifeInv
<1>0. Claimed \in Nat /\ contWrite \in Nat /\ stopAt \in Nat
  BY CountTypes DEF IInv, TypeOK
<1>1. CASE MagRecord \/ MagPublish \/ MagCopy \/ Gpu \/ Wedge
  <2>1. UNCHANGED <<scanVars, wpc, lifeVars>>
    BY <1>1 DEF MagRecord, MagPublish, MagCopy, Gpu, GpuStart, GpuFinish, Wedge, workVars
  <2> QED BY <2>1 DEF scanVars, lifeVars, Claimed
<1>2. CASE ScanPoll
  BY <1>2 DEF ScanPoll, Due, workVars, lifeVars
<1>3. CASE ScanClaim
  <2>1. /\ spc = "claim" /\ spc' = "enqueue" /\ Claimed = contWrite /\ Claimed' = contWrite + 1
        /\ UNCHANGED <<wpc, lifeVars>>
    BY <1>3 DEF ScanClaim, Claimed, IInv, ScanThreadInv, workVars
  <2> QED BY <1>0, <2>1 DEF lifeVars
<1>4. CASE ScanFull \/ ScanEnqueue \/ StoreDispatched \/ StoreIndex \/ ScanExit
  <2>1. /\ UNCHANGED <<wpc, lifeVars>>
        /\ spc' = "claim" => spc = "claim"
    BY <1>4 DEF ScanFull, ScanEnqueue, EnqueueScan, StoreDispatched, StoreFlag, StoreIndex,
         ScanExit, workVars
  <2>2. Claimed' = Claimed
    BY <1>0, <1>4 DEF ScanFull, ScanEnqueue, EnqueueScan, StoreDispatched, StoreFlag,
         StoreIndex, ScanExit, Claimed
  <2> QED BY <2>1, <2>2 DEF lifeVars
<1>5. CASE Worker
  <2>1. UNCHANGED <<scanVars, lifeVars>> /\ wpc # "off"
    BY <1>5 DEF Worker, WorkPoll, WorkDispatched, WorkEvent, WorkDecoded, WorkRelease,
         WorkAdvance, WorkExit
  <2> QED BY <2>1 DEF scanVars, lifeVars, Claimed
<1>6. CASE Start
  BY <1>6 DEF Start
<1>7. CASE Stop
  <2>1. stopPc' # "idle" /\ ~active' /\ stopAt' = Claimed /\ Claimed' = Claimed
    BY <1>7 DEF Stop, scanVars, Claimed
  <2> QED BY <1>0, <2>1
<1>8. CASE Join
  <2>1. UNCHANGED <<active, stopAt, scanVars, wpc>> /\ stopPc # "idle" /\ stopPc' # "idle"
    BY <1>8 DEF Join, workVars
  <2> QED BY <2>1 DEF scanVars, Claimed
<1>9. CASE UNCHANGED vars
  BY <1>9 DEF vars, scanVars, workVars, lifeVars, Claimed
<1> QED BY <1>1, <1>2, <1>3, <1>4, <1>5, <1>6, <1>7, <1>8, <1>9 DEF Next, ScanThread

(* From the beginning of stop() or of the destructor on, at most the scan  *)
(* the scan thread was already launching is still claimed and enqueued,    *)
(* with FT8's scan thread, which is not joined, as with JS8's.             *)
THEOREM StopLaunchesOneMore == Spec => []OneMoreAfterStop
<1>1. LifeInv => OneMoreAfterStop
  BY DEF LifeInv, OneMoreAfterStop
<1> QED BY <1>1, HandshakeInvariant, LifeInit, LifeStep, PTL DEF Spec

-----------------------------------------------------------------------------
(***************************************************************************)
(* The refinement of ScanFifo.  The windows a claim puts in the queue are  *)
(* in order because lastScan is never behind the window claimed last, and  *)
(* the poll only goes on to a claim when write_idx has passed it.          *)
(***************************************************************************)
ClaimInv ==
  /\ readyIdx <= MaxWi
  /\ Claimed > 0 => snap[SlotOf(Claimed - 1)] + Cap <= lastScan
  /\ Claimed > 0 /\ spc = "claim" => snap[SlotOf(Claimed - 1)] + Cap < scanWi

RInv == IInv /\ LifeInv /\ ClaimInv

(* No window has been claimed initially.                                   *)
LEMMA ClaimInit == Init => ClaimInv
  BY ScanAssumption DEF Init, ClaimInv, Claimed

(* The claims stay in order through every step.                            *)
LEMMA ClaimStep == IInv /\ ClaimInv /\ [Next]_vars => ClaimInv'
<1> SUFFICES ASSUME IInv, ClaimInv, [Next]_vars PROVE ClaimInv'
  OBVIOUS
<1> USE ScanAssumption DEF IInv
<1>0. /\ Claimed \in Nat /\ contWrite \in Nat /\ writeIdx \in Nat /\ readyIdx \in Nat
      /\ scanWi \in Nat /\ lastScan \in Nat
      /\ Claimed > 0 => SlotOf(Claimed - 1) \in SlotIds /\ snap[SlotOf(Claimed - 1)] \in Nat
  <2>1. Claimed \in Nat
    BY CountTypes
  <2>2. Claimed > 0 => Claimed - 1 \in Nat
    BY <2>1
  <2> QED BY <2>1, <2>2, SlotOfType DEF TypeOK
<1>1. CASE MagRecord \/ MagPublish \/ MagCopy
  <2>1. readyIdx' <= MaxWi /\ UNCHANGED <<snap, scanVars>>
    BY <1>0, <1>1 DEF MagRecord, MagPublish, MagCopy, ClaimInv, slotVars
  <2> QED BY <2>1 DEF ClaimInv, Claimed, scanVars
<1>2. CASE ScanPoll
  <2>1. /\ UNCHANGED <<stores, contWrite, snap, readyIdx>>
        /\ scanWi' = writeIdx /\ writeIdx > lastScan
        /\ lastScan' \in {writeIdx, lastScan}
    BY <1>2 DEF ScanPoll, Due, slotVars, ringVars
  <2>2. Claimed' = Claimed
    BY <2>1 DEF Claimed
  <2> QED BY <1>0, <2>1, <2>2 DEF ClaimInv
<1>3. CASE ScanClaim
  <2>1. /\ Claimed = contWrite /\ Claimed' = contWrite + 1
        /\ spc' = "enqueue" /\ readyIdx' = readyIdx
        /\ snap' = [snap EXCEPT ![SlotOf(contWrite)] = scanWi - Cap]
        /\ lastScan' = scanWi
    BY <1>3 DEF ScanClaim, Claimed, ringVars, ScanThreadInv
  <2>2. Claimed' - 1 = contWrite /\ SlotOf(contWrite) \in SlotIds
    BY <1>0, <2>1, SlotOfType
  <2>3. snap'[SlotOf(Claimed' - 1)] = scanWi - Cap
    BY <2>1, <2>2 DEF TypeOK
  <2> QED BY <1>0, <2>1, <2>3 DEF ClaimInv, SlotOf
<1>4. CASE ScanFull \/ ScanEnqueue \/ StoreDispatched \/ StoreIndex \/ ScanExit
  <2>1. /\ UNCHANGED <<scanWi, lastScan, snap, readyIdx>> /\ spc' # "claim"
        /\ spc = "claim" => spc' = "poll"
    BY <1>4 DEF ScanFull, ScanEnqueue, EnqueueScan, StoreDispatched, StoreFlag, StoreIndex,
         ScanExit, ringVars, slotVars, ScanThreadInv
  <2>2. Claimed' = Claimed
    BY <1>0, <1>4 DEF ScanFull, ScanEnqueue, EnqueueScan, StoreDispatched, StoreFlag,
         StoreIndex, ScanExit, Claimed
  <2> QED BY <2>1, <2>2 DEF ClaimInv
<1>5. CASE Gpu \/ Wedge \/ Worker \/ Start \/ Stop \/ Join \/ UNCHANGED vars
  <2>1. UNCHANGED <<snap, scanVars, readyIdx>>
    BY <1>5 DEF Gpu, GpuStart, GpuFinish, Wedge, Worker, WorkPoll, WorkDispatched, WorkEvent,
         WorkDecoded, WorkRelease, WorkAdvance, WorkExit, Start, Stop, Join, vars, slotVars,
         ringVars
  <2> QED BY <2>1 DEF ClaimInv, Claimed, scanVars
<1> QED BY <1>1, <1>2, <1>3, <1>4, <1>5 DEF Next, ScanThread

(* The queue of the mapping: its length, its elements and its phase.       *)
LEMMA PendingFacts ==
  ASSUME IInv
  PROVE  /\ Claimed \in Nat /\ ri \in Nat /\ Claimed - ri \in Nat
         /\ Pending \in Seq(Nat) /\ Len(Pending) = Claimed - ri
         /\ Len(Pending) <= Slots
         /\ \A i \in 1 .. Claimed - ri : Pending[i] = snap[SlotOf(ri + i - 1)]
<1> USE ScanAssumption DEF IInv
<1>1. Claimed \in Nat /\ ri \in Nat /\ Claimed - ri \in Nat /\ Claimed - ri <= Slots
  BY CountTypes DEF TypeOK, CountersInv
<1>2. \A i \in 1 .. Claimed - ri : snap[SlotOf(ri + i - 1)] \in Nat
  <2> TAKE i \in 1 .. Claimed - ri
  <2>1. ri + i - 1 \in Nat
    BY <1>1
  <2> QED BY <2>1, SlotOfType DEF TypeOK
<1> DEFINE n == Claimed - ri
<1>3. Pending = [i \in 1 .. n |-> snap[SlotOf(ri + i - 1)]]
  BY DEF Pending
<1>4. n \in Nat /\ \A i \in 1 .. n : snap[SlotOf(ri + i - 1)] \in Nat
  BY <1>1, <1>2
<1> HIDE DEF n
<1>5. Pending \in [1 .. n -> Nat]
  BY <1>3, <1>4
<1>6. Pending \in Seq(Nat) /\ Len(Pending) = n
  BY <1>4, <1>5
<1> QED BY <1>1, <1>3, <1>6 DEF n

(* A step that leaves the slots' windows, the claims and the worker's      *)
(* number alone leaves the queue alone.                                    *)
LEMMA SameQueue ==
  ASSUME Claimed' = Claimed, ri' = ri, snap' = snap
  PROVE  Pending' = Pending /\ LastPut' = LastPut
  BY DEF Pending, LastPut, SlotOf

LEMMA SamePhase ==
  ASSUME wpc' = wpc
  PROVE  Phase' = Phase
  BY DEF Phase

(* The phase of the mapping, by where the worker is.                       *)
LEMMA PhaseIs ==
  /\ wpc = "decode" => Phase = "decoding"
  /\ wpc \in {"release", "advance"} => Phase = "done"
  /\ wpc \notin {"decode", "release", "advance"} => Phase = "idle"
  BY DEF Phase

(* A claim puts its window at the end of the queue.                        *)
LEMMA ClaimPuts ==
  ASSUME RInv, ScanClaim
  PROVE  Fifo!Put(scanWi - Cap) /\ scanWi - Cap \in 0 .. MaxWi
<1> USE ScanAssumption DEF RInv, IInv
<1> DEFINE w == scanWi - Cap
<1>1. /\ Claimed = contWrite /\ Claimed' = contWrite + 1 /\ ri' = ri /\ wpc' = wpc
      /\ snap' = [snap EXCEPT ![SlotOf(contWrite)] = w]
      /\ ~Full /\ spc = "claim"
  BY DEF ScanClaim, Claimed, workVars, ScanThreadInv
<1>2. /\ scanWi \in Nat /\ contWrite \in Nat /\ ri \in Nat /\ Cap <= scanWi
      /\ scanWi <= writeIdx /\ writeIdx \in Nat /\ writeIdx <= MaxWi
      /\ contWrite < ri + Slots /\ ri <= contWrite
  BY <1>1 DEF TypeOK, ScanThreadInv, RingOrder, ClaimInv, Full, CountersInv
<1>3. w \in 0 .. MaxWi /\ w \in Nat
  BY <1>2
<1>4. SlotOf(contWrite) \in SlotIds
  BY <1>2, SlotOfType
<1>5. \A k \in Nat : ri <= k /\ k < contWrite => snap'[SlotOf(k)] = snap[SlotOf(k)]
  <2> SUFFICES ASSUME NEW k \in Nat, ri <= k, k < contWrite
               PROVE  snap'[SlotOf(k)] = snap[SlotOf(k)]
    OBVIOUS
  <2>1. SlotOf(k) # SlotOf(contWrite)
    BY <1>2, SlotOfInjective
  <2>2. SlotOf(k) \in SlotIds
    BY SlotOfType
  <2> QED BY <1>1, <2>1, <2>2 DEF TypeOK
<1>6. snap'[SlotOf(contWrite)] = w
  BY <1>1, <1>4 DEF TypeOK
<1>7. LastPut' = w
  <2>1. Claimed' # 0 /\ Claimed' - 1 = contWrite
    BY <1>1, <1>2
  <2> QED BY <2>1, <1>6 DEF LastPut, SlotOf
<1>8. w > LastPut
  <2>1. CASE Claimed = 0
    BY <2>1, <1>3 DEF LastPut
  <2>2. CASE Claimed # 0
    <3>1. Claimed - 1 \in Nat /\ Claimed > 0
      BY <2>2, <1>1, <1>2
    <3>2. snap[SlotOf(Claimed - 1)] \in Nat
      BY <3>1, SlotOfType DEF TypeOK
    <3>3. snap[SlotOf(Claimed - 1)] + Cap < scanWi
      BY <3>1, <1>1 DEF ClaimInv
    <3> QED BY <2>2, <3>2, <3>3, <1>2 DEF LastPut
  <2> QED BY <2>1, <2>2
<1> HIDE DEF w
<1>9. Len(Pending) < Slots /\ Pending' = Append(Pending, w)
  <2> DEFINE n == contWrite - ri
  <2>1. /\ n \in Nat /\ Pending \in Seq(Nat) /\ Len(Pending) = n
        /\ \A i \in 1 .. n : Pending[i] = snap[SlotOf(ri + i - 1)]
    BY <1>1, PendingFacts
  <2>2. n < Slots
    BY <1>2
  <2>3. Pending' = [i \in 1 .. n + 1 |-> snap'[SlotOf(ri + i - 1)]]
    <3>1. Claimed' - ri' = n + 1
      BY <1>1, <1>2
    <3>2. Pending' = [i \in 1 .. Claimed' - ri' |-> snap'[SlotOf(ri' + i - 1)]]
      BY DEF Pending, SlotOf
    <3> QED BY <3>1, <3>2, <1>1
  <2>4. \A i \in 1 .. n : snap'[SlotOf(ri + i - 1)] = Pending[i]
    <3> TAKE i \in 1 .. n
    <3>1. ri + i - 1 \in Nat /\ ri <= ri + i - 1 /\ ri + i - 1 < contWrite
      BY <1>2, <2>1
    <3> QED BY <3>1, <2>1, <1>5
  <2>5. snap'[SlotOf(ri + (n + 1) - 1)] = w
    <3>1. ri + (n + 1) - 1 = contWrite
      BY <1>2
    <3> QED BY <3>1, <1>6
  <2> HIDE DEF n
  <2>6. /\ Append(Pending, w) \in Seq(Nat) /\ Len(Append(Pending, w)) = n + 1
        /\ \A i \in 1 .. n : Append(Pending, w)[i] = Pending[i]
        /\ Append(Pending, w)[n + 1] = w
    BY <1>3, <2>1, AppendProperties
  <2>7. \A i \in 1 .. n + 1 : snap'[SlotOf(ri + i - 1)] = Append(Pending, w)[i]
    BY <2>1, <2>4, <2>5, <2>6
  <2>8. Pending' = Append(Pending, w)
    <3> DEFINE q == Append(Pending, w)
    <3>1. q \in Seq(Nat) /\ Len(q) = n + 1
      BY <2>6
    <3>2. Pending' = [i \in 1 .. n + 1 |-> q[i]]
      BY <2>3, <2>7
    <3> HIDE DEF q
    <3>3. q = [i \in 1 .. n + 1 |-> q[i]]
      BY <3>1, LenProperties
    <3> QED BY <3>2, <3>3 DEF q
  <2> QED BY <2>1, <2>2, <2>8
<1>10. Phase' = Phase
  BY <1>1, SamePhase
<1> QED BY <1>3, <1>7, <1>8, <1>9, <1>10 DEF Fifo!Put, w

(* Giving back the oldest slot drops the head of the queue.                *)
LEMMA AdvanceDrops ==
  ASSUME RInv, WorkAdvance
  PROVE  Fifo!Drop
<1> USE ScanAssumption DEF RInv, IInv
<1>1. /\ ri' = ri + 1 /\ wpc = "advance" /\ wpc' = "poll"
      /\ UNCHANGED <<snap, stores, contWrite>>
  BY DEF WorkAdvance, slotVars, scanVars
<1>2. Claimed' = Claimed
  BY <1>1 DEF Claimed
<1>3. Phase = "done" /\ Phase' = "idle"
  BY <1>1, PhaseIs DEF Phase
<1>4. LastPut' = LastPut
  BY <1>1, <1>2 DEF LastPut, SlotOf
<1>5. Pending' = Tail(Pending)
  <2> DEFINE n == Claimed - ri
  <2>1. /\ n \in Nat /\ Pending \in Seq(Nat) /\ Len(Pending) = n
        /\ \A i \in 1 .. n : Pending[i] = snap[SlotOf(ri + i - 1)]
        /\ Claimed \in Nat /\ ri \in Nat
    BY PendingFacts
  <2>2. ri < Claimed /\ n >= 1
    BY <1>1, <2>1 DEF WorkerInv, Claimed, TypeOK
  <2>3. Pending' = [i \in 1 .. n - 1 |-> snap[SlotOf(ri + 1 + i - 1)]]
    <3>1. Claimed' - ri' = n - 1
      BY <1>1, <1>2, <2>1
    <3>2. Pending' = [i \in 1 .. Claimed' - ri' |-> snap'[SlotOf(ri' + i - 1)]]
      BY DEF Pending, SlotOf
    <3> QED BY <3>1, <3>2, <1>1
  <2>4. \A i \in 1 .. n - 1 : snap[SlotOf(ri + 1 + i - 1)] = Pending[i + 1]
    <3>1. n \in Nat /\ ri \in Nat
      BY <2>1
    <3> HIDE DEF n
    <3> TAKE i \in 1 .. n - 1
    <3>2. i + 1 \in 1 .. n /\ ri + 1 + i - 1 = ri + (i + 1) - 1
      BY <3>1
    <3> QED BY <3>2, <2>1
  <2> HIDE DEF n
  <2>5. /\ Tail(Pending) \in Seq(Nat) /\ Len(Tail(Pending)) = n - 1
        /\ \A i \in 1 .. n - 1 : Tail(Pending)[i] = Pending[i + 1]
    <3>1. Pending # << >>
      BY <2>1, <2>2
    <3> QED BY <2>1, <3>1, HeadTailProperties
  <2>6. Pending' = Tail(Pending)
    <3> DEFINE q == Tail(Pending)
    <3>1. q \in Seq(Nat) /\ Len(q) = n - 1
      BY <2>5
    <3>2. Pending' = [i \in 1 .. n - 1 |-> q[i]]
      BY <2>3, <2>4, <2>5
    <3> HIDE DEF q
    <3>3. q = [i \in 1 .. n - 1 |-> q[i]]
      BY <3>1, LenProperties
    <3> QED BY <3>2, <3>3 DEF q
  <2> QED BY <2>6
<1> QED BY <1>3, <1>4, <1>5 DEF Fifo!Drop

(* The worker's outcome of a scan begins a decode or skips the head, which *)
(* is there: the flag it waited for is that of scan ri.                    *)
LEMMA EventBegins ==
  ASSUME RInv, NEW c \in BOOLEAN, WorkEvent(c)
  PROVE  Fifo!Begin \/ Fifo!Skip
<1> USE ScanAssumption DEF RInv, IInv
<1>1. /\ wpc = "event" /\ wpc' \in {"decode", "release"}
      /\ UNCHANGED <<ri, snap, stores, contWrite>>
  BY DEF WorkEvent, slotVars, scanVars
<1>2. Pending' = Pending /\ LastPut' = LastPut
  BY <1>1, SameQueue DEF Claimed
<1>3. Pending # << >>
  <2>1. Claimed - ri >= 1
    BY <1>1, PendingFacts DEF WorkerInv, Claimed, TypeOK
  <2>2. Len(Pending) >= 1 /\ Len(<< >>) = 0
    BY <2>1, PendingFacts
  <2> QED BY <2>2
<1>4. Phase = "idle" /\ Phase' \in {"decoding", "done"}
  BY <1>1, PhaseIs DEF Phase
<1> QED BY <1>2, <1>3, <1>4 DEF Fifo!Begin, Fifo!Skip

(* Every step of the scanner is a step of the queue, or none.              *)
LEMMA FifoStep == RInv /\ [Next]_vars => [Fifo!Next]_(Fifo!vars)
<1> SUFFICES ASSUME RInv, [Next]_vars PROVE Fifo!Next \/ UNCHANGED Fifo!vars
  OBVIOUS
<1> USE DEF RInv
<1>1. ASSUME UNCHANGED <<ri, snap>>, Claimed' = Claimed, Phase' = Phase
      PROVE  UNCHANGED Fifo!vars
  BY <1>1, SameQueue DEF Fifo!vars
<1>2. CASE MagRecord \/ MagPublish \/ MagCopy \/ Gpu \/ Wedge \/ Stop \/ Join \/ UNCHANGED vars
  <2>1. UNCHANGED <<ri, snap, stores, contWrite, wpc>>
    BY <1>2 DEF MagRecord, MagPublish, MagCopy, Gpu, GpuStart, GpuFinish, Wedge, Stop, Join, vars,
         slotVars, scanVars, workVars
  <2> QED BY <2>1, <1>1, SamePhase DEF Claimed
<1>3. CASE Start
  <2>1. UNCHANGED <<ri, snap, stores, contWrite>> /\ wpc = "off" /\ wpc' = "poll"
    BY <1>3 DEF Start, slotVars, scanVars, LifeInv
  <2>2. Phase' = Phase
    BY <2>1 DEF Phase
  <2> QED BY <2>1, <2>2, <1>1 DEF Claimed
<1>4. CASE ScanClaim
  BY <1>4, ClaimPuts DEF Fifo!Next
<1>5. CASE ScanPoll \/ ScanFull \/ ScanEnqueue \/ StoreDispatched \/ StoreIndex \/ ScanExit
  <2>1. UNCHANGED <<ri, snap, wpc>>
    BY <1>5 DEF ScanPoll, ScanFull, ScanEnqueue, EnqueueScan, StoreDispatched, StoreFlag,
         StoreIndex, ScanExit, slotVars, workVars
  <2>2. Claimed' = Claimed
    BY <1>5 DEF ScanPoll, ScanFull, ScanEnqueue, EnqueueScan, StoreDispatched, StoreFlag,
         StoreIndex, ScanExit, Claimed, IInv, TypeOK
  <2> QED BY <2>1, <2>2, <1>1, SamePhase
<1>6. CASE WorkPoll \/ WorkDispatched \/ WorkRelease \/ WorkExit
  <2>1. UNCHANGED <<ri, snap, stores, contWrite>>
    BY <1>6 DEF WorkPoll, WorkDispatched, WorkRelease, WorkExit, slotVars, scanVars
  <2>2. Phase' = Phase
    BY <1>6 DEF WorkPoll, WorkDispatched, WorkRelease, WorkExit, Phase
  <2> QED BY <2>1, <2>2, <1>1 DEF Claimed
<1>7. CASE \E c \in BOOLEAN : WorkEvent(c)
  BY <1>7, EventBegins DEF Fifo!Next
<1>8. CASE WorkDecoded
  <2>1. UNCHANGED <<ri, snap, stores, contWrite>> /\ wpc = "decode" /\ wpc' = "release"
    BY <1>8 DEF WorkDecoded, slotVars, scanVars
  <2>2. Phase = "decoding" /\ Phase' = "done"
    BY <2>1, PhaseIs DEF Phase
  <2>3. Pending' = Pending /\ LastPut' = LastPut
    BY <2>1, SameQueue DEF Claimed
  <2> QED BY <2>2, <2>3 DEF Fifo!Next, Fifo!End
<1>9. CASE WorkAdvance
  BY <1>9, AdvanceDrops DEF Fifo!Next
<1> QED BY <1>2, <1>3, <1>4, <1>5, <1>6, <1>7, <1>8, <1>9 DEF Next, ScanThread, Worker

(* The slot handshake implements a bounded queue of windows: whatever the  *)
(* order in which the two publishing stores become visible, each claimed   *)
(* window is handed to the decoder at most once, oldest first, and is gone *)
(* before its slot is claimed again.                                       *)
THEOREM RefinesFifo == Spec => ImplementsFifo
<1>1. Init => Fifo!Init
  <2> SUFFICES ASSUME Init PROVE Fifo!Init
    OBVIOUS
  <2>1. Claimed = 0 /\ ri = 0 /\ wpc = "off"
    BY DEF Init, Claimed
  <2>2. Len(Pending) = 0 /\ Pending \in Seq(Nat)
    BY <2>1, InitInv, PendingFacts
  <2>3. Pending = << >>
    BY <2>2
  <2>4. LastPut = -1 /\ Phase = "idle"
    BY <2>1 DEF LastPut, Phase
  <2> QED BY <2>3, <2>4 DEF Fifo!Init
<1>2. Spec => []RInv
  BY HandshakeInvariant, LifeInit, LifeStep, ClaimInit, ClaimStep, PTL DEF Spec, RInv
<1> QED BY <1>1, <1>2, FifoStep, PTL DEF Spec, ImplementsFifo, Fifo!Spec

-----------------------------------------------------------------------------
(***************************************************************************)
(* The timing theorem: with Cap + HostDelay + Slots * ScanTime <= N no     *)
(* window is overwritten while a scan of it is on the stream.              *)
(***************************************************************************)
(* Deadlines are multiples of ScanTime, one apart from entry to entry.     *)
LEMMA NextMultiple ==
  ASSUME NEW i \in Nat, NEW t \in Nat
  PROVE  i * t \in Nat /\ (i + 1) * t = i * t + t
  BY SMT

(* A later entry has a later deadline.                                     *)
LEMMA MultipleMonotone ==
  ASSUME NEW i \in Nat, NEW j \in Nat, NEW t \in Nat, i <= j
  PROVE  i * t \in Nat /\ j * t \in Nat /\ i * t <= j * t
<1>1. (j - i) \in Nat /\ (j - i) * t >= 0
  BY SMT
<1>2. j * t = i * t + (j - i) * t
  BY Z3T(60)
<1> QED BY <1>1, <1>2, SMT

(* An entry of the stream is a job.                                        *)
LEMMA QueueElement ==
  ASSUME TypeOK, NEW i \in 1 .. Len(scanQ)
  PROVE  i \in Nat /\ i >= 1 /\ scanQ[i].snap \in Nat
<1>1. scanQ[i] \in Job
  BY DEF TypeOK
<1> QED BY <1>1 DEF Job, TypeOK

(* A timed step is a step of ContScan.                                     *)
LEMMA TimedIsNext == [TimedNext]_timedVars => [Next]_vars
  BY DEF TimedNext, timedVars, Tick, TimedGpuStart, Untimed, Next, Gpu

(* The stream is empty initially.                                          *)
LEMMA DeadlineInit == TimedInit => DeadlineInv
  BY TimingAssumption DEF TimedInit, Init, DeadlineInv, HeadStart

(* A step that leaves the clock, the stream and the scan thread's launch   *)
(* alone.                                                                  *)
LEMMA DeadlineFrame ==
  ASSUME DeadlineInv, TypeOK, UNCHANGED <<readyIdx, startedAt, scanQ, running, scanWi>>,
         writeIdx' \in {writeIdx, writeIdx + 1},
         spc' \in {"claim", "enqueue"} => spc \in {"claim", "enqueue"}
  PROVE  DeadlineInv'
<1>1. HeadStart' = HeadStart
  BY DEF HeadStart
<1>2. /\ startedAt' \in Nat /\ startedAt' <= readyIdx'
      /\ running' => readyIdx' <= startedAt' + ScanTime
      /\ \A i \in 1 .. Len(scanQ') : HeadStart' + i * ScanTime <= scanQ'[i].snap + N
  BY <1>1 DEF DeadlineInv
<1>3. readyIdx' <= writeIdx' + 1
  <2>1. readyIdx <= writeIdx + 1 /\ readyIdx' = readyIdx
    BY DEF DeadlineInv
  <2>2. readyIdx \in Nat /\ writeIdx \in Nat
    BY DEF TypeOK
  <2>3. CASE writeIdx' = writeIdx
    BY <2>1, <2>3
  <2>4. CASE writeIdx' = writeIdx + 1
    BY <2>1, <2>2, <2>4
  <2> QED BY <2>3, <2>4
<1>4. spc' \in {"claim", "enqueue"} => readyIdx' <= scanWi' + HostDelay
  BY DEF DeadlineInv
<1> QED BY <1>2, <1>3, <1>4 DEF DeadlineInv

(* Every timed step keeps every entry of the stream before its deadline.   *)
LEMMA DeadlineStep ==
  ASSUME RingDeepEnough, IInv, IInv', DeadlineInv, [TimedNext]_timedVars
  PROVE  DeadlineInv'
<1> USE ScanAssumption, TimingAssumption DEF IInv
<1>1. CASE Tick
  <2>1. /\ UNCHANGED <<writeIdx, magDone, slotVars, scanVars, gpuVars, startedAt>>
        /\ readyIdx' = writeIdx + 1 /\ readyIdx = writeIdx /\ OnTime
    BY <1>1 DEF Tick, MagRecord
  <2> USE <2>1 DEF slotVars, scanVars, gpuVars
  <2>2. \A i \in 1 .. Len(scanQ) : HeadStart' = HeadStart
    BY DEF HeadStart, OnTime, TypeOK
  <2> QED BY <2>2 DEF DeadlineInv, OnTime, TypeOK
<1>2. CASE TimedGpuStart
  <2>1. /\ UNCHANGED <<scanQ, slotVars, scanVars, ringVars>>
        /\ ~running /\ running' /\ startedAt' = readyIdx
    BY <1>2 DEF TimedGpuStart, GpuStart
  <2> USE <2>1 DEF slotVars, scanVars, ringVars
  <2>2. HeadStart' = HeadStart
    BY DEF HeadStart
  <2> QED BY <2>2 DEF DeadlineInv, TypeOK
<1>3. CASE Untimed
  <2>1. CASE MagPublish \/ MagCopy \/ Worker \/ Start
    <3>1. /\ UNCHANGED <<readyIdx, scanVars, gpuVars>>
          /\ writeIdx' \in {writeIdx, writeIdx + 1}
      BY <2>1 DEF MagPublish, MagCopy, Worker, WorkPoll, WorkDispatched, WorkEvent,
           WorkDecoded, WorkRelease, WorkAdvance, WorkExit, Start, ringVars, TypeOK
    <3> QED BY <3>1, <1>3, DeadlineFrame DEF scanVars, gpuVars, Untimed
  <2>2. CASE ScanThread
    <3>1. CASE ScanFull \/ ScanClaim \/ StoreDispatched \/ StoreIndex \/ ScanExit
      <4>1. /\ UNCHANGED <<ringVars, gpuVars, scanWi>>
            /\ spc' \in {"claim", "enqueue"} => spc \in {"claim", "enqueue"}
        BY <3>1 DEF ScanFull, ScanClaim, StoreDispatched, StoreFlag, StoreIndex, ScanExit
      <4>2. UNCHANGED <<readyIdx, startedAt, scanQ, running, scanWi, writeIdx>>
        BY <4>1, <1>3 DEF ringVars, gpuVars, Untimed
      <4>3. writeIdx' \in {writeIdx, writeIdx + 1}
        BY <4>2 DEF TypeOK
      <4> QED BY <4>1, <4>2, <4>3, DeadlineFrame
    <3>2. CASE ScanPoll
      <4>1. /\ UNCHANGED <<ringVars, gpuVars, startedAt>>
            /\ scanWi' = writeIdx
        BY <3>2, <1>3 DEF ScanPoll, Untimed
      <4> USE <4>1 DEF ringVars, gpuVars
      <4>2. HeadStart' = HeadStart
        BY DEF HeadStart
      <4> QED BY <4>2 DEF DeadlineInv, TypeOK
    <3>3. CASE ScanEnqueue
      <4> DEFINE job == [slot |-> SlotOf(Claimed - 1), snap |-> scanWi - Cap,
                         waits |-> readyIdx]
                 len == Len(scanQ)
      <4>1. /\ UNCHANGED <<ringVars, running, startedAt, scanWi>>
            /\ scanQ' = Append(scanQ, job)
            /\ spc = "enqueue" /\ spc' = "publish"
        BY <3>3, <1>3 DEF ScanEnqueue, EnqueueScan, Untimed
      <4>2. HeadStart' = HeadStart /\ HeadStart \in Nat /\ HeadStart <= readyIdx
        BY <4>1 DEF HeadStart, ringVars, DeadlineInv, TypeOK
      <4>3. /\ len \in Nat /\ Len(scanQ') = len + 1
            /\ \A i \in 1 .. len : scanQ'[i] = scanQ[i]
            /\ scanQ'[len + 1] = job
        <5>1. SlotOf(Claimed - 1) \in SlotIds
          BY <4>1, CountTypes, SlotOfType DEF ScanThreadInv
        <5>2. job \in Job
          BY <5>1, <4>1 DEF Job, ScanThreadInv, TypeOK
        <5>3. scanQ \in Seq(Job)
          BY DEF TypeOK
        <5> HIDE DEF job, IInv
        <5> QED BY <4>1, <5>2, <5>3, AppendFacts
      <4>4. len + 1 <= Slots
        <5>1. Claimed' = Claimed /\ Claimed <= ri + Slots
          BY <3>3 DEF ScanEnqueue, EnqueueScan, Claimed, CountersInv
        <5>2. /\ len \in Nat /\ Finished \in Nat /\ Claimed \in Nat
              /\ ri <= Finished /\ Enqueued = Claimed - 1 /\ Finished + len = Enqueued
          BY <4>1, CountTypes DEF Enqueued, Finished
        <5>3. ri \in Nat /\ Slots \in Nat
          BY DEF TypeOK
        <5> HIDE DEF len, IInv
        <5> QED BY <5>1, <5>2, <5>3
      <4>5. (len + 1) * ScanTime \in Nat /\ Slots * ScanTime \in Nat
            /\ (len + 1) * ScanTime <= Slots * ScanTime
        BY <4>3, <4>4, MultipleMonotone
      <4>6. HeadStart + (len + 1) * ScanTime <= scanWi - Cap + N
        BY <4>1, <4>2, <4>5 DEF DeadlineInv, TypeOK, RingDeepEnough
      <4>7. \A i \in 1 .. Len(scanQ') : HeadStart' + i * ScanTime <= scanQ'[i].snap + N
        <5> TAKE i \in 1 .. Len(scanQ')
        <5>1. CASE i \in 1 .. len
          BY <5>1, <4>2, <4>3 DEF DeadlineInv
        <5>2. CASE i = len + 1
          <6>1. scanQ'[i].snap = scanWi - Cap
            BY <5>2, <4>3
          <6> QED BY <6>1, <5>2, <4>2, <4>6
        <5> QED BY <5>1, <5>2, <4>3
      <4> QED BY <4>1, <4>7 DEF DeadlineInv, ringVars
    <3> QED BY <2>2, <3>1, <3>2, <3>3 DEF ScanThread
  <2>3. ASSUME NEW r \in {"ok", "err"}, GpuFinish(r) PROVE DeadlineInv'
    <3>1. /\ UNCHANGED <<ringVars, scanVars, startedAt>>
          /\ running /\ ~running' /\ scanQ # << >> /\ scanQ' = Tail(scanQ)
      BY <2>3, <1>3 DEF GpuFinish, Untimed
    <3>2. /\ Len(scanQ) \in Nat /\ Len(scanQ) >= 1 /\ Len(scanQ') = Len(scanQ) - 1
          /\ \A i \in 1 .. Len(scanQ) - 1 : scanQ'[i] = scanQ[i + 1]
      BY <3>1, QueueHead
    <3>3. \A i \in 1 .. Len(scanQ') : HeadStart' + i * ScanTime <= scanQ'[i].snap + N
      <4> TAKE i \in 1 .. Len(scanQ')
      <4>1. i \in Nat /\ i + 1 \in 1 .. Len(scanQ) /\ scanQ'[i] = scanQ[i + 1]
        BY <3>2
      <4>2. scanQ[i + 1].snap \in Nat
        BY <4>1, QueueElement
      <4>3. i * ScanTime \in Nat /\ (i + 1) * ScanTime = i * ScanTime + ScanTime
        BY <4>1, NextMultiple
      <4>4. startedAt + (i + 1) * ScanTime <= scanQ[i + 1].snap + N
        BY <4>1, <3>1 DEF DeadlineInv, HeadStart
      <4>5. HeadStart' = readyIdx /\ readyIdx <= startedAt + ScanTime
        BY <3>1 DEF HeadStart, ringVars, DeadlineInv
      <4>6. readyIdx + i * ScanTime <= scanQ[i + 1].snap + N
        <5> DEFINE p == i * ScanTime
        <5>1. p \in Nat /\ startedAt + (p + ScanTime) <= scanQ[i + 1].snap + N
          BY <4>3, <4>4
        <5> HIDE DEF p
        <5>2. readyIdx \in Nat /\ startedAt \in Nat
          BY DEF TypeOK, DeadlineInv
        <5>3. readyIdx + p <= scanQ[i + 1].snap + N
          BY <5>1, <5>2, <4>2, <4>5
        <5> QED BY <5>3 DEF p
      <4> QED BY <4>1, <4>5, <4>6
    <3> QED BY <3>1, <3>3 DEF DeadlineInv, ringVars, scanVars
  <2> QED BY <1>3, <2>1, <2>2, <2>3 DEF Untimed
<1>4. CASE UNCHANGED timedVars
  <2>1. /\ UNCHANGED <<readyIdx, startedAt, scanQ, running, scanWi, writeIdx, spc>>
    BY <1>4 DEF timedVars, vars, ringVars, gpuVars, scanVars
  <2>2. writeIdx' \in {writeIdx, writeIdx + 1}
    BY <2>1 DEF TypeOK
  <2> QED BY <2>1, <2>2, DeadlineFrame
<1> QED BY <1>1, <1>2, <1>3, <1>4 DEF TimedNext

(* A window is never overwritten while a scan of it is waiting or running, *)
(* provided the ring is deep enough for scans of ScanTime blocks each: the *)
(* eight-slot handshake keeps the backlog short enough.                    *)
THEOREM WindowsStayIntact ==
  ASSUME RingDeepEnough
  PROVE  TimedSpec => []WindowIntact
<1>1. TimedInit => IInv /\ DeadlineInv
  BY InitInv, DeadlineInit DEF TimedInit
<1>2. IInv /\ DeadlineInv /\ [TimedNext]_timedVars => IInv' /\ DeadlineInv'
  BY TimedIsNext, NextStep, DeadlineStep
<1>3. IInv /\ DeadlineInv => WindowIntact
  <2> SUFFICES ASSUME IInv, DeadlineInv, NEW i \in DOMAIN scanQ
               PROVE  readyIdx <= scanQ[i].snap + N
    BY DEF WindowIntact
  <2> USE ScanAssumption, TimingAssumption DEF IInv
  <2>1. i \in 1 .. Len(scanQ) /\ i \in Nat /\ i >= 1 /\ scanQ[i].snap \in Nat
    <3>1. i \in 1 .. Len(scanQ)
      BY DEF TypeOK
    <3> QED BY <3>1, QueueElement
  <2>2. i * ScanTime \in Nat /\ 1 * ScanTime <= i * ScanTime
    BY <2>1, MultipleMonotone
  <2>3. HeadStart + i * ScanTime <= scanQ[i].snap + N
    BY <2>1 DEF DeadlineInv
  <2>4. readyIdx <= HeadStart + ScanTime
    BY DEF HeadStart, DeadlineInv, TypeOK
  <2> DEFINE p == i * ScanTime
  <2>5. p \in Nat /\ ScanTime <= p /\ HeadStart + p <= scanQ[i].snap + N
    BY <2>2, <2>3
  <2>6. HeadStart \in Nat
    BY DEF HeadStart, DeadlineInv, TypeOK
  <2> HIDE DEF p
  <2> QED BY <2>1, <2>4, <2>5, <2>6 DEF TypeOK
<1> QED BY <1>1, <1>2, <1>3, PTL DEF TimedSpec

=============================================================================
