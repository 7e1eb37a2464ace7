------------------------- MODULE RingReadersProofs -------------------------
(***************************************************************************)
(* Proofs about RingReaders for every ring depth, window, frame, map and   *)
(* file length, and every lag and read time the assumptions admit.  A      *)
(* behaviour has one reader, so the inductive invariant has a part that    *)
(* all share and one part for each of refineCandidate, the snapshots of    *)
(* the skimmer and the waterfall, the recorder and the player.             *)
(***************************************************************************)
EXTENDS RingReaders, CwTrack, FiniteSetTheorems, WellFoundedInduction,
        SequenceTheorems, TLAPS

ReadRec ==
  [pc : {"idle", "check", "copy", "got", "flight"}, from : Int, len : Nat,
   i : Nat, wait : Nat, since : Nat, ok : BOOLEAN]

(* The counters in order, and a read that began at a published position.   *)
CoreInv ==
  /\ who \in Kinds /\ rd \in ReadRec /\ rd.i <= rd.len
  /\ enq \in 0 .. MaxBlocks[who] /\ event \in 0 .. enq
  /\ pub \in 0 .. event /\ done \in 0 .. enq /\ last \in 0 .. pub
  /\ rd.pc = "idle" => rd = Idle
  /\ Busy => rd.since <= pub

SideTypes ==
  /\ buff \in 0 .. 2 * Sym + 1 /\ magWi \in 0 .. MaxBlocks[who]
  /\ slotMap \in [0 .. MapLen - 1 -> 0 .. MaxBlocks[who]]
  /\ job \in [snap : 0 .. MaxBlocks[who], to : 0 .. MaxTo]
  /\ ws \in BOOLEAN /\ recent \in BOOLEAN /\ loop \in BOOLEAN /\ finished \in BOOLEAN
  /\ keys \in [0 .. RingKeys - 1 -> None .. MaxBlocks[who]]
  /\ keyIdx \in 0 .. RingKeys - 1 /\ fpos \in 0 .. FileBlocks

(* What doCopy leaves to a reader: it is never two blocks ahead of         *)
(* write_idx, nor more than ReadTime past a read under way.                *)
WriterNear ==
  /\ enq <= pub + 1
  /\ Busy => enq <= rd.since + ReadTime

(* The entry of mag slot n holds its own block, or one of a later slot     *)
(* that took the entry.                                                    *)
OwnOrLater(f, n) == f = n * Sym \/ f >= (n + MapLen) * Sym

MapRight ==
  /\ enq = magWi * Sym + buff
  /\ \A n \in 0 .. magWi - 1 : OwnOrLater(slotMap[n % MapLen], n)

Slot == job.snap + job.to

RefineInv ==
  /\ rd.pc \in {"idle", "check", "copy", "got"}
  /\ WriterNear /\ MapRight
  /\ rd.pc # "idle" => done >= (job.snap + Cap + 1) * Sym + 1
  /\ rd.pc = "check" => OwnOrLater(rd.from, Slot)
  /\ Busy => /\ rd.len = FrameBlocks
             /\ rd.from = Slot * Sym \/ magWi + 2 >= Slot + MapLen + Nsym
  /\ /\ Busy /\ rd.from = Slot * Sym /\ job.to + Nsym <= Cap + 1
     /\ rd.since - rd.from + ReadTime <= Depth
     => rd.ok

SnapInv ==
  /\ rd.pc \in {"idle", "copy", "got"}
  /\ WriterNear
  /\ Busy => /\ rd.wait >= rd.since /\ rd.from \in Nat /\ rd.from + rd.len = rd.since
             /\ rd.since + ReadTime <= rd.from + Depth
             /\ rd.ok

(* How far a recorder falls behind.                                        *)
Late == Max({ReadTime, Lag})

RecInv ==
  /\ rd.pc \in {"idle", "copy", "got"}
  /\ event = enq /\ pub <= done /\ enq <= pub + Lag
  /\ rd.pc = "idle" => enq <= last + 1 + Late
  /\ Busy => /\ rd.from = rd.since - 1 /\ rd.len = 1
             /\ last < rd.from /\ rd.from <= last + Late
             /\ enq <= rd.since + Late
             /\ rd.ok
  /\ \/ file = << >>
     \/ file = <<last>>
     \/ \E a \in Nat : file = <<a, last>> /\ a < last /\ last <= a + Late

(* The file block to be announced next.                                    *)
Ahead == IF rd.pc = "flight" THEN fpos - 1 ELSE fpos

PlayInv ==
  /\ rd.pc \in {"idle", "flight"}
  /\ event = enq /\ enq <= pub + 1
  /\ rd.pc = "idle" => enq = pub
  /\ rd.pc = "flight" => /\ fpos >= 1 /\ rd.from = fpos - 1 /\ ~ finished
                         /\ enq = pub => enq < MaxBlocks[who]
  /\ \E k \in Nat : pub = k * FileBlocks + Ahead /\ (~ loop => k = 0)
  /\ finished => ~ loop /\ fpos = FileBlocks
  /\ file \in Seq(Int) /\ Len(file) = pub
  /\ \A i \in 1 .. Len(file) : file[i] = (i - 1) % FileBlocks

ReadersInv ==
  /\ CoreInv /\ SideTypes
  /\ who = "refine" => RefineInv
  /\ who \in {"skimmer", "waterfall"} => SnapInv
  /\ who = "record" => RecInv
  /\ who = "playback" => PlayInv
-----------------------------------------------------------------------------
(* Constants and arithmetic.                                               *)
LEMMA ConstFacts ==
  /\ Depth \in Nat /\ Lag \in Nat /\ Lag > 0 /\ ReadTime \in Nat /\ ReadTime > 0
  /\ Sym \in Nat /\ Sym > 1 /\ Nsym \in Nat /\ Nsym > 0 /\ Cap \in Nat
  /\ MapLen \in Nat /\ MapLen > 0 /\ WSlots \in Nat /\ WSlots > 0
  /\ RingKeys \in Nat /\ RingKeys > 0 /\ MaxTo \in Nat /\ FileBlocks \in Nat
  /\ MaxTo < Cap /\ WSlots + ReadTime <= Depth
  /\ ReadTime + 1 <= Depth /\ Lag + 1 <= Depth
  /\ \A k \in Kinds : MaxBlocks[k] \in Nat
  BY ReaderAssumption

LEMMA LateIs ==
  Late \in Nat /\ Late >= ReadTime /\ Late >= Lag /\ Late + 1 <= Depth
<1> DEFINE S == {ReadTime, Lag}
           m == IF ReadTime >= Lag THEN ReadTime ELSE Lag
<1>1. m \in S /\ (\A y \in S : m >= y) /\ m \in Nat /\ m + 1 <= Depth
  BY ConstFacts
<1>2. \A x \in S : (\A y \in S : x >= y) => x = m
  BY <1>1, ConstFacts
<1>3. Max(S) \in S /\ \A y \in S : Max(S) >= y
  BY <1>1 DEF Max
<1>4. Max(S) = m
  BY <1>2, <1>3
<1> QED BY <1>1, <1>4 DEF Late

(* Two mag slots of one map entry are a multiple of MapLen apart.          *)
LEMMA SameEntry ==
  ASSUME NEW a \in Nat, NEW b \in Nat, a < b, a % MapLen = b % MapLen
  PROVE  b >= a + MapLen
<1> DEFINE p == a \div MapLen
           q == b \div MapLen
           r == a % MapLen
<1>1. MapLen \in Nat /\ MapLen > 0
  BY ConstFacts
<1>2. p \in Nat /\ q \in Nat /\ r \in Nat /\ a = MapLen * p + r /\ b = MapLen * q + r
  BY <1>1
<1> HIDE DEF p, q, r
<1>3. ASSUME ~ (p < q) PROVE FALSE
  <2>1. MapLen * q <= MapLen * p
    BY <1>1, <1>2, <1>3
  <2> QED BY <1>1, <1>2, <2>1
<1>4. MapLen * (p + 1) <= MapLen * q
  BY <1>1, <1>2, <1>3
<1>5. MapLen * (p + 1) = MapLen * p + MapLen
  BY <1>1, <1>2
<1> QED BY <1>1, <1>2, <1>4, <1>5

LEMMA EntryRange ==
  ASSUME NEW n \in Nat PROVE n % MapLen \in 0 .. MapLen - 1
  BY ConstFacts

(* Block number k rounds of the file later.                                *)
LEMMA Rounds ==
  ASSUME NEW F \in Nat, NEW k \in Nat, NEW f \in 0 .. F - 1
  PROVE  (k * F + f) % F = f
<1> DEFINE x == k * F + f
           q == x \div F
           r == x % F
<1>1. F > 0 /\ x \in Nat
  OBVIOUS
<1>2. q \in Int /\ r \in 0 .. F - 1 /\ x = F * q + r /\ x = F * k + f
  BY <1>1
<1> HIDE DEF x, q, r
<1>3. ASSUME q < k PROVE FALSE
  <2>1. F * (q + 1) <= F * k /\ F * (q + 1) = F * q + F
    BY <1>1, <1>2, <1>3
  <2> QED BY <1>1, <1>2, <2>1
<1>4. ASSUME k < q PROVE FALSE
  <2>1. F * (k + 1) <= F * q /\ F * (k + 1) = F * k + F
    BY <1>1, <1>2, <1>4
  <2> QED BY <1>1, <1>2, <2>1
<1>5. q = k
  BY <1>2, <1>3, <1>4
<1>6. F * q \in Int
  BY <1>2
<1> QED BY <1>2, <1>5, <1>6 DEF x, r

(* A frame that ends in what was published, a round of the map later.      *)
LEMMA RoundLater ==
  ASSUME NEW m \in Nat, NEW w \in Nat, NEW b \in 0 .. 2 * Sym + 1, NEW f \in Int,
         f >= (m + MapLen) * Sym, f + FrameBlocks <= w * Sym + b
  PROVE  w + 2 >= m + MapLen + Nsym
<1> DEFINE n == m + MapLen + Nsym
<1>1. Sym \in Nat /\ Sym > 1 /\ n \in Nat /\ MapLen \in Nat /\ Nsym \in Nat
  BY ConstFacts
<1>2. n * Sym = (m + MapLen) * Sym + Nsym * Sym /\ (w + 2) * Sym = w * Sym + 2 * Sym
      /\ (w + 3) * Sym = w * Sym + 3 * Sym
  BY <1>1
<1>3. (m + MapLen) * Sym \in Int /\ Nsym * Sym \in Int /\ w * Sym \in Int
  BY <1>1
<1>4. n * Sym <= w * Sym + 2 * Sym + 1
  BY <1>1, <1>2, <1>3 DEF FrameBlocks
<1> HIDE DEF n
<1>5. ASSUME w + 3 <= n PROVE FALSE
  <2>1. (w + 3) * Sym <= n * Sym
    BY <1>1, <1>5
  <2> QED BY <1>1, <1>2, <1>3, <1>4, <2>1
<1>6. w + 2 >= n
  BY <1>1, <1>5
<1> QED BY <1>6 DEF n

-----------------------------------------------------------------------------
LEMMA InitKeeps == Init => ReadersInv
<1> SUFFICES ASSUME Init PROVE ReadersInv
  OBVIOUS
<1>1. CoreInv
  BY ConstFacts DEF Init, CoreInv, ReadRec, Idle, Busy
<1>2. SideTypes
  <2>1. MaxBlocks[who] \in Nat /\ MapLen \in Nat /\ RingKeys \in Nat /\ RingKeys > 0
    BY ConstFacts DEF Init
  <2>2. slotMap \in [0 .. MapLen - 1 -> 0 .. MaxBlocks[who]]
    BY <2>1 DEF Init
  <2>3. keys \in [0 .. RingKeys - 1 -> None .. MaxBlocks[who]]
    BY <2>1 DEF Init, None
  <2>4. ws \in BOOLEAN /\ recent \in BOOLEAN /\ loop \in BOOLEAN /\ finished \in BOOLEAN
    BY DEF Init
  <2>5. /\ buff \in 0 .. 2 * Sym + 1 /\ magWi \in 0 .. MaxBlocks[who]
        /\ job \in [snap : 0 .. MaxBlocks[who], to : 0 .. MaxTo]
        /\ keyIdx \in 0 .. RingKeys - 1 /\ fpos \in 0 .. FileBlocks
    BY <2>1, ConstFacts DEF Init
  <2> QED BY <2>2, <2>3, <2>4, <2>5 DEF SideTypes
<1>3. ~ Busy /\ rd.pc = "idle"
  BY DEF Init, Busy, Idle
<1>4. RefineInv
  BY <1>3, ConstFacts DEF Init, RefineInv, WriterNear, MapRight
<1>5. SnapInv
  BY <1>3 DEF Init, SnapInv, WriterNear
<1>6. RecInv
  BY <1>3, ConstFacts, LateIs DEF Init, RecInv
<1>7. PlayInv
  <2>1. pub = 0 * FileBlocks + Ahead
    BY <1>3, ConstFacts DEF Init, Ahead
  <2>2. file \in Seq(Int) /\ Len(file) = 0
    BY DEF Init
  <2> QED BY <1>3, <2>1, <2>2 DEF Init, PlayInv
<1> QED BY <1>1, <1>2, <1>4, <1>5, <1>6, <1>7 DEF ReadersInv

-----------------------------------------------------------------------------
(***************************************************************************)
(* Which actions a reader's behaviour has.                                 *)
(***************************************************************************)
LEMMA WhoStays == ASSUME Next PROVE who' = who
  BY DEF Next, Writer, Device, Refine, Skimmer, Waterfall, Recorder, Playback, Enqueue, RecordReady,
         Publish, MagSlot, EnqueueFrame, Execute, FrameCallback, ReadBlock, RefineLookUp,
         RefineReject, RefineRead, RefineReturn, SkimmerPoll, SkimmerDecode, WaterfallLaunch,
         WaterfallDeliver, PublishInterval, RecordNext, RecordWrite, PlayRead, PlayCopy,
         PlayPosition, PlayEnd

LEMMA RefineActs ==
  ASSUME Next, who = "refine"
  PROVE  \/ Enqueue \/ RecordReady \/ Publish \/ MagSlot \/ Execute \/ ReadBlock
         \/ RefineLookUp \/ RefineReject \/ RefineRead \/ RefineReturn \/ PublishInterval
  BY DEF Next, Writer, Device, Refine, Skimmer, Waterfall, Recorder, Playback,
         EnqueueFrame, FrameCallback, SkimmerPoll, SkimmerDecode, WaterfallLaunch,
         WaterfallDeliver, RecordNext, RecordWrite, PlayRead, PlayCopy, PlayPosition, PlayEnd

LEMMA SnapActs ==
  ASSUME Next, who \in {"skimmer", "waterfall"}, rd.pc # "check"
  PROVE  \/ Enqueue \/ RecordReady \/ Publish \/ Execute \/ ReadBlock
         \/ SkimmerPoll \/ SkimmerDecode \/ WaterfallLaunch
         \/ (\E sent \in BOOLEAN : WaterfallDeliver(sent)) \/ PublishInterval
  BY DEF Next, Writer, Device, Refine, Skimmer, Waterfall, Recorder, Playback, MagSlot,
         EnqueueFrame, FrameCallback, RefineLookUp, RefineReject, RefineRead, RefineReturn,
         RecordNext, RecordWrite, PlayRead, PlayCopy, PlayPosition, PlayEnd

LEMMA RecordActs ==
  ASSUME Next, who = "record", rd.pc # "check"
  PROVE  \/ RecordReady \/ EnqueueFrame \/ Execute \/ FrameCallback \/ ReadBlock
         \/ RecordNext \/ RecordWrite \/ PublishInterval
  BY DEF Next, Writer, Device, Refine, Skimmer, Waterfall, Recorder, Playback, Enqueue, Publish,
         MagSlot, RefineLookUp, RefineReject, RefineRead, RefineReturn, SkimmerPoll,
         SkimmerDecode, WaterfallLaunch, WaterfallDeliver, PlayRead, PlayCopy, PlayPosition,
         PlayEnd

LEMMA PlayActs ==
  ASSUME Next, who = "playback", rd.pc \in {"idle", "flight"}
  PROVE  \/ RecordReady \/ Execute \/ PlayRead \/ PlayCopy \/ PlayPosition \/ PlayEnd
         \/ PublishInterval
  BY DEF Next, Writer, Device, Refine, Skimmer, Waterfall, Recorder, Playback, Enqueue, Publish,
         MagSlot, EnqueueFrame, FrameCallback, ReadBlock, RefineLookUp, RefineReject, RefineRead,
         RefineReturn, SkimmerPoll, SkimmerDecode, WaterfallLaunch, WaterfallDeliver, RecordNext,
         RecordWrite
-----------------------------------------------------------------------------
(***************************************************************************)
(* The shared part.                                                        *)
(***************************************************************************)
LEMMA ReadStarts ==
  ASSUME CoreInv, NEW f \in Int, NEW n \in Nat, NEW w \in Nat
  PROVE  /\ Read(f, n, w) \in ReadRec /\ Read(f, n, w).i <= Read(f, n, w).len
         /\ Read(f, n, w).pc = "copy" /\ Read(f, n, w).since = pub
         /\ Read(f, n, w).from = f /\ Read(f, n, w).len = n /\ Read(f, n, w).wait = w
         /\ Read(f, n, w).ok = TRUE
<1>1. pub \in Nat
  BY ConstFacts DEF CoreInv
<1> QED BY <1>1 DEF Read, ReadRec

LEMMA IdleRec == Idle \in ReadRec /\ Idle.i <= Idle.len /\ Idle.pc = "idle"
  BY DEF Idle, ReadRec

(* A step of a read: one block more, ok only if it is intact.              *)
LEMMA BlockRead ==
  ASSUME CoreInv, ReadBlock
  PROVE  /\ rd' \in ReadRec /\ rd'.i <= rd'.len /\ rd'.pc \in {"copy", "got"}
         /\ rd'.from = rd.from /\ rd'.len = rd.len /\ rd'.since = rd.since /\ rd'.wait = rd.wait
         /\ rd'.ok = (rd.ok /\ Intact(rd.from + rd.i))
         /\ rd.i \in Nat /\ rd.i < rd.len
         /\ UNCHANGED <<who, ringVars, mapVars, job, last, wfVars, fileVars>>
<1>1. rd \in ReadRec /\ rd.i \in Nat /\ rd.len \in Nat /\ rd.i < rd.len /\ rd.ok \in BOOLEAN
  BY DEF CoreInv, ReadRec, ReadBlock
<1>2. (rd.ok /\ Intact(rd.from + rd.i)) \in BOOLEAN
  BY <1>1
<1>3. rd' = [rd EXCEPT !.i = rd.i + 1, !.ok = (rd.ok /\ Intact(rd.from + rd.i)),
                       !.pc = IF rd.i + 1 = rd.len THEN "got" ELSE "copy"]
  BY DEF ReadBlock
<1> DEFINE o == (rd.ok /\ Intact(rd.from + rd.i))
           c == IF rd.i + 1 = rd.len THEN "got" ELSE "copy"
           n == rd.i + 1
<1>4. o \in BOOLEAN /\ c \in {"got", "copy"}
  BY <1>2
<1>a. n \in Nat /\ n <= rd.len
  BY <1>1
<1> HIDE DEF o, c, n
<1>5. rd' = [rd EXCEPT !.i = n, !.ok = o, !.pc = c]
  BY <1>3 DEF o, c, n
<1>b. \A q \in ReadRec :
        LET e == [q EXCEPT !.i = n, !.ok = o, !.pc = c]
        IN  /\ e \in ReadRec /\ e.i = n /\ e.ok = o /\ e.pc = c
            /\ e.from = q.from /\ e.len = q.len /\ e.since = q.since /\ e.wait = q.wait
  BY <1>4, <1>a DEF ReadRec
<1>6. /\ rd' \in ReadRec /\ rd'.i = n /\ rd'.ok = o /\ rd'.pc = c
      /\ rd'.from = rd.from /\ rd'.len = rd.len /\ rd'.since = rd.since /\ rd'.wait = rd.wait
  BY <1>1, <1>5, <1>b
<1>7. UNCHANGED <<who, ringVars, mapVars, job, last, wfVars, fileVars>>
  BY DEF ReadBlock
<1> QED BY <1>1, <1>4, <1>6, <1>7, <1>a DEF o

LEMMA CoreKeeps ==
  ASSUME ReadersInv, Next PROVE CoreInv'
<1>1. /\ CoreInv /\ SideTypes /\ who' = who /\ MaxBlocks[who] \in Nat
      /\ rd \in ReadRec /\ pub \in Nat /\ enq \in Nat /\ event \in Nat /\ done \in Nat
  BY WhoStays, ConstFacts DEF ReadersInv, CoreInv
<1>2. /\ enq <= MaxBlocks[who] /\ event <= enq /\ pub <= event /\ done <= enq
      /\ last \in Nat /\ last <= pub
  BY <1>1 DEF CoreInv
<1>3. rd.from \in Int /\ rd.since \in Nat /\ rd.len \in Nat /\ rd.i \in Nat
  BY <1>1 DEF ReadRec
<1>4. CASE UNCHANGED <<ringVars, rd, last>>
  BY <1>1, <1>4 DEF CoreInv, Busy, ringVars
<1>5. CASE Enqueue \/ RecordReady \/ Publish \/ Execute \/ EnqueueFrame
  <2>1. UNCHANGED <<rd, last>>
    BY <1>5 DEF Enqueue, RecordReady, Publish, Execute, EnqueueFrame
  <2>2. /\ enq' \in Nat /\ enq' <= MaxBlocks[who] /\ event' \in Nat /\ event' <= enq'
        /\ pub' \in Nat /\ pub' <= event' /\ done' \in Nat /\ done' <= enq' /\ pub' >= pub
    BY <1>1, <1>2, <1>5 DEF Enqueue, RecordReady, Publish, Execute, EnqueueFrame
  <2> QED BY <1>1, <1>2, <1>3, <2>1, <2>2 DEF CoreInv, Busy
<1>6. CASE FrameCallback
  <2>1. event = enq
    BY <1>6 DEF FrameCallback, ReadersInv, RecInv
  <2> QED BY <1>1, <1>2, <1>3, <1>6, <2>1 DEF FrameCallback, CoreInv, Busy
<1>7. CASE ReadBlock
  BY <1>1, <1>7, BlockRead DEF CoreInv, Busy, ReadBlock, ringVars
<1>8. CASE RefineLookUp
  <2>1. PICK snap \in 0 .. magWi, to \in 0 .. MaxTo :
          rd' = [rd EXCEPT !.pc = "check", !.from = slotMap[(snap + to) % MapLen]]
    BY <1>8 DEF RefineLookUp
  <2>2. snap + to \in Nat
    BY ConstFacts, <1>1 DEF SideTypes
  <2>3. slotMap[(snap + to) % MapLen] \in Int
    <3>1. (snap + to) % MapLen \in 0 .. MapLen - 1
      BY <2>2, EntryRange
    <3>2. slotMap[(snap + to) % MapLen] \in 0 .. MaxBlocks[who]
      BY <1>1, <3>1 DEF SideTypes
    <3> QED BY <1>1, <3>2
  <2> HIDE DEF RefineLookUp
  <2>4. rd' \in ReadRec /\ rd'.pc = "check" /\ rd'.i = rd.i /\ rd'.len = rd.len
    BY <1>1, <2>1, <2>3 DEF ReadRec
  <2>5. UNCHANGED <<ringVars, last>>
    BY <1>8 DEF RefineLookUp
  <2> QED BY <1>1, <2>4, <2>5 DEF CoreInv, Busy, ringVars
<1>9. CASE RefineReject \/ RefineReturn \/ SkimmerDecode \/ \E sent \in BOOLEAN : WaterfallDeliver(sent)
  <2>1. rd' = Idle /\ UNCHANGED <<ringVars, last>>
    BY <1>9 DEF RefineReject, RefineReturn, SkimmerDecode, WaterfallDeliver
  <2> QED BY <1>1, <2>1, IdleRec DEF CoreInv, Busy, ringVars
<1>10. CASE RefineRead \/ SkimmerPoll \/ WaterfallLaunch \/ RecordNext
  <2>1. \E f \in Int, n \in Nat, w \in Nat : rd' = Read(f, n, w)
    <3>1. CASE RefineRead
      <4>1. FrameBlocks \in Nat
        BY ConstFacts DEF FrameBlocks
      <4> QED BY <1>3, <3>1, <4>1 DEF RefineRead
    <3>2. CASE SkimmerPoll
      <4>1. pub - WSlots \in Int /\ WSlots \in Nat
        BY <1>1, ConstFacts
      <4> QED BY <1>1, <3>2, <4>1 DEF SkimmerPoll
    <3>3. CASE WaterfallLaunch \/ RecordNext
      <4>1. pub - 1 \in Int /\ 1 \in Nat /\ 0 \in Nat
        BY <1>1
      <4> QED BY <1>1, <3>3, <4>1 DEF WaterfallLaunch, RecordNext
    <3> QED BY <1>10, <3>1, <3>2, <3>3
  <2>2. /\ rd' \in ReadRec /\ rd'.i <= rd'.len /\ rd'.pc = "copy" /\ rd'.since = pub
    <3>1. PICK f \in Int, n \in Nat, w \in Nat : rd' = Read(f, n, w)
      BY <2>1
    <3>2. /\ Read(f, n, w) \in ReadRec /\ Read(f, n, w).i <= Read(f, n, w).len
          /\ Read(f, n, w).pc = "copy" /\ Read(f, n, w).since = pub
      BY <1>1 DEF Read, ReadRec
    <3> QED BY <3>1, <3>2
  <2>3. UNCHANGED ringVars /\ last' \in {last, pub}
    BY <1>10 DEF RefineRead, SkimmerPoll, WaterfallLaunch, RecordNext
  <2> QED BY <1>1, <1>2, <2>2, <2>3 DEF CoreInv, Busy, ringVars
<1>11. CASE RecordWrite
  <2>1. rd' = Idle /\ UNCHANGED ringVars /\ last' = rd.from
    BY <1>11 DEF RecordWrite
  <2>2. Busy /\ RecInv
    BY <1>11 DEF RecordWrite, Busy, ReadersInv
  <2>3. last' \in 0 .. pub
    BY <1>1, <1>2, <1>3, <2>1, <2>2 DEF RecInv, CoreInv
  <2> QED BY <1>1, <2>1, <2>3, IdleRec DEF CoreInv, Busy, ringVars
<1>12. CASE PlayRead
  <2>1. rd' = [rd EXCEPT !.pc = "flight", !.from = fpos] /\ UNCHANGED <<ringVars, last>>
    BY <1>12 DEF PlayRead
  <2>2. fpos \in Int
    BY <1>1, ConstFacts DEF SideTypes
  <2>3. rd' \in ReadRec /\ rd'.pc = "flight" /\ rd'.i = rd.i /\ rd'.len = rd.len
    BY <1>1, <2>1, <2>2 DEF ReadRec
  <2> QED BY <1>1, <2>1, <2>3 DEF CoreInv, Busy, ringVars
<1>13. CASE PlayCopy
  <2>1. PlayInv /\ rd.pc = "flight" /\ pub = enq
    BY <1>13 DEF PlayCopy, ReadersInv
  <2>2. enq < MaxBlocks[who]
    BY <2>1 DEF PlayInv
  <2>3. enq' = enq + 1 /\ event' = enq + 1 /\ done' = enq + 1 /\ UNCHANGED <<pub, rd, last>>
    BY <1>13 DEF PlayCopy
  <2> QED BY <1>1, <1>2, <2>2, <2>3 DEF CoreInv, Busy
<1>14. CASE PlayPosition
  <2>1. event = enq /\ rd' = Idle /\ pub' = enq /\ UNCHANGED <<enq, event, done, last>>
    BY <1>14 DEF PlayPosition, ReadersInv, PlayInv
  <2> QED BY <1>1, <1>2, <2>1, IdleRec DEF CoreInv, Busy
<1>15. CASE MagSlot \/ PublishInterval \/ PlayEnd
  BY <1>4, <1>15 DEF MagSlot, PublishInterval, PlayEnd
<1> QED BY <1>5, <1>6, <1>7, <1>8, <1>9, <1>10, <1>11, <1>12, <1>13, <1>14, <1>15
        DEF Next, Writer, Device, Refine, Skimmer, Waterfall, Recorder, Playback

LEMMA SideKeeps ==
  ASSUME ReadersInv, Next PROVE SideTypes'
<1>1. /\ CoreInv /\ SideTypes /\ who' = who /\ MaxBlocks[who] \in Nat
  BY WhoStays, ConstFacts DEF ReadersInv, CoreInv
<1>2. CASE UNCHANGED <<mapVars, job, wfVars, fpos, loop, finished>>
  BY <1>1, <1>2 DEF SideTypes, mapVars, wfVars
<1>3. CASE Enqueue
  <2>1. buff' \in 0 .. 2 * Sym + 1
    BY <1>1, <1>3, ConstFacts DEF Enqueue, SideTypes
  <2> QED BY <1>1, <1>3, <2>1 DEF Enqueue, SideTypes, wfVars, fileVars
<1>4. CASE MagSlot
  <2>1. enq = magWi * Sym + buff /\ buff > 2 * Sym /\ buff \in Nat /\ magWi \in Nat
        /\ enq <= MaxBlocks[who] /\ enq \in Nat
    BY <1>1, <1>4, ConstFacts DEF MagSlot, ReadersInv, RefineInv, MapRight, SideTypes, CoreInv
  <2>2. Sym \in Nat /\ Sym > 1
    BY ConstFacts
  <2>3. magWi * Sym \in Nat /\ magWi <= magWi * Sym
    BY <2>1, <2>2
  <2>4. enq - buff \in 0 .. MaxBlocks[who] /\ magWi + 1 \in 0 .. MaxBlocks[who]
        /\ buff - Sym \in 0 .. 2 * Sym + 1
    BY <1>1, <2>1, <2>2, <2>3 DEF SideTypes
  <2>5. /\ slotMap' = [slotMap EXCEPT ![magWi % MapLen] = enq - buff]
        /\ buff' = buff - Sym /\ magWi' = magWi + 1 /\ UNCHANGED <<job, wfVars, fileVars>>
    BY <1>4 DEF MagSlot
  <2>6. slotMap' \in [0 .. MapLen - 1 -> 0 .. MaxBlocks[who]]
    BY <1>1, <2>4, <2>5 DEF SideTypes
  <2> QED BY <1>1, <2>4, <2>5, <2>6 DEF SideTypes, wfVars, fileVars
<1>5. CASE RefineLookUp
  <2>1. PICK snap \in 0 .. magWi, to \in 0 .. MaxTo : job' = [snap |-> snap, to |-> to]
    BY <1>5 DEF RefineLookUp
  <2>2. snap \in 0 .. MaxBlocks[who]
    BY <1>1 DEF SideTypes
  <2>3. UNCHANGED <<mapVars, wfVars, fileVars>>
    BY <1>5 DEF RefineLookUp
  <2> QED BY <1>1, <2>1, <2>2, <2>3 DEF SideTypes, mapVars, wfVars, fileVars
<1>6. CASE WaterfallLaunch \/ PublishInterval
  <2>1. recent' \in BOOLEAN /\ UNCHANGED <<mapVars, job, ws, keys, keyIdx, fileVars>>
    BY <1>6 DEF WaterfallLaunch, PublishInterval
  <2> QED BY <1>1, <2>1 DEF SideTypes, mapVars, fileVars
<1>7. ASSUME NEW sent \in BOOLEAN, WaterfallDeliver(sent) PROVE SideTypes'
  <2>1. Busy /\ SnapInv
    BY <1>7 DEF WaterfallDeliver, Busy, ReadersInv
  <2>2. /\ rd.from \in Nat /\ rd.since \in Nat /\ rd.len \in Nat /\ rd.from + rd.len = rd.since
        /\ rd.since <= pub /\ pub \in Nat /\ pub <= event /\ event <= enq /\ enq <= MaxBlocks[who]
        /\ event \in Nat /\ enq \in Nat
    BY <1>1, <2>1 DEF CoreInv, SnapInv, ReadRec
  <2>3. rd.from \in None .. MaxBlocks[who]
    BY <1>1, <2>2 DEF None
  <2>4. keys' \in [0 .. RingKeys - 1 -> None .. MaxBlocks[who]]
    BY <1>1, <1>7, <2>3 DEF WaterfallDeliver, SideTypes
  <2>5. keyIdx' \in 0 .. RingKeys - 1
    BY <1>1, <1>7, ConstFacts DEF WaterfallDeliver, SideTypes
  <2>6. ws' \in BOOLEAN /\ UNCHANGED <<mapVars, job, recent, fileVars>>
    BY <1>7 DEF WaterfallDeliver
  <2> QED BY <1>1, <2>4, <2>5, <2>6 DEF SideTypes, mapVars, fileVars
<1>8. CASE PlayRead \/ PlayEnd
  <2>1. fpos' \in 0 .. FileBlocks
    <3>1. fpos \in 0 .. FileBlocks /\ FileBlocks \in Nat
      BY <1>1, ConstFacts DEF SideTypes
    <3>2. CASE PlayRead
      BY <3>1, <3>2 DEF PlayRead
    <3>3. CASE PlayEnd
      BY <3>1, <3>3 DEF PlayEnd
    <3> QED BY <1>8, <3>2, <3>3
  <2>2. finished' \in BOOLEAN /\ UNCHANGED <<mapVars, job, wfVars, loop>>
    BY <1>1, <1>8 DEF PlayRead, PlayEnd, SideTypes
  <2> QED BY <1>1, <2>1, <2>2 DEF SideTypes, mapVars, wfVars
<1>9. CASE RecordReady \/ Publish \/ EnqueueFrame \/ Execute \/ FrameCallback \/ ReadBlock
           \/ RefineReject \/ RefineRead \/ RefineReturn \/ SkimmerPoll \/ SkimmerDecode
           \/ RecordNext \/ RecordWrite \/ PlayCopy \/ PlayPosition
  BY <1>2, <1>9 DEF RecordReady, Publish, EnqueueFrame, Execute, FrameCallback, ReadBlock,
     RefineReject, RefineRead, RefineReturn, SkimmerPoll, SkimmerDecode, RecordNext, RecordWrite,
     PlayCopy, PlayPosition, fileVars
<1> QED BY <1>3, <1>4, <1>5, <1>6, <1>7, <1>8, <1>9
        DEF Next, Writer, Device, Refine, Skimmer, Waterfall, Recorder, Playback
-----------------------------------------------------------------------------
(***************************************************************************)
(* doCopy and a reader: whatever read is under way, the next block is      *)
(* enqueued in time.                                                       *)
(***************************************************************************)
LEMMA NearKeeps ==
  ASSUME CoreInv, WriterNear, who' = who,
         \/ Enqueue \/ RecordReady \/ Publish \/ Execute \/ ReadBlock
         \/ UNCHANGED <<ringVars, rd>>
         \/ UNCHANGED ringVars /\ rd'.pc \notin {"copy", "got"}
         \/ UNCHANGED ringVars /\ rd'.since = pub
  PROVE  WriterNear'
<1>1. /\ pub \in Nat /\ enq \in Nat /\ rd.since \in Nat /\ ReadTime \in Nat /\ ReadTime > 0
      /\ event \in Nat /\ pub <= event /\ event <= enq
  BY ConstFacts DEF CoreInv, ReadRec
<1>2. CASE Enqueue
  <2>1. /\ pub = enq /\ enq' = enq + 1 /\ UNCHANGED <<pub, rd>>
        /\ Busy => enq < rd.since + ReadTime
    BY <1>2 DEF Enqueue, OnTime
  <2> QED BY <1>1, <2>1 DEF WriterNear, Busy
<1>3. CASE RecordReady \/ Execute
  BY <1>3 DEF RecordReady, Execute, WriterNear, Busy
<1>4. CASE Publish
  <2>1. pub' = enq /\ UNCHANGED <<enq, rd>>
    BY <1>4 DEF Publish
  <2> QED BY <1>1, <2>1 DEF WriterNear, Busy
<1>5. CASE ReadBlock
  <2>1. rd.pc = "copy" /\ rd'.since = rd.since /\ UNCHANGED ringVars
    BY <1>5, BlockRead DEF ReadBlock
  <2> QED BY <1>1, <2>1 DEF WriterNear, Busy, ringVars
<1>6. CASE UNCHANGED <<ringVars, rd>>
  BY <1>6 DEF WriterNear, Busy, ringVars
<1>7. CASE UNCHANGED ringVars /\ rd'.pc \notin {"copy", "got"}
  BY <1>7 DEF WriterNear, Busy, ringVars
<1>8. CASE UNCHANGED ringVars /\ rd'.since = pub
  BY <1>1, <1>8 DEF WriterNear, ringVars
<1> QED BY <1>2, <1>3, <1>4, <1>5, <1>6, <1>7, <1>8

-----------------------------------------------------------------------------
(***************************************************************************)
(* refineCandidate.                                                        *)
(***************************************************************************)
LEMMA MapKeeps ==
  ASSUME ReadersInv, who = "refine", Next PROVE MapRight'
<1>1. CoreInv /\ SideTypes /\ MapRight
  BY DEF ReadersInv, RefineInv
<1>2. /\ enq \in Nat /\ magWi \in Nat /\ buff \in Nat /\ Sym \in Nat /\ Sym > 1
      /\ enq = magWi * Sym + buff /\ magWi * Sym \in Nat
      /\ \A n \in 0 .. magWi - 1 : OwnOrLater(slotMap[n % MapLen], n)
  BY <1>1, ConstFacts DEF CoreInv, SideTypes, MapRight
<1>3. CASE Enqueue
  <2>1. enq' = enq + 1 /\ buff' = buff + 1 /\ UNCHANGED <<magWi, slotMap>>
    BY <1>3 DEF Enqueue
  <2>2. enq' = magWi' * Sym + buff'
    BY <1>2, <2>1
  <2> QED BY <1>2, <2>1, <2>2 DEF MapRight, OwnOrLater
<1>4. CASE MagSlot
  <2>1. /\ slotMap' = [slotMap EXCEPT ![magWi % MapLen] = enq - buff] /\ enq' = enq
        /\ buff' = buff - Sym /\ magWi' = magWi + 1
    BY <1>4 DEF MagSlot, ringVars
  <2>2. (magWi + 1) * Sym = magWi * Sym + Sym
    BY <1>2
  <2>3. enq' = magWi' * Sym + buff' /\ enq - buff = magWi * Sym
    BY <1>2, <2>1, <2>2
  <2>4. magWi % MapLen \in 0 .. MapLen - 1 /\ slotMap \in [0 .. MapLen - 1 -> 0 .. MaxBlocks[who]]
    BY <1>1, <1>2, EntryRange DEF SideTypes
  <2>5. ASSUME NEW n \in 0 .. magWi PROVE OwnOrLater(slotMap'[n % MapLen], n)
    <3>1. n \in Nat /\ n % MapLen \in 0 .. MapLen - 1
      BY EntryRange, <1>2
    <3>2. CASE n = magWi
      <4>1. slotMap'[n % MapLen] = n * Sym
        BY <2>1, <2>3, <2>4, <3>2
      <4> QED BY <4>1 DEF OwnOrLater
    <3>3. CASE n # magWi /\ n % MapLen = magWi % MapLen
      <4>1. slotMap'[n % MapLen] = magWi * Sym
        BY <2>1, <2>3, <2>4, <3>3
      <4>2. magWi >= n + MapLen /\ MapLen \in Nat
        BY <1>2, <3>1, <3>3, SameEntry, ConstFacts
      <4>3. magWi * Sym >= (n + MapLen) * Sym
        BY <1>2, <3>1, <4>2
      <4> QED BY <4>1, <4>3 DEF OwnOrLater
    <3>4. CASE n % MapLen # magWi % MapLen
      <4>1. slotMap'[n % MapLen] = slotMap[n % MapLen]
        BY <2>1, <2>4, <3>1, <3>4
      <4>2. n \in 0 .. magWi - 1
        BY <1>2, <3>4
      <4> QED BY <1>2, <4>1, <4>2
    <3> QED BY <3>2, <3>3, <3>4
  <2>6. \A n \in 0 .. magWi' - 1 : OwnOrLater(slotMap'[n % MapLen], n)
    <3>1. magWi' - 1 = magWi
      BY <1>2, <2>1
    <3> QED BY <2>5, <3>1
  <2> QED BY <2>3, <2>6 DEF MapRight, OwnOrLater
<1>5. CASE UNCHANGED <<enq, buff, magWi, slotMap>>
  BY <1>1, <1>5 DEF MapRight, OwnOrLater
<1>6. CASE RecordReady \/ Publish \/ Execute \/ ReadBlock \/ RefineLookUp \/ RefineReject
           \/ RefineRead \/ RefineReturn \/ PublishInterval
  BY <1>5, <1>6 DEF RecordReady, Publish, Execute, ReadBlock, RefineLookUp, RefineReject,
     RefineRead, RefineReturn, PublishInterval, mapVars, ringVars
<1> QED BY <1>3, <1>4, <1>6, RefineActs

(* Every block of a frame within the blocks the scan waited for, and young *)
(* enough, is intact.                                                      *)
LEMMA FrameBlockIntact ==
  ASSUME CoreInv, SideTypes, RefineInv, Busy, NEW i \in Nat, i < rd.len,
         rd.from = Slot * Sym, job.to + Nsym <= Cap + 1,
         rd.since - rd.from + ReadTime <= Depth
  PROVE  Intact(rd.from + i)
<1> DEFINE a == job.snap + job.to
           e == job.snap + Cap + 1
<1>1. /\ rd.from \in Int /\ rd.since \in Nat /\ done \in Nat /\ enq \in Nat
      /\ job.snap \in Nat /\ job.to \in Nat
  <2>1. MaxBlocks[who] \in Nat
    BY ConstFacts DEF CoreInv
  <2> QED BY <2>1, ConstFacts DEF CoreInv, ReadRec, SideTypes
<1>2. /\ Sym \in Nat /\ Sym > 1 /\ Nsym \in Nat /\ Cap \in Nat /\ Depth \in Nat /\ ReadTime \in Nat
  BY ConstFacts
<1>3. a + Nsym <= e /\ a \in Nat /\ e \in Nat
  BY <1>1, <1>2
<1>4. /\ rd.from = a * Sym /\ rd.len = Nsym * Sym /\ done >= e * Sym + 1
      /\ enq <= rd.since + ReadTime
  BY DEF RefineInv, Busy, WriterNear, FrameBlocks, Slot
<1> HIDE DEF a, e
<1>5. (a + Nsym) * Sym <= e * Sym /\ (a + Nsym) * Sym = a * Sym + Nsym * Sym
  BY <1>2, <1>3
<1>6. e * Sym \in Int /\ a * Sym \in Int /\ Nsym * Sym \in Int
  BY <1>2, <1>3
<1>7. rd.from + i < done
  BY <1>1, <1>4, <1>5, <1>6
<1>8. enq <= rd.from + i + Depth
  BY <1>1, <1>2, <1>4
<1> QED BY <1>7, <1>8 DEF Intact

(* The parts of RefineInv about the read.                                  *)
Lookup ==
  /\ rd.pc \in {"idle", "check", "copy", "got"}
  /\ rd.pc # "idle" => done >= (job.snap + Cap + 1) * Sym + 1
  /\ rd.pc = "check" => OwnOrLater(rd.from, Slot)

FrameRead ==
  /\ Busy => /\ rd.len = FrameBlocks
             /\ rd.from = Slot * Sym \/ magWi + 2 >= Slot + MapLen + Nsym
  /\ /\ Busy /\ rd.from = Slot * Sym /\ job.to + Nsym <= Cap + 1
     /\ rd.since - rd.from + ReadTime <= Depth
     => rd.ok

LEMMA RefineParts == RefineInv <=> WriterNear /\ MapRight /\ Lookup /\ FrameRead
  BY DEF RefineInv, Lookup, FrameRead

LEMMA RefineJoin ==
  ASSUME WriterNear', MapRight', Lookup', FrameRead' PROVE RefineInv'
  BY DEF RefineInv, Lookup, FrameRead

LEMMA RefineKeeps ==
  ASSUME ReadersInv, who = "refine", Next PROVE RefineInv'
<1>1. CoreInv /\ SideTypes /\ RefineInv /\ MapRight' /\ who' = who
  BY MapKeeps, WhoStays DEF ReadersInv
<1>2. WriterNear /\ MapRight /\ Lookup /\ FrameRead
  BY <1>1, RefineParts
<1>3. /\ pub \in Nat /\ enq \in Nat /\ done \in Nat /\ event \in Nat /\ pub <= event /\ event <= enq
      /\ rd.from \in Int /\ magWi \in Nat /\ buff \in 0 .. 2 * Sym + 1
      /\ job.snap \in Nat /\ job.to \in Nat
  <2>1. MaxBlocks[who] \in Nat
    BY <1>1, ConstFacts DEF CoreInv
  <2> QED BY <1>1, <2>1, ConstFacts DEF CoreInv, ReadRec, SideTypes
<1>4. Slot \in Nat /\ MapLen \in Nat /\ Nsym \in Nat /\ Cap \in Nat /\ Sym \in Nat
  BY <1>3, ConstFacts DEF Slot
<1>5. (job.snap + Cap + 1) * Sym \in Int
  BY <1>3, <1>4
<1>6. CASE Enqueue \/ RecordReady \/ Publish \/ Execute \/ MagSlot \/ PublishInterval
  <2>1. /\ rd' = rd /\ job' = job /\ done' \in Nat /\ done' >= done
        /\ magWi' \in Nat /\ magWi' >= magWi
    BY <1>3, <1>6 DEF Enqueue, RecordReady, Publish, Execute, MagSlot, PublishInterval, ringVars,
       mapVars
  <2>2. WriterNear'
    <3>1. CASE MagSlot \/ PublishInterval
      BY <1>1, <1>2, <3>1, NearKeeps DEF MagSlot, PublishInterval
    <3> QED BY <1>1, <1>2, <1>6, <3>1, NearKeeps
  <2>3. Lookup'
    <3>1. rd.pc # "idle" => done' >= (job.snap + Cap + 1) * Sym + 1
      BY <1>2, <1>3, <1>5, <2>1 DEF Lookup
    <3> QED BY <1>2, <2>1, <3>1 DEF Lookup, OwnOrLater, Slot
  <2>4. FrameRead'
    <3>1. magWi + 2 >= Slot + MapLen + Nsym => magWi' + 2 >= Slot + MapLen + Nsym
      <4>1. \A w \in Nat, z \in Nat : w >= magWi /\ magWi + 2 >= z => w + 2 >= z
        BY <1>3
      <4>2. Slot + MapLen + Nsym \in Nat
        BY <1>4
      <4> QED BY <2>1, <4>1, <4>2
    <3> QED BY <1>2, <2>1, <3>1 DEF FrameRead, Busy, Slot
  <2> QED BY <1>1, <2>2, <2>3, <2>4, RefineJoin
<1>7. CASE ReadBlock
  <2>1. /\ rd'.pc \in {"copy", "got"} /\ rd'.from = rd.from /\ rd'.len = rd.len
        /\ rd'.since = rd.since /\ rd'.ok = (rd.ok /\ Intact(rd.from + rd.i))
        /\ rd.i \in Nat /\ rd.i < rd.len /\ Busy /\ UNCHANGED <<ringVars, mapVars, job>>
    BY <1>1, <1>7, BlockRead DEF ReadBlock, Busy
  <2>2. WriterNear'
    BY <1>1, <1>2, <1>7, NearKeeps
  <2>3. Lookup'
    BY <1>2, <2>1 DEF Lookup, Busy, ringVars
  <2>4. FrameRead'
    <3>1. ASSUME rd.from = Slot * Sym, job.to + Nsym <= Cap + 1,
                 rd.since - rd.from + ReadTime <= Depth
          PROVE  rd'.ok
      <4>1. rd.ok
        BY <1>2, <2>1, <3>1 DEF FrameRead
      <4>2. Intact(rd.from + rd.i)
        BY <1>1, <2>1, <3>1, FrameBlockIntact
      <4> QED BY <2>1, <4>1, <4>2
    <3> QED BY <1>2, <2>1, <3>1 DEF FrameRead, Busy, Slot, mapVars
  <2> QED BY <1>1, <2>2, <2>3, <2>4, RefineJoin
<1>8. CASE RefineLookUp
  <2>1. PICK snap \in 0 .. magWi, to \in 0 .. MaxTo :
          /\ Scanned(snap)
          /\ job' = [snap |-> snap, to |-> to]
          /\ rd' = [rd EXCEPT !.pc = "check", !.from = slotMap[(snap + to) % MapLen]]
    BY <1>8 DEF RefineLookUp
  <2>2. /\ rd'.pc = "check" /\ rd'.from = slotMap[(snap + to) % MapLen]
        /\ job'.snap = snap /\ job'.to = to /\ UNCHANGED ringVars
    BY <1>1, <1>8, <2>1 DEF CoreInv, ReadRec, RefineLookUp
  <2>3. snap + to \in 0 .. magWi - 1
    BY <1>3, <2>1, ConstFacts DEF Scanned
  <2>4. OwnOrLater(slotMap[(snap + to) % MapLen], snap + to)
    BY <1>2, <2>3 DEF MapRight
  <2>5. Lookup'
    BY <2>1, <2>2, <2>4 DEF Lookup, Scanned, Slot, OwnOrLater, ringVars
  <2>6. FrameRead'
    BY <2>2 DEF FrameRead, Busy
  <2>7. WriterNear'
    BY <1>1, <1>2, <2>2, NearKeeps
  <2> QED BY <1>1, <2>5, <2>6, <2>7, RefineJoin
<1>9. CASE RefineReject \/ RefineReturn
  <2>1. rd' = Idle /\ rd'.pc = "idle" /\ UNCHANGED ringVars
    BY <1>9, IdleRec DEF RefineReject, RefineReturn
  <2>2. Lookup' /\ FrameRead'
    BY <2>1 DEF Lookup, FrameRead, Busy
  <2>3. WriterNear'
    BY <1>1, <1>2, <2>1, NearKeeps
  <2> QED BY <1>1, <2>2, <2>3, RefineJoin
<1>10. CASE RefineRead
  <2>1. /\ rd.pc = "check" /\ ~ Incomplete /\ rd' = Read(rd.from, FrameBlocks, 0)
        /\ UNCHANGED <<ringVars, mapVars, job>>
    BY <1>10 DEF RefineRead
  <2>2. /\ rd'.pc = "copy" /\ rd'.from = rd.from /\ rd'.len = FrameBlocks /\ rd'.since = pub
        /\ rd'.ok = TRUE
    BY <2>1 DEF Read
  <2>3. Lookup'
    BY <1>2, <2>1, <2>2 DEF Lookup, ringVars
  <2>4. rd.from = Slot * Sym \/ magWi + 2 >= Slot + MapLen + Nsym
    <3>1. CASE rd.from >= (Slot + MapLen) * Sym
      <4>1. FrameBlocks \in Nat
        BY ConstFacts DEF FrameBlocks
      <4>2. rd.from + FrameBlocks <= enq /\ enq = magWi * Sym + buff
        BY <1>2, <1>3, <2>1, <4>1 DEF Incomplete, MapRight
      <4> QED BY <1>3, <1>4, <3>1, <4>2, RoundLater
    <3> QED BY <1>2, <2>1, <3>1 DEF Lookup, OwnOrLater
  <2>5. FrameRead'
    BY <2>1, <2>2, <2>4 DEF FrameRead, Slot, mapVars
  <2>6. WriterNear'
    BY <1>1, <1>2, <2>1, <2>2, NearKeeps
  <2> QED BY <1>1, <2>3, <2>5, <2>6, RefineJoin
<1> QED BY <1>6, <1>7, <1>8, <1>9, <1>10, RefineActs
-----------------------------------------------------------------------------
(***************************************************************************)
(* The skimmer and the waterfall.                                          *)
(***************************************************************************)
LEMMA SnapKeeps ==
  ASSUME ReadersInv, who \in {"skimmer", "waterfall"}, Next PROVE SnapInv'
<1>1. CoreInv /\ SnapInv /\ WriterNear /\ who' = who
  BY WhoStays DEF ReadersInv, SnapInv
<1>2. rd.pc # "check"
  BY <1>1 DEF SnapInv
<1>3. /\ pub \in Nat /\ enq \in Nat /\ done \in Nat /\ event \in Nat /\ pub <= event
      /\ rd.from \in Int /\ rd.len \in Nat /\ rd.since \in Nat /\ rd.wait \in Nat
      /\ Depth \in Nat /\ ReadTime \in Nat /\ last \in Nat
  BY <1>1, ConstFacts DEF CoreInv, ReadRec
<1>4. CASE Enqueue \/ RecordReady \/ Publish \/ Execute \/ PublishInterval
  <2>1. rd' = rd
    BY <1>4 DEF Enqueue, RecordReady, Publish, Execute, PublishInterval
  <2>2. WriterNear'
    <3>1. CASE PublishInterval
      BY <1>1, <3>1, NearKeeps DEF PublishInterval
    <3> QED BY <1>1, <1>4, <3>1, NearKeeps
  <2> QED BY <1>1, <2>1, <2>2 DEF SnapInv, Busy
<1>5. CASE ReadBlock
  <2>1. /\ rd'.pc \in {"copy", "got"} /\ rd'.from = rd.from /\ rd'.len = rd.len
        /\ rd'.since = rd.since /\ rd'.wait = rd.wait
        /\ rd'.ok = (rd.ok /\ Intact(rd.from + rd.i))
        /\ rd.i \in Nat /\ rd.i < rd.len /\ Busy /\ done >= rd.wait
    BY <1>1, <1>5, BlockRead DEF ReadBlock, Busy
  <2>2. /\ rd.wait >= rd.since /\ rd.from \in Nat /\ rd.from + rd.len = rd.since
        /\ rd.since + ReadTime <= rd.from + Depth /\ rd.ok /\ enq <= rd.since + ReadTime
    BY <1>1, <2>1 DEF SnapInv, WriterNear
  <2>3. Intact(rd.from + rd.i)
    BY <1>3, <2>1, <2>2 DEF Intact
  <2>4. WriterNear'
    BY <1>1, <1>5, NearKeeps
  <2> QED BY <2>1, <2>2, <2>3, <2>4 DEF SnapInv
<1>6. CASE SkimmerPoll \/ WaterfallLaunch
  <2>1. PICK n \in Nat : /\ rd' = Read(pub - n, n, event) /\ UNCHANGED ringVars
                         /\ n + ReadTime <= Depth /\ n <= pub
    <3>1. CASE SkimmerPoll
      <4>1. pub >= WSlots + 1 /\ rd' = Read(pub - WSlots, WSlots, event) /\ UNCHANGED ringVars
        BY <3>1 DEF SkimmerPoll, SkimmerDue
      <4>2. WSlots \in Nat /\ WSlots + ReadTime <= Depth /\ WSlots <= pub
        BY <1>3, <4>1, ConstFacts
      <4> QED BY <4>1, <4>2
    <3>2. CASE WaterfallLaunch
      <4>1. pub > last /\ rd' = Read(pub - 1, 1, event) /\ UNCHANGED ringVars
        BY <3>2 DEF WaterfallLaunch
      <4>2. 1 \in Nat /\ 1 + ReadTime <= Depth /\ 1 <= pub
        BY <1>3, <4>1, ConstFacts
      <4> QED BY <4>1, <4>2
    <3> QED BY <1>6, <3>1, <3>2
  <2>2. /\ rd'.pc = "copy" /\ rd'.from = pub - n /\ rd'.len = n /\ rd'.since = pub
        /\ rd'.wait = event /\ rd'.ok = TRUE
    BY <2>1 DEF Read
  <2>3. WriterNear'
    BY <1>1, <2>1, <2>2, NearKeeps
  <2>4. pub - n \in Nat /\ pub - n + n = pub /\ pub + ReadTime <= pub - n + Depth
    BY <1>3, <2>1
  <2> QED BY <1>3, <2>2, <2>3, <2>4 DEF SnapInv
<1>7. CASE SkimmerDecode \/ \E sent \in BOOLEAN : WaterfallDeliver(sent)
  <2>1. rd'.pc = "idle" /\ UNCHANGED ringVars
    BY <1>7, IdleRec DEF SkimmerDecode, WaterfallDeliver
  <2>2. WriterNear'
    BY <1>1, <2>1, NearKeeps
  <2> QED BY <2>1, <2>2 DEF SnapInv, Busy
<1> QED BY <1>2, <1>4, <1>5, <1>6, <1>7, SnapActs

-----------------------------------------------------------------------------
(***************************************************************************)
(* BufferFile recording.                                                   *)
(***************************************************************************)
Recorded ==
  \/ file = << >>
  \/ file = <<last>>
  \/ \E a \in Nat : file = <<a, last>> /\ a < last /\ last <= a + Late

RecRead ==
  /\ rd.pc \in {"idle", "copy", "got"}
  /\ rd.pc = "idle" => enq <= last + 1 + Late
  /\ Busy => /\ rd.from = rd.since - 1 /\ rd.len = 1
             /\ last < rd.from /\ rd.from <= last + Late
             /\ enq <= rd.since + Late
             /\ rd.ok

RecCount == event = enq /\ pub <= done /\ enq <= pub + Lag

LEMMA RecKeeps ==
  ASSUME ReadersInv, who = "record", Next PROVE RecInv'
<1>1. CoreInv /\ RecInv /\ who' = who
  BY WhoStays DEF ReadersInv
<1>2. Recorded /\ RecRead /\ RecCount
  BY <1>1 DEF RecInv, Recorded, RecRead, RecCount
<1> SUFFICES Recorded' /\ RecRead' /\ RecCount'
  BY DEF RecInv, Recorded, RecRead, RecCount
<1>3. /\ pub \in Nat /\ enq \in Nat /\ done \in Nat /\ event \in Nat
      /\ rd.from \in Int /\ rd.since \in Nat /\ rd.i \in Nat
      /\ Depth \in Nat /\ ReadTime \in Nat /\ Lag \in Nat /\ Lag > 0 /\ last \in Nat
      /\ Late \in Nat /\ Late >= ReadTime /\ Late >= Lag /\ Late + 1 <= Depth
      /\ done <= enq /\ last <= pub /\ (Busy => rd.since <= pub)
  BY <1>1, ConstFacts, LateIs DEF CoreInv, ReadRec
<1>4. event = enq /\ pub <= done /\ enq <= pub + Lag
  BY <1>2 DEF RecCount
<1>5. CASE RecordReady
  BY <1>3, <1>4, <1>5 DEF RecordReady
<1>6. CASE Execute \/ FrameCallback \/ PublishInterval
  <2>1. UNCHANGED <<rd, last, file, enq, event>>
    BY <1>6 DEF Execute, FrameCallback, PublishInterval, ringVars, fileVars
  <2>2. RecCount'
    <3>1. CASE Execute
      BY <1>3, <1>4, <3>1 DEF Execute, RecCount
    <3>2. CASE FrameCallback
      BY <1>3, <1>4, <3>2 DEF FrameCallback, RecCount
    <3>3. CASE PublishInterval
      BY <1>4, <3>3 DEF PublishInterval, RecCount, ringVars
    <3> QED BY <1>6, <3>1, <3>2, <3>3
  <2> QED BY <1>2, <2>1, <2>2 DEF Recorded, RecRead, Busy
<1>7. CASE EnqueueFrame
  <2>1. /\ enq' = enq + 1 /\ event' = enq + 1 /\ enq - pub < Lag
        /\ Busy => enq < rd.since + ReadTime
        /\ rd.pc = "idle" => pub - 1 <= last
        /\ UNCHANGED <<pub, done, rd, last, file>>
    BY <1>7 DEF EnqueueFrame, OnTime, fileVars
  <2>2. RecCount'
    BY <1>3, <1>4, <2>1 DEF RecCount
  <2>3. RecRead'
    <3>1. rd.pc = "idle" => enq' <= last + 1 + Late
      BY <1>3, <2>1
    <3>2. Busy => enq' <= rd.since + Late
      BY <1>3, <2>1
    <3> QED BY <1>2, <2>1, <3>1, <3>2 DEF RecRead, Busy
  <2> QED BY <1>2, <2>1, <2>2, <2>3 DEF Recorded
<1>8. CASE ReadBlock
  <2>1. /\ rd'.pc \in {"copy", "got"} /\ rd'.from = rd.from /\ rd'.len = rd.len
        /\ rd'.since = rd.since /\ rd'.ok = (rd.ok /\ Intact(rd.from + rd.i))
        /\ rd.i < rd.len /\ Busy /\ UNCHANGED <<enq, event, pub, done, last, file>>
    BY <1>1, <1>8, BlockRead DEF ReadBlock, Busy, ringVars, fileVars
  <2>2. /\ rd.from = rd.since - 1 /\ rd.len = 1 /\ enq <= rd.since + Late /\ rd.ok
    BY <1>2, <2>1 DEF RecRead
  <2>3. Intact(rd.from + rd.i)
    BY <1>3, <1>4, <2>1, <2>2 DEF Intact
  <2>4. RecRead'
    BY <1>2, <2>1, <2>2, <2>3 DEF RecRead, Busy
  <2> QED BY <1>2, <2>1, <2>4 DEF Recorded, RecCount
<1>9. CASE RecordNext
  <2>1. /\ rd.pc = "idle" /\ pub - 1 >= last + 1 /\ rd' = Read(pub - 1, 1, 0)
        /\ UNCHANGED <<enq, event, pub, done, last, file>>
    BY <1>9 DEF RecordNext, ringVars, fileVars
  <2>2. /\ rd'.pc = "copy" /\ rd'.from = pub - 1 /\ rd'.len = 1 /\ rd'.since = pub
        /\ rd'.ok = TRUE
    BY <2>1 DEF Read
  <2>3. enq <= last + 1 + Late
    BY <1>2, <2>1 DEF RecRead
  <2>4. last < pub - 1 /\ pub - 1 <= last + Late /\ enq <= pub + Late
    BY <1>3, <1>4, <2>1, <2>3
  <2>5. RecRead'
    BY <2>1, <2>2, <2>4 DEF RecRead
  <2> QED BY <1>2, <2>1, <2>5 DEF Recorded, RecCount
<1>10. CASE RecordWrite
  <2>1. /\ Busy /\ last' = rd.from /\ rd' = Idle /\ rd'.pc = "idle"
        /\ file' = (IF file = << >> THEN <<rd.from>> ELSE <<Last(file), rd.from>>)
        /\ UNCHANGED <<enq, event, pub, done>>
    BY <1>10, IdleRec DEF RecordWrite, Busy, ringVars
  <2>2. /\ rd.from = rd.since - 1 /\ last < rd.from /\ rd.from <= last + Late
        /\ enq <= rd.since + Late
    BY <1>2, <2>1 DEF RecRead
  <2>3. RecRead'
    <3>1. enq' <= last' + 1 + Late
      BY <1>3, <2>1, <2>2
    <3> QED BY <2>1, <3>1 DEF RecRead, Busy
  <2>4. Recorded'
    <3>1. CASE file = << >>
      BY <2>1, <3>1 DEF Recorded
    <3>2. CASE file # << >>
      <4>1. Last(file) = last
        <5>1. CASE file = <<last>>
          BY <5>1 DEF Last
        <5>2. CASE \E a \in Nat : file = <<a, last>> /\ a < last /\ last <= a + Late
          BY <5>2 DEF Last
        <5> QED BY <1>2, <3>2, <5>1, <5>2 DEF Recorded
      <4>2. file' = <<last, last'>>
        BY <2>1, <3>2, <4>1
      <4>3. last < last' /\ last' <= last + Late
        BY <2>1, <2>2
      <4> QED BY <1>3, <4>2, <4>3 DEF Recorded
    <3> QED BY <3>1, <3>2
  <2> QED BY <1>2, <2>1, <2>3, <2>4 DEF RecCount
<1>11. rd.pc # "check"
  BY <1>2 DEF RecRead
<1> QED BY <1>5, <1>6, <1>7, <1>8, <1>9, <1>10, <1>11, RecordActs

-----------------------------------------------------------------------------
(***************************************************************************)
(* BufferFile playing.                                                     *)
(***************************************************************************)
PlayPc ==
  /\ rd.pc \in {"idle", "flight"}
  /\ event = enq /\ enq <= pub + 1
  /\ rd.pc = "idle" => enq = pub
  /\ rd.pc = "flight" => /\ fpos >= 1 /\ rd.from = fpos - 1 /\ ~ finished
                         /\ enq = pub => enq < MaxBlocks[who]
  /\ finished => ~ loop /\ fpos = FileBlocks

InRound == \E k \in Nat : pub = k * FileBlocks + Ahead /\ (~ loop => k = 0)

FileRight ==
  /\ file \in Seq(Int) /\ Len(file) = pub
  /\ \A i \in 1 .. Len(file) : file[i] = (i - 1) % FileBlocks

LEMMA PlayKeeps ==
  ASSUME ReadersInv, who = "playback", Next PROVE PlayInv'
<1>1. CoreInv /\ SideTypes /\ PlayInv /\ who' = who
  BY WhoStays DEF ReadersInv
<1>2. PlayPc /\ InRound /\ FileRight
  BY <1>1 DEF PlayInv, PlayPc, InRound, FileRight
<1> SUFFICES PlayPc' /\ InRound' /\ FileRight'
  BY DEF PlayInv, PlayPc, InRound, FileRight
<1>3. /\ pub \in Nat /\ enq \in Nat /\ event \in Nat /\ FileBlocks \in Nat
      /\ fpos \in 0 .. FileBlocks /\ fpos \in Nat /\ rd.from \in Int /\ pub <= enq
      /\ loop \in BOOLEAN /\ rd \in ReadRec /\ MaxBlocks[who] \in Nat
  BY <1>1, ConstFacts DEF CoreInv, ReadRec, SideTypes
<1>4. CASE RecordReady
  BY <1>2, <1>3, <1>4 DEF RecordReady, PlayPc
<1>5. CASE Execute \/ PublishInterval
  <2>1. UNCHANGED <<who, enq, event, pub, rd, file, fpos, loop, finished>>
    BY <1>5 DEF Execute, PublishInterval, ringVars, fileVars
  <2> QED BY <1>2, <2>1 DEF PlayPc, InRound, FileRight, Ahead
<1>6. CASE PlayRead
  <2>1. /\ rd.pc = "idle" /\ ~ finished /\ fpos < FileBlocks /\ enq < MaxBlocks[who]
        /\ rd' = [rd EXCEPT !.pc = "flight", !.from = fpos] /\ fpos' = fpos + 1
        /\ UNCHANGED <<enq, event, pub, file, loop, finished>>
    BY <1>6 DEF PlayRead, ringVars
  <2>2. rd'.pc = "flight" /\ rd'.from = fpos
    BY <1>3, <2>1 DEF ReadRec
  <2>3. fpos' >= 1 /\ fpos' - 1 = fpos
    BY <1>3, <2>1
  <2>4. PlayPc'
    BY <1>1, <1>2, <2>1, <2>2, <2>3 DEF PlayPc
  <2>5. Ahead' = Ahead
    BY <2>1, <2>2, <2>3 DEF Ahead
  <2> QED BY <1>2, <2>1, <2>4, <2>5 DEF InRound, FileRight
<1>7. CASE PlayCopy
  <2>1. /\ rd.pc = "flight" /\ pub = enq /\ enq' = enq + 1 /\ event' = enq'
        /\ UNCHANGED <<pub, rd, file, fpos, loop, finished>>
    BY <1>7 DEF PlayCopy, fileVars
  <2>2. PlayPc'
    BY <1>2, <1>3, <2>1 DEF PlayPc
  <2>3. Ahead' = Ahead
    BY <2>1 DEF Ahead
  <2> QED BY <1>2, <2>1, <2>2, <2>3 DEF InRound, FileRight
<1>8. CASE PlayPosition
  <2>1. /\ rd.pc = "flight" /\ pub < enq /\ pub' = enq /\ file' = Append(file, rd.from)
        /\ rd'.pc = "idle" /\ UNCHANGED <<enq, event, fpos, loop, finished>>
    BY <1>8, IdleRec DEF PlayPosition
  <2>2. /\ enq = pub + 1 /\ rd.from = fpos - 1 /\ fpos >= 1 /\ ~ finished /\ event = enq
    BY <1>2, <1>3, <2>1 DEF PlayPc
  <2>3. PlayPc'
    BY <2>1, <2>2, <1>3 DEF PlayPc
  <2>4. PICK k \in Nat : pub = k * FileBlocks + Ahead /\ (~ loop => k = 0)
    BY <1>2 DEF InRound
  <2>5. Ahead = fpos - 1 /\ Ahead' = fpos
    BY <2>1 DEF Ahead
  <2>6. k * FileBlocks \in Nat
    BY <1>3
  <2>7. pub' = k * FileBlocks + Ahead'
    BY <1>3, <2>1, <2>2, <2>4, <2>5, <2>6
  <2>8. InRound'
    BY <2>1, <2>4, <2>7 DEF InRound
  <2>9. rd.from \in 0 .. FileBlocks - 1
    BY <1>3, <2>2
  <2>10. pub % FileBlocks = rd.from
    BY <1>3, <2>2, <2>4, <2>5, <2>9, Rounds
  <2>11. /\ file \in Seq(Int) /\ Len(file) = pub
         /\ \A i \in 1 .. pub : file[i] = (i - 1) % FileBlocks
    BY <1>2 DEF FileRight
  <2>12. /\ file' \in Seq(Int) /\ Len(file') = pub + 1 /\ file'[pub + 1] = rd.from
         /\ \A i \in 1 .. pub : file'[i] = file[i]
    BY <1>3, <2>1, <2>11
  <2>13. ASSUME NEW i \in 1 .. pub + 1 PROVE file'[i] = (i - 1) % FileBlocks
    <3>1. CASE i = pub + 1
      <4>1. i - 1 = pub
        BY <1>3, <3>1
      <4> QED BY <2>10, <2>12, <3>1, <4>1
    <3>2. CASE i # pub + 1
      <4>1. i \in 1 .. pub
        BY <1>3, <3>2
      <4> QED BY <2>11, <2>12, <4>1
    <3> QED BY <3>1, <3>2
  <2>14. FileRight'
    BY <2>1, <2>2, <2>12, <2>13 DEF FileRight
  <2> QED BY <2>3, <2>8, <2>14
<1>9. CASE PlayEnd
  <2>1. /\ rd.pc = "idle" /\ ~ finished /\ fpos = FileBlocks
        /\ fpos' = (IF loop THEN 0 ELSE fpos) /\ finished' = ~ loop
        /\ UNCHANGED <<enq, event, pub, rd, file, loop>>
    BY <1>9 DEF PlayEnd, ringVars
  <2>2. PlayPc'
    BY <1>2, <2>1 DEF PlayPc
  <2>3. PICK k \in Nat : pub = k * FileBlocks + Ahead /\ (~ loop => k = 0)
    BY <1>2 DEF InRound
  <2>4. Ahead = FileBlocks /\ Ahead' = IF loop THEN 0 ELSE FileBlocks
    BY <2>1 DEF Ahead
  <2>5. InRound'
    <3>1. CASE loop
      <4>1. k + 1 \in Nat /\ (k + 1) * FileBlocks + 0 = k * FileBlocks + FileBlocks
        BY <1>3
      <4>2. pub' = (k + 1) * FileBlocks + Ahead'
        BY <2>1, <2>3, <2>4, <3>1, <4>1
      <4> QED BY <2>1, <3>1, <4>1, <4>2 DEF InRound
    <3>2. CASE ~ loop
      BY <2>1, <2>3, <2>4, <3>2 DEF InRound
    <3> QED BY <3>1, <3>2
  <2> QED BY <1>2, <2>1, <2>2, <2>5 DEF FileRight
<1>10. rd.pc \in {"idle", "flight"}
  BY <1>2 DEF PlayPc
<1> QED BY <1>4, <1>5, <1>6, <1>7, <1>8, <1>9, <1>10, PlayActs

-----------------------------------------------------------------------------
LEMMA ReadersNext == ReadersInv /\ [Next]_vars => ReadersInv'
<1>1. ASSUME ReadersInv, Next PROVE ReadersInv'
  BY <1>1, CoreKeeps, SideKeeps, RefineKeeps, SnapKeeps, RecKeeps, PlayKeeps, WhoStays
     DEF ReadersInv
<1>2. ASSUME ReadersInv, UNCHANGED vars PROVE ReadersInv'
  <2>1. CoreInv'
    BY <1>2 DEF ReadersInv, CoreInv, Busy, vars, ringVars
  <2>2. SideTypes'
    BY <1>2 DEF ReadersInv, SideTypes, vars, mapVars, wfVars, fileVars
  <2>3. who = "refine" => RefineInv'
    BY <1>2 DEF ReadersInv, RefineInv, WriterNear, MapRight, OwnOrLater, Slot, Busy, vars,
                ringVars, mapVars
  <2>4. who \in {"skimmer", "waterfall"} => SnapInv'
    BY <1>2 DEF ReadersInv, SnapInv, WriterNear, Busy, vars, ringVars
  <2>5. who = "record" => RecInv'
    BY <1>2 DEF ReadersInv, RecInv, Busy, vars, ringVars, fileVars
  <2>6. who = "playback" => PlayInv'
    BY <1>2 DEF ReadersInv, PlayInv, Ahead, vars, ringVars, fileVars
  <2> QED BY <1>2, <2>1, <2>2, <2>3, <2>4, <2>5, <2>6 DEF ReadersInv, vars
<1> QED BY <1>1, <1>2

LEMMA ReadersSafe == Spec => []ReadersInv
  BY InitKeeps, ReadersNext, PTL DEF Spec

(* FrameRight: the counters of the ring stay in order; refineCandidate     *)
(* hands on its candidate's own frame until the map entry has been reused  *)
(* and the later frame is complete, and a frame within the blocks the scan *)
(* waited for and ReadTime younger than the ring is whole, although        *)
(* nothing is waited for.                                                  *)
THEOREM FramesStayRight == Spec => []FrameRight
<1>1. ReadersInv => FrameRight
  <2> SUFFICES ASSUME ReadersInv PROVE FrameRight
    OBVIOUS
  <2>1. CoreInv /\ SideTypes
    BY DEF ReadersInv
  <2>2. rd.pc \in {"idle", "check", "copy", "got", "flight"} /\ rd.i \in 0 .. rd.len /\ rd.ok \in BOOLEAN
    BY <2>1 DEF CoreInv, ReadRec
  <2>3. {ws, recent, loop, finished} \subseteq BOOLEAN
    BY <2>1 DEF SideTypes
  <2>4. TypeOK
    BY <2>1, <2>2, <2>3 DEF TypeOK, CoreInv, SideTypes
  <2>5. OwnFrame
    BY DEF OwnFrame, ReadersInv, RefineInv, Busy, Slot
  <2>6. FrameIntact
    BY DEF FrameIntact, ReadersInv, RefineInv, Busy, Slot
  <2> QED BY <2>4, <2>5, <2>6 DEF FrameRight
<1> QED BY <1>1, ReadersSafe, PTL

(* SnapshotIntact: every slot of a window the skimmer decodes, and of a    *)
(* row the waterfall shows, was made before it was read and not            *)
(* overwritten during the read.                                            *)
THEOREM SnapshotsStayIntact == Spec => []SnapshotIntact
<1>1. ReadersInv => SnapshotIntact
  BY DEF ReadersInv, SnapInv, SnapshotIntact, Busy
<1> QED BY <1>1, ReadersSafe, PTL

(* FilesInOrder: BufferFile records blocks of the ring intact, each once,  *)
(* in order, with gaps no longer than it was late; and plays the blocks of *)
(* a file in their order, finishing only after the last.                   *)
THEOREM FilesStayInOrder == Spec => []FilesInOrder
<1>1. ReadersInv => FilesInOrder
  <2> SUFFICES ASSUME ReadersInv PROVE FilesInOrder
    OBVIOUS
  <2>1. ASSUME who = "record" PROVE RecordingInOrder
    <3>1. RecInv
      BY <2>1 DEF ReadersInv
    <3>2. rd.pc = "got" => rd.ok
      BY <3>1 DEF RecInv, Busy
    <3>3. last \in Nat /\ Late \in Nat
      BY LateIs DEF ReadersInv, CoreInv
    <3>4. ASSUME NEW i \in 2 .. Len(file)
          PROVE  file[i - 1] < file[i] /\ file[i] <= file[i - 1] + Late
      <4>1. CASE file = << >> \/ file = <<last>>
        BY <3>4, <4>1
      <4>2. CASE \E a \in Nat : file = <<a, last>> /\ a < last /\ last <= a + Late
        <5>1. PICK a \in Nat : file = <<a, last>> /\ a < last /\ last <= a + Late
          BY <4>2
        <5>2. i = 2
          BY <5>1
        <5>3. file[1] = a /\ file[2] = last
          BY <5>1
        <5> QED BY <5>1, <5>2, <5>3
      <4> QED BY <3>1, <4>1, <4>2 DEF RecInv
    <3> QED BY <3>2, <3>4 DEF RecordingInOrder, Late
  <2>2. ASSUME who = "playback" PROVE PlaysFileInOrder
    <3>1. /\ file \in Seq(Int) /\ Len(file) = pub
          /\ \A i \in 1 .. Len(file) : file[i] = (i - 1) % FileBlocks
      BY <2>2 DEF ReadersInv, PlayInv
    <3>2. DOMAIN file = 1 .. Len(file)
      BY <3>1
    <3>3. finished => Len(file) = FileBlocks
      <4> SUFFICES ASSUME finished PROVE pub = FileBlocks
        BY <3>1
      <4>1. ~ loop /\ fpos = FileBlocks /\ rd.pc = "idle"
        BY <2>2 DEF ReadersInv, PlayInv
      <4>2. pub = 0 * FileBlocks + Ahead
        BY <2>2, <4>1 DEF ReadersInv, PlayInv
      <4> QED BY <4>1, <4>2, ConstFacts DEF Ahead
    <3> QED BY <3>1, <3>2, <3>3 DEF PlaysFileInOrder
  <2> QED BY <2>1, <2>2 DEF FilesInOrder, RecordingInOrder, PlaysFileInOrder
<1> QED BY <1>1, ReadersSafe, PTL

(***************************************************************************)
(* Proofs about CwTrack, the tracker behind the skimmer's snapshots, for   *)
(* every set of carriers and calls, every band, gate, drift and lifetime.  *)
(***************************************************************************)

(***************************************************************************)
(* Induction over an interval, and functions defined by recursion over     *)
(* one, with sets and functions in the place of operators.                 *)
(***************************************************************************)
(* A nonempty set of numbers has a least one.                              *)
LEMMA LeastOf ==
  ASSUME NEW S \in SUBSET Nat, S # {}
  PROVE  \E m \in S : \A k \in S : m <= k
<1>1. \E x \in S : \A y \in S : ~(<<y, x>> \in OpToRel(<, Nat))
  BY NatLessThanWellFounded, WFMin
<1>2. \E x \in S : \A y \in S : ~(y < x)
  BY <1>1, Zenon DEF OpToRel
<1> QED BY <1>2

(* A set that holds 0 and with a number the next one holds all of them.    *)
LEMMA Steps ==
  ASSUME NEW N \in Nat, NEW G \in SUBSET (0 .. N), 0 \in G,
         \A i \in 1 .. N : i - 1 \in G => i \in G
  PROVE  G = 0 .. N
<1>1. SUFFICES ASSUME (0 .. N) \ G # {} PROVE FALSE
  OBVIOUS
<1>2. PICK m \in (0 .. N) \ G : \A k \in (0 .. N) \ G : m <= k
  <2>1. (0 .. N) \ G \in SUBSET Nat
    OBVIOUS
  <2> QED BY ONLY <1>1, <2>1, LeastOf
<1>3. m \in 1 .. N
  BY <1>2
<1>4. m - 1 \in G
  BY <1>2, <1>3
<1> QED BY <1>2, <1>3, <1>4

(* f is what N steps, next[1] to next[N], make of init, in the set S.      *)
Runs(f, N, S, init, next) ==
  /\ f \in [0 .. N -> S] /\ f[0] = init
  /\ \A i \in 1 .. N : f[i] = next[i][f[i - 1]]

(* Recursion over an interval defines a function.                          *)
LEMMA Recursion ==
  ASSUME NEW N \in Nat, NEW S, NEW init \in S, NEW next \in [1 .. N -> [S -> S]]
  PROVE  \E f : Runs(f, N, S, init, next)
<1> DEFINE Upto(n) == \E f \in [0 .. n -> S] :
                        f[0] = init /\ \A i \in 1 .. n : f[i] = next[i][f[i - 1]]
           G == {n \in 0 .. N : Upto(n)}
<1>1. 0 \in G
  <2> DEFINE f == [i \in 0 .. 0 |-> init]
  <2>1. f \in [0 .. 0 -> S] /\ f[0] = init
    OBVIOUS
  <2>2. \A i \in 1 .. 0 : f[i] = next[i][f[i - 1]]
    OBVIOUS
  <2> HIDE DEF f
  <2> QED BY <2>1, <2>2
<1>2. ASSUME NEW n \in 1 .. N, n - 1 \in G PROVE n \in G
  <2>1. PICK f \in [0 .. n - 1 -> S] :
          f[0] = init /\ \A i \in 1 .. n - 1 : f[i] = next[i][f[i - 1]]
    BY <1>2
  <2> DEFINE g == [i \in 0 .. n |-> IF i = n THEN next[n][f[n - 1]] ELSE f[i]]
  <2>2. next[n][f[n - 1]] \in S
    BY <2>1
  <2>3. g \in [0 .. n -> S] /\ g[0] = init
    BY <2>1, <2>2
  <2>4. ASSUME NEW i \in 1 .. n PROVE g[i] = next[i][g[i - 1]]
    <3>1. CASE i = n
      BY <3>1
    <3>2. CASE i # n
      BY <2>1, <3>2
    <3> QED BY <3>1, <3>2
  <2> HIDE DEF g
  <2> QED BY <2>3, <2>4
<1> HIDE DEF Upto
<1>3. N \in G
  <2>1. G \in SUBSET (0 .. N)
    OBVIOUS
  <2> HIDE DEF G
  <2>2. G = 0 .. N
    BY ONLY N \in Nat, <1>1, <1>2, <2>1, Steps
  <2> QED BY <2>2
<1> QED BY <1>3 DEF Upto, Runs
(***************************************************************************)
(* editDistLE1.                                                            *)
(***************************************************************************)
(* RemoveAt(t, k) is s: the letters before k, and those after it.          *)
LEMMA Removed ==
  ASSUME NEW X, NEW s \in Seq(X), NEW t \in Seq(X), NEW k \in DOMAIN t
  PROVE  RemoveAt(t, k) = s
           <=> /\ Len(t) = Len(s) + 1
               /\ \A j \in 1 .. k - 1 : s[j] = t[j]
               /\ \A j \in k .. Len(s) : s[j] = t[j + 1]
<1> DEFINE r == RemoveAt(t, k)
<1>1. k \in 1 .. Len(t) /\ Len(t) \in Nat /\ Len(s) \in Nat
  OBVIOUS
<1>2. /\ SubSeq(t, 1, k - 1) \in Seq(X) /\ Len(SubSeq(t, 1, k - 1)) = k - 1
      /\ \A j \in 1 .. k - 1 : SubSeq(t, 1, k - 1)[j] = t[j]
  BY <1>1
<1>3. /\ SubSeq(t, k + 1, Len(t)) \in Seq(X)
      /\ Len(SubSeq(t, k + 1, Len(t))) = Len(t) - k
      /\ \A j \in 1 .. Len(t) - k : SubSeq(t, k + 1, Len(t))[j] = t[k + j]
  BY <1>1
<1>4. /\ r \in Seq(X) /\ Len(r) = Len(t) - 1
      /\ \A j \in 1 .. k - 1 : r[j] = t[j]
      /\ \A j \in k .. Len(t) - 1 : r[j] = t[j + 1]
  <2> DEFINE u == SubSeq(t, 1, k - 1)
             v == SubSeq(t, k + 1, Len(t))
  <2>1. r = u \o v
    BY DEF RemoveAt
  <2> HIDE DEF r
  <2>2. u \in Seq(X) /\ Len(u) = k - 1 /\ v \in Seq(X) /\ Len(v) = Len(t) - k
    BY <1>2, <1>3
  <2>3. /\ \A j \in 1 .. k - 1 : u[j] = t[j]
        /\ \A j \in 1 .. Len(t) - k : v[j] = t[k + j]
    BY <1>2, <1>3
  <2> HIDE DEF u, v
  <2>4. r \in Seq(X) /\ Len(r) = Len(t) - 1
    BY <1>1, <2>1, <2>2
  <2>5. ASSUME NEW j \in 1 .. k - 1 PROVE r[j] = t[j]
    BY <1>1, <2>1, <2>2, <2>3
  <2>6. ASSUME NEW j \in k .. Len(t) - 1 PROVE r[j] = t[j + 1]
    <3>1. j - (k - 1) \in 1 .. Len(t) - k /\ j \in 1 .. Len(u) + Len(v) /\ j > Len(u)
      BY <1>1, <2>2
    <3>2. r[j] = v[j - Len(u)]
      <4>1. \A i \in 1 .. Len(u) + Len(v) :
              (u \o v)[i] = IF i <= Len(u) THEN u[i] ELSE v[i - Len(u)]
        BY ONLY <2>2, ConcatProperties
      <4>2. ~ (j <= Len(u))
        BY <1>1, <2>2
      <4> QED BY <2>1, <3>1, <4>1, <4>2
    <3>3. v[j - (k - 1)] = t[k + (j - (k - 1))]
      BY <2>3, <3>1
    <3>4. k + (j - (k - 1)) = j + 1
      BY <1>1
    <3> QED BY <2>2, <3>2, <3>3, <3>4
  <2> QED BY <2>4, <2>5, <2>6
<1> HIDE DEF r
<1>5. ASSUME r = s
      PROVE  /\ Len(t) = Len(s) + 1
             /\ \A j \in 1 .. k - 1 : s[j] = t[j]
             /\ \A j \in k .. Len(s) : s[j] = t[j + 1]
  BY <1>1, <1>4, <1>5
<1>6. ASSUME /\ Len(t) = Len(s) + 1
             /\ \A j \in 1 .. k - 1 : s[j] = t[j]
             /\ \A j \in k .. Len(s) : s[j] = t[j + 1]
      PROVE  r = s
  <2>1. Len(r) = Len(s)
    BY <1>1, <1>4, <1>6
  <2>2. ASSUME NEW j \in 1 .. Len(s) PROVE r[j] = s[j]
    <3>1. CASE j \in 1 .. k - 1
      BY <1>4, <1>6, <3>1
    <3>2. CASE j \in k .. Len(s)
      BY <1>1, <1>4, <1>6, <3>2
    <3> QED BY <1>1, <3>1, <3>2
  <2> QED BY <1>4, <2>1, <2>2, SeqEqual
<1> QED BY <1>5, <1>6 DEF r

(* The alignment loop succeeds if the longer word has one letter too many. *)
LEMMA AlignsIs ==
  ASSUME NEW X, NEW s \in Seq(X), NEW t \in Seq(X), Len(t) = Len(s) + 1
  PROVE  Aligns(s, t) <=> \E k \in DOMAIN t : RemoveAt(t, k) = s
<1> DEFINE stop == {i \in DOMAIN s : s[i] # t[i]}
           i0 == IF stop = {} THEN Len(t)
                 ELSE CHOOSE i \in stop : \A j \in stop : i <= j
<1>1. Len(s) \in Nat /\ DOMAIN s = 1 .. Len(s) /\ DOMAIN t = 1 .. Len(s) + 1
  OBVIOUS
<1>2. /\ i0 \in 1 .. Len(s) + 1
      /\ \A j \in 1 .. i0 - 1 : s[j] = t[j]
      /\ i0 # Len(s) + 1 => s[i0] # t[i0]
  <2>1. CASE stop = {}
    BY <1>1, <2>1
  <2>2. CASE stop # {}
    <3>1. stop \in SUBSET Nat
      BY <1>1
    <3> HIDE DEF stop
    <3>2. \E i \in stop : \A j \in stop : i <= j
      BY ONLY <2>2, <3>1, LeastOf
    <3>3. i0 \in stop /\ \A j \in stop : i0 <= j
      BY <2>2, <3>2
    <3> HIDE DEF i0
    <3>4. i0 \in 1 .. Len(s) /\ s[i0] # t[i0]
      BY <1>1, <3>3 DEF stop
    <3>5. ASSUME NEW j \in 1 .. i0 - 1 PROVE s[j] = t[j]
      <4>1. j \in 1 .. Len(s) /\ ~ (i0 <= j)
        BY <1>1, <3>4
      <4> QED BY <1>1, <3>3, <4>1 DEF stop
    <3> QED BY <1>1, <3>4, <3>5
  <2> QED BY <2>1, <2>2
<1>3. Aligns(s, t) <=> \A j \in i0 .. Len(s) : s[j] = t[j + 1]
  BY DEF Aligns
<1> HIDE DEF i0
<1>4. ASSUME \A j \in i0 .. Len(s) : s[j] = t[j + 1]
      PROVE  \E k \in DOMAIN t : RemoveAt(t, k) = s
  <2>1. i0 \in DOMAIN t
    BY <1>1, <1>2
  <2> QED BY <1>2, <1>4, <2>1, Removed
<1>5. ASSUME NEW k \in DOMAIN t, RemoveAt(t, k) = s
      PROVE  \A j \in i0 .. Len(s) : s[j] = t[j + 1]
  <2>1. /\ \A j \in 1 .. k - 1 : s[j] = t[j]
        /\ \A j \in k .. Len(s) : s[j] = t[j + 1]
    <3>1. RemoveAt(t, k) = s /\ k \in DOMAIN t
      BY <1>5
    <3> QED BY ONLY <3>1, Removed, s \in Seq(X), t \in Seq(X)
  <2>2. k <= i0
    BY <1>1, <1>2, <2>1
  <2> QED BY <1>1, <1>2, <2>1, <2>2
<1> QED BY <1>3, <1>4, <1>5

(* editDistLE1 decides whether two words are at most one edit apart.       *)
THEOREM EditDistIsOneEditAway ==
  ASSUME NEW X, NEW a \in Seq(X), NEW b \in Seq(X)
  PROVE  EditDistLE1(a, b) <=> OneEdit(a, b)
<1>0. Len(a) \in Nat /\ Len(b) \in Nat
  OBVIOUS
<1>1. DOMAIN a = 1 .. Len(a) /\ DOMAIN b = 1 .. Len(b)
  OBVIOUS
<1>2. \A i \in DOMAIN a : RemoveAt(a, i) = b => Len(a) = Len(b) + 1
  BY Removed
<1>3. \A i \in DOMAIN b : RemoveAt(b, i) = a => Len(a) + 1 = Len(b)
  BY Removed
<1>4. CASE Len(a) # Len(b) /\ Len(a) # Len(b) + 1 /\ Len(a) + 1 # Len(b)
  <2>1. ~ EditDistLE1(a, b)
    BY <1>4 DEF EditDistLE1
  <2> QED BY <1>2, <1>3, <1>4, <2>1 DEF OneEdit
<1>5. CASE Len(a) = Len(b)
  <2> DEFINE D == {i \in DOMAIN a : a[i] # b[i]}
  <2>1. EditDistLE1(a, b) <=> Cardinality(D) <= 1
    <3>1. Len(a) + 1 # Len(b) /\ Len(a) # Len(b) + 1
      BY ONLY <1>0, <1>5
    <3> QED BY <1>5, <3>1 DEF EditDistLE1
  <2>2. IsFiniteSet(D) /\ Cardinality(D) \in Nat
    <3>1. IsFiniteSet(1 .. Len(a))
      BY <1>1, FS_Interval
    <3>2. D \in SUBSET (1 .. Len(a))
      BY <1>1
    <3> HIDE DEF D
    <3> QED BY <3>1, <3>2, FS_Subset, FS_CardinalityType
  <2>3. ASSUME Cardinality(D) <= 1 PROVE OneEdit(a, b)
    <3>1. CASE Cardinality(D) = 0
      <4>1. D = {}
        BY <2>2, <3>1, FS_EmptySet
      <4>2. a = b
        BY <1>1, <1>5, <4>1, SeqEqual
      <4> QED BY <4>2 DEF OneEdit
    <3>2. CASE Cardinality(D) = 1
      <4>1. PICK i : D = {i}
        BY <2>2, <3>2, FS_Singleton
      <4>2. i \in DOMAIN a /\ \A j \in DOMAIN a \ {i} : a[j] = b[j]
        BY <4>1
      <4> QED BY <1>5, <4>2 DEF OneEdit
    <3> QED BY <2>2, <2>3, <3>1, <3>2
  <2>4. ASSUME OneEdit(a, b) PROVE Cardinality(D) <= 1
    <3>1. a = b \/ \E i \in DOMAIN a : \A j \in DOMAIN a \ {i} : a[j] = b[j]
      <4>1. Len(a) # Len(b) + 1 /\ Len(a) + 1 # Len(b)
        BY ONLY <1>0, <1>5
      <4> QED BY <1>2, <1>3, <2>4, <4>1 DEF OneEdit
    <3>2. CASE a = b
      <4>1. D = {}
        BY <3>2
      <4>2. Cardinality(D) = 0
        BY ONLY <4>1, FS_EmptySet
      <4> QED BY <4>2
    <3>3. CASE \E i \in DOMAIN a : \A j \in DOMAIN a \ {i} : a[j] = b[j]
      <4>1. PICK i \in DOMAIN a : \A j \in DOMAIN a \ {i} : a[j] = b[j]
        BY <3>3
      <4>2. D \in SUBSET {i}
        BY <4>1
      <4>3. IsFiniteSet({i}) /\ Cardinality({i}) = 1
        BY FS_Singleton
      <4> HIDE DEF D
      <4>4. Cardinality(D) <= Cardinality({i})
        BY ONLY <4>2, <4>3, FS_Subset
      <4> QED BY <4>3, <4>4
    <3> QED BY <3>1, <3>2, <3>3
  <2> QED BY <2>1, <2>3, <2>4
<1>6. CASE Len(a) + 1 = Len(b)
  <2>1. EditDistLE1(a, b) <=> Aligns(a, b)
    <3>1. Len(a) # Len(b) /\ Len(a) # Len(b) + 1
      BY ONLY <1>0, <1>6
    <3> QED BY <1>6, <3>1 DEF EditDistLE1
  <2>2. Aligns(a, b) <=> \E k \in DOMAIN b : RemoveAt(b, k) = a
    BY <1>6, AlignsIs
  <2>3. Len(a) # Len(b) /\ Len(a) # Len(b) + 1
    BY ONLY <1>0, <1>6
  <2> QED BY <1>2, <2>1, <2>2, <2>3 DEF OneEdit
<1>7. CASE Len(a) = Len(b) + 1
  <2>1. EditDistLE1(a, b) <=> Aligns(b, a)
    <3>1. Len(a) # Len(b) /\ Len(a) + 1 # Len(b)
      BY ONLY <1>0, <1>7
    <3> QED BY <1>7, <3>1 DEF EditDistLE1
  <2>2. Aligns(b, a) <=> \E k \in DOMAIN a : RemoveAt(a, k) = b
    BY <1>7, AlignsIs
  <2>3. Len(a) # Len(b) /\ Len(a) + 1 # Len(b)
    BY ONLY <1>0, <1>7
  <2> QED BY <1>3, <2>1, <2>2, <2>3 DEF OneEdit
<1> QED BY <1>4, <1>5, <1>6, <1>7
(***************************************************************************)
(* Detection.                                                              *)
(***************************************************************************)
(* The parameters as numbers.                                              *)
LEMMA TrackParams ==
  /\ Bins \in Nat /\ Gate \in Nat /\ Drift \in Nat /\ Merge \in Nat /\ Confirm \in Nat
  /\ Ttl \in Nat /\ Recent \in Nat /\ Levels \subseteq Nat /\ InBand \subseteq Nat
  /\ Gate > 0 /\ Confirm > 0 /\ Drift <= Merge
<1>1. {Bins, Gate, Drift, Merge, Confirm, Ttl, Recent} \subseteq Nat
  BY TrackAssumption
<1>2. Bins \in Nat
  BY <1>1
<1>3. InBand \subseteq Nat
  BY <1>2 DEF InBand
<1> QED BY <1>1, <1>3, TrackAssumption

(* A nonempty set of integers with a bound has a greatest element.         *)
LEMMA GreatestOf ==
  ASSUME NEW S \in SUBSET Int, S # {}, NEW B \in Int, \A x \in S : x <= B
  PROVE  \E m \in S : \A n \in S : n <= m
<1> DEFINE D == {B - x : x \in S}
<1>1. D \in SUBSET Nat /\ D # {}
  <2>1. \A x \in S : B - x \in Nat
    OBVIOUS
  <2> QED BY <2>1
<1>2. PICK d \in D : \A k \in D : d <= k
  <2> HIDE DEF D
  <2> QED BY ONLY <1>1, LeastOf
<1>3. PICK m \in S : d = B - m
  OBVIOUS
<1>4. ASSUME NEW n \in S PROVE n <= m
  <2>1. B - n \in D
    OBVIOUS
  <2>2. d <= B - n
    BY <1>2, <2>1
  <2> QED BY <1>3, <2>2
<1> QED BY <1>4

(* The levels of the carriers are bounded.                                 *)
LEMMA LevelsBounded ==
  ASSUME NEW level \in [Carriers -> Levels]
  PROVE  \E B \in Nat : \A c \in Carriers : level[c] <= B
<1> DEFINE N == Cardinality(Carriers)
<1>1. N \in Nat /\ Carriers = 1 .. N /\ Levels \subseteq Nat
  BY TrackAssumption, FS_CardinalityType
<1> HIDE DEF N
<1> DEFINE Upto(n) == \E B \in Nat : \A c \in 1 .. n : level[c] <= B
           G == {n \in 0 .. N : Upto(n)}
<1>2. 0 \in G
  BY <1>1
<1>3. ASSUME NEW n \in 1 .. N, n - 1 \in G PROVE n \in G
  <2>1. PICK B \in Nat : \A c \in 1 .. n - 1 : level[c] <= B
    BY <1>3
  <2>2. level[n] \in Nat
    BY <1>1, <1>3
  <2>3. \A c \in 1 .. n : level[c] <= B + level[n]
    <3> SUFFICES ASSUME NEW c \in 1 .. n PROVE level[c] <= B + level[n]
      OBVIOUS
    <3>1. c \in Carriers
      BY <1>1, <1>3
    <3>2. level[c] \in Levels
      BY <3>1
    <3>3. level[c] \in Nat
      BY <1>1, <3>2
    <3>4. c = n \/ c \in 1 .. n - 1
      OBVIOUS
    <3> QED BY <2>1, <2>2, <3>3, <3>4
  <2>4. B + level[n] \in Nat
    BY <2>2
  <2> QED BY <2>3, <2>4
<1>4. G \in SUBSET (0 .. N)
  OBVIOUS
<1> HIDE DEF Upto
<1>5. N \in G
  <2> HIDE DEF G
  <2>1. G = 0 .. N
    BY ONLY <1>1, <1>2, <1>3, <1>4, Steps
  <2> QED BY <1>1, <2>1
<1> QED BY <1>1, <1>5 DEF Upto

(* The metric is that of some carrier, or the noise, and of none more.     *)
LEMMA MetricIs ==
  ASSUME NEW p \in [Carriers -> InBand], NEW level \in [Carriers -> Levels],
         NEW on \in SUBSET Carriers, NEW b \in 0 .. Bins - 1
  PROVE  LET m == Metric(p, level, on)[b]
         IN  /\ m \in Int
             /\ m = 0 \/ \E c \in on : m = level[c] - Abs(b - p[c])
             /\ \A c \in on : level[c] - Abs(b - p[c]) <= m
<1> DEFINE at == {level[c] - Abs(b - p[c]) : c \in on} \union {0}
           m == CHOOSE m \in at : \A n \in at : n <= m
<1>1. Metric(p, level, on)[b] = m
  BY DEF Metric
<1>2. \A c \in Carriers : level[c] \in Nat /\ p[c] \in Int /\ b - p[c] \in Int
  <2>1. \A c \in Carriers : level[c] \in Levels /\ p[c] \in InBand
    OBVIOUS
  <2>2. \A c \in Carriers : level[c] \in Nat /\ p[c] \in Nat
    BY <2>1, TrackParams, Zenon
  <2> QED BY <2>2, TrackParams
<1>3. \A c \in Carriers : Abs(b - p[c]) \in Nat
  BY <1>2 DEF Abs
<1>4. at \in SUBSET Int /\ at # {}
  BY <1>2, <1>3
<1>5. PICK B \in Nat : \A c \in Carriers : level[c] <= B
  BY LevelsBounded
<1>6. ASSUME NEW x \in at PROVE x <= B
  <2>1. CASE x = 0
    BY <2>1
  <2>2. CASE \E c \in on : x = level[c] - Abs(b - p[c])
    <3>1. PICK c \in on : x = level[c] - Abs(b - p[c])
      BY <2>2
    <3>2. level[c] \in Nat /\ Abs(b - p[c]) \in Nat /\ level[c] <= B
      BY <1>2, <1>3, <1>5
    <3> QED BY <3>1, <3>2
  <2> QED BY <2>1, <2>2
<1>7. \E x \in at : \A n \in at : n <= x
  <2> HIDE DEF at
  <2>1. B \in Int
    OBVIOUS
  <2> QED BY ONLY <1>4, <1>6, <2>1, GreatestOf
<1>8. m \in at /\ \A n \in at : n <= m
  <2> HIDE DEF at
  <2> QED BY <1>7
<1> HIDE DEF m
<1>9. ASSUME NEW c \in on PROVE level[c] - Abs(b - p[c]) <= m
  <2>1. level[c] - Abs(b - p[c]) \in at
    OBVIOUS
  <2> HIDE DEF at
  <2> QED BY <1>8, <2>1
<1>10. m \in Int /\ (m = 0 \/ \E c \in on : m = level[c] - Abs(b - p[c]))
  BY <1>4, <1>8
<1> QED BY <1>1, <1>9, <1>10

(* A peak is at a carrier.                                                 *)
LEMMA PeaksAreCarriers ==
  ASSUME NEW p \in [Carriers -> InBand], NEW level \in [Carriers -> Levels],
         NEW on \in SUBSET Carriers, NEW b \in Peaks(Metric(p, level, on))
  PROVE  \E c \in on : p[c] = b
<1> DEFINE snr == Metric(p, level, on)
<1>1. /\ b \in InBand /\ b \in Int /\ snr[b] >= Gate
      /\ \A d \in -2 .. 2 : snr[b] >= snr[b + d]
  BY TrackParams DEF Peaks
<1>2. Gate \in Nat /\ Gate > 0 /\ Bins \in Nat
  BY TrackParams
<1>3. b \in 0 .. Bins - 1 /\ b - 1 \in 0 .. Bins - 1 /\ b + 1 \in 0 .. Bins - 1
  BY <1>1, <1>2 DEF InBand
<1> HIDE DEF snr
<1>4. snr[b] \in Int /\ (snr[b] = 0 \/ \E c \in on : snr[b] = level[c] - Abs(b - p[c]))
  BY <1>3, MetricIs DEF snr
<1>5. PICK c \in on : snr[b] = level[c] - Abs(b - p[c])
  BY <1>1, <1>2, <1>4
<1>6. level[c] \in Nat /\ p[c] \in Int
  <2>1. level[c] \in Levels /\ p[c] \in InBand
    OBVIOUS
  <2>2. level[c] \in Nat /\ p[c] \in Nat
    BY <2>1, TrackParams, Zenon
  <2> QED BY <2>2
<1>7. ASSUME b < p[c] PROVE FALSE
  <2>1. level[c] - Abs((b + 1) - p[c]) <= snr[b + 1] /\ snr[b + 1] \in Int
    BY <1>3, MetricIs DEF snr
  <2>2. Abs((b + 1) - p[c]) = p[c] - (b + 1) /\ Abs(b - p[c]) = p[c] - b
    BY <1>1, <1>6, <1>7 DEF Abs
  <2>3. snr[b] >= snr[b + 1]
    BY <1>1
  <2> QED BY <1>1, <1>4, <1>5, <1>6, <2>1, <2>2, <2>3
<1>8. ASSUME p[c] < b PROVE FALSE
  <2>1. level[c] - Abs((b - 1) - p[c]) <= snr[b - 1] /\ snr[b - 1] \in Int
    BY <1>3, MetricIs DEF snr
  <2>2. Abs((b - 1) - p[c]) = (b - 1) - p[c] /\ Abs(b - p[c]) = b - p[c]
    BY <1>1, <1>6, <1>8 DEF Abs
  <2>3. snr[b] >= snr[b - 1]
    <3>1. snr[b] >= snr[b + (-1)]
      BY <1>1
    <3>2. b + (-1) = b - 1
      BY <1>1
    <3> QED BY <3>1, <3>2
  <2> QED BY <1>1, <1>4, <1>5, <1>6, <2>1, <2>2, <2>3
<1> QED BY <1>1, <1>6, <1>7, <1>8

(* The peaks in an order: each of them once.                               *)
LEMMA OrderIs ==
  ASSUME NEW snr, NEW order \in Sorted(snr)
  PROVE  /\ order \in Seq(InBand)
         /\ \A i \in 1 .. Len(order) : order[i] \in Peaks(snr)
         /\ \A i, j \in 1 .. Len(order) : order[i] = order[j] => i = j
         /\ \A b \in Peaks(snr) : \E i \in 1 .. Len(order) : order[i] = b
<1> DEFINE S == Peaks(snr)
           n == Cardinality(S)
<1>1. S \in SUBSET InBand
  BY DEF Peaks
<1>2. IsFiniteSet(InBand)
  <2>1. 2 \in Int /\ Bins - 3 \in Int
    BY TrackParams
  <2> QED BY <2>1, FS_Interval DEF InBand
<1> HIDE DEF S
<1>3. IsFiniteSet(S) /\ n \in Nat
  BY <1>1, <1>2, FS_Subset, FS_CardinalityType
<1>4. order \in SetToSeqs(S)
  BY DEF Sorted, S
<1> HIDE DEF n
<1>5. order \in [1 .. n -> S] /\ \A i, j \in 1 .. n : i # j => order[i] # order[j]
  BY <1>4 DEF SetToSeqs, n
<1>6. order \in Injection(1 .. n, S)
  BY <1>5 DEF Injection, IsInjective
<1>7. IsFiniteSet(1 .. n) /\ Cardinality(1 .. n) = n
  BY <1>3, FS_Interval
<1>8. order \in Surjection(1 .. n, S)
  BY <1>3, <1>6, <1>7, FS_Injection DEF n
<1>9. \A b \in S : \E i \in 1 .. n : order[i] = b
  BY <1>8 DEF Surjection
<1>10. order \in Seq(InBand) /\ Len(order) = n
  BY <1>1, <1>3, <1>5
<1> QED BY <1>5, <1>9, <1>10 DEF S
(***************************************************************************)
(* Association of one peak.                                                *)
(***************************************************************************)
TrackRec ==
  [bin : InBand, last : Int, count : [Calls -> Nat], seen : [Calls -> Nat],
   emitted : SUBSET Calls, srcs : SUBSET Carriers, heard : [Calls -> Nat]]

TrackStates == [tracks : Seq(TrackRec), claimed : SUBSET Nat]

(* What SpotsRight says of one track, with the count for what was heard.   *)
SpotGood(t) ==
  /\ t.count = t.heard
  /\ \A c \in t.emitted : t.heard[c] >= Confirm
  /\ \A c \in Calls :
       (\A d \in Calls : t.heard[c] >= t.heard[d]) /\ t.heard[c] >= Confirm
         => c \in t.emitted \/ \E e \in t.emitted : Variant(e, c)

LEMMA NearestIs ==
  ASSUME NEW st \in TrackStates, NEW p \in InBand, InReach(st, p) # {}
  PROVE  /\ Nearest(st, p) \in InReach(st, p)
         /\ \A u \in InReach(st, p) :
              Abs(st.tracks[Nearest(st, p)].bin - p) <= Abs(st.tracks[u].bin - p)
<1> DEFINE R == InReach(st, p)
           D(t) == Abs(st.tracks[t].bin - p)
<1>1. R \in SUBSET Nat /\ \A t \in R : D(t) \in Nat
  <2> SUFFICES ASSUME NEW t \in R PROVE t \in Nat /\ D(t) \in Nat
    OBVIOUS
  <2>1. st.tracks \in Seq(TrackRec) /\ t \in DOMAIN st.tracks
    BY DEF TrackStates, InReach
  <2>2. t \in Nat /\ st.tracks[t] \in TrackRec
    BY <2>1
  <2>3. st.tracks[t].bin \in InBand
    BY <2>2 DEF TrackRec
  <2>4. st.tracks[t].bin \in Nat /\ p \in Nat
    BY <2>3, TrackParams, Zenon
  <2> QED BY <2>2, <2>4 DEF Abs
<1>2. Nearest(st, p) = CHOOSE t \in R : \A u \in R : D(t) < D(u) \/ (D(t) = D(u) /\ t <= u)
  BY DEF Nearest
<1>3. R # {}
  OBVIOUS
<1> HIDE DEF R, D
<1>4. PICK t1 \in R : \A u \in R : D(t1) <= D(u)
  <2> DEFINE S == {D(t) : t \in R}
  <2>1. S \in SUBSET Nat /\ S # {}
    BY <1>1, <1>3
  <2> HIDE DEF S
  <2>2. PICK m \in S : \A k \in S : m <= k
    BY ONLY <2>1, LeastOf
  <2> QED BY <2>2 DEF S
<1>5. PICK t \in R : D(t) = D(t1) /\ \A u \in R : D(u) = D(t1) => t <= u
  <2> DEFINE S == {u \in R : D(u) = D(t1)}
  <2>1. S \in SUBSET Nat /\ S # {}
    BY <1>1, <1>4
  <2> HIDE DEF S
  <2>2. PICK m \in S : \A k \in S : m <= k
    BY ONLY <2>1, LeastOf
  <2> QED BY <2>2 DEF S
<1>6. \A u \in R : D(t) < D(u) \/ (D(t) = D(u) /\ t <= u)
  BY <1>1, <1>4, <1>5
<1>7. /\ Nearest(st, p) \in R
      /\ \A u \in R : \/ D(Nearest(st, p)) < D(u)
                      \/ D(Nearest(st, p)) = D(u) /\ Nearest(st, p) <= u
  BY <1>2, <1>6
<1>8. \A u \in R : D(Nearest(st, p)) <= D(u)
  <2> SUFFICES ASSUME NEW u \in R PROVE D(Nearest(st, p)) <= D(u)
    OBVIOUS
  <2>1. D(Nearest(st, p)) \in Nat /\ D(u) \in Nat
    BY <1>1, <1>7
  <2>2. D(Nearest(st, p)) < D(u) \/ D(Nearest(st, p)) = D(u)
    BY <1>7
  <2> QED BY ONLY <2>1, <2>2
<1> QED BY <1>7, <1>8 DEF R, D

(* The track that a peak moves.                                            *)
Moved(t, p, src) ==
  [t EXCEPT !.bin = p, !.last = window', !.srcs = @ \union src]

LEMMA MovedIs ==
  ASSUME NEW t \in TrackRec, NEW p \in InBand, NEW src \in SUBSET Carriers,
         window' \in Nat
  PROVE  /\ Moved(t, p, src) \in TrackRec
         /\ Moved(t, p, src).bin = p /\ Moved(t, p, src).last = window'
         /\ Moved(t, p, src).srcs = t.srcs \union src
         /\ Moved(t, p, src).count = t.count /\ Moved(t, p, src).heard = t.heard
         /\ Moved(t, p, src).emitted = t.emitted
<1> DEFINE s == t.srcs \union src
           w == window'
<1>1. s \in SUBSET Carriers /\ w \in Int
  BY DEF TrackRec
<1>2. Moved(t, p, src) = [t EXCEPT !.bin = p, !.last = w, !.srcs = s]
  BY DEF Moved
<1> HIDE DEF s, w
<1>3. \A q \in TrackRec :
        LET e == [q EXCEPT !.bin = p, !.last = w, !.srcs = s]
        IN  /\ e \in TrackRec /\ e.bin = p /\ e.last = w /\ e.srcs = s
            /\ e.count = q.count /\ e.heard = q.heard /\ e.emitted = q.emitted
  BY <1>1 DEF TrackRec
<1> QED BY <1>2, <1>3 DEF s, w

LEMMA AttachNear ==
  ASSUME NEW st \in TrackStates, NEW p \in InBand, NEW src \in SUBSET Carriers,
         window' \in Nat, InReach(st, p) # {}
  PROVE  LET t == Nearest(st, p)
             r == Attach(st, p, src)
         IN  /\ t \in DOMAIN st.tracks /\ t \notin st.claimed
             /\ r \in TrackStates /\ DOMAIN r.tracks = DOMAIN st.tracks
             /\ r.claimed = st.claimed \union {t}
             /\ \A u \in DOMAIN st.tracks \ {t} : r.tracks[u] = st.tracks[u]
             /\ r.tracks[t] = Moved(st.tracks[t], p, src)
<1> DEFINE t == Nearest(st, p)
           T == [st.tracks EXCEPT ![t] = Moved(st.tracks[t], p, src)]
<1>1. t \in DOMAIN st.tracks /\ t \notin st.claimed
  BY NearestIs DEF InReach
<1>2. Attach(st, p, src)
        = [tracks |-> [st.tracks EXCEPT ![t].bin = p, ![t].last = window',
                                        ![t].srcs = @ \union src],
           claimed |-> st.claimed \union {t}]
  BY DEF Attach
<1> HIDE DEF t
<1>3. st.tracks \in Seq(TrackRec) /\ st.claimed \in SUBSET Nat
  BY DEF TrackStates
<1>4. st.tracks[t] \in TrackRec /\ t \in Nat
  BY <1>1, <1>3
<1>5. [st.tracks EXCEPT ![t].bin = p, ![t].last = window', ![t].srcs = @ \union src] = T
  BY <1>1, <1>3, <1>4 DEF Moved, TrackRec
<1>6. Attach(st, p, src) = [tracks |-> T, claimed |-> st.claimed \union {t}]
  BY <1>2, <1>5
<1>7. Moved(st.tracks[t], p, src) \in TrackRec
  BY <1>4, MovedIs
<1>8. /\ T \in Seq(TrackRec) /\ DOMAIN T = DOMAIN st.tracks
      /\ \A u \in DOMAIN st.tracks \ {t} : T[u] = st.tracks[u]
      /\ T[t] = Moved(st.tracks[t], p, src)
  BY <1>1, <1>3, <1>7
<1> HIDE DEF T
<1>9. [tracks |-> T, claimed |-> st.claimed \union {t}] \in TrackStates
  BY <1>3, <1>4, <1>8 DEF TrackStates
<1> QED BY <1>1, <1>6, <1>8, <1>9 DEF t

LEMMA AttachNew ==
  ASSUME NEW st \in TrackStates, NEW p \in InBand, NEW src \in SUBSET Carriers,
         window' \in Nat, InReach(st, p) = {}, ~ Shadowed(st, p)
  PROVE  LET n == Len(st.tracks) + 1
             r == Attach(st, p, src)
         IN  /\ NewTrack(p, src) \in TrackRec /\ n \notin DOMAIN st.tracks
             /\ r \in TrackStates /\ DOMAIN r.tracks = DOMAIN st.tracks \union {n}
             /\ r.claimed = st.claimed \union {n}
             /\ \A u \in DOMAIN st.tracks : r.tracks[u] = st.tracks[u]
             /\ r.tracks[n] = NewTrack(p, src)
<1> DEFINE n == Len(st.tracks) + 1
           T == Append(st.tracks, NewTrack(p, src))
<1>1. Attach(st, p, src) = [tracks |-> T, claimed |-> st.claimed \union {n}]
  BY DEF Attach
<1>2. st.tracks \in Seq(TrackRec) /\ st.claimed \in SUBSET Nat
  BY DEF TrackStates
<1>3. NewTrack(p, src) \in TrackRec
  BY DEF NewTrack, TrackRec, NoCalls
<1>4. /\ n \in Nat /\ n \notin DOMAIN st.tracks
      /\ T \in Seq(TrackRec) /\ DOMAIN T = DOMAIN st.tracks \union {n}
      /\ \A u \in DOMAIN st.tracks : T[u] = st.tracks[u]
      /\ T[n] = NewTrack(p, src)
  BY <1>2, <1>3
<1> HIDE DEF n, T
<1>5. [tracks |-> T, claimed |-> st.claimed \union {n}] \in TrackStates
  BY <1>2, <1>4 DEF TrackStates
<1> QED BY <1>1, <1>3, <1>4, <1>5 DEF n

LEMMA AttachNone ==
  ASSUME NEW st, NEW p, NEW src, InReach(st, p) = {}, Shadowed(st, p)
  PROVE  Attach(st, p, src) = st
BY DEF Attach

LEMMA AttachType ==
  ASSUME NEW st \in TrackStates, NEW p \in InBand, NEW src \in SUBSET Carriers,
         window' \in Nat
  PROVE  Attach(st, p, src) \in TrackStates
BY AttachNear, AttachNew, AttachNone
(***************************************************************************)
(* Association of a window's peaks.  seen is the set of peaks dealt with.  *)
(***************************************************************************)
BinsDistinct(trs) == \A i, j \in DOMAIN trs : trs[i].bin = trs[j].bin => i = j

FoldInv(st, seen) ==
  /\ st \in TrackStates /\ st.claimed \subseteq DOMAIN st.tracks
  /\ BinsDistinct(st.tracks)
  /\ \A i \in DOMAIN st.tracks :
       st.tracks[i].last <= window' /\ SpotGood(st.tracks[i])
  /\ \A i \in st.claimed :
       st.tracks[i].bin \in seen /\ st.tracks[i].last = window'

LEMMA SpotSame ==
  ASSUME NEW t, NEW u, SpotGood(t), u.count = t.count, u.heard = t.heard,
         u.emitted = t.emitted
  PROVE  SpotGood(u)
BY DEF SpotGood

LEMMA NewIsGood ==
  ASSUME NEW p, NEW src PROVE SpotGood(NewTrack(p, src))
<1>1. \A c \in Calls : ~ (NoCalls[c] >= Confirm)
  BY TrackParams DEF NoCalls
<1> QED BY <1>1 DEF SpotGood, NewTrack

(* What a bin in a state is, and that being 0 bins from it is in reach.    *)
LEMMA BinFacts ==
  ASSUME NEW st \in TrackStates, NEW i \in DOMAIN st.tracks, NEW p \in InBand
  PROVE  /\ st.tracks[i] \in TrackRec /\ st.tracks[i].bin \in InBand
         /\ st.tracks[i].bin \in Nat /\ p \in Nat /\ i \in Nat
         /\ Abs(st.tracks[i].bin - p) \in Nat
         /\ Abs(st.tracks[i].bin - p) = 0 <=> st.tracks[i].bin = p
<1>1. st.tracks \in Seq(TrackRec)
  BY DEF TrackStates
<1>2. st.tracks[i] \in TrackRec /\ i \in Nat
  BY <1>1
<1>3. st.tracks[i].bin \in InBand
  BY <1>2 DEF TrackRec
<1>4. st.tracks[i].bin \in Nat /\ p \in Nat
  BY <1>3, TrackParams, Zenon
<1> QED BY <1>2, <1>3, <1>4 DEF Abs

(* No track at a peak that is not dealt with comes to share its bin.       *)
LEMMA AttachKeeps ==
  ASSUME NEW st, NEW seen, FoldInv(st, seen), NEW b \in InBand, b \notin seen,
         NEW src \in SUBSET Carriers, window' \in Nat
  PROVE  FoldInv(Attach(st, b, src), seen \union {b})
<1> DEFINE r == Attach(st, b, src)
<1>1. /\ st \in TrackStates /\ st.claimed \subseteq DOMAIN st.tracks
      /\ BinsDistinct(st.tracks)
      /\ \A i \in DOMAIN st.tracks :
           st.tracks[i].last <= window' /\ SpotGood(st.tracks[i])
      /\ \A i \in st.claimed :
           st.tracks[i].bin \in seen /\ st.tracks[i].last = window'
  BY DEF FoldInv
<1>2. CASE InReach(st, b) # {}
  <2> DEFINE t == Nearest(st, b)
  <2>1. /\ t \in DOMAIN st.tracks /\ t \notin st.claimed
        /\ r \in TrackStates /\ DOMAIN r.tracks = DOMAIN st.tracks
        /\ r.claimed = st.claimed \union {t}
        /\ \A u \in DOMAIN st.tracks \ {t} : r.tracks[u] = st.tracks[u]
        /\ r.tracks[t] = Moved(st.tracks[t], b, src)
    BY <1>1, <1>2, AttachNear
  <2>2. \A u \in InReach(st, b) :
          Abs(st.tracks[t].bin - b) <= Abs(st.tracks[u].bin - b)
    BY <1>1, <1>2, NearestIs
  <2> HIDE DEF t, r
  <2>3. st.tracks[t] \in TrackRec
    BY <1>1, <2>1, BinFacts
  <2>4. /\ r.tracks[t].bin = b /\ r.tracks[t].last = window'
        /\ r.tracks[t].count = st.tracks[t].count
        /\ r.tracks[t].heard = st.tracks[t].heard
        /\ r.tracks[t].emitted = st.tracks[t].emitted
    BY <2>1, <2>3, MovedIs
  <2>5. ASSUME NEW u \in DOMAIN st.tracks \ {t} PROVE st.tracks[u].bin # b
    <3>1. CASE u \in st.claimed
      BY <1>1, <3>1
    <3>2. CASE u \notin st.claimed
      <4>1. SUFFICES ASSUME st.tracks[u].bin = b PROVE FALSE
        OBVIOUS
      <4>2. Abs(st.tracks[u].bin - b) = 0 /\ Abs(st.tracks[t].bin - b) \in Nat
        BY <1>1, <2>1, <4>1, BinFacts
      <4>3. u \in InReach(st, b)
        BY <3>2, <4>2, TrackParams DEF InReach
      <4>4. Abs(st.tracks[t].bin - b) = 0
        BY <2>2, <4>2, <4>3
      <4>5. st.tracks[t].bin = b
        BY <1>1, <2>1, <4>4, BinFacts
      <4> QED BY <1>1, <2>1, <4>1, <4>5 DEF BinsDistinct
    <3> QED BY <3>1, <3>2
  <2>6. BinsDistinct(r.tracks)
    <3> SUFFICES ASSUME NEW i \in DOMAIN r.tracks, NEW j \in DOMAIN r.tracks,
                        r.tracks[i].bin = r.tracks[j].bin, i # j
                 PROVE  FALSE
      BY DEF BinsDistinct
    <3>1. CASE i # t /\ j # t
      BY <1>1, <2>1, <3>1 DEF BinsDistinct
    <3>2. CASE i = t
      BY <2>1, <2>4, <2>5, <3>2
    <3>3. CASE j = t
      BY <2>1, <2>4, <2>5, <3>3
    <3> QED BY <3>1, <3>2, <3>3
  <2>7. ASSUME NEW i \in DOMAIN r.tracks
        PROVE  r.tracks[i].last <= window' /\ SpotGood(r.tracks[i])
    <3>1. CASE i = t
      <4>1. SpotGood(r.tracks[t])
        BY <1>1, <2>1, <2>4, SpotSame
      <4> QED BY <2>4, <3>1, <4>1
    <3>2. CASE i # t
      BY <1>1, <2>1, <3>2
    <3> QED BY <3>1, <3>2
  <2>8. ASSUME NEW i \in r.claimed
        PROVE  r.tracks[i].bin \in seen \union {b} /\ r.tracks[i].last = window'
    BY <1>1, <2>1, <2>4
  <2>9. r.claimed \subseteq DOMAIN r.tracks
    BY <1>1, <2>1
  <2>10. FoldInv(r, seen \union {b})
    BY <2>1, <2>6, <2>7, <2>8, <2>9 DEF FoldInv
  <2> QED BY <2>10 DEF r
<1>3. CASE InReach(st, b) = {} /\ Shadowed(st, b)
  <2>1. r = st
    BY <1>3, AttachNone
  <2> HIDE DEF r
  <2>2. FoldInv(r, seen \union {b})
    BY <1>1, <2>1 DEF FoldInv
  <2> QED BY <2>2 DEF r
<1>4. CASE InReach(st, b) = {} /\ ~ Shadowed(st, b)
  <2> DEFINE n == Len(st.tracks) + 1
  <2>1. /\ NewTrack(b, src) \in TrackRec /\ n \notin DOMAIN st.tracks
        /\ r \in TrackStates /\ DOMAIN r.tracks = DOMAIN st.tracks \union {n}
        /\ r.claimed = st.claimed \union {n}
        /\ \A u \in DOMAIN st.tracks : r.tracks[u] = st.tracks[u]
        /\ r.tracks[n] = NewTrack(b, src)
    BY <1>1, <1>4, AttachNew
  <2> HIDE DEF n, r
  <2>2. r.tracks[n].bin = b /\ r.tracks[n].last = window' /\ SpotGood(r.tracks[n])
    <3>1. NewTrack(b, src).bin = b /\ NewTrack(b, src).last = window'
      BY DEF NewTrack
    <3> QED BY <2>1, <3>1, NewIsGood
  <2>3. ASSUME NEW u \in DOMAIN st.tracks PROVE st.tracks[u].bin # b
    <3>1. SUFFICES ASSUME st.tracks[u].bin = b PROVE FALSE
      OBVIOUS
    <3>2. Abs(st.tracks[u].bin - b) = 0
      BY <1>1, <3>1, BinFacts
    <3>3. Shadowed(st, b)
      BY <3>2, TrackParams DEF Shadowed
    <3> QED BY <1>4, <3>3
  <2>4. BinsDistinct(r.tracks)
    BY <1>1, <2>1, <2>2, <2>3 DEF BinsDistinct
  <2>5. \A i \in DOMAIN r.tracks :
          r.tracks[i].last <= window' /\ SpotGood(r.tracks[i])
    BY <1>1, <2>1, <2>2
  <2>6. \A i \in r.claimed :
          r.tracks[i].bin \in seen \union {b} /\ r.tracks[i].last = window'
    BY <1>1, <2>1, <2>2
  <2>7. r.claimed \subseteq DOMAIN r.tracks
    BY <1>1, <2>1
  <2>8. FoldInv(r, seen \union {b})
    BY <2>1, <2>4, <2>5, <2>6, <2>7 DEF FoldInv
  <2> QED BY <2>8 DEF r
<1> QED BY <1>2, <1>3, <1>4
(***************************************************************************)
(* One carrier for each track.                                             *)
(***************************************************************************)
(* Carriers that stand still: each track is at its carrier.                *)
Own(trs, ps) ==
  \A i \in DOMAIN trs :
    \E c \in Carriers : trs[i].bin = ps[c] /\ trs[i].srcs = {c}

(* Carriers that drift: a claimed track is at its carrier, the others are  *)
(* where their carriers, still to come, were in the last window.           *)
SteadyInv(st, seen, p) ==
  /\ \A i \in DOMAIN st.tracks : \E c \in Carriers :
       /\ st.tracks[i].srcs = {c}
       /\ i \in st.claimed => st.tracks[i].bin = p[c] /\ p[c] \in seen
       /\ i \notin st.claimed =>
            st.tracks[i].bin = pos[c] /\ window # 0 /\ p[c] \notin seen
  /\ \A c \in Carriers :
       p[c] \in seen => \E i \in st.claimed : st.tracks[i].bin = p[c]
  /\ \A c \in Carriers :
       p[c] \notin seen /\ window # 0 =>
         \E i \in DOMAIN st.tracks \ st.claimed : st.tracks[i].bin = pos[c]

LEMMA ApartDiffer ==
  ASSUME NEW p \in [Carriers -> InBand], Apart(p),
         NEW c \in Carriers, NEW d \in Carriers, p[c] = p[d]
  PROVE  c = d
<1>1. p[c] \in InBand /\ p[d] \in InBand
  OBVIOUS
<1>2. p[c] \in Nat
  BY <1>1, TrackParams, Zenon
<1>3. Abs(p[c] - p[d]) = 0
  BY <1>2 DEF Abs
<1> QED BY <1>3, TrackParams DEF Apart

(* The source of a peak at a carrier is that carrier.                      *)
LEMMA OneSource ==
  ASSUME NEW p \in [Carriers -> InBand], Apart(p), NEW on \in SUBSET Carriers,
         NEW c \in on
  PROVE  {d \in on : p[d] = p[c]} = {c}
BY ApartDiffer

LEMMA FadingKeeps ==
  ASSUME NEW st \in TrackStates, pos \in [Carriers -> InBand], Apart(pos),
         Own(st.tracks, pos), NEW c \in Carriers, window' \in Nat
  PROVE  Own(Attach(st, pos[c], {c}).tracks, pos)
<1> DEFINE b == pos[c]
           r == Attach(st, b, {c})
<1>1. b \in InBand /\ {c} \in SUBSET Carriers
  OBVIOUS
<1>2. CASE InReach(st, b) # {}
  <2> DEFINE t == Nearest(st, b)
  <2>1. /\ t \in DOMAIN st.tracks /\ DOMAIN r.tracks = DOMAIN st.tracks
        /\ \A u \in DOMAIN st.tracks \ {t} : r.tracks[u] = st.tracks[u]
        /\ r.tracks[t] = Moved(st.tracks[t], b, {c})
    BY <1>1, <1>2, AttachNear
  <2>2. t \in InReach(st, b)
    BY <1>1, <1>2, NearestIs
  <2>3. Abs(st.tracks[t].bin - b) <= Drift
    BY <2>2 DEF InReach
  <2> HIDE DEF t, r
  <2>4. PICK d \in Carriers : st.tracks[t].bin = pos[d] /\ st.tracks[t].srcs = {d}
    BY <2>1 DEF Own
  <2>5. d = c
    <3>1. SUFFICES ASSUME d # c PROVE FALSE
      OBVIOUS
    <3>2. Abs(pos[d] - pos[c]) > Merge
      BY <3>1 DEF Apart
    <3>3. Abs(pos[d] - pos[c]) <= Drift
      BY <2>3, <2>4
    <3>4. Abs(pos[d] - pos[c]) \in Nat
      BY <1>1, <2>1, <2>4, BinFacts
    <3> QED BY ONLY <3>2, <3>3, <3>4, TrackParams
  <2>6. r.tracks[t].bin = b /\ r.tracks[t].srcs = {c}
    <3>1. st.tracks[t] \in TrackRec
      BY <1>1, <2>1, BinFacts
    <3> QED BY <1>1, <2>1, <2>4, <2>5, <3>1, MovedIs
  <2>7. Own(r.tracks, pos)
    <3> SUFFICES ASSUME NEW i \in DOMAIN r.tracks
                 PROVE  \E e \in Carriers : r.tracks[i].bin = pos[e] /\ r.tracks[i].srcs = {e}
      BY DEF Own
    <3>1. CASE i = t
      BY <2>6, <3>1
    <3>2. CASE i # t
      <4>1. i \in DOMAIN st.tracks /\ r.tracks[i] = st.tracks[i]
        BY <2>1, <3>2
      <4> QED BY <4>1 DEF Own
    <3> QED BY <3>1, <3>2
  <2> QED BY <2>7 DEF r
<1>3. CASE InReach(st, b) = {} /\ Shadowed(st, b)
  BY <1>3, AttachNone
<1>4. CASE InReach(st, b) = {} /\ ~ Shadowed(st, b)
  <2> DEFINE n == Len(st.tracks) + 1
  <2>1. /\ DOMAIN r.tracks = DOMAIN st.tracks \union {n}
        /\ \A u \in DOMAIN st.tracks : r.tracks[u] = st.tracks[u]
        /\ r.tracks[n] = NewTrack(b, {c})
    BY <1>1, <1>4, AttachNew
  <2> HIDE DEF n, r
  <2>2. r.tracks[n].bin = b /\ r.tracks[n].srcs = {c}
    BY <2>1 DEF NewTrack
  <2>3. Own(r.tracks, pos)
    <3> SUFFICES ASSUME NEW i \in DOMAIN r.tracks
                 PROVE  \E e \in Carriers : r.tracks[i].bin = pos[e] /\ r.tracks[i].srcs = {e}
      BY DEF Own
    <3>1. CASE i = n
      BY <2>2, <3>1
    <3>2. CASE i # n
      <4>1. i \in DOMAIN st.tracks /\ r.tracks[i] = st.tracks[i]
        BY <2>1, <3>2
      <4> QED BY <4>1 DEF Own
    <3> QED BY <3>1, <3>2
  <2> QED BY <2>3 DEF r
<1> QED BY <1>2, <1>3, <1>4

LEMMA SteadyKeeps ==
  ASSUME NEW st, NEW seen, FoldInv(st, seen), pos \in [Carriers -> InBand],
         Apart(pos), NEW p \in [Carriers -> InBand], Apart(p), Drifts(p),
         SteadyInv(st, seen, p), NEW c \in Carriers, p[c] \notin seen,
         window' \in Nat
  PROVE  SteadyInv(Attach(st, p[c], {c}), seen \union {p[c]}, p)
<1> DEFINE b == p[c]
           r == Attach(st, b, {c})
<1>1. /\ b \in InBand /\ {c} \in SUBSET Carriers /\ st \in TrackStates
      /\ st.claimed \subseteq DOMAIN st.tracks /\ BinsDistinct(st.tracks)
  BY DEF FoldInv
<1>2. \A d \in Carriers : p[d] = b <=> d = c
  BY ApartDiffer
<1>3. CASE window # 0
  <2>1. PICK t0 \in DOMAIN st.tracks \ st.claimed : st.tracks[t0].bin = pos[c]
    BY <1>3 DEF SteadyInv
  <2>2. t0 \in InReach(st, b)
    <3>1. Abs(p[c] - pos[c]) <= Drift
      BY DEF Drifts
    <3>2. pos[c] \in InBand /\ pos[c] \in Nat /\ p[c] \in Nat
      BY <1>1, TrackParams
    <3>3. Abs(pos[c] - p[c]) = Abs(p[c] - pos[c])
      BY <3>2 DEF Abs
    <3> QED BY <2>1, <3>1, <3>3 DEF InReach
  <2> DEFINE t == Nearest(st, b)
  <2>3. /\ t \in DOMAIN st.tracks /\ t \notin st.claimed
        /\ DOMAIN r.tracks = DOMAIN st.tracks
        /\ r.claimed = st.claimed \union {t}
        /\ \A u \in DOMAIN st.tracks \ {t} : r.tracks[u] = st.tracks[u]
        /\ r.tracks[t] = Moved(st.tracks[t], b, {c})
    BY <1>1, <2>2, AttachNear
  <2>4. Abs(st.tracks[t].bin - b) <= Abs(st.tracks[t0].bin - b)
    BY <1>1, <2>2, NearestIs
  <2> HIDE DEF t, r
  <2>5. PICK d \in Carriers : st.tracks[t].srcs = {d} /\ st.tracks[t].bin = pos[d]
    BY <2>3 DEF SteadyInv
  <2>6. d = c
    <3>1. SUFFICES ASSUME d # c PROVE FALSE
      OBVIOUS
    <3>2. Abs(p[c] - pos[c]) < Abs(p[c] - pos[d])
      BY <3>1 DEF Drifts
    <3>3. pos[c] \in InBand /\ pos[d] \in InBand
      OBVIOUS
    <3>4. pos[c] \in Nat /\ pos[d] \in Nat /\ p[c] \in Nat
      BY <1>1, <3>3, TrackParams, Zenon
    <3>5. Abs(pos[d] - p[c]) <= Abs(pos[c] - p[c])
      BY <2>1, <2>4, <2>5
    <3> QED BY ONLY <3>2, <3>4, <3>5 DEF Abs
  <2>7. r.tracks[t].bin = b /\ r.tracks[t].srcs = {c}
    <3>1. st.tracks[t] \in TrackRec
      BY <1>1, <2>3, BinFacts
    <3> QED BY <1>1, <2>3, <2>5, <2>6, <3>1, MovedIs
  <2>8. ASSUME NEW i \in DOMAIN r.tracks
        PROVE  \E e \in Carriers :
                 /\ r.tracks[i].srcs = {e}
                 /\ i \in r.claimed => r.tracks[i].bin = p[e] /\ p[e] \in seen \union {b}
                 /\ i \notin r.claimed =>
                      r.tracks[i].bin = pos[e] /\ window # 0 /\ p[e] \notin seen \union {b}
    <3>1. CASE i = t
      BY <2>3, <2>7, <3>1
    <3>2. CASE i # t
      <4>1. PICK e \in Carriers :
              /\ st.tracks[i].srcs = {e}
              /\ i \in st.claimed => st.tracks[i].bin = p[e] /\ p[e] \in seen
              /\ i \notin st.claimed =>
                   st.tracks[i].bin = pos[e] /\ window # 0 /\ p[e] \notin seen
        BY <2>3 DEF SteadyInv
      <4>2. r.tracks[i] = st.tracks[i] /\ (i \in r.claimed <=> i \in st.claimed)
        BY <2>3, <3>2
      <4>3. CASE i \in st.claimed
        BY <4>1, <4>2, <4>3
      <4>4. CASE i \notin st.claimed
        <5>1. e # c
          BY <1>1, <2>3, <2>5, <2>6, <3>2, <4>1, <4>4 DEF BinsDistinct
        <5>2. p[e] # b
          BY <1>2, <5>1
        <5> QED BY <4>1, <4>2, <4>4, <5>2
      <4> QED BY <4>3, <4>4
    <3> QED BY <3>1, <3>2
  <2>9. ASSUME NEW e \in Carriers, p[e] \in seen \union {b}
        PROVE  \E i \in r.claimed : r.tracks[i].bin = p[e]
    <3>1. CASE p[e] = b
      BY <2>3, <2>7, <3>1
    <3>2. CASE p[e] \in seen
      <4>1. PICK i \in st.claimed : st.tracks[i].bin = p[e]
        BY <3>2 DEF SteadyInv
      <4>2. i \in r.claimed /\ r.tracks[i] = st.tracks[i]
        BY <1>1, <2>3
      <4> QED BY <4>1, <4>2
    <3> QED BY <2>9, <3>1, <3>2
  <2>10. ASSUME NEW e \in Carriers, p[e] \notin seen \union {b}
         PROVE  \E i \in DOMAIN r.tracks \ r.claimed : r.tracks[i].bin = pos[e]
    <3>1. PICK i \in DOMAIN st.tracks \ st.claimed : st.tracks[i].bin = pos[e]
      BY <1>3, <2>10 DEF SteadyInv
    <3>2. e # c
      BY <2>10
    <3>3. pos[e] # pos[c]
      BY <3>2, ApartDiffer
    <3>4. i # t
      BY <2>5, <2>6, <3>1, <3>3
    <3>5. i \in DOMAIN r.tracks \ r.claimed /\ r.tracks[i] = st.tracks[i]
      BY <2>3, <3>1, <3>4
    <3> QED BY <3>1, <3>5
  <2>11. SteadyInv(r, seen \union {b}, p)
    BY <2>8, <2>9, <2>10 DEF SteadyInv
  <2> QED BY <2>11 DEF r
<1>4. CASE window = 0
  <2>1. \A i \in DOMAIN st.tracks : i \in st.claimed
    BY <1>4 DEF SteadyInv
  <2>2. InReach(st, b) = {}
    BY <2>1 DEF InReach
  <2>3. ~ Shadowed(st, b)
    <3>1. SUFFICES ASSUME NEW i \in DOMAIN st.tracks, Abs(st.tracks[i].bin - b) <= Merge
                   PROVE  FALSE
      BY DEF Shadowed
    <3>2. PICK d \in Carriers : st.tracks[i].bin = p[d] /\ p[d] \in seen
      BY <2>1 DEF SteadyInv
    <3>3. d # c
      BY <3>2
    <3>4. Abs(p[d] - p[c]) > Merge
      BY <3>3 DEF Apart
    <3>5. Abs(p[d] - p[c]) \in Nat
      BY <1>1, <3>2, BinFacts
    <3>6. Abs(p[d] - p[c]) <= Merge
      BY <3>1, <3>2
    <3> QED BY ONLY <3>4, <3>5, <3>6, TrackParams
  <2> DEFINE n == Len(st.tracks) + 1
  <2>4. /\ n \notin DOMAIN st.tracks /\ DOMAIN r.tracks = DOMAIN st.tracks \union {n}
        /\ r.claimed = st.claimed \union {n}
        /\ \A u \in DOMAIN st.tracks : r.tracks[u] = st.tracks[u]
        /\ r.tracks[n] = NewTrack(b, {c})
    BY <1>1, <2>2, <2>3, AttachNew
  <2> HIDE DEF n, r
  <2>5. r.tracks[n].bin = b /\ r.tracks[n].srcs = {c}
    BY <2>4 DEF NewTrack
  <2>6. ASSUME NEW i \in DOMAIN r.tracks
        PROVE  \E e \in Carriers :
                 /\ r.tracks[i].srcs = {e}
                 /\ i \in r.claimed => r.tracks[i].bin = p[e] /\ p[e] \in seen \union {b}
                 /\ i \notin r.claimed =>
                      r.tracks[i].bin = pos[e] /\ window # 0 /\ p[e] \notin seen \union {b}
    <3>1. CASE i = n
      BY <2>4, <2>5, <3>1
    <3>2. CASE i # n
      <4>1. i \in DOMAIN st.tracks /\ i \in st.claimed /\ i \in r.claimed
            /\ r.tracks[i] = st.tracks[i]
        BY <2>1, <2>4, <3>2
      <4>2. PICK e \in Carriers :
              st.tracks[i].srcs = {e} /\ st.tracks[i].bin = p[e] /\ p[e] \in seen
        BY <4>1 DEF SteadyInv
      <4> QED BY <4>1, <4>2
    <3> QED BY <3>1, <3>2
  <2>7. ASSUME NEW e \in Carriers, p[e] \in seen \union {b}
        PROVE  \E i \in r.claimed : r.tracks[i].bin = p[e]
    <3>1. CASE p[e] = b
      BY <2>4, <2>5, <3>1
    <3>2. CASE p[e] \in seen
      <4>1. PICK i \in st.claimed : st.tracks[i].bin = p[e]
        BY <3>2 DEF SteadyInv
      <4>2. i \in r.claimed /\ r.tracks[i] = st.tracks[i]
        BY <1>1, <2>4
      <4> QED BY <4>1, <4>2
    <3> QED BY <2>7, <3>1, <3>2
  <2>8. SteadyInv(r, seen \union {b}, p)
    BY <1>4, <2>6, <2>7 DEF SteadyInv
  <2> QED BY <2>8 DEF r
<1> QED BY <1>3, <1>4

(***************************************************************************)
(* The loops over the peaks and over the tracks.                           *)
(***************************************************************************)
(* One peak of the window after another is attached, g[i] being the state  *)
(* after the i-th; no peak comes twice; and the states are good.           *)
Attaches(g, order, p, on) ==
  \A i \in 1 .. Len(order) :
    g[i] = Attach(g[i - 1], order[i], {c \in on : p[c] = order[i]})

NoneTwice(order) == \A i, j \in 1 .. Len(order) : order[i] = order[j] => i = j

AllGood(g, order) ==
  \A i \in 0 .. Len(order) : FoldInv(g[i], {order[k] : k \in 1 .. i})

TracksGood ==
  \A i \in DOMAIN tracks : tracks[i].last <= window' /\ SpotGood(tracks[i])

LEMMA AssociateRuns ==
  ASSUME tracks \in Seq(TrackRec), NEW order \in Seq(InBand), NEW p,
         NEW on \in SUBSET Carriers, window' \in Nat
  PROVE  \E g : /\ g[0] = [tracks |-> tracks, claimed |-> {}]
                /\ Attaches(g, order, p, on)
                /\ Associate(order, p, on) = g[Len(order)].tracks
<1> USE DEF Attaches
<1> DEFINE N == Len(order)
           s0 == [tracks |-> tracks, claimed |-> {}]
           At(s, i) == Attach(s, order[i], {c \in on : p[c] = order[i]})
           next == [i \in 1 .. N |-> [s \in TrackStates |-> At(s, i)]]
           R(f) == f = [i \in 0 .. N |-> IF i = 0 THEN s0 ELSE At(f[i - 1], i)]
<1>1. N \in Nat /\ s0 \in TrackStates
  BY DEF TrackStates
<1>2. Associate(order, p, on) = (CHOOSE f : R(f))[N].tracks
  BY DEF Associate
<1>3. \A i \in 1 .. N, s \in TrackStates : At(s, i) \in TrackStates
  <2> SUFFICES ASSUME NEW i \in 1 .. N, NEW s \in TrackStates
               PROVE  At(s, i) \in TrackStates
    OBVIOUS
  <2>1. order[i] \in InBand /\ {c \in on : p[c] = order[i]} \in SUBSET Carriers
    OBVIOUS
  <2> QED BY <2>1, AttachType
<1> HIDE DEF s0, At
<1>4. next \in [1 .. N -> [TrackStates -> TrackStates]]
  BY <1>3
<1>5. PICK f : Runs(f, N, TrackStates, s0, next)
  <2>1. /\ N \in Nat /\ s0 \in TrackStates
        /\ next \in [1 .. N -> [TrackStates -> TrackStates]]
    BY <1>1, <1>4
  <2> HIDE DEF next, N
  <2> QED BY <2>1, Recursion
<1>6. /\ f \in [0 .. N -> TrackStates] /\ f[0] = s0
      /\ \A i \in 1 .. N : f[i] = At(f[i - 1], i)
  <2>1. f \in [0 .. N -> TrackStates] /\ f[0] = s0
    BY <1>5 DEF Runs
  <2>2. ASSUME NEW i \in 1 .. N PROVE f[i] = At(f[i - 1], i)
    <3>1. f[i - 1] \in TrackStates
      BY <1>1, <2>1
    <3>2. f[i] = next[i][f[i - 1]]
      BY <1>5 DEF Runs
    <3> QED BY <3>1, <3>2
  <2> QED BY <2>1, <2>2
<1> HIDE DEF N
<1>7. R(f)
  BY <1>1, <1>6
<1>8. R(CHOOSE h : R(h))
  <2> HIDE DEF R
  <2> QED BY <1>7
<1> DEFINE g == CHOOSE h : R(h)
<1>9. g = [i \in 0 .. N |-> IF i = 0 THEN s0 ELSE At(g[i - 1], i)]
  BY <1>8
<1> HIDE DEF g
<1>10. g[0] = s0 /\ \A i \in 1 .. N : g[i] = At(g[i - 1], i)
  BY <1>1, <1>9
<1>11. Associate(order, p, on) = g[N].tracks
  BY <1>2 DEF g
<1> QED BY <1>10, <1>11 DEF s0, At, N

(* After all peaks the tracks are distinct, and the claimed ones are of    *)
(* this window.                                                            *)
LEMMA AssociateKeeps ==
  ASSUME tracks \in Seq(TrackRec), BinsDistinct(tracks), window' \in Nat,
         TracksGood, NEW order \in Seq(InBand), NEW p, NEW on \in SUBSET Carriers,
         NoneTwice(order), NEW g, g[0] = [tracks |-> tracks, claimed |-> {}],
         Attaches(g, order, p, on)
  PROVE  AllGood(g, order)
<1> USE DEF Attaches, NoneTwice, AllGood, TracksGood
<1> DEFINE N == Len(order)
           Done(i) == {order[k] : k \in 1 .. i}
           G == {i \in 0 .. N : FoldInv(g[i], Done(i))}
<1>1. N \in Nat
  OBVIOUS
<1>2. 0 \in G
  <2>1. g[0] \in TrackStates
    BY DEF TrackStates
  <2> QED BY <1>1, <2>1 DEF FoldInv
<1>3. ASSUME NEW i \in 1 .. N, i - 1 \in G PROVE i \in G
  <2>1. FoldInv(g[i - 1], Done(i - 1))
    BY <1>3
  <2>2. order[i] \in InBand /\ {c \in on : p[c] = order[i]} \in SUBSET Carriers
    OBVIOUS
  <2>3. order[i] \notin Done(i - 1)
    OBVIOUS
  <2>4. Done(i) = Done(i - 1) \union {order[i]}
    OBVIOUS
  <2>5. FoldInv(Attach(g[i - 1], order[i], {c \in on : p[c] = order[i]}),
                Done(i - 1) \union {order[i]})
    <3> DEFINE d == Done(i - 1)
               s == {c \in on : p[c] = order[i]}
    <3>1. FoldInv(g[i - 1], d) /\ order[i] \in InBand /\ order[i] \notin d
      BY <2>1, <2>2, <2>3
    <3>2. s \in SUBSET Carriers
      BY <2>2
    <3> HIDE DEF d, s
    <3>3. FoldInv(Attach(g[i - 1], order[i], s), d \union {order[i]})
      BY <3>1, <3>2, AttachKeeps
    <3> QED BY <3>3 DEF d, s
  <2>6. FoldInv(g[i], Done(i))
    BY <2>4, <2>5
  <2> QED BY <2>6
<1>4. G \in SUBSET (0 .. N)
  OBVIOUS
<1>5. G = 0 .. N
  <2> HIDE DEF G, N
  <2> QED BY ONLY <1>1, <1>2, <1>3, <1>4, Steps
<1> QED BY <1>5
(* Standing carriers: after all peaks each track is still at its carrier.  *)
LEMMA FadingRuns ==
  ASSUME pos \in [Carriers -> InBand], Apart(pos), window' \in Nat,
         NEW level \in [Carriers -> Levels], NEW on \in SUBSET Carriers,
         NEW order \in Sorted(Metric(pos, level, on)), NEW g,
         \A i \in 0 .. Len(order) : g[i] \in TrackStates,
         Own(g[0].tracks, pos),
         Attaches(g, order, pos, on)
  PROVE  Own(g[Len(order)].tracks, pos)
<1> USE DEF Attaches
<1> DEFINE N == Len(order)
           G == {i \in 0 .. N : Own(g[i].tracks, pos)}
<1>1. /\ N \in Nat /\ order \in Seq(InBand)
      /\ \A i \in 1 .. N : order[i] \in Peaks(Metric(pos, level, on))
  BY OrderIs
<1>2. 0 \in G
  BY <1>1
<1>3. ASSUME NEW i \in 1 .. N, i - 1 \in G PROVE i \in G
  <2>1. PICK c \in on : pos[c] = order[i]
    BY <1>1, PeaksAreCarriers
  <2>2. {d \in on : pos[d] = order[i]} = {c}
    BY <2>1, OneSource
  <2>3. g[i - 1] \in TrackStates /\ Own(g[i - 1].tracks, pos)
    BY <1>1, <1>3
  <2>4. Own(Attach(g[i - 1], pos[c], {c}).tracks, pos)
    BY <2>3, FadingKeeps
  <2>5. g[i] = Attach(g[i - 1], pos[c], {c})
    BY <2>1, <2>2
  <2> QED BY <2>4, <2>5
<1>4. G \in SUBSET (0 .. N)
  OBVIOUS
<1>5. G = 0 .. N
  <2> HIDE DEF G, N
  <2> QED BY ONLY <1>1, <1>2, <1>3, <1>4, Steps
<1>6. N \in G
  <2> HIDE DEF G
  <2> QED BY <1>1, <1>5
<1> QED BY <1>6

(* Every carrier is a peak, has a track, and has a claimed track.          *)
AllPeaks(p, snr) == \A c \in Carriers : p[c] \in Peaks(snr)

AllTracked(trs, p) == \A c \in Carriers : \E i \in DOMAIN trs : trs[i].bin = p[c]

AllClaimed(st, p) ==
  \A c \in Carriers : \E i \in st.claimed : st.tracks[i].bin = p[c]

(* Drifting carriers: after all peaks each track is at its carrier, and    *)
(* each carrier has one.                                                   *)
LEMMA SteadyRuns ==
  ASSUME pos \in [Carriers -> InBand], Apart(pos), window' \in Nat,
         NEW p \in [Carriers -> InBand], Apart(p), Drifts(p),
         NEW level \in [Carriers -> Levels],
         AllPeaks(p, Metric(p, level, Carriers)),
         NEW order \in Sorted(Metric(p, level, Carriers)), NEW g,
         AllGood(g, order), g[0].claimed = {}, Own(g[0].tracks, pos),
         window = 0 => g[0].tracks = << >>,
         window # 0 => AllTracked(g[0].tracks, pos),
         Attaches(g, order, p, Carriers)
  PROVE  Own(g[Len(order)].tracks, p) /\ AllClaimed(g[Len(order)], p)
<1> USE DEF Attaches, AllGood, AllPeaks, AllTracked, AllClaimed
<1> DEFINE N == Len(order)
           Done(i) == {order[k] : k \in 1 .. i}
           G == {i \in 0 .. N : SteadyInv(g[i], Done(i), p)}
<1>1. /\ N \in Nat /\ order \in Seq(InBand)
      /\ \A i \in 1 .. N : order[i] \in Peaks(Metric(p, level, Carriers))
      /\ \A i, j \in 1 .. N : order[i] = order[j] => i = j
      /\ \A b \in Peaks(Metric(p, level, Carriers)) : \E i \in 1 .. N : order[i] = b
  BY OrderIs
<1>2. 0 \in G
  <2>1. Done(0) = {}
    OBVIOUS
  <2>2. ASSUME NEW i \in DOMAIN g[0].tracks PROVE window # 0
    BY <2>2
  <2>3. SteadyInv(g[0], {}, p)
    BY <2>2 DEF SteadyInv, Own
  <2>4. SteadyInv(g[0], Done(0), p)
    BY <2>1, <2>3
  <2> QED BY <1>1, <2>4
<1>3. ASSUME NEW i \in 1 .. N, i - 1 \in G PROVE i \in G
  <2>1. PICK c \in Carriers : p[c] = order[i]
    BY <1>1, PeaksAreCarriers
  <2>2. {d \in Carriers : p[d] = order[i]} = {c}
    BY <2>1, OneSource
  <2> DEFINE d == Done(i - 1)
  <2>3. SteadyInv(g[i - 1], d, p) /\ FoldInv(g[i - 1], d)
    BY <1>1, <1>3
  <2>4. p[c] \notin d
    BY <1>1, <2>1
  <2>5. Done(i) = d \union {p[c]}
    BY <1>1, <2>1
  <2> HIDE DEF d
  <2>6. SteadyInv(Attach(g[i - 1], p[c], {c}), d \union {p[c]}, p)
    BY <2>3, <2>4, SteadyKeeps
  <2>7. g[i] = Attach(g[i - 1], p[c], {c})
    BY <2>1, <2>2
  <2>8. SteadyInv(g[i], Done(i), p)
    BY <2>5, <2>6, <2>7
  <2> QED BY <2>8
<1>4. G \in SUBSET (0 .. N)
  OBVIOUS
<1>5. G = 0 .. N
  <2> HIDE DEF G, N
  <2> QED BY ONLY <1>1, <1>2, <1>3, <1>4, Steps
<1>6. SteadyInv(g[N], Done(N), p)
  <2>1. N \in G
    <3> HIDE DEF G
    <3> QED BY <1>1, <1>5
  <2> QED BY <2>1
<1>7. \A c \in Carriers : p[c] \in Done(N)
  BY <1>1
<1> HIDE DEF Done
<1>8. Own(g[N].tracks, p)
  BY <1>6, <1>7 DEF SteadyInv, Own
<1>9. \A c \in Carriers : \E i \in g[N].claimed : g[N].tracks[i].bin = p[c]
  BY <1>6, <1>7 DEF SteadyInv
<1> QED BY <1>8, <1>9

LEMMA ExpireRuns ==
  ASSUME NEW trs \in Seq(TrackRec)
  PROVE  \E h : /\ h[0] = << >>
                /\ \A i \in 1 .. Len(trs) :
                     h[i] = IF window' - trs[i].last <= Ttl
                            THEN Append(h[i - 1], trs[i]) ELSE h[i - 1]
                /\ Expire(trs) = h[Len(trs)]
<1> DEFINE N == Len(trs)
           S == Seq(TrackRec)
           At(s, i) == IF window' - trs[i].last <= Ttl THEN Append(s, trs[i]) ELSE s
           next == [i \in 1 .. N |-> [s \in S |-> At(s, i)]]
           R(f) == f = [i \in 0 .. N |-> IF i = 0 THEN << >> ELSE At(f[i - 1], i)]
<1>1. N \in Nat /\ << >> \in S
  OBVIOUS
<1>2. Expire(trs) = (CHOOSE f : R(f))[N]
  BY DEF Expire
<1>3. \A i \in 1 .. N, s \in S : At(s, i) \in S
  <2> SUFFICES ASSUME NEW i \in 1 .. N, NEW s \in S PROVE At(s, i) \in S
    OBVIOUS
  <2>1. trs[i] \in TrackRec
    OBVIOUS
  <2> QED BY <2>1
<1> HIDE DEF At, S
<1>4. next \in [1 .. N -> [S -> S]]
  BY <1>3
<1>5. PICK f : Runs(f, N, S, << >>, next)
  <2>1. N \in Nat /\ << >> \in S /\ next \in [1 .. N -> [S -> S]]
    BY <1>1, <1>4
  <2> HIDE DEF next, N
  <2> QED BY <2>1, Recursion
<1>6. /\ f \in [0 .. N -> S] /\ f[0] = << >>
      /\ \A i \in 1 .. N : f[i] = At(f[i - 1], i)
  <2>1. f \in [0 .. N -> S] /\ f[0] = << >>
    BY <1>5 DEF Runs
  <2>2. ASSUME NEW i \in 1 .. N PROVE f[i] = At(f[i - 1], i)
    <3>1. f[i - 1] \in S
      BY <1>1, <2>1
    <3>2. f[i] = next[i][f[i - 1]]
      BY <1>5 DEF Runs
    <3> QED BY <3>1, <3>2
  <2> QED BY <2>1, <2>2
<1> HIDE DEF N
<1>7. R(f)
  BY <1>1, <1>6
<1>8. R(CHOOSE h : R(h))
  <2> HIDE DEF R
  <2> QED BY <1>7
<1> DEFINE g == CHOOSE h : R(h)
<1>9. g = [i \in 0 .. N |-> IF i = 0 THEN << >> ELSE At(g[i - 1], i)]
  BY <1>8
<1> HIDE DEF g
<1>10. g[0] = << >> /\ \A i \in 1 .. N : g[i] = At(g[i - 1], i)
  BY <1>1, <1>9
<1>11. Expire(trs) = g[N]
  BY <1>2 DEF g
<1> QED BY <1>10, <1>11 DEF At, N

(* Expiry keeps tracks that are fresh, all of them, and keeps them apart.  *)
KeptInv(q, trs, k) ==
  /\ q \in Seq(TrackRec) /\ BinsDistinct(q)
  /\ \A i \in DOMAIN q : \E j \in 1 .. k : q[i] = trs[j] /\ window' - trs[j].last <= Ttl
  /\ \A j \in 1 .. k : window' - trs[j].last <= Ttl => \E i \in DOMAIN q : q[i] = trs[j]

LEMMA ExpireKeeps ==
  ASSUME NEW trs \in Seq(TrackRec), BinsDistinct(trs)
  PROVE  KeptInv(Expire(trs), trs, Len(trs))
<1> DEFINE N == Len(trs)
<1>0. N \in Nat
  OBVIOUS
<1>1. PICK h : /\ h[0] = << >>
               /\ \A i \in 1 .. N :
                    h[i] = IF window' - trs[i].last <= Ttl
                           THEN Append(h[i - 1], trs[i]) ELSE h[i - 1]
               /\ Expire(trs) = h[N]
  BY ExpireRuns
<1> DEFINE G == {k \in 0 .. N : KeptInv(h[k], trs, k)}
<1>2. 0 \in G
  <2>1. KeptInv(<< >>, trs, 0)
    BY DEF KeptInv, BinsDistinct
  <2> QED BY <1>0, <1>1, <2>1
<1>3. ASSUME NEW k \in 1 .. N, k - 1 \in G PROVE k \in G
  <2> DEFINE q == h[k - 1]
             t == trs[k]
  <2>1. KeptInv(q, trs, k - 1) /\ t \in TrackRec
    BY <1>3
  <2>2. h[k] = IF window' - t.last <= Ttl THEN Append(q, t) ELSE q
    BY <1>1
  <2> HIDE DEF q
  <2>3. CASE ~ (window' - t.last <= Ttl)
    <3>1. h[k] = q
      BY <2>2, <2>3
    <3>2. KeptInv(q, trs, k)
      <4>1. \A j \in 1 .. k : j = k \/ j \in 1 .. k - 1
        OBVIOUS
      <4>2. \A j \in 1 .. k - 1 : j \in 1 .. k
        OBVIOUS
      <4> QED BY <2>1, <2>3, <4>1, <4>2 DEF KeptInv
    <3> QED BY <3>1, <3>2
  <2>4. CASE window' - t.last <= Ttl
    <3> DEFINE r == Append(q, t)
               n == Len(q) + 1
    <3>1. h[k] = r
      BY <2>2, <2>4
    <3>2. q \in Seq(TrackRec)
      BY <2>1 DEF KeptInv
    <3>3. /\ r \in Seq(TrackRec) /\ DOMAIN r = DOMAIN q \union {n} /\ n \notin DOMAIN q
          /\ \A i \in DOMAIN q : r[i] = q[i]
          /\ r[n] = t
      BY <2>1, <3>2
    <3> HIDE DEF r, n
    <3>4. ASSUME NEW i \in DOMAIN q PROVE q[i].bin # t.bin
      <4>1. PICK j \in 1 .. k - 1 : q[i] = trs[j]
        BY <2>1 DEF KeptInv
      <4>2. j \in DOMAIN trs /\ k \in DOMAIN trs /\ j # k
        OBVIOUS
      <4> QED BY <4>1, <4>2 DEF BinsDistinct
    <3>5. BinsDistinct(r)
      <4> SUFFICES ASSUME NEW i \in DOMAIN r, NEW j \in DOMAIN r,
                          r[i].bin = r[j].bin, i # j
                   PROVE  FALSE
        BY DEF BinsDistinct
      <4>1. CASE i \in DOMAIN q /\ j \in DOMAIN q
        BY <2>1, <3>3, <4>1 DEF KeptInv, BinsDistinct
      <4>2. CASE i = n
        BY <3>3, <3>4, <4>2
      <4>3. CASE j = n
        BY <3>3, <3>4, <4>3
      <4> QED BY <3>3, <4>1, <4>2, <4>3
    <3>6. ASSUME NEW i \in DOMAIN r
          PROVE  \E j \in 1 .. k : r[i] = trs[j] /\ window' - trs[j].last <= Ttl
      <4>1. CASE i = n
        BY <2>4, <3>3, <4>1
      <4>2. CASE i \in DOMAIN q
        <5>1. PICK j \in 1 .. k - 1 : q[i] = trs[j] /\ window' - trs[j].last <= Ttl
          BY <2>1, <4>2 DEF KeptInv
        <5>2. j \in 1 .. k /\ r[i] = q[i]
          BY <3>3, <4>2
        <5> QED BY <5>1, <5>2
      <4> QED BY <3>3, <4>1, <4>2
    <3>7. ASSUME NEW j \in 1 .. k, window' - trs[j].last <= Ttl
          PROVE  \E i \in DOMAIN r : r[i] = trs[j]
      <4>1. CASE j = k
        BY <3>3, <4>1
      <4>2. CASE j # k
        <5>1. j \in 1 .. k - 1
          BY <4>2
        <5>2. PICK i \in DOMAIN q : q[i] = trs[j]
          BY <2>1, <3>7, <5>1 DEF KeptInv
        <5> QED BY <3>3, <5>2
      <4> QED BY <4>1, <4>2
    <3>8. KeptInv(r, trs, k)
      BY <3>3, <3>5, <3>6, <3>7 DEF KeptInv
    <3> QED BY <3>1, <3>8
  <2> QED BY <2>3, <2>4
<1>4. G \in SUBSET (0 .. N)
  OBVIOUS
<1>5. G = 0 .. N
  <2> HIDE DEF G, N
  <2> QED BY ONLY <1>0, <1>2, <1>3, <1>4, Steps
<1>6. N \in G
  <2> HIDE DEF G
  <2> QED BY <1>0, <1>5
<1> QED BY <1>1, <1>6
(***************************************************************************)
(* Decoding and spotting on one track.                                     *)
(***************************************************************************)
(* Like t but for what is spotted.                                         *)
SameButSpots(u, t) ==
  /\ u \in TrackRec
  /\ u.bin = t.bin /\ u.last = t.last /\ u.srcs = t.srcs
  /\ u.count = t.count /\ u.heard = t.heard /\ u.seen = t.seen

Top(t, c) == (\A d \in Calls : t.heard[c] >= t.heard[d]) /\ t.heard[c] >= Confirm

Spotted(t, c) == c \in t.emitted \/ \E e \in t.emitted : Variant(e, c)

LEMMA EmitIs ==
  ASSUME NEW t \in TrackRec, t.count = t.heard, NEW c \in Calls
  PROVE  LET u == Emit(t, c)
         IN  /\ SameButSpots(u, t) /\ t.emitted \subseteq u.emitted
             /\ u.emitted \subseteq t.emitted \union {d \in {c} : t.heard[c] >= Confirm}
             /\ Top(t, c) => Spotted(u, c)
<1> DEFINE cond == /\ Confirmed(t, c) /\ c \notin t.emitted
                   /\ Dominant(t, c)
                   /\ ~ \E e \in t.emitted : Variant(e, c)
           s == t.emitted \union {c}
           w == [t EXCEPT !.emitted = s]
<1>1. Emit(t, c) = IF cond THEN w ELSE t
  BY DEF Emit
<1>2. s \in SUBSET Calls
  BY DEF TrackRec
<1>3. SameButSpots(w, t) /\ w.emitted = s
  <2> HIDE DEF s
  <2>1. \A q \in TrackRec :
          LET e == [q EXCEPT !.emitted = s]
          IN  /\ e \in TrackRec /\ e.emitted = s /\ e.bin = q.bin /\ e.last = q.last
              /\ e.srcs = q.srcs /\ e.count = q.count /\ e.heard = q.heard
              /\ e.seen = q.seen
    BY <1>2 DEF TrackRec
  <2> QED BY <2>1 DEF SameButSpots
<1>4. SameButSpots(t, t)
  BY DEF SameButSpots
<1>5. ASSUME Top(t, c) PROVE Confirmed(t, c) /\ Dominant(t, c)
  <2>1. Confirmed(t, c)
    BY <1>5 DEF Top, Confirmed
  <2>2. \A d \in Calls : t.heard[d] \in Nat /\ t.heard[c] >= t.heard[d]
    BY <1>5 DEF Top, TrackRec
  <2>3. \A d \in Calls : 2 * t.count[c] >= t.count[d]
    BY <2>2
  <2> QED BY <2>1, <2>3 DEF Dominant
<1> HIDE DEF w
<1>6. CASE cond
  <2>1. t.heard[c] >= Confirm
    BY <1>6 DEF Confirmed
  <2>2. Emit(t, c) = w
    BY <1>1, <1>6
  <2>3. Spotted(w, c)
    BY <1>3 DEF Spotted
  <2> QED BY <1>3, <2>1, <2>2, <2>3
<1>7. CASE ~ cond
  <2>1. Emit(t, c) = t
    BY <1>1, <1>7
  <2>2. Top(t, c) => Spotted(t, c)
    BY <1>5, <1>7 DEF Spotted
  <2> QED BY <1>4, <2>1, <2>2
<1> QED BY <1>6, <1>7

LEMMA EmitAllRuns ==
  ASSUME NEW t \in TrackRec, NEW now \in Seq(Calls)
  PROVE  \E h : /\ h[0] = t
                /\ \A i \in 1 .. Len(now) : h[i] = Emit(h[i - 1], now[i])
                /\ EmitAll(t, now) = h[Len(now)]
<1> DEFINE N == Len(now)
           At(s, i) == Emit(s, now[i])
           next == [i \in 1 .. N |-> [s \in TrackRec |-> At(s, i)]]
           R(f) == f = [i \in 0 .. N |-> IF i = 0 THEN t ELSE At(f[i - 1], i)]
<1>1. N \in Nat
  OBVIOUS
<1>2. EmitAll(t, now) = (CHOOSE f : R(f))[N]
  BY DEF EmitAll
<1>3. \A i \in 1 .. N, s \in TrackRec : At(s, i) \in TrackRec
  <2> SUFFICES ASSUME NEW i \in 1 .. N, NEW s \in TrackRec PROVE At(s, i) \in TrackRec
    OBVIOUS
  <2>1. s.emitted \union {now[i]} \in SUBSET Calls
    BY DEF TrackRec
  <2> DEFINE e == s.emitted \union {now[i]}
  <2>2. At(s, i) = s \/ At(s, i) = [s EXCEPT !.emitted = e]
    BY DEF Emit
  <2> HIDE DEF e
  <2>3. e \in SUBSET Calls
    BY <2>1 DEF e
  <2>4. [s EXCEPT !.emitted = e] \in TrackRec
    BY <2>3 DEF TrackRec
  <2> QED BY <2>2, <2>4
<1> HIDE DEF At
<1>4. next \in [1 .. N -> [TrackRec -> TrackRec]]
  BY <1>3
<1>5. PICK f : Runs(f, N, TrackRec, t, next)
  <2>1. N \in Nat /\ next \in [1 .. N -> [TrackRec -> TrackRec]]
    BY <1>1, <1>4
  <2> HIDE DEF next, N
  <2> QED BY <2>1, Recursion
<1>6. /\ f \in [0 .. N -> TrackRec] /\ f[0] = t
      /\ \A i \in 1 .. N : f[i] = At(f[i - 1], i)
  <2>1. f \in [0 .. N -> TrackRec] /\ f[0] = t
    BY <1>5 DEF Runs
  <2>2. ASSUME NEW i \in 1 .. N PROVE f[i] = At(f[i - 1], i)
    <3>1. f[i - 1] \in TrackRec
      BY <1>1, <2>1
    <3>2. f[i] = next[i][f[i - 1]]
      BY <1>5 DEF Runs
    <3> QED BY <3>1, <3>2
  <2> QED BY <2>1, <2>2
<1> HIDE DEF N
<1>7. R(f)
  BY <1>1, <1>6
<1>8. R(CHOOSE h : R(h))
  <2> HIDE DEF R
  <2> QED BY <1>7
<1> DEFINE g == CHOOSE h : R(h)
<1>9. g = [i \in 0 .. N |-> IF i = 0 THEN t ELSE At(g[i - 1], i)]
  BY <1>8
<1> HIDE DEF g
<1>10. g[0] = t /\ \A i \in 1 .. N : g[i] = At(g[i - 1], i)
  BY <1>1, <1>9
<1>11. EmitAll(t, now) = g[N]
  BY <1>2 DEF g
<1> QED BY <1>10, <1>11 DEF At, N

(* The calls of a window in turn: only confirmed ones are spotted, and     *)
(* each that is decoded most is, or is a variant.                          *)
LEMMA EmitAllIs ==
  ASSUME NEW t \in TrackRec, t.count = t.heard,
         \A c \in t.emitted : t.heard[c] >= Confirm, NEW now \in Seq(Calls)
  PROVE  LET u == EmitAll(t, now)
         IN  /\ SameButSpots(u, t) /\ t.emitted \subseteq u.emitted
             /\ \A c \in u.emitted : u.heard[c] >= Confirm
             /\ \A k \in 1 .. Len(now) : Top(t, now[k]) => Spotted(u, now[k])
<1> DEFINE N == Len(now)
           P(u, i) == /\ SameButSpots(u, t) /\ t.emitted \subseteq u.emitted
                      /\ \A c \in u.emitted : t.heard[c] >= Confirm
                      /\ \A k \in 1 .. i : Top(t, now[k]) => Spotted(u, now[k])
<1>1. N \in Nat
  OBVIOUS
<1>2. PICK h : /\ h[0] = t
               /\ \A i \in 1 .. N : h[i] = Emit(h[i - 1], now[i])
               /\ EmitAll(t, now) = h[N]
  BY EmitAllRuns
<1> DEFINE G == {i \in 0 .. N : P(h[i], i)}
<1>3. 0 \in G
  <2>1. P(t, 0)
    BY DEF SameButSpots
  <2> HIDE DEF P
  <2> QED BY <1>1, <1>2, <2>1
<1>4. ASSUME NEW i \in 1 .. N, i - 1 \in G PROVE i \in G
  <2> DEFINE v == h[i - 1]
             u == h[i]
             c == now[i]
  <2>1. P(v, i - 1) /\ c \in Calls
    BY <1>4
  <2>2. u = Emit(v, c)
    BY <1>2
  <2> HIDE DEF v, u, c
  <2>3. v \in TrackRec /\ v.count = v.heard /\ v.heard = t.heard
    BY <2>1 DEF SameButSpots
  <2>4. /\ SameButSpots(u, v) /\ v.emitted \subseteq u.emitted
        /\ u.emitted \subseteq v.emitted \union {d \in {c} : v.heard[c] >= Confirm}
        /\ Top(v, c) => Spotted(u, c)
    BY <2>1, <2>2, <2>3, EmitIs
  <2>5. SameButSpots(u, t) /\ t.emitted \subseteq u.emitted
    BY <2>1, <2>4 DEF SameButSpots
  <2>6. \A d \in u.emitted : t.heard[d] >= Confirm
    BY <2>1, <2>3, <2>4
  <2>7. ASSUME NEW k \in 1 .. i, Top(t, now[k]) PROVE Spotted(u, now[k])
    <3>1. CASE k = i
      <4>1. Top(v, c)
        BY <2>3, <2>7, <3>1 DEF Top, c
      <4> QED BY <2>4, <3>1, <4>1 DEF c
    <3>2. CASE k # i
      <4>1. k \in 1 .. i - 1
        BY <3>2
      <4>2. Spotted(v, now[k])
        BY <2>1, <2>7, <4>1
      <4> QED BY <2>4, <4>2 DEF Spotted
    <3> QED BY <3>1, <3>2
  <2>8. P(u, i)
    BY <2>5, <2>6, <2>7
  <2> HIDE DEF P
  <2> QED BY <2>8 DEF u
<1>5. G \in SUBSET (0 .. N)
  OBVIOUS
<1>6. G = 0 .. N
  <2> HIDE DEF G, N
  <2> QED BY ONLY <1>1, <1>3, <1>4, <1>5, Steps
<1>7. N \in G
  <2> HIDE DEF G
  <2> QED BY <1>1, <1>6
<1>8. P(EmitAll(t, now), N)
  <2> HIDE DEF P
  <2> QED BY <1>2, <1>7
<1> QED BY <1>8 DEF SameButSpots

LEMMA CountIs ==
  ASSUME NEW t \in TrackRec, t.count = t.heard, NEW now, NEW repeats,
         window' \in Nat
  PROVE  LET u == CountCalls(t, now, repeats)
         IN  /\ u \in TrackRec /\ u.bin = t.bin /\ u.last = t.last /\ u.srcs = t.srcs
             /\ u.count = u.heard /\ u.emitted = t.emitted
             /\ \A c \in Calls : u.heard[c] = IF c \in now THEN t.heard[c] + 1 ELSE t.heard[c]
<1> DEFINE n == [c \in Calls |-> IF c \in now THEN t.heard[c] + 1 ELSE t.heard[c]]
           s == [c \in Calls |-> IF c \in now THEN window' ELSE t.seen[c]]
<1>1. /\ t.heard \in [Calls -> Nat] /\ t.seen \in [Calls -> Nat]
  BY DEF TrackRec
<1>2. n \in [Calls -> Nat] /\ s \in [Calls -> Nat]
  BY <1>1
<1>3. CountCalls(t, now, repeats) = [t EXCEPT !.count = n, !.seen = s, !.heard = n]
  BY DEF CountCalls
<1>4. \A c \in Calls : n[c] = IF c \in now THEN t.heard[c] + 1 ELSE t.heard[c]
  OBVIOUS
<1> HIDE DEF n, s
<1>5. \A q \in TrackRec :
        LET e == [q EXCEPT !.count = n, !.seen = s, !.heard = n]
        IN  /\ e \in TrackRec /\ e.bin = q.bin /\ e.last = q.last /\ e.srcs = q.srcs
            /\ e.count = n /\ e.heard = n /\ e.emitted = q.emitted
  BY <1>2 DEF TrackRec
<1> QED BY <1>3, <1>4, <1>5

(* A window's decode keeps what SpotsRight says of the track.              *)
LEMMA DecodeKeeps ==
  ASSUME NEW t \in TrackRec, SpotGood(t), NEW d \in Decode(t), window' \in Nat
  PROVE  /\ d \in TrackRec /\ SpotGood(d)
         /\ d.bin = t.bin /\ d.last = t.last /\ d.srcs = t.srcs
<1>1. PICK now \in UNION {SetToSeqs(S) : S \in {S \in SUBSET Calls : Cardinality(S) <= 2}},
           repeats \in 1 .. 2 : d = EmitAll(CountCalls(t, ToSet(now), repeats), now)
  BY DEF Decode
<1>2. now \in Seq(Calls)
  <2>1. PICK S \in SUBSET Calls : Cardinality(S) <= 2 /\ now \in SetToSeqs(S)
    OBVIOUS
  <2>2. now \in [1 .. Cardinality(S) -> S]
    BY <2>1 DEF SetToSeqs
  <2>3. Cardinality(S) \in Nat
    BY TrackAssumption, FS_Subset, FS_CardinalityType
  <2> QED BY <2>2, <2>3
<1> DEFINE u == CountCalls(t, ToSet(now), repeats)
<1>3. t.count = t.heard /\ t.heard \in [Calls -> Nat] /\ t.emitted \subseteq Calls
  BY DEF SpotGood, TrackRec
<1>4. /\ u \in TrackRec /\ u.bin = t.bin /\ u.last = t.last /\ u.srcs = t.srcs
      /\ u.count = u.heard /\ u.emitted = t.emitted
      /\ \A c \in Calls :
           u.heard[c] = IF c \in ToSet(now) THEN t.heard[c] + 1 ELSE t.heard[c]
  BY <1>3, CountIs
<1> HIDE DEF u
<1>5. \A c \in u.emitted : u.heard[c] >= Confirm
  <2> SUFFICES ASSUME NEW c \in u.emitted PROVE u.heard[c] >= Confirm
    OBVIOUS
  <2>1. c \in Calls /\ t.heard[c] \in Nat /\ t.heard[c] >= Confirm
    BY <1>3, <1>4 DEF SpotGood
  <2> QED BY <1>4, <2>1, TrackParams
<1>6. /\ SameButSpots(d, u) /\ u.emitted \subseteq d.emitted
      /\ \A c \in d.emitted : d.heard[c] >= Confirm
      /\ \A k \in 1 .. Len(now) : Top(u, now[k]) => Spotted(d, now[k])
  BY <1>1, <1>2, <1>4, <1>5, EmitAllIs DEF u
<1>7. ASSUME NEW c \in Calls, Top(d, c) PROVE Spotted(d, c)
  <2>1. Top(u, c)
    BY <1>6, <1>7 DEF Top, SameButSpots
  <2>2. CASE c \in ToSet(now)
    <3>1. PICK k \in 1 .. Len(now) : now[k] = c
      BY <1>2, <2>2 DEF ToSet
    <3> QED BY <1>6, <2>1, <3>1
  <2>3. CASE c \notin ToSet(now)
    <3>1. u.heard[c] = t.heard[c]
      BY <1>4, <2>3
    <3>2. ASSUME NEW e \in Calls PROVE t.heard[c] >= t.heard[e]
      <4>1. t.heard[e] \in Nat /\ t.heard[c] \in Nat
        BY <1>3
      <4>2. u.heard[e] = t.heard[e] \/ u.heard[e] = t.heard[e] + 1
        BY <1>4
      <4>3. t.heard[c] >= u.heard[e]
        BY <2>1, <3>1 DEF Top
      <4> QED BY <4>1, <4>2, <4>3
    <3>3. t.heard[c] >= Confirm
      BY <2>1, <3>1 DEF Top
    <3>4. Spotted(t, c)
      BY <3>2, <3>3 DEF SpotGood, Spotted
    <3> QED BY <1>4, <1>6, <3>4 DEF Spotted
  <2> QED BY <2>2, <2>3
<1>8. SpotGood(d)
  BY <1>4, <1>6, <1>7 DEF SpotGood, SameButSpots, Top, Spotted
<1> QED BY <1>4, <1>6, <1>8 DEF SameButSpots
(***************************************************************************)
(* The inductive invariant.                                                *)
(***************************************************************************)
TrackInv ==
  /\ scene \in Scenes /\ window \in 0 .. MaxWindow[scene]
  /\ pos \in [Carriers -> InBand] /\ tracks \in Seq(TrackRec)
  /\ BinsDistinct(tracks)
  /\ \A i \in DOMAIN tracks :
       tracks[i].last \in window - Ttl .. window /\ SpotGood(tracks[i])
  /\ scene \in {"steady", "fading"} => Apart(pos) /\ Own(tracks, pos)
  /\ scene = "steady" =>
       /\ window = 0 => tracks = << >>
       /\ window # 0 => \A c \in Carriers : \E i \in DOMAIN tracks : tracks[i].bin = pos[c]

LEMMA TrackStart == ASSUME TrackInit PROVE TrackInv
<1>1. /\ scene \in Scenes /\ window = 0 /\ pos \in [Carriers -> InBand]
      /\ tracks = << >> /\ (scene \in {"steady", "fading"} => Apart(pos))
  BY DEF TrackInit
<1>2. MaxWindow[scene] \in Nat
  BY <1>1, TrackAssumption
<1>3. tracks \in Seq(TrackRec) /\ DOMAIN tracks = {}
  BY <1>1
<1>4. BinsDistinct(tracks) /\ Own(tracks, pos)
  BY <1>3 DEF BinsDistinct, Own
<1> QED BY <1>1, <1>2, <1>3, <1>4 DEF TrackInv

(* One window, up to the decoding.                                         *)
LEMMA WindowKeeps ==
  ASSUME TrackInv, window' = window + 1,
         NEW p \in [Carriers -> InBand], NEW on \in SUBSET Carriers,
         NEW level \in [Carriers -> Levels],
         Scene(p, on, Metric(p, level, on)),
         pos' = IF scene = "steady" THEN p ELSE pos,
         NEW order \in Sorted(Metric(p, level, on))
  PROVE  LET trs == Expire(Associate(order, p, on))
         IN  /\ trs \in Seq(TrackRec) /\ BinsDistinct(trs)
             /\ \A i \in DOMAIN trs :
                  trs[i].last \in window' - Ttl .. window' /\ SpotGood(trs[i])
             /\ scene \in {"steady", "fading"} => Apart(pos') /\ Own(trs, pos')
             /\ scene = "steady" =>
                  \A c \in Carriers : \E i \in DOMAIN trs : trs[i].bin = pos'[c]
<1>1. /\ scene \in Scenes /\ window \in Nat /\ window' \in Nat
      /\ pos \in [Carriers -> InBand] /\ tracks \in Seq(TrackRec) /\ BinsDistinct(tracks)
      /\ TracksGood
  <2>1. MaxWindow[scene] \in Nat
    BY TrackAssumption DEF TrackInv
  <2>2. window \in Nat /\ window' \in Nat
    BY <2>1 DEF TrackInv
  <2>3. ASSUME NEW i \in DOMAIN tracks PROVE tracks[i].last <= window'
    <3>1. tracks[i].last \in window - Ttl .. window
      BY DEF TrackInv
    <3> QED BY <2>2, <3>1, TrackParams
  <2> QED BY <2>2, <2>3 DEF TrackInv, TracksGood
<1>2. order \in Seq(InBand) /\ NoneTwice(order)
  BY OrderIs DEF NoneTwice
<1>3. PICK g : /\ g[0] = [tracks |-> tracks, claimed |-> {}]
               /\ Attaches(g, order, p, on)
               /\ Associate(order, p, on) = g[Len(order)].tracks
  BY <1>1, <1>2, AssociateRuns
<1>4. AllGood(g, order)
  BY <1>1, <1>2, <1>3, AssociateKeeps
<1> DEFINE e == g[Len(order)]
           trs == Expire(e.tracks)
<1>5. FoldInv(e, {order[k] : k \in 1 .. Len(order)})
  <2>1. Len(order) \in 0 .. Len(order)
    BY <1>2
  <2> QED BY <1>4, <2>1 DEF AllGood
<1>6. /\ e \in TrackStates /\ e.tracks \in Seq(TrackRec) /\ BinsDistinct(e.tracks)
      /\ \A i \in DOMAIN e.tracks : e.tracks[i].last <= window' /\ SpotGood(e.tracks[i])
      /\ \A i \in e.claimed : i \in DOMAIN e.tracks /\ e.tracks[i].last = window'
  BY <1>5 DEF FoldInv, TrackStates
<1> HIDE DEF e
<1>7. KeptInv(trs, e.tracks, Len(e.tracks))
  BY <1>6, ExpireKeeps
<1> HIDE DEF trs
<1>8. /\ trs \in Seq(TrackRec) /\ BinsDistinct(trs)
      /\ \A i \in DOMAIN trs : \E j \in DOMAIN e.tracks :
           trs[i] = e.tracks[j] /\ window' - e.tracks[j].last <= Ttl
      /\ \A j \in DOMAIN e.tracks :
           window' - e.tracks[j].last <= Ttl => \E i \in DOMAIN trs : trs[i] = e.tracks[j]
  <2>1. DOMAIN e.tracks = 1 .. Len(e.tracks)
    BY <1>6
  <2> QED BY <1>7, <2>1 DEF KeptInv
<1>9. ASSUME NEW i \in DOMAIN trs
      PROVE  trs[i].last \in window' - Ttl .. window' /\ SpotGood(trs[i])
  <2>1. PICK j \in DOMAIN e.tracks :
          trs[i] = e.tracks[j] /\ window' - e.tracks[j].last <= Ttl
    BY <1>8
  <2>2. e.tracks[j].last <= window' /\ SpotGood(e.tracks[j]) /\ e.tracks[j] \in TrackRec
    BY <1>6
  <2>3. e.tracks[j].last \in Int
    BY <2>2 DEF TrackRec
  <2>4. e.tracks[j].last \in window' - Ttl .. window'
    BY <1>1, <2>1, <2>2, <2>3, TrackParams
  <2> QED BY <2>1, <2>2, <2>4
<1>10. ASSUME NEW ps, Own(e.tracks, ps) PROVE Own(trs, ps)
  <2> SUFFICES ASSUME NEW i \in DOMAIN trs
               PROVE  \E c \in Carriers : trs[i].bin = ps[c] /\ trs[i].srcs = {c}
    BY DEF Own
  <2>1. PICK j \in DOMAIN e.tracks : trs[i] = e.tracks[j]
    BY <1>8
  <2>2. PICK c \in Carriers : e.tracks[j].bin = ps[c] /\ e.tracks[j].srcs = {c}
    BY <1>10 DEF Own
  <2> QED BY <2>1, <2>2
<1>11. ASSUME scene = "fading" PROVE Apart(pos') /\ Own(trs, pos')
  <2>1. p = pos /\ pos' = pos
    BY <1>11 DEF Scene
  <2>2. Apart(pos) /\ Own(tracks, pos)
    BY <1>11 DEF TrackInv
  <2>3. \A i \in 0 .. Len(order) : g[i] \in TrackStates
    BY <1>4 DEF FoldInv, AllGood
  <2>4. Own(g[0].tracks, pos)
    BY <1>3, <2>2
  <2>5. order \in Sorted(Metric(pos, level, on))
    BY <2>1
  <2>6. Attaches(g, order, pos, on)
    BY <1>3, <2>1
  <2>7. Own(e.tracks, pos)
    BY <1>1, <2>2, <2>3, <2>4, <2>5, <2>6, FadingRuns DEF e
  <2>8. Own(trs, pos)
    BY <1>10, <2>7
  <2>9. Apart(pos')
    BY <2>1, <2>2 DEF Apart
  <2> QED BY <2>1, <2>8, <2>9
<1>12. ASSUME scene = "steady"
       PROVE  /\ Apart(pos') /\ Own(trs, pos')
              /\ \A c \in Carriers : \E i \in DOMAIN trs : trs[i].bin = pos'[c]
  <2>1. /\ on = Carriers /\ Apart(p) /\ Drifts(p) /\ pos' = p
        /\ \A c \in Carriers : p[c] \in Peaks(Metric(p, level, on))
    BY <1>12 DEF Scene
  <2>2. /\ Apart(pos) /\ Own(tracks, pos) /\ (window = 0 => tracks = << >>)
        /\ window # 0 => \A c \in Carriers : \E i \in DOMAIN tracks : tracks[i].bin = pos[c]
    BY <1>12 DEF TrackInv
  <2>3. g[0].tracks = tracks /\ g[0].claimed = {}
    BY <1>3
  <2>4. /\ Own(g[0].tracks, pos) /\ (window = 0 => g[0].tracks = << >>)
        /\ window # 0 => AllTracked(g[0].tracks, pos)
    BY <2>2, <2>3 DEF AllTracked
  <2>5. order \in Sorted(Metric(p, level, Carriers))
    BY <2>1
  <2>6. AllPeaks(p, Metric(p, level, Carriers))
    BY <2>1 DEF AllPeaks
  <2>7. Attaches(g, order, p, Carriers)
    BY <1>3, <2>1
  <2>8. /\ Own(e.tracks, p)
        /\ \A c \in Carriers : \E i \in e.claimed : e.tracks[i].bin = p[c]
    <3>1. pos \in [Carriers -> InBand] /\ Apart(pos) /\ window' \in Nat
      BY <1>1, <2>2
    <3>2. Apart(p) /\ Drifts(p) /\ g[0].claimed = {}
      BY <2>1, <2>3
    <3> HIDE DEF e
    <3>3. Own(g[Len(order)].tracks, p) /\ AllClaimed(g[Len(order)], p)
      BY ONLY <1>4, <2>4, <2>5, <2>6, <2>7, <3>1, <3>2, SteadyRuns,
              p \in [Carriers -> InBand], level \in [Carriers -> Levels]
    <3> QED BY <3>3 DEF e, AllClaimed
  <2>9. ASSUME NEW c \in Carriers PROVE \E i \in DOMAIN trs : trs[i].bin = p[c]
    <3>1. PICK i \in e.claimed : e.tracks[i].bin = p[c]
      BY <2>8
    <3>2. i \in DOMAIN e.tracks /\ e.tracks[i].last = window'
      BY <1>6
    <3>3. window' - e.tracks[i].last <= Ttl
      BY <1>1, <3>2, TrackParams
    <3> QED BY <1>8, <3>1, <3>2, <3>3
  <2>10. Own(trs, p)
    BY <1>10, <2>8
  <2>11. Apart(pos')
    BY <2>1 DEF Apart
  <2> QED BY <2>1, <2>9, <2>10, <2>11
<1> QED BY <1>3, <1>8, <1>9, <1>11, <1>12 DEF e, trs

LEMMA TrackKeeps == ASSUME TrackInv, TrackStep PROVE TrackInv'
<1>1. PICK p \in [Carriers -> InBand], on \in SUBSET Carriers,
           level \in [Carriers -> Levels] :
        /\ Scene(p, on, Metric(p, level, on))
        /\ pos' = IF scene = "steady" THEN p ELSE pos
        /\ Step(p, on, Metric(p, level, on))
  BY DEF TrackStep
<1>2. window < MaxWindow[scene] /\ window' = window + 1 /\ scene' = scene
  BY DEF TrackStep
<1>3. PICK order \in Sorted(Metric(p, level, on)) :
        LET trs    == Expire(Associate(order, p, on))
            active == {t \in DOMAIN trs : trs[t].last = window'}
        IN  IF scene = "copy" /\ active # {}
            THEN \E t \in active : \E d \in Decode(trs[t]) :
                   tracks' = [trs EXCEPT ![t] = d]
            ELSE tracks' = trs
  BY <1>1 DEF Step
<1> DEFINE trs == Expire(Associate(order, p, on))
<1>4. /\ trs \in Seq(TrackRec) /\ BinsDistinct(trs)
      /\ \A i \in DOMAIN trs :
           trs[i].last \in window' - Ttl .. window' /\ SpotGood(trs[i])
      /\ scene \in {"steady", "fading"} => Apart(pos') /\ Own(trs, pos')
      /\ scene = "steady" =>
           \A c \in Carriers : \E i \in DOMAIN trs : trs[i].bin = pos'[c]
  BY <1>1, <1>2, WindowKeeps
<1>5. \/ tracks' = trs
      \/ /\ scene = "copy"
         /\ \E t \in DOMAIN trs : \E d \in Decode(trs[t]) : tracks' = [trs EXCEPT ![t] = d]
  BY <1>3
<1> HIDE DEF trs
<1>6. /\ scene' \in Scenes /\ window' \in 0 .. MaxWindow[scene'] /\ window' # 0
      /\ window' \in Nat /\ pos' \in [Carriers -> InBand]
  <2>1. MaxWindow[scene] \in Nat /\ window \in 0 .. MaxWindow[scene]
    BY TrackAssumption DEF TrackInv
  <2> QED BY <1>1, <1>2, <2>1 DEF TrackInv
<1>7. CASE tracks' = trs
  <2>1. scene' \in {"steady", "fading"} => Apart(pos)' /\ Own(tracks, pos)'
    BY <1>2, <1>4, <1>7 DEF Apart, Own
  <2>2. BinsDistinct(tracks)'
    BY <1>4, <1>7 DEF BinsDistinct
  <2>3. \A i \in DOMAIN tracks' :
          tracks'[i].last \in window' - Ttl .. window' /\ SpotGood(tracks[i])'
    BY <1>4, <1>7 DEF SpotGood
  <2>4. scene' = "steady" =>
          \A c \in Carriers : \E i \in DOMAIN tracks' : tracks'[i].bin = pos'[c]
    BY <1>2, <1>4, <1>7
  <2>5. tracks' \in Seq(TrackRec)
    BY <1>4, <1>7
  <2> QED BY <1>6, <2>1, <2>2, <2>3, <2>4, <2>5 DEF TrackInv
<1>8. ASSUME scene = "copy", NEW t \in DOMAIN trs, NEW d \in Decode(trs[t]),
             tracks' = [trs EXCEPT ![t] = d]
      PROVE  TrackInv'
  <2>1. trs[t] \in TrackRec /\ SpotGood(trs[t])
    BY <1>4
  <2>2. d \in TrackRec /\ SpotGood(d) /\ d.bin = trs[t].bin /\ d.last = trs[t].last
    BY <1>6, <1>8, <2>1, DecodeKeeps
  <2>3. /\ tracks' \in Seq(TrackRec) /\ DOMAIN tracks' = DOMAIN trs
        /\ tracks'[t] = d /\ \A i \in DOMAIN trs \ {t} : tracks'[i] = trs[i]
    BY <1>4, <1>8, <2>2
  <2>4. \A i \in DOMAIN trs : tracks'[i].bin = trs[i].bin /\ tracks'[i].last = trs[i].last
    BY <2>2, <2>3
  <2>5. BinsDistinct(tracks)'
    BY <1>4, <2>3, <2>4 DEF BinsDistinct
  <2>6. \A i \in DOMAIN tracks' : SpotGood(tracks'[i])
    BY <1>4, <2>2, <2>3
  <2>7. \A i \in DOMAIN tracks' :
          tracks'[i].last \in window' - Ttl .. window' /\ SpotGood(tracks[i])'
    BY <1>4, <2>3, <2>4, <2>6 DEF SpotGood
  <2>8. scene' = "copy"
    BY <1>2, <1>8
  <2> QED BY <1>6, <2>3, <2>5, <2>7, <2>8 DEF TrackInv
<1> QED BY <1>5, <1>7, <1>8

LEMMA TrackInvHolds == TrackSpec => []TrackInv
<1>1. ASSUME TrackInv, UNCHANGED trackVars PROVE TrackInv'
  BY <1>1 DEF TrackInv, trackVars, BinsDistinct, SpotGood, Apart, Own
<1> QED BY TrackStart, TrackKeeps, <1>1, PTL DEF TrackSpec

(* However many carriers there are, wherever they are and whatever the     *)
(* drift and merge widths: no two tracks of CwTracker::step are at one bin, *)
(* a track is dropped once idle for Ttl, and while carriers keep apart     *)
(* none ever follows another's carrier.                                    *)
THEOREM TracksStayRight == TrackSpec => []TracksRight
<1>1. ASSUME TrackInv PROVE TracksRight
  <2>1. ASSUME NEW i \in DOMAIN tracks
        PROVE  /\ tracks[i].bin \in InBand /\ tracks[i].last \in window - Ttl .. window
               /\ tracks[i].count \in [Calls -> Nat] /\ tracks[i].emitted \subseteq Calls
    <3>1. tracks[i] \in TrackRec /\ tracks[i].last \in window - Ttl .. window
      BY <1>1 DEF TrackInv
    <3> QED BY <3>1 DEF TrackRec
  <2>2. TrackTypeOK
    BY <1>1, <2>1 DEF TrackInv, TrackTypeOK
  <2>3. TracksDistinct
    BY <1>1 DEF TrackInv, BinsDistinct, TracksDistinct
  <2>4. OneCarrierPerTrack
    <3> SUFFICES ASSUME scene \in {"steady", "fading"}, NEW i \in DOMAIN tracks
                 PROVE  Cardinality(tracks[i].srcs) <= 1
      BY DEF OneCarrierPerTrack
    <3>1. PICK c \in Carriers : tracks[i].srcs = {c}
      BY <1>1 DEF TrackInv, Own
    <3>2. Cardinality({c}) = 1
      BY FS_Singleton
    <3> QED BY <3>1, <3>2
  <2> QED BY <2>2, <2>3, <2>4 DEF TracksRight
<1> QED BY <1>1, TrackInvHolds, PTL

(* Whatever is decoded in whatever order: a call is spotted only if it was *)
(* decoded on its track in Confirm windows, the call decoded most is       *)
(* spotted once it was, but for variants of an earlier spot, and           *)
(* editDistLE1 decides what a near miss is.                                *)
THEOREM SpotsStayRight == TrackSpec => []SpotsRight
<1>1. ASSUME TrackInv PROVE SpotsRight
  <2>1. \A i \in DOMAIN tracks : SpotGood(tracks[i]) /\ tracks[i] \in TrackRec
    BY <1>1 DEF TrackInv
  <2>2. ConfirmedAcrossWindows
    BY <2>1 DEF SpotGood, ConfirmedAcrossWindows
  <2>3. DominantIsSpotted
    BY <2>1 DEF SpotGood, DominantIsSpotted
  <2>4. EditDistIsOneEdit
    <3> SUFFICES ASSUME NEW i \in DOMAIN tracks, NEW c \in tracks[i].emitted, NEW d \in Calls
                 PROVE  EditDistLE1(c, d) <=> OneEdit(c, d)
      BY DEF EditDistIsOneEdit
    <3>1. c \in Calls
      BY <2>1 DEF TrackRec
    <3> DEFINE X == ToSet(c) \union ToSet(d)
    <3>2. c \in Seq(ToSet(c)) /\ d \in Seq(ToSet(d))
      BY <3>1, TrackAssumption
    <3>3. c \in Seq(X) /\ d \in Seq(X)
      BY <3>2
    <3> HIDE DEF X
    <3> QED BY <3>3, EditDistIsOneEditAway
  <2> QED BY <2>2, <2>3, <2>4 DEF SpotsRight
<1> QED BY <1>1, TrackInvHolds, PTL

=============================================================================
