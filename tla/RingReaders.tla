---------------------------- MODULE RingReaders ----------------------------
(***************************************************************************)
(* The readers of the device rings other than the scans: refineCandidate,  *)
(* which copies a candidate's complex frame back to the host; the CW       *)
(* skimmer's window snapshot; the waterfall; and BufferFile, recording     *)
(* from a ring or playing a file into one.  No writer looks at its         *)
(* readers, so each read races the copies that reuse its slots.            *)
(*                                                                         *)
(* Readers do not affect the writer or each other: a behaviour has one of  *)
(* them, chosen in Init, and a ring of Depth blocks.  A block is its       *)
(* number; its contents are left out.  Time is counted in blocks enqueued. *)
(* Assumed: the device is at most Lag blocks behind the writer's thread,   *)
(* and a read, from the load of write_idx to the last byte, takes no more  *)
(* than ReadTime blocks.                                                   *)
(***************************************************************************)
EXTENDS Integers, Sequences, FiniteSets, SequencesExt

CONSTANTS
  Kinds,      \* readers to look at; "none" reads nothing
  Depth,      \* slots of the ring read
  Lag, ReadTime,
  Sym,        \* blocks_per_sym
  Nsym,       \* kRefineNsym: symbols of a frame
  Cap,        \* mag slots of a scanned window
  MaxTo,      \* the last time offset a scan reports
  MapLen,     \* entries of slot_cplx_idx_
  WSlots,     \* WSLOTS: the skimmer's window
  Stride,     \* STRIDE: slots between two windows
  RingKeys,   \* RING_KEYS
  FileBlocks, \* whole blocks of a file to play
  MaxBlocks   \* bound: blocks written, for each kind of reader

ASSUME ReaderAssumption ==
  /\ Kinds \subseteq {"refine", "skimmer", "waterfall", "record", "playback", "none"}
  /\ {Depth, Lag, ReadTime, Sym, Nsym, Cap, MapLen, WSlots, Stride, RingKeys}
       \subseteq Nat \ {0}
  /\ Sym > 1                                 \* 32
  /\ MaxBlocks \in [Kinds -> Nat]
  /\ {MaxTo, FileBlocks} \subseteq Nat
  /\ MaxTo < Cap /\ MaxTo + Nsym <= Cap + 2  \* scan geometry: 29, 79, 106
  /\ WSlots + ReadTime <= Depth              \* 250 of 256: ReadTime is 6
  /\ ReadTime + 1 <= Depth /\ Lag + 1 <= Depth
  /\ Depth < MapLen * Sym                    \* 4096 < 200 * 32

VARIABLES
  who,      \* the reader of this behaviour
  enq,      \* blocks whose copy the writer has enqueued
  event,    \* the block count the event `ready` was last recorded at
  pub,      \* write_idx; blocks up to the BufferPosition for "record"
  done,     \* blocks the device has copied
  buff,     \* buff_pos_, in blocks
  magWi,    \* ring_.write_idx of the magnitude ring
  slotMap,  \* slot_cplx_idx_
  job,      \* the candidate under refinement: window start and offset
  rd,       \* the read: pc, first block, blocks, copied, wait, since, ok
  last,     \* last (skimmer), last_wi (waterfall), pos (recorder)
  ws,       \* the waterfall still has its client
  recent,   \* less than min_publish_ms_ since last_pub
  keys,     \* the waterfall's keys on the server
  keyIdx,   \* key_idx
  file,     \* the last two blocks recorded; for playback, all blocks fed
  fpos,     \* fp_: the next file block, FileBlocks is the partial one
  loop,     \* loop_
  finished  \* finished_

ringVars == <<enq, event, pub, done>>
mapVars  == <<buff, magWi, slotMap>>
wfVars   == <<ws, recent, keys, keyIdx>>
fileVars == <<file, fpos, loop, finished>>
vars == <<who, ringVars, mapVars, job, rd, last, wfVars, fileVars>>

None == -1
Idle == [pc |-> "idle", from |-> 0, len |-> 0, i |-> 0,
         wait |-> 0, since |-> 0, ok |-> TRUE]

Init ==
  /\ who \in Kinds
  /\ enq = 0 /\ event = 0 /\ pub = 0 /\ done = 0
  /\ buff = 0 /\ magWi = 0 /\ slotMap = [k \in 0 .. MapLen - 1 |-> 0]
  /\ job = [snap |-> 0, to |-> 0]
  /\ rd = Idle /\ last = 0
  /\ ws \in (IF who = "waterfall" THEN BOOLEAN ELSE {TRUE})
  /\ recent = FALSE /\ keys = [k \in 0 .. RingKeys - 1 |-> None] /\ keyIdx = 0
  /\ file = << >> /\ fpos = 0 /\ finished = FALSE
  /\ loop \in (IF who = "playback" THEN BOOLEAN ELSE {FALSE})

(***************************************************************************)
(* The writer.                                                             *)
(***************************************************************************)
Busy == rd.pc \in {"copy", "got"}

(* The next block waits for no reader; these are the assumptions on time.  *)
(* A recorder that has a block to read has woken before the next block.    *)
OnTime ==
  /\ enq - (IF who = "record" THEN pub ELSE done) < Lag
  /\ Busy => enq < rd.since + ReadTime
  /\ who = "record" /\ rd.pc = "idle" => pub - 1 <= last

(* doCopy enqueues the block's copy ...                                    *)
Enqueue ==
  /\ who \notin {"record", "playback"}
  /\ pub = enq /\ buff <= 2 * Sym
  /\ enq < MaxBlocks[who] /\ OnTime
  /\ enq' = enq + 1 /\ buff' = IF who = "refine" THEN buff + 1 ELSE buff
  /\ UNCHANGED <<who, event, pub, done, magWi, slotMap, job, rd, last, wfVars,
                 fileVars>>

(* ... records `ready` after it ...                                        *)
RecordReady ==
  /\ event < enq /\ event' = enq
  /\ UNCHANGED <<who, enq, pub, done, mapVars, job, rd, last, wfVars, fileVars>>

(* ... and advances write_idx.                                             *)
Publish ==
  /\ who \notin {"record", "playback"}
  /\ pub < enq /\ event = enq
  /\ pub' = enq
  /\ UNCHANGED <<who, enq, event, done, mapVars, job, rd, last, wfVars, fileVars>>

(* With more than two FFTs' worth buffered, doCopy makes the mag slot of   *)
(* the oldest symbol and notes the block that symbol starts at.            *)
MagSlot ==
  /\ who = "refine" /\ pub = enq /\ buff > 2 * Sym
  /\ slotMap' = [slotMap EXCEPT ![magWi % MapLen] = enq - buff]
  /\ buff' = buff - Sym
  /\ magWi' = magWi + 1
  /\ UNCHANGED <<who, ringVars, job, rd, last, wfVars, fileVars>>

(* The device executes the next copy.                                      *)
Execute ==
  /\ done < enq /\ done' = done + 1
  /\ UNCHANGED <<who, enq, event, pub, mapVars, job, rd, last, wfVars, fileVars>>

(* HFChannelizer's ring: a frame is enqueued ...                           *)
EnqueueFrame ==
  /\ who = "record" /\ enq < MaxBlocks[who] /\ OnTime
  /\ enq' = enq + 1
  /\ event' = enq'
  /\ UNCHANGED <<who, pub, done, mapVars, job, rd, last, wfVars, fileVars>>

(* ... and its host callback, after the copy, sets the position.           *)
FrameCallback ==
  /\ who = "record" /\ pub < done
  /\ pub' = pub + 1
  /\ UNCHANGED <<who, enq, event, done, mapVars, job, rd, last, wfVars, fileVars>>

(***************************************************************************)
(* A read copies its blocks in order.  Block j comes out right if its copy *)
(* into the ring has executed and the copy of block j + Depth, which goes  *)
(* to the same slot, is not on the stream yet.                             *)
(***************************************************************************)
Intact(j) == j < done /\ enq <= j + Depth

ReadBlock ==
  /\ rd.pc = "copy" /\ rd.i < rd.len /\ done >= rd.wait
  /\ rd' = [rd EXCEPT !.i = @ + 1, !.ok = @ /\ Intact(rd.from + rd.i),
                      !.pc = IF rd.i + 1 = rd.len THEN "got" ELSE "copy"]
  /\ UNCHANGED <<who, ringVars, mapVars, job, last, wfVars, fileVars>>

(* A read of len blocks from block `from`, behind the event count w.       *)
Read(from, len, w) ==
  [pc |-> "copy", from |-> from, len |-> len, i |-> 0, wait |-> w,
   since |-> pub, ok |-> TRUE]

(* Mutant: the scan stream does not wait for the mag slots.                *)
ScannedUnordered(snap) == magWi >= snap + Cap

(***************************************************************************)
(* refineCandidate.  The window of a candidate has been scanned: its last  *)
(* mag slot was published and, the scan stream having waited for it, made. *)
(* The job may have waited in the worker's queue for any time since.       *)
(***************************************************************************)
Scanned(snap) ==
  /\ magWi >= snap + Cap
  /\ done >= (snap + Cap + 1) * Sym + 1

RefineLookUp ==
  /\ who = "refine" /\ rd.pc = "idle"
  /\ \E snap \in 0 .. magWi, to \in 0 .. MaxTo :
       /\ Scanned(snap)
       /\ job' = [snap |-> snap, to |-> to]
       /\ rd' = [rd EXCEPT !.pc = "check",
                           !.from = slotMap[(snap + to) % MapLen]]
  /\ UNCHANGED <<who, ringVars, mapVars, last, wfVars, fileVars>>

FrameBlocks == Nsym * Sym
Incomplete == rd.from + FrameBlocks > pub
AgedOut == pub - rd.from > Depth

RefineReject ==
  /\ rd.pc = "check" /\ (Incomplete \/ AgedOut)
  /\ rd' = Idle
  /\ UNCHANGED <<who, ringVars, mapVars, job, last, wfVars, fileVars>>

(* No wait for `ready` here, unlike the other readers.                     *)
RefineRead ==
  /\ rd.pc = "check" /\ ~ Incomplete /\ ~ AgedOut
  /\ rd' = Read(rd.from, FrameBlocks, 0)
  /\ UNCHANGED <<who, ringVars, mapVars, job, last, wfVars, fileVars>>

RefineReturn ==
  /\ who = "refine" /\ rd.pc = "got"
  /\ rd' = Idle
  /\ UNCHANGED <<who, ringVars, mapVars, job, last, wfVars, fileVars>>

(***************************************************************************)
(* CWSkimmerCuda::worker: a window at every multiple of Stride it sees.    *)
(***************************************************************************)
SkimmerDue == pub >= WSlots + 1 /\ pub > last /\ pub % Stride = 0

(* Mutant: the snapshot does not wait for `ready`.                         *)
SkimmerPollUnordered ==
  /\ who = "skimmer" /\ rd.pc = "idle" /\ SkimmerDue
  /\ last' = pub
  /\ rd' = Read(pub - WSlots, WSlots, 0)
  /\ UNCHANGED <<who, ringVars, mapVars, job, wfVars, fileVars>>

SkimmerPoll ==
  /\ who = "skimmer" /\ rd.pc = "idle" /\ SkimmerDue
  /\ last' = pub
  /\ rd' = Read(pub - WSlots, WSlots, event)
  /\ UNCHANGED <<who, ringVars, mapVars, job, wfVars, fileVars>>

SkimmerDecode ==
  /\ who = "skimmer" /\ rd.pc = "got"
  /\ rd' = Idle
  /\ UNCHANGED <<who, ringVars, mapVars, job, last, wfVars, fileVars>>

(* Mutant: last_wi moves on although the publish is throttled.             *)
WaterfallLaunchSkips ==
  /\ who = "waterfall" /\ rd.pc = "idle" /\ pub > last
  /\ recent' = TRUE
  /\ last' = pub
  /\ rd' = IF recent THEN rd ELSE Read(pub - 1, 1, event)
  /\ UNCHANGED <<who, ringVars, mapVars, job, ws, keys, keyIdx, fileVars>>

(***************************************************************************)
(* WaterfallCuda::run: render the newest slot, one frame in flight.        *)
(***************************************************************************)
WaterfallLaunch ==
  /\ who = "waterfall" /\ rd.pc = "idle" /\ pub > last
  /\ ~ recent
  /\ recent' = TRUE
  /\ last' = pub
  /\ rd' = Read(pub - 1, 1, event)
  /\ UNCHANGED <<who, ringVars, mapVars, job, ws, keys, keyIdx, fileVars>>

(* min_publish_ms_ after last_pub.                                         *)
PublishInterval ==
  /\ recent /\ recent' = FALSE
  /\ UNCHANGED <<who, ringVars, mapVars, job, rd, last, ws, keys, keyIdx, fileVars>>

(* The frame is on the host.  A set that fails drops the client for good.  *)
WaterfallDeliver(sent) ==
  /\ who = "waterfall" /\ rd.pc = "got"
  /\ sent => ws
  /\ keys' = IF sent THEN [keys EXCEPT ![keyIdx] = rd.from] ELSE keys
  /\ ws' = sent
  /\ keyIdx' = IF ws THEN (keyIdx + 1) % RingKeys ELSE keyIdx
  /\ rd' = Idle
  /\ UNCHANGED <<who, ringVars, mapVars, job, last, recent, fileVars>>

(* Mutant: waits for pos instead of pos + 1.                               *)
RecordAgain ==
  /\ who = "record" /\ rd.pc = "idle" /\ pub - 1 >= last
  /\ rd' = Read(pub - 1, 1, 0)
  /\ UNCHANGED <<who, ringVars, mapVars, job, last, wfVars, fileVars>>

(***************************************************************************)
(* BufferFile.  The position is the number of the newest block, so pos     *)
(* stands at pub - 1 once there is one.                                    *)
(***************************************************************************)
RecordNext ==
  /\ who = "record" /\ rd.pc = "idle" /\ pub - 1 >= last + 1
  /\ rd' = Read(pub - 1, 1, 0)
  /\ UNCHANGED <<who, ringVars, mapVars, job, last, wfVars, fileVars>>

RecordWrite ==
  /\ who = "record" /\ rd.pc = "got"
  /\ file' = IF file = << >> THEN <<rd.from>> ELSE <<Last(file), rd.from>>
  /\ last' = rd.from
  /\ rd' = Idle
  /\ UNCHANGED <<who, ringVars, mapVars, job, wfVars, fpos, loop, finished>>

(* Playback: a whole block is read from the file ...                       *)
PlayRead ==
  /\ who = "playback" /\ rd.pc = "idle" /\ ~ finished
  /\ fpos < FileBlocks /\ enq < MaxBlocks[who]
  /\ rd' = [rd EXCEPT !.pc = "flight", !.from = fpos]
  /\ fpos' = fpos + 1
  /\ UNCHANGED <<who, ringVars, mapVars, job, last, wfVars, file, loop, finished>>

(* ... copied to the ring, waiting for the copy ...                        *)
PlayCopy ==
  /\ who = "playback" /\ rd.pc = "flight" /\ pub = enq
  /\ enq' = enq + 1 /\ event' = enq' /\ done' = enq'
  /\ UNCHANGED <<who, pub, mapVars, job, rd, last, wfVars, fileVars>>

(* ... and announced.                                                      *)
PlayPosition ==
  /\ who = "playback" /\ rd.pc = "flight" /\ pub < enq
  /\ pub' = enq
  /\ file' = Append(file, rd.from)
  /\ rd' = Idle
  /\ UNCHANGED <<who, enq, event, done, mapVars, job, last, wfVars, fpos, loop,
                 finished>>

(* A short read at the end of the file rewinds or finishes.                *)
PlayEnd ==
  /\ who = "playback" /\ rd.pc = "idle" /\ ~ finished
  /\ fpos = FileBlocks
  /\ fpos' = IF loop THEN 0 ELSE fpos
  /\ finished' = ~ loop
  /\ UNCHANGED <<who, ringVars, mapVars, job, rd, last, wfVars, file, loop>>

Writer == Enqueue \/ RecordReady \/ Publish \/ MagSlot \/ EnqueueFrame
Device == Execute \/ FrameCallback \/ ReadBlock
Refine == RefineLookUp \/ RefineReject \/ RefineRead \/ RefineReturn
Skimmer == SkimmerPoll \/ SkimmerDecode
Waterfall == WaterfallLaunch \/ \E sent \in BOOLEAN : WaterfallDeliver(sent)
Recorder == RecordNext \/ RecordWrite
Playback == PlayRead \/ PlayCopy \/ PlayPosition \/ PlayEnd

Next == \/ Writer \/ Device \/ Refine \/ Skimmer
        \/ Waterfall \/ PublishInterval \/ Recorder \/ Playback

(* The device runs what is enqueued, the threads run, time passes.         *)
Fairness ==
  /\ WF_vars(Writer) /\ WF_vars(Execute) /\ WF_vars(ReadBlock)
  /\ WF_vars(Waterfall) /\ WF_vars(PublishInterval)
  /\ WF_vars(Playback)

Spec == Init /\ [][Next]_vars /\ Fairness

-----------------------------------------------------------------------------
(* Types.  The counters are in order: executed and recorded copies were    *)
(* enqueued; what is published was enqueued and its event recorded.        *)
TypeOK ==
  /\ who \in Kinds
  /\ enq \in 0 .. MaxBlocks[who] /\ event \in 0 .. enq
  /\ pub \in 0 .. event /\ done \in 0 .. enq
  /\ buff \in 0 .. 2 * Sym + 1 /\ magWi \in 0 .. MaxBlocks[who]
  /\ slotMap \in [0 .. MapLen - 1 -> 0 .. MaxBlocks[who]]
  /\ job \in [snap : 0 .. MaxBlocks[who], to : 0 .. MaxTo]
  /\ rd.pc \in {"idle", "check", "copy", "got", "flight"}
  /\ rd.i \in 0 .. rd.len /\ rd.ok \in BOOLEAN
  /\ last \in 0 .. pub
  /\ {ws, recent, loop, finished} \subseteq BOOLEAN
  /\ keys \in [0 .. RingKeys - 1 -> None .. MaxBlocks[who]]
  /\ keyIdx \in 0 .. RingKeys - 1 /\ fpos \in 0 .. FileBlocks

(* refineCandidate hands on a candidate's own frame.  The map entry of its *)
(* mag slot is reused MapLen slots later, which no test of the code looks  *)
(* for; the test for an incomplete frame happens to catch it until the     *)
(* frame of the slot that took the entry is complete too.                  *)
OwnFrame ==
  who = "refine" /\ rd.pc = "got" =>
    LET m == job.snap + job.to
    IN  rd.from = m * Sym \/ magWi + 2 >= m + MapLen + Nsym

(* Every block of the frame refineCandidate copies has been made and is    *)
(* not being overwritten, although it never waits for `ready`: as long as  *)
(* the frame lies in the blocks the scan waited for (all but the very last *)
(* offset do) and is ReadTime younger than the retained window.  The       *)
(* code's own test (AgedOut) leaves no such margin.                        *)
FrameIntact ==
  /\ who = "refine" /\ rd.pc = "got"
  /\ rd.from = (job.snap + job.to) * Sym
  /\ job.to + Nsym <= Cap + 1
  /\ rd.since - rd.from + ReadTime <= Depth
  => rd.ok

(* The skimmer decodes, and the waterfall shows, slots as the device made  *)
(* them: made before they are read, and not overwritten during the read.   *)
SnapshotIntact ==
  who \in {"skimmer", "waterfall"} /\ rd.pc = "got" => rd.ok

(* A recording holds blocks of the ring, intact, each at most once, in     *)
(* order, and what a late recorder skips is bounded by how late it was:    *)
(* getPosition returns the newest block, not the next.                     *)
RecordingInOrder ==
  who = "record" =>
    /\ rd.pc = "got" => rd.ok
    /\ \A i \in 2 .. Len(file) :
         /\ file[i - 1] < file[i]
         /\ file[i] <= file[i - 1] + Max({ReadTime, Lag})

(* What ARCHITECTURE.md says of the recorder: it copies each block and     *)
(* writes it to the file.                                                  *)
EachBlockRecorded ==
  who = "record" => \A i \in 2 .. Len(file) : file[i] = file[i - 1] + 1

(* Playback announces the whole blocks of the file, in the file's order,   *)
(* from the first again when it loops, and finishes only after the last.   *)
PlaysFileInOrder ==
  who = "playback" =>
    /\ \A i \in DOMAIN file : file[i] = (i - 1) % FileBlocks
    /\ Len(file) = pub
    /\ finished => Len(file) = FileBlocks

(* The last slot published is shown, however the publish rate is           *)
(* throttled, unless the connection to the server was lost: throttling     *)
(* holds a slot back but no later one has to come to push it out.          *)
NewestShown ==
  who = "waterfall" /\ pub = MaxBlocks[who]
    ~> ~ ws \/ \E k \in DOMAIN keys : keys[k] = MaxBlocks[who] - 1

(* refineCandidate hands on its candidate's own frame, whole, within the   *)
(* stated age.                                                             *)
FrameRight == TypeOK /\ OwnFrame /\ FrameIntact

(* What BufferFile records and plays is in the order of the ring and of    *)
(* the file.                                                               *)
FilesInOrder == RecordingInOrder /\ PlaysFileInOrder

=============================================================================
