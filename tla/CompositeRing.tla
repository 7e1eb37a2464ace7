---------------------------- MODULE CompositeRing ----------------------------
(***************************************************************************)
(* The front of the receive pipeline: rx888's USB callback fills a host    *)
(* ring of sample blocks, HFChannelizer enqueues one frame of device work  *)
(* per block, and the frame's results leave through device rings of        *)
(* Buffers blocks (the composite and, with --cw, the CW composite) and a   *)
(* host ring of audio blocks.  MagBlock copies composite blocks out.       *)
(*                                                                         *)
(* A block is its number; a composite or audio block is the number of the  *)
(* rx888 block it was computed from.  The signal processing is left out.   *)
(***************************************************************************)
EXTENDS Integers, Sequences, FiniteSets

CONSTANTS
  BlockLen,      \* NLARGE: samples in an rx888 block
  RxBuffers,     \* rx888::BUFFERS
  Buffers,       \* HFChannelizer::BUFFERS
  AudioRing,     \* AUDIO_RING
  Rings,         \* the composites in use: {"hf"}, or {"hf", "cw"} with --cw
  MaxLag,        \* a reader further behind than this (4) drops what it missed
  NormInterval,  \* NORM_INTERVAL: frames between two noise-floor updates
  HostCopyWaits, \* the pageable host-to-device copy waits for the stream
  Slack,         \* assumed: a reader's batch is done after this many blocks
  MaxRx          \* bound: rx888 delivers this many blocks

ASSUME RingAssumption ==
  /\ {BlockLen, RxBuffers, Buffers, AudioRing, NormInterval, Slack} \subseteq Nat \ {0}
  /\ {MaxLag, MaxRx} \subseteq Nat
  /\ "hf" \in Rings /\ Rings \subseteq {"hf", "cw"}
  /\ HostCopyWaits \in BOOLEAN
  /\ MaxLag + Slack + 1 <= RxBuffers

VARIABLES
  rxHead,     \* samples rx888 has begun to copy into its ring
  rxPos,      \* rxBufferPosition, in samples
  chNow,      \* HFChannelizer::run's now, 0 before the thread starts
  chNext,     \* and its next
  chPc,       \* where doCopy is
  normFrame,  \* norm_frame_
  stream,     \* operations on HFChannelizer's stream, the oldest first
  fftIn,      \* fftInData_d: RxBuffers + 1 blocks
  fftOut,     \* fftData_d: the two blocks the last FFT covered
  frames,     \* history: the blocks whose FFT has run
  bufNum,     \* buffer_number, cw_buffer_number
  ring,       \* demodData_d, cwDemodData_d
  pos,        \* hfBufferPosition, cwBufferPosition, in blocks
  aProd,      \* audio_produce_idx
  aCons,      \* audio_consume_idx
  aRing,      \* audio_pinned
  aOut,       \* the audio block audioWorker is pushing or pushed last
  apc,        \* where audioWorker is
  mNow, mNext,\* MagBlock::run's now (0 before it starts) and next
  mSince,     \* rx888 blocks when MagBlock read next
  mStream,    \* copies on MagBlock's stream
  mIn         \* the last block copied into MagBlock's FFT buffer

rxVars   == <<rxHead, rxPos>>
chVars   == <<chNow, chNext, chPc, normFrame>>
devVars  == <<fftIn, fftOut, frames, bufNum, ring, pos>>
audVars  == <<aCons, aOut, apc>>
magVars  == <<mNow, mNext, mSince, mStream, mIn>>
vars == <<rxVars, chVars, stream, devVars, aProd, aRing, audVars, magVars>>

NoBlock == -1

(* getNow(1) of rx888's buffer: complete blocks.                           *)
RxBlocks == rxPos \div BlockLen

Init ==
  /\ rxHead = 0 /\ rxPos = 0
  /\ chNow = 0 /\ chNext = 0 /\ chPc = "copy" /\ normFrame = 0
  /\ stream = << >>
  /\ fftIn = [i \in 0 .. RxBuffers |-> NoBlock]
  /\ fftOut = <<NoBlock, NoBlock>> /\ frames = {}
  /\ bufNum = [r \in Rings |-> 0] /\ pos = [r \in Rings |-> 0]
  /\ ring = [r \in Rings |-> [i \in 0 .. Buffers - 1 |-> NoBlock]]
  /\ aProd = 0 /\ aCons = 0 /\ aOut = NoBlock /\ apc = "poll"
  /\ aRing = [i \in 0 .. AudioRing - 1 |-> NoBlock]
  /\ mNow = 0 /\ mNext = 0 /\ mSince = 0 /\ mStream = << >> /\ mIn = NoBlock

-----------------------------------------------------------------------------
(* rx888::handle_samples copies n samples and then moves the position.     *)
(* The samples keep coming; what is assumed is that a batch of frames, and *)
(* a batch of MagBlock's copies, is through the device Slack blocks after  *)
(* its thread read the position.  Slack is at least 1: rx888 may be        *)
(* copying into the next block already when the position is read.          *)

OnTime(blocks) ==
  /\ chNow < chNext => blocks <= chNext + Slack
  /\ \A i \in DOMAIN stream : blocks <= stream[i].since + Slack
  /\ mNow < mNext => blocks <= mSince + Slack
  /\ \A i \in DOMAIN mStream : blocks <= mStream[i].since + Slack

RxFill(n) ==
  /\ rxHead = rxPos
  /\ rxPos + n <= MaxRx * BlockLen
  /\ OnTime((rxPos + n) \div BlockLen)
  /\ rxHead' = rxPos + n
  /\ UNCHANGED <<rxPos, chVars, stream, devVars, aProd, aRing, audVars, magVars>>

RxPublish ==
  /\ rxPos < rxHead
  /\ rxPos' = rxHead
  /\ UNCHANGED <<rxHead, chVars, stream, devVars, aProd, aRing, audVars, magVars>>

-----------------------------------------------------------------------------
(* HFChannelizer::run.                                                     *)

ChStart ==
  /\ chNow = 0
  /\ chNow' = RxBlocks + 1 /\ chNext' = RxBlocks + 1
  /\ UNCHANGED <<chPc, normFrame, rxVars, stream, devVars, aProd, aRing, audVars, magVars>>

ChWait ==
  /\ chNow > 0 /\ chNow >= chNext /\ chPc = "copy"
  /\ RxBlocks >= chNow + 1
  /\ chNext' = RxBlocks
  /\ UNCHANGED <<chNow, chPc, normFrame, rxVars, stream, devVars, aProd, aRing,
                 audVars, magVars>>

ChDrop ==
  /\ chNow > 0 /\ chNext - chNow > MaxLag
  /\ chNow' = chNext
  /\ UNCHANGED <<chNext, chPc, normFrame, rxVars, stream, devVars, aProd, aRing,
                 audVars, magVars>>

(* What doCopy puts on the stream.  Ring slots are chosen by the host from *)
(* counters that the callbacks advance.                                    *)
Fft     == <<[op |-> "fft", to |-> "in", slot |-> chNow, since |-> chNext]>>
AudioPut == <<[op |-> "put", to |-> "audio", slot |-> aProd % AudioRing, since |-> chNext],
              [op |-> "signal", to |-> "audio", slot |-> 0, since |-> chNext]>>
Audio   == IF aProd - aCons < AudioRing THEN AudioPut ELSE << >>
Put(r)  == <<[op |-> "put", to |-> r, slot |-> bufNum[r] % Buffers, since |-> chNext],
             [op |-> "signal", to |-> r, slot |-> 0, since |-> chNext]>>
Composites == Put("hf") \o (IF "cw" \in Rings THEN Put("cw") ELSE << >>)

(* The first half of doCopy: the input block, its FFT and the audio.  The  *)
(* copy of the input block may make the host wait for the stream.  A       *)
(* failing FFT ends the process.                                           *)
EnqueueFft ==
  /\ chPc = "copy"
  /\ HostCopyWaits => stream = << >>
  /\ stream' = stream \o Fft \o Audio
  /\ chPc' = "compose"
  /\ UNCHANGED <<chNow, chNext, normFrame, rxVars, devVars, aProd, aRing, audVars,
                 magVars>>

(* Mutant of ChCopy: <= for < in the loop.                                 *)
ChCopyThroughNext ==
  /\ chNow > 0 /\ chNow <= chNext /\ chNext - chNow <= MaxLag
  /\ EnqueueFft

ChCopy ==
  /\ chNow > 0 /\ chNow < chNext /\ chNext - chNow <= MaxLag
  /\ EnqueueFft

(* The second half: the composites.  Every NormInterval frames the host    *)
(* synchronizes with the stream first, to update the noise floors.         *)
ChCompose ==
  /\ chPc = "compose"
  /\ (normFrame + 1) % NormInterval = 0 => stream = << >>
  /\ normFrame' = (normFrame + 1) % NormInterval
  /\ stream' = stream \o Composites
  /\ chNow' = chNow + 1
  /\ chPc' = "copy"
  /\ UNCHANGED <<chNext, rxVars, devVars, aProd, aRing, audVars, magVars>>

-----------------------------------------------------------------------------
(* The stream: operations, callbacks included, run one after the other.    *)

(* The input block b goes to fftIn[b % RxBuffers + 1] and the FFT covers   *)
(* it and the block below; when b is the first of a lap, the block below   *)
(* is copied down from the end.                                            *)
RunFft(b, input) ==
  /\ fftIn' = input
  /\ fftOut' = <<input[b % RxBuffers], b>>
  /\ frames' = frames \cup {b}
  /\ stream' = Tail(stream)
  /\ UNCHANGED <<rxVars, chVars, bufNum, ring, pos, aProd, aRing, audVars, magVars>>

DevFft ==
  LET b == Head(stream).slot
      i == b % RxBuffers
  IN
  /\ stream # << >> /\ Head(stream).op = "fft"
  /\ RunFft(b, [fftIn EXCEPT ![i + 1] = b,
                             ![0] = IF i = 0 THEN fftIn[RxBuffers] ELSE @])

DevPut ==
  LET o == Head(stream) IN
  /\ stream # << >> /\ o.op = "put"
  /\ IF o.to = "audio"
     THEN aRing' = [aRing EXCEPT ![o.slot] = fftOut[2]] /\ UNCHANGED ring
     ELSE ring' = [ring EXCEPT ![o.to][o.slot] = fftOut[2]] /\ UNCHANGED aRing
  /\ stream' = Tail(stream)
  /\ UNCHANGED <<rxVars, chVars, fftIn, fftOut, frames, bufNum, pos, aProd, audVars,
                 magVars>>

(* The callbacks: setPosition to the counter, then count; or the audio     *)
(* index.                                                                  *)
Signal(announced) ==
  LET r == Head(stream).to IN
  /\ stream # << >> /\ Head(stream).op = "signal"
  /\ IF r = "audio"
     THEN aProd' = aProd + 1 /\ UNCHANGED <<pos, bufNum>>
     ELSE /\ pos' = [pos EXCEPT ![r] = announced[r]]
          /\ bufNum' = [bufNum EXCEPT ![r] = @ + 1]
          /\ UNCHANGED aProd
  /\ stream' = Tail(stream)
  /\ UNCHANGED <<rxVars, chVars, fftIn, fftOut, frames, ring, aRing, audVars, magVars>>

(* Mutant of DevSignal: the counter is advanced before the signal.         *)
DevSignalNext == Signal([r \in Rings |-> bufNum[r] + 1])

DevSignal == Signal(bufNum)

-----------------------------------------------------------------------------
(* audioWorker: push the oldest block to the TCI server, then free it.     *)

AudioPush ==
  /\ apc = "poll" /\ aProd > aCons
  /\ aOut' = aRing[aCons % AudioRing]
  /\ apc' = "push"
  /\ UNCHANGED <<aCons, rxVars, chVars, stream, devVars, aProd, aRing, magVars>>

AudioFree ==
  /\ apc = "push"
  /\ aCons' = aCons + 1
  /\ apc' = "poll"
  /\ UNCHANGED <<aOut, rxVars, chVars, stream, devVars, aProd, aRing, magVars>>

-----------------------------------------------------------------------------
(* MagBlock::run on the composite.                                         *)

MagStart ==
  /\ mNow = 0
  /\ mNow' = pos["hf"] + 1 /\ mNext' = pos["hf"] + 1
  /\ UNCHANGED <<mSince, mStream, mIn, rxVars, chVars, stream, devVars, aProd, aRing,
                 audVars>>

MagWait ==
  /\ mNow > 0 /\ mNow >= mNext
  /\ pos["hf"] >= mNow + 1
  /\ mNext' = pos["hf"] /\ mSince' = RxBlocks
  /\ UNCHANGED <<mNow, mStream, mIn, rxVars, chVars, stream, devVars, aProd, aRing,
                 audVars>>

MagDrop ==
  /\ mNow > 0 /\ mNext - mNow > MaxLag
  /\ mNow' = mNext
  /\ UNCHANGED <<mNext, mSince, mStream, mIn, rxVars, chVars, stream, devVars, aProd,
                 aRing, audVars>>

(* doCopy puts a device-to-device copy on MagBlock's own stream; nothing   *)
(* but the position orders it after the channelizer's write.               *)
EnqueueCopy ==
  /\ mStream' = Append(mStream, [block |-> mNow, since |-> mSince])
  /\ mNow' = mNow + 1
  /\ UNCHANGED <<mNext, mSince, mIn, rxVars, chVars, stream, devVars, aProd, aRing,
                 audVars>>

(* Mutant of MagCopy: no limit on the lag.                                 *)
MagCopyAnyLag == mNow > 0 /\ mNow < mNext /\ EnqueueCopy

MagCopy ==
  /\ mNow > 0 /\ mNow < mNext /\ mNext - mNow <= MaxLag
  /\ EnqueueCopy

DevMag ==
  /\ mStream # << >>
  /\ mIn' = ring["hf"][Head(mStream).block % Buffers]
  /\ mStream' = Tail(mStream)
  /\ UNCHANGED <<mNow, mNext, mSince, rxVars, chVars, stream, devVars, aProd, aRing,
                 audVars>>

-----------------------------------------------------------------------------
Rx == (\E n \in 1 .. BlockLen : RxFill(n)) \/ RxPublish
Channelizer == ChStart \/ ChWait \/ ChDrop \/ ChCopy \/ ChCompose
Device == DevFft \/ DevPut \/ DevSignal
AudioWorker == AudioPush \/ AudioFree
Mag == MagStart \/ MagWait \/ MagDrop \/ MagCopy \/ DevMag

Next == Rx \/ Channelizer \/ Device \/ AudioWorker \/ Mag

Spec == Init /\ [][Next]_vars

-----------------------------------------------------------------------------
Ops == [op : {"fft", "put", "signal"}, to : {"in", "audio", "hf", "cw"},
        slot : Nat, since : Nat]
Block == Nat \cup {NoBlock}

(* Types, and the indices of HFChannelizer, MagBlock and the audio worker  *)
(* stay within their rings.                                                *)
TypeOK ==
  /\ rxHead \in Nat /\ rxPos \in Nat
  /\ chNow \in Nat /\ chNext \in Nat /\ chPc \in {"copy", "compose"}
  /\ normFrame \in 0 .. NormInterval - 1
  /\ stream \in Seq(Ops)
  /\ fftIn \in [0 .. RxBuffers -> Block] /\ fftOut \in Block \X Block
  /\ frames \in SUBSET Nat
  /\ bufNum \in [Rings -> Nat] /\ pos \in [Rings -> Nat]
  /\ ring \in [Rings -> [0 .. Buffers - 1 -> Block]]
  /\ aProd \in Nat /\ aCons \in Nat /\ aOut \in Block /\ apc \in {"poll", "push"}
  /\ aRing \in [0 .. AudioRing - 1 -> Block]
  /\ mNow \in Nat /\ mNext \in Nat /\ mSince \in Nat /\ mIn \in Block
  /\ mStream \in Seq([block : Nat, since : Nat])

(* An input block is complete when the channelizer enqueues its copy, and  *)
(* rx888 has not begun to overwrite it as long as the copy is outstanding. *)
InputIntact ==
  \A i \in DOMAIN stream : stream[i].op = "fft" =>
    LET b == stream[i].slot IN
    /\ (b + 1) * BlockLen <= rxPos
    /\ rxHead <= (b + RxBuffers) * BlockLen

(* Each FFT covers its block and the block before it, across the wrap of   *)
(* the input buffer, unless the one before it was dropped.                 *)
FramesOverlap ==
  fftOut[2] - 1 \in frames => fftOut[1] = fftOut[2] - 1

(* A block that a composite ring's position announces is a new one: going  *)
(* back from the position, as far as the ring reaches, every slot holds an *)
(* older block than the next.                                              *)
SignalsNewBlock ==
  \A r \in Rings : \A k \in 0 .. pos[r] - 1 :
    k > pos[r] - Buffers + 1 =>
      ring[r][k % Buffers] < ring[r][(k + 1) % Buffers]

(* MagBlock's input is never repeated nor out of order, although nothing   *)
(* keeps the channelizer from lapping it.                                  *)
MagInOrder == [][Len(mStream') < Len(mStream) => mIn' > mIn]_<<mStream, mIn>>

(* The audio blocks pushed to TCI clients are in order and none is stale.  *)
AudioInOrder == [][apc' = "push" /\ apc = "poll" => aOut' > aOut]_<<apc, aOut>>

(* Indices stay in their rings, the copy of an input block never races the *)
(* transfers into it, and each FFT covers its block and the one before:    *)
(* rx888's ring and HFChannelizer's overlap, across every wrap.            *)
InputRight == TypeOK /\ InputIntact /\ FramesOverlap

(* What leaves the composite and audio rings is in order and never         *)
(* repeated, however late MagBlock and audioWorker are.                    *)
ReadInOrder == MagInOrder /\ AudioInOrder

=============================================================================
