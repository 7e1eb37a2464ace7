------------------------- MODULE CompositeRingProofs -------------------------
(***************************************************************************)
(* Proofs about CompositeRing, for every number of buffers, every lag      *)
(* limit and every slack that RingAssumption allows.                       *)
(*                                                                         *)
(* That the input is right (InputRight) holds whatever the host does.      *)
(* That the outputs are in order needs that the copy of an input block     *)
(* waits for the stream (HostCopyWaits), so that at most one frame is      *)
(* under way, and for MagBlock a composite ring of at least                *)
(* 2 * (MaxLag + Slack) + 1 blocks (ReaderFits).                           *)
(***************************************************************************)
EXTENDS CompositeRing, TLAPS

(* rx888's blocks, those of the transfer that it is copying included.      *)
HeadBlocks == rxHead \div BlockLen

(* Every block that has been given to the stream is below this one.        *)
Given == IF chPc = "compose" THEN chNow + 1 ELSE chNow

-----------------------------------------------------------------------------
(* The invariant for the input.                                            *)

(* rx888 writes at most one transfer ahead of its position.                *)
RxInv == rxPos <= rxHead /\ rxHead <= rxPos + BlockLen

(* A batch of the channelizer: its blocks are complete, and rx888 is at    *)
(* most Slack blocks past the position it was taken from.                  *)
BatchInv ==
  /\ chNow <= chNext
  /\ chNow < chNext => chNext <= RxBlocks /\ HeadBlocks <= chNext + Slack
  /\ chPc = "compose" => 0 < chNow /\ chNow < chNext /\ chNext <= chNow + MaxLag

(* An operation on the stream: it belongs to a batch that is on time, and  *)
(* an FFT's block is one of that batch and newer than the last FFT's.      *)
OpAt(o) ==
  /\ HeadBlocks <= o.since + Slack
  /\ o.since < Given + MaxLag
  /\ o.op = "fft" =>
       /\ o.slot < o.since /\ o.since <= o.slot + MaxLag /\ o.since <= RxBlocks
       /\ fftOut[2] < o.slot /\ o.slot < Given
  /\ o.op # "fft" => o.to \in Rings \cup {"audio"}
  /\ o.op = "put" => o.slot < (IF o.to = "audio" THEN AudioRing ELSE Buffers)

StreamInv == \A i \in DOMAIN stream : OpAt(stream[i])

FftOrder ==
  \A i, j \in DOMAIN stream :
    i < j /\ stream[i].op = "fft" /\ stream[j].op = "fft" =>
      stream[i].slot < stream[j].slot

(* The last FFT's block is the newest that any FFT has covered, and it is  *)
(* still in its place in the input buffer.                                 *)
FrameInv ==
  /\ fftOut[2] < Given
  /\ \A b \in frames : b <= fftOut[2]
  /\ fftOut[2] \in Nat => fftIn[(fftOut[2] % RxBuffers) + 1] = fftOut[2]
  /\ FramesOverlap

InputInv == TypeOK /\ RxInv /\ BatchInv /\ StreamInv /\ FftOrder /\ FrameInv

-----------------------------------------------------------------------------
(* The invariant for the outputs.                                          *)

(* The frame under way has not signalled its block of ring r yet.          *)
OnStream(t) == \E i \in DOMAIN stream : stream[i].to = t
Pending(r) == chPc = "compose" \/ OnStream(r)
FftDone == \A i \in DOMAIN stream : stream[i].op # "fft"

(* The oldest operation on the stream is a callback.                       *)
Signals(t) == stream # << >> /\ stream[1].op = "signal" /\ stream[1].to = t

(* Blocks of ring r that are announced or under way.                       *)
Count(r) == IF Pending(r) THEN bufNum[r] + 1 ELSE bufNum[r]

(* The stream holds what is left of one frame: the FFT only at its head,   *)
(* and each put followed by its signal and by nothing else for its ring.   *)
ShapeInv ==
  /\ \A i \in DOMAIN stream :
       /\ stream[i].op = "fft" => i = 1 /\ stream[i].to = "in"
       /\ stream[i].op = "put" =>
            /\ i + 1 \in DOMAIN stream
            /\ stream[i + 1].op = "signal" /\ stream[i + 1].to = stream[i].to
            /\ stream[i].slot = (IF stream[i].to = "audio" THEN aProd % AudioRing
                                 ELSE bufNum[stream[i].to] % Buffers)
       /\ stream[i].op = "signal" =>
            /\ i > 1 => stream[i - 1].op = "put" /\ stream[i - 1].to = stream[i].to
            /\ \A j \in DOMAIN stream : j > i => stream[j].to # stream[i].to
  /\ chPc = "compose" => \A i \in DOMAIN stream : stream[i].to \notin Rings

(* The slots of ring r that nothing is going to be written into hold       *)
(* blocks in order, none newer than the last FFT's.                        *)
Holds(r, k) == k \in Nat /\ k < bufNum[r] /\ Count(r) <= k + Buffers

RingAt(r) ==
  /\ pos[r] = IF bufNum[r] = 0 THEN 0 ELSE bufNum[r] - 1
  /\ \A j, k \in Nat : Holds(r, j) /\ Holds(r, k) /\ j < k =>
       ring[r][j % Buffers] < ring[r][k % Buffers]
  /\ \A k \in Nat : Holds(r, k) =>
       /\ ring[r][k % Buffers] <= fftOut[2]
       /\ Pending(r) /\ FftDone => ring[r][k % Buffers] < fftOut[2]
  /\ Signals(r) => ring[r][bufNum[r] % Buffers] = fftOut[2]

RingInv == \A r \in Rings : RingAt(r)

(* The same for the audio ring, which the worker frees, and for the block  *)
(* that the worker took last.                                              *)
AudioHolds(k) == k \in Nat /\ aCons <= k /\ k < aProd

AudioInv ==
  /\ aCons <= aProd /\ aProd <= aCons + AudioRing
  /\ OnStream("audio") => aProd < aCons + AudioRing
  /\ apc = "push" => aCons < aProd /\ aOut = aRing[aCons % AudioRing]
  /\ \A j, k \in Nat : AudioHolds(j) /\ AudioHolds(k) /\ j < k =>
       aRing[j % AudioRing] < aRing[k % AudioRing]
  /\ \A k \in Nat : AudioHolds(k) =>
       /\ aRing[k % AudioRing] <= fftOut[2]
       /\ OnStream("audio") /\ FftDone => aRing[k % AudioRing] < fftOut[2]
       /\ apc = "poll" => aOut < aRing[k % AudioRing]
  /\ aOut <= fftOut[2]
  /\ OnStream("audio") /\ FftDone => aOut < fftOut[2]
  /\ Signals("audio") => aRing[aProd % AudioRing] = fftOut[2]

OutputInv == InputInv /\ ShapeInv /\ RingInv /\ AudioInv

-----------------------------------------------------------------------------
(* The invariant for MagBlock.                                             *)

ReaderFits == 2 * (MaxLag + Slack) + 1 <= Buffers

(* How many composite blocks there can be, counted from the read of the    *)
(* position at block `since' of rx888: one more under way, and then one    *)
(* for each block that the channelizer's lag or rx888's progress leaves.   *)
Within(last, since) ==
  \/ Count("hf") <= last
  \/ Count("hf") + since <= last + Given + Slack + MaxLag

(* Before the channelizer has enqueued anything its position may be ahead  *)
(* of rx888's.                                                             *)
StartInv ==
  \/ chNow > 0 /\ chNext <= RxBlocks
  \/ bufNum["hf"] = 0 /\ stream = << >> /\ chPc = "copy"

CopyAt(o) ==
  /\ o.block < mNow /\ o.block < bufNum["hf"]
  /\ o.since <= RxBlocks /\ HeadBlocks <= o.since + Slack
  /\ Within(o.block + MaxLag + 1, o.since)
  /\ mIn < ring["hf"][o.block % Buffers]

MagInv ==
  /\ mNow <= mNext
  /\ mNow < mNext =>
       /\ mNext < bufNum["hf"]
       /\ mSince <= RxBlocks /\ HeadBlocks <= mSince + Slack
       /\ Within(mNext + 1, mSince)
  /\ \A i \in DOMAIN mStream : CopyAt(mStream[i])
  /\ \A i, j \in DOMAIN mStream : i < j => mStream[i].block < mStream[j].block
  /\ mIn <= fftOut[2]
  /\ Pending("hf") /\ FftDone => mIn < fftOut[2]
  /\ \A k \in Nat : mNow <= k /\ Holds("hf", k) => mIn < ring["hf"][k % Buffers]

MagOutputInv == OutputInv /\ StartInv /\ MagInv
-----------------------------------------------------------------------------
(* Arithmetic.                                                             *)

LEMMA DivBounds ==
  ASSUME NEW x \in Nat, NEW m \in Nat \ {0}
  PROVE  /\ x \div m \in Nat
         /\ (x \div m) * m <= x /\ x < ((x \div m) + 1) * m
OBVIOUS

LEMMA DivLeast ==
  ASSUME NEW x \in Nat, NEW m \in Nat \ {0}, NEW q \in Nat, q <= x \div m
  PROVE  q * m <= x
<1>1. \A a \in Nat : a <= x \div m => a * m <= (x \div m) * m
  BY DivBounds
<1> QED
  BY <1>1, DivBounds

LEMMA DivMonotone ==
  ASSUME NEW x \in Nat, NEW y \in Nat, NEW m \in Nat \ {0}, x <= y
  PROVE  /\ x \div m <= y \div m
         /\ y <= x + m => y \div m <= (x \div m) + 1
OBVIOUS

(* A multiple of m that lies between -m and m is 0.                        *)
LEMMA SmallMultiple ==
  ASSUME NEW m \in Nat \ {0}, NEW q \in Int, -m < m * q, m * q < m
  PROVE  q = 0
<1>1. CASE q >= 1
  <2>1. m * q = m * (q - 1) + m /\ m * (q - 1) >= 0
    BY <1>1
  <2> QED BY <2>1
<1>2. CASE q <= -1
  <2>1. m * q = m * (q + 1) - m /\ m * (q + 1) <= 0
    BY <1>2
  <2> QED BY <2>1
<1> QED BY <1>1, <1>2

LEMMA ModRange ==
  ASSUME NEW m \in Nat \ {0}, NEW k \in Nat
  PROVE  /\ k % m \in 0 .. m - 1
         /\ k \div m \in Int /\ k = m * (k \div m) + (k % m)
OBVIOUS

(* A quotient and a remainder determine each other.                        *)
LEMMA ModUnique ==
  ASSUME NEW m \in Nat \ {0}, NEW k \in Nat, NEW q \in Int, NEW r \in 0 .. m - 1,
         k = m * q + r
  PROVE  k % m = r
<1> DEFINE a == k \div m
           b == k % m
<1>1. a \in Int /\ b \in 0 .. m - 1 /\ k = m * a + b
  BY ModRange
<1> HIDE DEF a, b
<1>2. m * (q - a) = b - r
  BY <1>1, Z3T(60)
<1>3. q - a = 0
  <2> DEFINE d == q - a
  <2>1. d \in Int /\ -m < m * d /\ m * d < m
    BY <1>1, <1>2
  <2> HIDE DEF d
  <2>2. d = 0
    BY <2>1, SmallMultiple
  <2> QED BY <2>2 DEF d
<1>4. b = r
  BY <1>1, <1>3
<1> QED BY <1>4 DEF b

(* Numbers less than m apart have different remainders.                    *)
LEMMA ModInjective ==
  ASSUME NEW m \in Nat \ {0}, NEW j \in Nat, NEW k \in Nat, j < k, k < j + m
  PROVE  j % m # k % m
<1> DEFINE p == j \div m
           q == k \div m
           r == k % m
<1> SUFFICES ASSUME j % m = r PROVE FALSE
  OBVIOUS
<1>1. p \in Int /\ q \in Int /\ r \in Int /\ j = m * p + r /\ k = m * q + r
  BY ModRange
<1> HIDE DEF p, q, r
<1>2. k - j = m * (q - p)
  BY <1>1, Z3T(60)
<1>3. q - p = 0
  <2> DEFINE d == q - p
  <2>1. d \in Int /\ -m < m * d /\ m * d < m
    BY <1>1, <1>2
  <2> HIDE DEF d
  <2>2. d = 0
    BY <2>1, SmallMultiple
  <2> QED BY <2>2 DEF d
<1> QED
  BY <1>1, <1>3

LEMMA ModBefore ==
  ASSUME NEW m \in Nat \ {0}, NEW k \in Nat, k > 0
  PROVE  /\ k % m = 0 => (k - 1) % m = m - 1
         /\ k % m # 0 => (k - 1) % m = (k % m) - 1
<1> DEFINE q == k \div m
           r == k % m
<1>1. q \in Int /\ r \in 0 .. m - 1 /\ k = m * q + r
  BY ModRange
<1> HIDE DEF q, r
<1>2. ASSUME r = 0 PROVE (k - 1) % m = m - 1
  <2>1. k - 1 = m * (q - 1) + (m - 1)
    BY <1>1, <1>2, Z3T(60)
  <2> QED BY <1>1, <2>1, ModUnique
<1>3. ASSUME r # 0 PROVE (k - 1) % m = r - 1
  <2>1. k - 1 = m * q + (r - 1)
    BY <1>1
  <2> QED BY <1>1, <1>3, <2>1, ModUnique
<1> QED BY <1>2, <1>3 DEF r

-----------------------------------------------------------------------------
(* Types.                                                                  *)

LEMMA Constants ==
  /\ BlockLen \in Nat \ {0} /\ RxBuffers \in Nat \ {0} /\ Buffers \in Nat \ {0}
  /\ AudioRing \in Nat \ {0} /\ NormInterval \in Nat \ {0} /\ Slack \in Nat \ {0}
  /\ MaxLag \in Nat /\ MaxRx \in Nat
  /\ "hf" \in Rings /\ Rings \subseteq {"hf", "cw"} /\ HostCopyWaits \in BOOLEAN
  /\ MaxLag + Slack + 1 <= RxBuffers
BY RingAssumption

LEMMA Counts ==
  ASSUME TypeOK
  PROVE  /\ RxBlocks \in Nat /\ HeadBlocks \in Nat /\ Given \in Nat
         /\ rxPos <= rxHead => RxBlocks <= HeadBlocks
         /\ rxPos <= rxHead /\ rxHead <= rxPos + BlockLen => HeadBlocks <= RxBlocks + 1
<1>1. rxPos \in Nat /\ rxHead \in Nat /\ chNow \in Nat
  BY DEF TypeOK
<1>2. RxBlocks \in Nat /\ HeadBlocks \in Nat
  BY <1>1, Constants, DivBounds DEF RxBlocks, HeadBlocks
<1>3. Given \in Nat
  BY <1>1 DEF Given
<1>4. rxPos <= rxHead => RxBlocks <= HeadBlocks
  BY <1>1, Constants, DivMonotone DEF RxBlocks, HeadBlocks
<1>5. rxPos <= rxHead /\ rxHead <= rxPos + BlockLen => HeadBlocks <= RxBlocks + 1
  BY <1>1, Constants, DivMonotone DEF RxBlocks, HeadBlocks
<1> QED BY <1>2, <1>3, <1>4, <1>5

LEMMA CountsNext ==
  ASSUME TypeOK'
  PROVE  RxBlocks' \in Nat /\ HeadBlocks' \in Nat /\ Given' \in Nat
<1>1. rxPos' \in Nat /\ rxHead' \in Nat /\ chNow' \in Nat
  BY DEF TypeOK
<1>2. RxBlocks' \in Nat /\ HeadBlocks' \in Nat
  BY <1>1, Constants, DivBounds DEF RxBlocks, HeadBlocks
<1>3. Given' \in Nat
  <2>1. Given' = chNow' + 1 \/ Given' = chNow'
    BY DEF Given
  <2> QED BY <1>1, <2>1
<1> QED BY <1>2, <1>3

(* What the host puts on the stream.                                       *)
LEMMA NewOps ==
  ASSUME TypeOK
  PROVE  /\ Fft \o Audio \in Seq(Ops) /\ Composites \in Seq(Ops)
         /\ Fft \in Seq(Ops) /\ Audio \in Seq(Ops)
         /\ \A r \in Rings : Put(r) \in Seq(Ops)
<1>1. [op |-> "fft", to |-> "in", slot |-> chNow, since |-> chNext] \in Ops
  BY DEF TypeOK, Ops
<1>2. aProd % AudioRing \in Nat /\ \A r \in Rings : bufNum[r] % Buffers \in Nat
  <2>1. aProd \in Nat /\ \A r \in Rings : bufNum[r] \in Nat
    BY DEF TypeOK
  <2>2. \A k \in Nat : k % AudioRing \in Nat /\ k % Buffers \in Nat
    BY Constants, ModRange
  <2> QED BY <2>1, <2>2
<1>3. AudioPut \in Seq(Ops)
  <2>1. [op |-> "put", to |-> "audio", slot |-> aProd % AudioRing, since |-> chNext] \in Ops
    BY <1>2 DEF TypeOK, Ops
  <2>2. [op |-> "signal", to |-> "audio", slot |-> 0, since |-> chNext] \in Ops
    BY DEF TypeOK, Ops
  <2> QED BY <2>1, <2>2 DEF AudioPut
<1>4. \A r \in Rings : Put(r) \in Seq(Ops)
  <2> TAKE r \in Rings
  <2>1. [op |-> "put", to |-> r, slot |-> bufNum[r] % Buffers, since |-> chNext] \in Ops
    BY <1>2, Constants DEF TypeOK, Ops
  <2>2. [op |-> "signal", to |-> r, slot |-> 0, since |-> chNext] \in Ops
    BY Constants DEF TypeOK, Ops
  <2> QED BY <2>1, <2>2 DEF Put
<1>5. Audio \in Seq(Ops)
  BY <1>3 DEF Audio
<1>6. Fft \in Seq(Ops)
  BY <1>1 DEF Fft
<1>7. Composites \in Seq(Ops)
  <2>1. Put("hf") \in Seq(Ops) /\ (IF "cw" \in Rings THEN Put("cw") ELSE << >>) \in Seq(Ops)
    BY <1>4, Constants
  <2> QED BY <2>1 DEF Composites
<1> QED BY <1>4, <1>5, <1>6, <1>7

LEMMA HeadTail ==
  ASSUME NEW S, NEW s \in Seq(S), s # << >>
  PROVE  /\ Head(s) \in S /\ Head(s) = s[1] /\ 1 \in DOMAIN s /\ Tail(s) \in Seq(S)
         /\ Len(s) \in Nat /\ Len(s) >= 1 /\ DOMAIN s = 1 .. Len(s)
         /\ Len(Tail(s)) = Len(s) - 1 /\ DOMAIN Tail(s) = 1 .. Len(s) - 1
         /\ \A i \in DOMAIN Tail(s) : i + 1 \in DOMAIN s /\ Tail(s)[i] = s[i + 1]
OBVIOUS

LEMMA Joined ==
  ASSUME NEW S, NEW s \in Seq(S), NEW t \in Seq(S)
  PROVE  /\ s \o t \in Seq(S) /\ DOMAIN (s \o t) = 1 .. Len(s) + Len(t)
         /\ Len(s) \in Nat /\ Len(t) \in Nat
         /\ DOMAIN s = 1 .. Len(s) /\ DOMAIN t = 1 .. Len(t)
         /\ \A i \in 1 .. Len(s) : (s \o t)[i] = s[i]
         /\ \A i \in 1 .. Len(t) : (s \o t)[Len(s) + i] = t[i]
         /\ \A i \in DOMAIN (s \o t) : i \notin DOMAIN s =>
              i - Len(s) \in DOMAIN t /\ (s \o t)[i] = t[i - Len(s)]
OBVIOUS
LEMMA TypeInit == Init => TypeOK
<1> SUFFICES ASSUME Init PROVE TypeOK
  OBVIOUS
<1>1. 0 \in 0 .. NormInterval - 1 /\ NoBlock \in Block
  BY Constants DEF Block, NoBlock
<1>2. << >> \in Seq(Ops) /\ << >> \in Seq([block : Nat, since : Nat])
  OBVIOUS
<1> QED
  BY <1>1, <1>2 DEF Init, TypeOK

LEMMA TypeStep ==
  ASSUME TypeOK, StreamInv, [Next]_vars
  PROVE  TypeOK'
<1> USE DEF TypeOK, rxVars, chVars, devVars, audVars, magVars
<1>1. ASSUME NEW n \in 1 .. BlockLen, RxFill(n) PROVE TypeOK'
  BY <1>1, Constants DEF RxFill
<1>2. CASE RxPublish
  BY <1>2 DEF RxPublish
<1>3. CASE ChStart
  BY <1>3, Counts DEF ChStart
<1>4. CASE ChWait
  BY <1>4, Counts DEF ChWait
<1>5. CASE ChDrop
  BY <1>5 DEF ChDrop
<1>6. CASE ChCopy
  <2>1. stream \o Fft \o Audio \in Seq(Ops)
    BY NewOps
  <2> QED BY <1>6, <2>1 DEF ChCopy, EnqueueFft
<1>7. CASE ChCompose
  <2>1. stream \o Composites \in Seq(Ops)
    BY NewOps
  <2>2. (normFrame + 1) % NormInterval \in 0 .. NormInterval - 1
    <3>1. normFrame + 1 \in Nat
      BY Constants
    <3> QED BY <3>1, Constants, ModRange
  <2> QED BY <1>7, <2>1, <2>2 DEF ChCompose
<1>8. CASE DevFft
  <2> DEFINE b == Head(stream).slot
             i == b % RxBuffers
             input == [fftIn EXCEPT ![i + 1] = b,
                                    ![0] = IF i = 0 THEN fftIn[RxBuffers] ELSE @]
  <2>1. b \in Nat /\ b \in Block /\ Tail(stream) \in Seq(Ops)
    <3>1. stream # << >> /\ stream \in Seq(Ops)
      BY <1>8 DEF DevFft
    <3>2. Head(stream) \in Ops /\ Tail(stream) \in Seq(Ops)
      BY <3>1, HeadTail
    <3> QED BY <3>2 DEF Ops, Block
  <2>2. i \in 0 .. RxBuffers - 1
    BY <2>1, Constants, ModRange
  <2>3. input \in [0 .. RxBuffers -> Block]
    <3>1. fftIn \in [0 .. RxBuffers -> Block] /\ i + 1 \in 0 .. RxBuffers
          /\ 0 \in 0 .. RxBuffers /\ RxBuffers \in 0 .. RxBuffers
      BY <2>2, Constants
    <3> HIDE DEF i, b
    <3> QED BY <2>1, <3>1
  <2>4. RunFft(b, input)
    BY <1>8 DEF DevFft
  <2> HIDE DEF i, input
  <2>5. input[i] \in Block
    BY <2>2, <2>3, Constants
  <2> QED BY <2>1, <2>3, <2>4, <2>5 DEF RunFft, i
<1>9. CASE DevPut
  <2> DEFINE o == Head(stream)
  <2>1. o \in Ops /\ OpAt(o) /\ Tail(stream) \in Seq(Ops)
    BY <1>9, HeadTail DEF DevPut, StreamInv
  <2>2. o.slot \in Nat /\ o.op = "put" /\ o.to \in Rings \cup {"audio"}
    BY <1>9, <2>1 DEF DevPut, OpAt, Ops
  <2>3. o.to = "audio" => [aRing EXCEPT ![o.slot] = fftOut[2]] \in [0 .. AudioRing - 1 -> Block]
    BY <2>1, <2>2, Constants DEF OpAt
  <2>4. o.to # "audio" => [ring EXCEPT ![o.to][o.slot] = fftOut[2]]
                            \in [Rings -> [0 .. Buffers - 1 -> Block]]
    BY <2>1, <2>2, Constants DEF OpAt
  <2> QED BY <1>9, <2>1, <2>3, <2>4 DEF DevPut
<1>10. CASE DevSignal
  <2>1. Tail(stream) \in Seq(Ops)
    BY <1>10, HeadTail DEF DevSignal, Signal
  <2>2. aProd + 1 \in Nat /\ \A r \in Rings : bufNum[r] \in Nat /\ bufNum[r] + 1 \in Nat
    OBVIOUS
  <2>3. Head(stream).to # "audio" => Head(stream).to \in Rings
    <3>1. stream # << >> /\ Head(stream).op = "signal"
      BY <1>10 DEF DevSignal, Signal
    <3>2. OpAt(Head(stream))
      BY <3>1, HeadTail DEF StreamInv
    <3> QED BY <3>1, <3>2 DEF OpAt
  <2>4. pos' \in [Rings -> Nat] /\ bufNum' \in [Rings -> Nat] /\ aProd' \in Nat
    BY <1>10, <2>2, <2>3 DEF DevSignal, Signal
  <2> QED BY <1>10, <2>1, <2>4 DEF DevSignal, Signal
<1>11. CASE AudioPush
  <2>1. aCons % AudioRing \in 0 .. AudioRing - 1
    BY Constants, ModRange
  <2> QED BY <1>11, <2>1 DEF AudioPush
<1>12. CASE AudioFree
  BY <1>12 DEF AudioFree
<1>13. CASE MagStart
  BY <1>13, Constants DEF MagStart
<1>14. CASE MagWait
  BY <1>14, Constants, Counts DEF MagWait
<1>15. CASE MagDrop
  BY <1>15 DEF MagDrop
<1>16. CASE MagCopy
  <2>1. Append(mStream, [block |-> mNow, since |-> mSince]) \in Seq([block : Nat, since : Nat])
    OBVIOUS
  <2> QED BY <1>16, <2>1 DEF MagCopy, EnqueueCopy
<1>17. CASE DevMag
  <2>1. Head(mStream).block \in Nat /\ Tail(mStream) \in Seq([block : Nat, since : Nat])
    <3>1. mStream # << >> /\ mStream \in Seq([block : Nat, since : Nat])
      BY <1>17 DEF DevMag
    <3>2. Head(mStream) \in [block : Nat, since : Nat]
          /\ Tail(mStream) \in Seq([block : Nat, since : Nat])
      BY <3>1, HeadTail
    <3> QED BY <3>2
  <2>2. Head(mStream).block % Buffers \in 0 .. Buffers - 1
    BY <2>1, Constants, ModRange
  <2>3. ring["hf"][Head(mStream).block % Buffers] \in Block
    BY <2>2, Constants
  <2> QED BY <1>17, <2>1, <2>3 DEF DevMag
<1>18. CASE UNCHANGED vars
  BY <1>18 DEF vars
<1> QED
  BY <1>1, <1>2, <1>3, <1>4, <1>5, <1>6, <1>7, <1>8, <1>9, <1>10, <1>11, <1>12, <1>13,
     <1>14, <1>15, <1>16, <1>17, <1>18
     DEF Next, Rx, Channelizer, Device, AudioWorker, Mag
-----------------------------------------------------------------------------
(* The input.                                                              *)

(* What leaves an operation on the stream right.                           *)
LEMMA OpKept ==
  ASSUME TypeOK, TypeOK', NEW o \in Ops, OpAt(o),
         HeadBlocks' <= o.since + Slack, Given <= Given', RxBlocks <= RxBlocks',
         o.op = "fft" => fftOut'[2] < o.slot
  PROVE  OpAt(o)'
<1>1. o.since \in Nat /\ o.slot \in Nat
  BY DEF Ops
<1>2. RxBlocks \in Nat /\ Given \in Nat /\ RxBlocks' \in Nat /\ Given' \in Nat
  BY Counts, CountsNext
<1> QED
  BY <1>1, <1>2, Constants DEF OpAt

LEMMA InputInit == Init => InputInv
<1> SUFFICES ASSUME Init PROVE InputInv
  OBVIOUS
<1>1. TypeOK
  BY TypeInit
<1>2. RxInv /\ BatchInv
  BY Constants DEF Init, RxInv, BatchInv
<1>3. StreamInv /\ FftOrder
  BY DEF Init, StreamInv, FftOrder
<1>4. FrameInv
  BY DEF Init, FrameInv, Given, FramesOverlap, NoBlock
<1> QED BY <1>1, <1>2, <1>3, <1>4 DEF InputInv

(* Steps that change nothing but what the invariant does not speak of.     *)
LEMMA InputSame ==
  ASSUME InputInv, TypeOK', UNCHANGED <<rxVars, chNow, chNext, chPc, stream>>,
         UNCHANGED <<fftIn, fftOut, frames>>
  PROVE  InputInv'
<1> USE DEF InputInv, rxVars
<1>1. RxInv' /\ BatchInv'
  BY DEF RxInv, BatchInv, HeadBlocks, RxBlocks
<1>2. StreamInv' /\ FftOrder'
  BY DEF StreamInv, OpAt, FftOrder, HeadBlocks, RxBlocks, Given
<1>3. FrameInv'
  BY DEF FrameInv, Given, FramesOverlap
<1> QED BY <1>1, <1>2, <1>3

LEMMA RxFillKeeps ==
  ASSUME InputInv, TypeOK', NEW n \in 1 .. BlockLen, RxFill(n)
  PROVE  InputInv'
<1> USE DEF InputInv
<1>1. /\ rxHead' = rxPos + n /\ rxHead = rxPos /\ OnTime((rxPos + n) \div BlockLen)
      /\ UNCHANGED <<rxPos, chNow, chNext, chPc, stream, fftIn, fftOut, frames>>
  BY DEF RxFill, chVars, devVars
<1>2. HeadBlocks' = (rxPos + n) \div BlockLen /\ RxBlocks' = RxBlocks /\ Given' = Given
  BY <1>1 DEF HeadBlocks, RxBlocks, Given
<1>3. RxInv'
  BY <1>1, Constants DEF RxInv, TypeOK
<1>4. BatchInv'
  BY <1>1, <1>2 DEF BatchInv, OnTime
<1>5. StreamInv'
  <2> SUFFICES ASSUME NEW i \in DOMAIN stream PROVE OpAt(stream[i])'
    BY <1>1 DEF StreamInv
  <2>1. stream[i] \in Ops /\ OpAt(stream[i]) /\ stream'[i] = stream[i]
    BY <1>1 DEF TypeOK, StreamInv
  <2> DEFINE o == stream[i]
  <2>2. HeadBlocks' <= o.since + Slack
    BY <1>1, <1>2 DEF OnTime
  <2>3. o.op = "fft" => fftOut'[2] < o.slot
    BY <1>1, <2>1 DEF OpAt
  <2>4. Given <= Given' /\ RxBlocks <= RxBlocks'
    BY <1>2, Counts
  <2>5. \A x \in Ops : x = o => OpAt(x)'
    <3> SUFFICES ASSUME NEW x \in Ops, x = o PROVE OpAt(x)'
      OBVIOUS
    <3> QED BY <2>1, <2>2, <2>3, <2>4, OpKept
  <2> QED BY <2>1, <2>5 DEF OpAt
<1>6. FftOrder' /\ FrameInv'
  BY <1>1, <1>2 DEF FftOrder, FrameInv, FramesOverlap
<1> QED BY <1>3, <1>4, <1>5, <1>6

LEMMA RxPublishKeeps ==
  ASSUME InputInv, TypeOK', RxPublish
  PROVE  InputInv'
<1> USE DEF InputInv
<1>1. /\ rxPos' = rxHead /\ rxPos < rxHead
      /\ UNCHANGED <<rxHead, chNow, chNext, chPc, stream, fftIn, fftOut, frames>>
  BY DEF RxPublish, chVars, devVars
<1>2. HeadBlocks' = HeadBlocks /\ RxBlocks' = HeadBlocks /\ Given' = Given
  BY <1>1 DEF HeadBlocks, RxBlocks, Given
<1>3. RxBlocks <= RxBlocks' /\ RxBlocks \in Nat /\ RxBlocks' \in Nat
  BY <1>2, Counts DEF RxInv
<1>4. RxInv'
  BY <1>1, Constants DEF RxInv, TypeOK
<1>5. BatchInv'
  BY <1>1, <1>2, <1>3 DEF BatchInv, TypeOK
<1>6. StreamInv'
  <2> SUFFICES ASSUME NEW i \in DOMAIN stream PROVE OpAt(stream[i])'
    BY <1>1 DEF StreamInv
  <2>1. stream[i] \in Ops /\ OpAt(stream[i]) /\ stream'[i] = stream[i]
    BY <1>1 DEF TypeOK, StreamInv
  <2> DEFINE o == stream[i]
  <2>2. HeadBlocks' <= o.since + Slack /\ (o.op = "fft" => fftOut'[2] < o.slot)
    BY <1>1, <1>2, <2>1 DEF OpAt
  <2>4. Given <= Given'
    BY <1>2, Counts
  <2>5. \A x \in Ops : x = o => OpAt(x)'
    <3> SUFFICES ASSUME NEW x \in Ops, x = o PROVE OpAt(x)'
      OBVIOUS
    <3> QED BY <1>3, <2>1, <2>2, <2>4, OpKept
  <2> QED BY <2>1, <2>5 DEF OpAt
<1>7. FftOrder' /\ FrameInv'
  BY <1>1, <1>2 DEF FftOrder, FrameInv, FramesOverlap
<1> QED BY <1>4, <1>5, <1>6, <1>7
LEMMA LastFftType ==
  ASSUME TypeOK
  PROVE  fftOut[2] \in Int /\ fftOut[2] \in Block
<1>1. fftOut[2] \in Block
  BY DEF TypeOK
<1> QED BY <1>1 DEF Block, NoBlock

(* A step of the channelizer's thread that leaves the stream alone.        *)
LEMMA HostKeeps ==
  ASSUME InputInv, TypeOK', BatchInv', Given <= Given',
         UNCHANGED <<rxVars, stream, fftIn, fftOut, frames>>
  PROVE  InputInv'
<1> USE DEF InputInv, rxVars
<1>1. HeadBlocks' = HeadBlocks /\ RxBlocks' = RxBlocks /\ RxBlocks \in Nat
  BY Counts DEF HeadBlocks, RxBlocks
<1>2. Given \in Nat /\ Given' \in Nat
  BY Counts, CountsNext
<1>3. RxInv' /\ FftOrder'
  BY DEF RxInv, FftOrder
<1>4. FrameInv'
  <2>1. fftOut[2] \in Int
    BY LastFftType
  <2> QED BY <1>2, <2>1 DEF FrameInv, FramesOverlap
<1>5. StreamInv'
  <2> SUFFICES ASSUME NEW i \in DOMAIN stream PROVE OpAt(stream[i])'
    BY DEF StreamInv
  <2>1. stream[i] \in Ops /\ OpAt(stream[i]) /\ stream'[i] = stream[i]
    <3>1. stream \in Seq(Ops)
      BY DEF TypeOK
    <3> QED BY <3>1 DEF StreamInv
  <2> DEFINE o == stream[i]
  <2>2. HeadBlocks' <= o.since + Slack /\ (o.op = "fft" => fftOut'[2] < o.slot)
    BY <1>1, <2>1 DEF OpAt
  <2>3. \A x \in Ops : x = o => OpAt(x)'
    <3> SUFFICES ASSUME NEW x \in Ops, x = o PROVE OpAt(x)'
      OBVIOUS
    <3> QED BY <1>1, <2>1, <2>2, OpKept
  <2> QED BY <2>1, <2>3 DEF OpAt
<1> QED BY <1>3, <1>4, <1>5

LEMMA ChStartKeeps ==
  ASSUME InputInv, TypeOK', ChStart
  PROVE  InputInv'
<1>1. /\ chNow = 0 /\ chNow' = RxBlocks + 1 /\ chNext' = RxBlocks + 1 /\ chPc' = chPc
      /\ UNCHANGED <<rxVars, stream, fftIn, fftOut, frames>>
  BY DEF ChStart, devVars
<1>2. RxBlocks \in Nat
  BY Counts DEF InputInv
<1>3. chPc = "copy"
  BY <1>1 DEF InputInv, BatchInv, TypeOK
<1>4. Given <= Given' /\ BatchInv'
  BY <1>1, <1>2, <1>3 DEF Given, BatchInv
<1> QED
  BY <1>1, <1>4, HostKeeps

LEMMA ChWaitKeeps ==
  ASSUME InputInv, TypeOK', ChWait
  PROVE  InputInv'
<1>1. /\ chPc = "copy" /\ RxBlocks >= chNow + 1 /\ chNext' = RxBlocks
      /\ chNow' = chNow /\ chPc' = chPc
      /\ UNCHANGED <<rxVars, stream, fftIn, fftOut, frames>>
  BY DEF ChWait, devVars
<1>2. RxBlocks \in Nat /\ HeadBlocks \in Nat /\ HeadBlocks <= RxBlocks + 1 /\ chNow \in Nat
  BY Counts DEF InputInv, RxInv, TypeOK
<1>3. RxBlocks' = RxBlocks /\ HeadBlocks' = HeadBlocks
  BY <1>1 DEF RxBlocks, HeadBlocks, rxVars
<1>4. Given <= Given'
  BY <1>1, <1>2 DEF Given
<1>5. BatchInv'
  BY <1>1, <1>2, <1>3, Constants DEF BatchInv
<1> QED
  BY <1>1, <1>4, <1>5, HostKeeps

LEMMA ChDropKeeps ==
  ASSUME InputInv, TypeOK', ChDrop
  PROVE  InputInv'
<1>1. /\ chNext - chNow > MaxLag /\ chNext' = chNext /\ chNow' = chNext /\ chPc' = chPc
      /\ UNCHANGED <<rxVars, stream, fftIn, fftOut, frames>>
  BY DEF ChDrop, devVars
<1>2. chNow \in Nat /\ chNext \in Nat /\ chNow <= chNext
  BY DEF InputInv, TypeOK, BatchInv
<1>3. chPc = "copy"
  BY <1>1, <1>2, Constants DEF InputInv, BatchInv, TypeOK
<1>4. Given <= Given' /\ BatchInv'
  BY <1>1, <1>2, <1>3 DEF Given, BatchInv
<1> QED
  BY <1>1, <1>4, HostKeeps
(* What an operation that the host has just put on the stream satisfies.   *)
NewOp(o) ==
  \/ o.op = "fft" /\ o.slot = chNow /\ chPc = "copy"
  \/ o.op = "put" /\ o.to \in Rings /\ o.slot < Buffers
  \/ o.op = "put" /\ o.to = "audio" /\ o.slot < AudioRing
  \/ o.op = "signal" /\ o.to \in Rings \cup {"audio"}

LEMMA NewOpAt ==
  ASSUME TypeOK, TypeOK', BatchInv, chNow < chNext, chNext <= chNow + MaxLag,
         chNow < Given', HeadBlocks' = HeadBlocks, RxBlocks' = RxBlocks,
         fftOut' = fftOut, fftOut[2] < Given,
         NEW o \in Ops, o.since = chNext, NewOp(o)
  PROVE  OpAt(o)'
<1>1. chNow \in Nat /\ chNext \in Nat /\ Given \in Nat /\ Given' \in Nat /\ RxBlocks \in Nat
      /\ HeadBlocks \in Nat /\ HeadBlocks <= chNext + Slack /\ chNext <= RxBlocks
  BY Counts, CountsNext DEF TypeOK, BatchInv
<1>2. chPc = "copy" => Given = chNow
  BY DEF Given
<1>3. "audio" \notin Rings
  BY Constants
<1>4. HeadBlocks' <= o.since + Slack /\ o.since < Given' + MaxLag
  <2>1. \A g \in Nat : chNow < g => chNext < g + MaxLag
    BY <1>1, Constants
  <2> QED BY <1>1, <2>1
<1>5. o.op = "fft" => /\ o.slot < o.since /\ o.since <= o.slot + MaxLag /\ o.since <= RxBlocks'
                      /\ fftOut'[2] < o.slot /\ o.slot < Given'
  <2>1. o.op = "fft" => o.slot = chNow /\ chPc = "copy"
    BY DEF NewOp
  <2> QED BY <1>1, <1>2, <2>1
<1>6. /\ o.op # "fft" => o.to \in Rings \cup {"audio"}
      /\ o.op = "put" => o.slot < (IF o.to = "audio" THEN AudioRing ELSE Buffers)
  BY <1>3 DEF NewOp
<1> QED
  BY <1>4, <1>5, <1>6 DEF OpAt

(* The operations of the two halves of doCopy.                             *)
LEMMA FirstHalf ==
  ASSUME TypeOK
  PROVE  LET new == Fft \o Audio IN
         /\ new \in Seq(Ops) /\ 1 \in DOMAIN new /\ new[1] = Fft[1]
         /\ \A i \in DOMAIN new : i # 1 =>
              (i = 2 /\ new[i] = AudioPut[1]) \/ (i = 3 /\ new[i] = AudioPut[2])
         /\ 2 \in DOMAIN new <=> 3 \in DOMAIN new
         /\ 2 \in DOMAIN new => aProd - aCons < AudioRing
<1> DEFINE new == Fft \o Audio
<1>1. Len(Fft) = 1 /\ Len(AudioPut) = 2
  BY DEF Fft, AudioPut
<1>2. /\ new \in Seq(Ops) /\ DOMAIN new = 1 .. 1 + Len(Audio) /\ Len(Audio) \in Nat
      /\ new[1] = Fft[1] /\ \A i \in 1 .. Len(Audio) : new[1 + i] = Audio[i]
  <2>1. Fft \in Seq(Ops) /\ Audio \in Seq(Ops)
    BY NewOps
  <2>2. /\ new \in Seq(Ops) /\ DOMAIN new = 1 .. Len(Fft) + Len(Audio) /\ Len(Audio) \in Nat
        /\ \A i \in 1 .. Len(Fft) : new[i] = Fft[i]
        /\ \A i \in 1 .. Len(Audio) : new[Len(Fft) + i] = Audio[i]
    BY <2>1, Joined
  <2> HIDE DEF new
  <2>3. 1 \in 1 .. Len(Fft)
    BY <1>1
  <2> QED BY <1>1, <2>2, <2>3
<1> HIDE DEF new
<1>3. CASE aProd - aCons < AudioRing
  <2>1. Audio = AudioPut
    BY <1>3 DEF Audio
  <2>2. DOMAIN new = 1 .. 3 /\ new[2] = AudioPut[1] /\ new[3] = AudioPut[2]
    <3>1. Len(Audio) = 2
      BY <1>1, <2>1
    <3>2. 1 \in 1 .. 2 /\ 2 \in 1 .. 2 /\ 1 + 1 = 2 /\ 1 + 2 = 3
      OBVIOUS
    <3>3. new[1 + 1] = Audio[1] /\ new[1 + 2] = Audio[2]
      BY <1>2, <3>1
    <3>4. DOMAIN new = 1 .. 3
      BY <1>2, <3>1
    <3> QED BY <2>1, <3>2, <3>3, <3>4
  <2>3. \A i \in 1 .. 3 : i # 1 => i = 2 \/ i = 3
    OBVIOUS
  <2>4. 1 \in 1 .. 3 /\ 2 \in 1 .. 3 /\ 3 \in 1 .. 3
    OBVIOUS
  <2>5. \A i \in DOMAIN new : i # 1 =>
          (i = 2 /\ new[i] = AudioPut[1]) \/ (i = 3 /\ new[i] = AudioPut[2])
    BY <2>2, <2>3, Zenon
  <2> QED BY <1>2, <1>3, <2>2, <2>4, <2>5, Zenon DEF new
<1>4. CASE ~ (aProd - aCons < AudioRing)
  <2>1. Audio = << >>
    BY <1>4 DEF Audio
  <2>2. DOMAIN new = 1 .. 1
    BY <1>2, <2>1
  <2> QED BY <1>2, <2>2 DEF new
<1> QED BY <1>3, <1>4

LEMMA SecondHalf ==
  ASSUME TypeOK
  PROVE  LET new == Composites IN
         /\ new \in Seq(Ops) /\ DOMAIN new = 1 .. Len(new) /\ Len(new) \in {2, 4}
         /\ Len(new) = 4 <=> "cw" \in Rings
         /\ new[1] = Put("hf")[1] /\ new[2] = Put("hf")[2]
         /\ Len(new) = 4 => new[3] = Put("cw")[1] /\ new[4] = Put("cw")[2]
<1> DEFINE rest == IF "cw" \in Rings THEN Put("cw") ELSE << >>
           new == Put("hf") \o rest
<1>1. Composites = new
  BY DEF Composites
<1>2. Put("hf") \in Seq(Ops) /\ rest \in Seq(Ops)
  BY NewOps, Constants
<1>3. Len(Put("hf")) = 2 /\ Len(Put("cw")) = 2
  BY DEF Put
<1> HIDE DEF rest
<1>4. /\ new \in Seq(Ops) /\ DOMAIN new = 1 .. 2 + Len(rest) /\ Len(rest) \in Nat
      /\ \A i \in 1 .. 2 : new[i] = Put("hf")[i]
      /\ \A i \in 1 .. Len(rest) : new[2 + i] = rest[i]
  BY <1>2, <1>3, Joined
<1> HIDE DEF new
<1>5. DOMAIN new = 1 .. Len(new) /\ Len(new) = 2 + Len(rest)
  BY <1>4
<1>6. new[1] = Put("hf")[1] /\ new[2] = Put("hf")[2]
  BY <1>4
<1>7. CASE "cw" \in Rings
  <2>1. rest = Put("cw")
    BY <1>7 DEF rest
  <2>2. new[3] = Put("cw")[1] /\ new[4] = Put("cw")[2] /\ Len(new) = 4
    BY <1>3, <1>4, <1>5, <2>1
  <2> QED BY <1>1, <1>4, <1>5, <1>6, <1>7, <2>2
<1>8. CASE "cw" \notin Rings
  <2>1. rest = << >>
    BY <1>8 DEF rest
  <2>2. Len(new) = 2
    BY <1>5, <2>1
  <2>3. ~ (Len(new) = 4)
    BY <2>2
  <2> QED BY <1>1, <1>4, <1>5, <1>6, <1>8, <2>2, <2>3
<1> QED BY <1>7, <1>8
LEMMA OpFields ==
  /\ Fft[1].op = "fft" /\ Fft[1].to = "in" /\ Fft[1].slot = chNow /\ Fft[1].since = chNext
  /\ AudioPut[1].op = "put" /\ AudioPut[1].to = "audio"
  /\ AudioPut[1].slot = aProd % AudioRing /\ AudioPut[1].since = chNext
  /\ AudioPut[2].op = "signal" /\ AudioPut[2].to = "audio" /\ AudioPut[2].since = chNext
  /\ \A r : /\ Put(r)[1].op = "put" /\ Put(r)[1].to = r
            /\ Put(r)[1].slot = bufNum[r] % Buffers /\ Put(r)[1].since = chNext
            /\ Put(r)[2].op = "signal" /\ Put(r)[2].to = r /\ Put(r)[2].since = chNext
BY DEF Fft, AudioPut, Put

(* Operations put behind the stream's.                                     *)
LEMMA AppendedOps ==
  ASSUME InputInv, TypeOK', NEW new \in Seq(Ops), stream' = stream \o new,
         UNCHANGED <<rxVars, fftOut>>, Given <= Given',
         \A o \in Ops : (\E i \in DOMAIN new : new[i] = o) => OpAt(o)'
  PROVE  StreamInv'
<1>1. stream \in Seq(Ops) /\ HeadBlocks' = HeadBlocks /\ RxBlocks' = RxBlocks /\ RxBlocks \in Nat
  BY Counts DEF InputInv, TypeOK, HeadBlocks, RxBlocks, rxVars
<1> SUFFICES ASSUME NEW i \in DOMAIN stream' PROVE OpAt(stream[i])'
  BY DEF StreamInv
<1>2. CASE i \in DOMAIN stream
  <2>1. stream'[i] = stream[i]
    BY <1>1, <1>2, Joined
  <2>2. OpAt(stream[i]) /\ stream[i] \in Ops
    BY <1>1, <1>2 DEF InputInv, StreamInv
  <2> DEFINE o == stream[i]
  <2>3. \A x \in Ops : x = o => OpAt(x)'
    <3> SUFFICES ASSUME NEW x \in Ops, x = o PROVE OpAt(x)'
      OBVIOUS
    <3>1. HeadBlocks' <= x.since + Slack /\ (x.op = "fft" => fftOut'[2] < x.slot)
      BY <1>1, <2>2 DEF OpAt
    <3> QED BY <1>1, <2>2, <3>1, OpKept DEF InputInv
  <2> QED BY <1>2, <2>1, <2>2, <2>3
<1>3. CASE i \notin DOMAIN stream
  <2>1. i - Len(stream) \in DOMAIN new /\ stream'[i] = new[i - Len(stream)]
    BY <1>1, <1>3, Joined
  <2>2. new[i - Len(stream)] \in Ops
    BY <2>1
  <2>3. \A o \in Ops : o = stream'[i] => OpAt(o)'
    BY <2>1
  <2> QED BY <2>1, <2>2, <2>3
<1> QED BY <1>2, <1>3
LEMMA ChCopyKeeps ==
  ASSUME InputInv, TypeOK', ChCopy
  PROVE  InputInv'
<1> DEFINE new == Fft \o Audio
<1>1. /\ 0 < chNow /\ chNow < chNext /\ chNext - chNow <= MaxLag /\ chPc = "copy"
      /\ stream' = stream \o Fft \o Audio /\ chPc' = "compose"
      /\ UNCHANGED <<chNow, chNext, rxVars, fftIn, fftOut, frames>>
  BY DEF ChCopy, EnqueueFft, devVars
<1>2. chNow \in Nat /\ chNext \in Nat /\ TypeOK /\ BatchInv /\ stream \in Seq(Ops)
  BY DEF InputInv, TypeOK
<1>3. Given = chNow /\ Given' = chNow + 1
  BY <1>1 DEF Given
<1>4. HeadBlocks' = HeadBlocks /\ RxBlocks' = RxBlocks
  BY <1>1 DEF HeadBlocks, RxBlocks, rxVars
<1>5. stream' = stream \o new
  BY <1>1, <1>2, NewOps
<1>6. RxInv' /\ BatchInv'
  BY <1>1, <1>2, <1>4, Constants DEF InputInv, RxInv, BatchInv, rxVars
<1>7. \A i \in DOMAIN new : new[i] \in Ops /\ new[i].since = chNext /\ NewOp(new[i])
  <2> SUFFICES ASSUME NEW i \in DOMAIN new PROVE new[i] \in Ops /\ new[i].since = chNext /\ NewOp(new[i])
    OBVIOUS
  <2>1. new \in Seq(Ops)
    BY <1>2, FirstHalf
  <2>2. new[i] = Fft[1] \/ new[i] = AudioPut[1] \/ new[i] = AudioPut[2]
    BY <1>2, FirstHalf
  <2> HIDE DEF new
  <2>3. aProd % AudioRing < AudioRing
    BY <1>2, Constants, ModRange DEF TypeOK
  <2>4. NewOp(new[i]) /\ new[i].since = chNext
    BY <1>1, <2>2, <2>3, OpFields DEF NewOp
  <2> QED BY <2>1, <2>4
<1>8. fftOut' = fftOut /\ fftOut[2] < Given
  BY <1>1 DEF InputInv, FrameInv
<1>9. StreamInv'
  <2>1. new \in Seq(Ops)
    BY <1>2, FirstHalf
  <2> HIDE DEF new
  <2>2. ASSUME NEW o \in Ops, \E i \in DOMAIN new : new[i] = o
        PROVE  OpAt(o)'
    <3>1. o.since = chNext /\ NewOp(o)
      BY <1>7, <2>2
    <3>2. chNext <= chNow + MaxLag /\ chNow < Given'
      BY <1>1, <1>2, <1>3, Constants
    <3> QED BY <1>1, <1>2, <1>4, <1>8, <3>1, <3>2, NewOpAt
  <2>3. Given <= Given'
    BY <1>2, <1>3
  <2> QED BY <1>1, <1>5, <2>1, <2>2, <2>3, AppendedOps
<1>10. FftOrder'
  <2>1. /\ new \in Seq(Ops) /\ 1 \in DOMAIN new /\ new[1].slot = chNow
        /\ \A i \in DOMAIN new : new[i].op = "fft" => i = 1
    BY <1>2, FirstHalf, OpFields
  <2> HIDE DEF new
  <2> SUFFICES ASSUME NEW i \in DOMAIN stream', NEW j \in DOMAIN stream', i < j,
                      stream'[i].op = "fft", stream'[j].op = "fft"
               PROVE  stream'[i].slot < stream'[j].slot
    BY DEF FftOrder
  <2>2. i \in Nat /\ j \in Nat /\ DOMAIN stream = 1 .. Len(stream) /\ Len(stream) \in Nat
        /\ i >= 1 /\ j >= 1
    BY <1>2, <1>5, <2>1, Joined
  <2>3. \A k \in DOMAIN stream' : k \in DOMAIN stream \/ k = Len(stream) + 1 \/ stream'[k].op # "fft"
    <3> SUFFICES ASSUME NEW k \in DOMAIN stream', k \notin DOMAIN stream, stream'[k].op = "fft"
                 PROVE  k = Len(stream) + 1
      OBVIOUS
    <3>1. k - Len(stream) \in DOMAIN new /\ stream'[k] = new[k - Len(stream)]
      BY <1>2, <1>5, <2>1, Joined
    <3>2. k - Len(stream) = 1
      BY <2>1, <3>1
    <3>3. k \in Int
      BY <1>2, <1>5, <2>1, Joined
    <3> QED BY <2>2, <3>2, <3>3
  <2>4. i \in DOMAIN stream
    BY <2>2, <2>3
  <2>5. stream'[i] = stream[i]
    BY <1>2, <1>5, <2>1, <2>4, Joined
  <2>6. CASE j \in DOMAIN stream
    <3>1. stream'[j] = stream[j]
      BY <1>2, <1>5, <2>1, <2>6, Joined
    <3> QED BY <2>4, <2>5, <2>6, <3>1 DEF InputInv, FftOrder
  <2>7. CASE j = Len(stream) + 1
    <3>1. stream'[j] = new[1]
      BY <1>2, <1>5, <2>1, <2>7, Joined
    <3>2. stream[i].slot < Given
      BY <2>4, <2>5 DEF InputInv, StreamInv, OpAt
    <3> QED BY <1>3, <2>1, <2>5, <3>1, <3>2
  <2> QED BY <2>3, <2>6, <2>7
<1>11. FrameInv'
  <2>1. fftOut[2] \in Int
    BY <1>2, LastFftType
  <2>2. fftOut'[2] < Given'
    BY <1>2, <1>3, <1>8, <2>1
  <2> QED BY <1>1, <2>2 DEF InputInv, FrameInv, FramesOverlap
<1> QED BY <1>6, <1>9, <1>10, <1>11 DEF InputInv

LEMMA ChComposeKeeps ==
  ASSUME InputInv, TypeOK', ChCompose
  PROVE  InputInv'
<1> DEFINE new == Composites
<1>1. /\ chPc = "compose" /\ stream' = stream \o Composites /\ chPc' = "copy"
      /\ chNow' = chNow + 1 /\ UNCHANGED <<chNext, rxVars, fftIn, fftOut, frames>>
  BY DEF ChCompose, devVars
<1>2. /\ chNow \in Nat /\ chNext \in Nat /\ TypeOK /\ BatchInv /\ stream \in Seq(Ops)
      /\ chNow < chNext /\ chNext <= chNow + MaxLag
  BY <1>1 DEF InputInv, TypeOK, BatchInv
<1>3. Given = chNow + 1 /\ Given' = chNow + 1
  BY <1>1 DEF Given
<1>4. HeadBlocks' = HeadBlocks /\ RxBlocks' = RxBlocks
  BY <1>1 DEF HeadBlocks, RxBlocks, rxVars
<1>6. RxInv' /\ BatchInv'
  BY <1>1, <1>2, <1>4, Constants DEF InputInv, RxInv, BatchInv, rxVars
<1>7. /\ new \in Seq(Ops)
      /\ \A i \in DOMAIN new : new[i].since = chNext /\ NewOp(new[i]) /\ new[i].op # "fft"
  <2>1. new \in Seq(Ops) /\ DOMAIN new = 1 .. Len(new) /\ Len(new) \in {2, 4}
    BY <1>2, SecondHalf
  <2> SUFFICES ASSUME NEW i \in DOMAIN new
               PROVE  new[i].since = chNext /\ NewOp(new[i]) /\ new[i].op # "fft"
    BY <2>1
  <2>2. \E r \in Rings : new[i] = Put(r)[1] \/ new[i] = Put(r)[2]
    <3>1. i \in {1, 2} \/ (Len(new) = 4 /\ i \in {3, 4})
      BY <2>1
    <3> QED BY <1>2, <3>1, SecondHalf, Constants
  <2> HIDE DEF new
  <2>3. \A r \in Rings : bufNum[r] % Buffers < Buffers
    <3>1. \A r \in Rings : bufNum[r] \in Nat
      BY <1>2 DEF TypeOK
    <3> QED BY <3>1, Constants, ModRange
  <2> QED BY <2>2, <2>3, OpFields DEF NewOp
<1>8. fftOut' = fftOut /\ fftOut[2] < Given
  BY <1>1 DEF InputInv, FrameInv
<1>9. StreamInv'
  <2> HIDE DEF new
  <2>2. ASSUME NEW o \in Ops, \E i \in DOMAIN new : new[i] = o
        PROVE  OpAt(o)'
    <3>1. o.since = chNext /\ NewOp(o)
      BY <1>7, <2>2
    <3>2. chNow < Given'
      BY <1>2, <1>3
    <3> QED BY <1>2, <1>4, <1>8, <3>1, <3>2, NewOpAt
  <2>3. Given <= Given'
    BY <1>2, <1>3
  <2>4. stream' = stream \o new
    BY <1>1 DEF new
  <2> QED BY <1>1, <1>7, <2>2, <2>3, <2>4, AppendedOps
<1>10. FftOrder'
  <2>1. \A k \in DOMAIN stream' : stream'[k].op = "fft" => k \in DOMAIN stream /\ stream'[k] = stream[k]
    <3> SUFFICES ASSUME NEW k \in DOMAIN stream', stream'[k].op = "fft"
                 PROVE  k \in DOMAIN stream /\ stream'[k] = stream[k]
      OBVIOUS
    <3>1. k \notin DOMAIN stream => k - Len(stream) \in DOMAIN new /\ stream'[k] = new[k - Len(stream)]
      BY <1>1, <1>2, <1>7, Joined
    <3>2. k \in DOMAIN stream
      BY <1>7, <3>1
    <3> QED BY <1>1, <1>2, <1>7, <3>2, Joined
  <2> QED BY <2>1 DEF InputInv, FftOrder
<1>11. FrameInv'
  BY <1>1, <1>3 DEF InputInv, FrameInv, FramesOverlap
<1> QED BY <1>6, <1>9, <1>10, <1>11 DEF InputInv
(* The stream without its oldest operation.                                *)
LEMMA PoppedOps ==
  ASSUME InputInv, TypeOK', stream # << >>, stream' = Tail(stream),
         UNCHANGED <<rxVars, chNow, chNext, chPc>>,
         \A i \in DOMAIN stream : i # 1 /\ stream[i].op = "fft" => fftOut'[2] < stream[i].slot
  PROVE  StreamInv' /\ FftOrder' /\ RxInv' /\ BatchInv'
<1>1. /\ stream \in Seq(Ops) /\ HeadBlocks' = HeadBlocks /\ RxBlocks' = RxBlocks /\ Given' = Given
      /\ RxBlocks \in Nat /\ Given \in Nat
  BY Counts DEF InputInv, TypeOK, HeadBlocks, RxBlocks, Given, rxVars
<1>2. \A i \in DOMAIN stream' : /\ i + 1 \in DOMAIN stream /\ i \in Nat /\ i >= 1
                                /\ stream'[i] = stream[i + 1]
  BY <1>1, HeadTail
<1>3. RxInv' /\ BatchInv'
  BY <1>1 DEF InputInv, RxInv, BatchInv, rxVars
<1>4. FftOrder'
  <2> SUFFICES ASSUME NEW i \in DOMAIN stream', NEW j \in DOMAIN stream', i < j,
                      stream'[i].op = "fft", stream'[j].op = "fft"
               PROVE  stream'[i].slot < stream'[j].slot
    BY DEF FftOrder
  <2>1. i + 1 < j + 1 /\ i + 1 \in DOMAIN stream /\ j + 1 \in DOMAIN stream
    BY <1>2
  <2> QED BY <1>2, <2>1 DEF InputInv, FftOrder
<1>5. StreamInv'
  <2> SUFFICES ASSUME NEW i \in DOMAIN stream' PROVE OpAt(stream[i])'
    BY DEF StreamInv
  <2> DEFINE o == stream[i + 1]
  <2>1. /\ i + 1 \in DOMAIN stream /\ i + 1 # 1 /\ stream'[i] = o
        /\ o \in Ops /\ OpAt(o)
    BY <1>1, <1>2 DEF InputInv, StreamInv
  <2>2. HeadBlocks' <= o.since + Slack /\ (o.op = "fft" => fftOut'[2] < o.slot)
    BY <1>1, <2>1 DEF OpAt
  <2>3. \A x \in Ops : x = o => OpAt(x)'
    <3> SUFFICES ASSUME NEW x \in Ops, x = o PROVE OpAt(x)'
      OBVIOUS
    <3> QED BY <1>1, <2>1, <2>2, OpKept DEF InputInv
  <2> QED BY <2>1, <2>3
<1> QED BY <1>3, <1>4, <1>5

LEMMA DevOtherKeeps ==
  ASSUME InputInv, TypeOK', DevPut \/ DevSignal
  PROVE  InputInv'
<1>1. /\ stream # << >> /\ stream' = Tail(stream)
      /\ UNCHANGED <<rxVars, chNow, chNext, chPc, fftIn, fftOut, frames>>
  BY DEF DevPut, DevSignal, Signal, chVars
<1>2. \A i \in DOMAIN stream : i # 1 /\ stream[i].op = "fft" => fftOut'[2] < stream[i].slot
  BY <1>1 DEF InputInv, StreamInv, OpAt
<1>3. StreamInv' /\ FftOrder' /\ RxInv' /\ BatchInv'
  BY <1>1, <1>2, PoppedOps
<1>4. FrameInv'
  BY <1>1 DEF InputInv, FrameInv, FramesOverlap, Given
<1> QED BY <1>3, <1>4 DEF InputInv

(* The FFT of block b: what was in the place below b's, once the first     *)
(* place of a lap has been copied down, is the last FFT's block.           *)
LEMMA DevFftKeeps ==
  ASSUME InputInv, TypeOK', DevFft
  PROVE  InputInv'
<1> DEFINE b == Head(stream).slot
           i == b % RxBuffers
           input == [fftIn EXCEPT ![i + 1] = b,
                                  ![0] = IF i = 0 THEN fftIn[RxBuffers] ELSE @]
           last == fftOut[2]
<1>1. /\ stream # << >> /\ Head(stream).op = "fft" /\ stream' = Tail(stream)
      /\ fftIn' = input /\ fftOut' = <<input[i], b>> /\ frames' = frames \cup {b}
      /\ UNCHANGED <<rxVars, chNow, chNext, chPc>>
  BY DEF DevFft, RunFft, chVars
<1>2. Head(stream) = stream[1] /\ 1 \in DOMAIN stream /\ Head(stream) \in Ops
  BY <1>1, HeadTail DEF InputInv, TypeOK
<1>3. b \in Nat /\ last \in Int /\ last < b /\ b < Given
  BY <1>1, <1>2, LastFftType DEF InputInv, StreamInv, OpAt, Ops
<1>4. \A k \in DOMAIN stream : k # 1 /\ stream[k].op = "fft" => fftOut'[2] < stream[k].slot
  <2> SUFFICES ASSUME NEW k \in DOMAIN stream, k # 1, stream[k].op = "fft"
               PROVE  b < stream[k].slot
    BY <1>1
  <2>1. 1 < k
    <3>1. DOMAIN stream = 1 .. Len(stream) /\ Len(stream) \in Nat
      <4>1. stream \in Seq(Ops)
        BY DEF InputInv, TypeOK
      <4> HIDE DEF b, i, input, last
      <4> QED BY <4>1
    <3> QED BY <3>1
  <2> QED BY <1>1, <1>2, <2>1 DEF InputInv, FftOrder
<1>5. StreamInv' /\ FftOrder' /\ RxInv' /\ BatchInv'
  BY <1>1, <1>4, PoppedOps
<1>6. fftOut'[2] = b /\ Given' = Given
  BY <1>1 DEF Given
<1>7. /\ i \in 0 .. RxBuffers - 1 /\ fftIn \in [0 .. RxBuffers -> Block]
      /\ RxBuffers \in Nat \ {0}
  BY <1>3, Constants, ModRange DEF InputInv, TypeOK
<1>8. input[i + 1] = b
  <2> HIDE DEF i, b
  <2> QED BY <1>7
<1>9. ASSUME b - 1 \in frames
      PROVE  input[i] = b - 1
  <2>1. last = b - 1 /\ b > 0
    <3>1. b - 1 <= last /\ b - 1 \in Nat
      BY <1>9 DEF InputInv, FrameInv, TypeOK
    <3> QED BY <1>3, <3>1
  <2>2. fftIn[((b - 1) % RxBuffers) + 1] = b - 1
    BY <1>3, <2>1 DEF InputInv, FrameInv
  <2>3. CASE i = 0
    <3>1. (b - 1) % RxBuffers = RxBuffers - 1
      BY <1>3, <1>7, <2>1, <2>3, ModBefore
    <3>2. fftIn[RxBuffers] = b - 1
      BY <1>7, <2>2, <3>1
    <3>3. input[0] = fftIn[RxBuffers]
      <4> HIDE DEF i, b
      <4> QED BY <1>7, <2>3
    <3> QED BY <2>3, <3>2, <3>3
  <2>4. CASE i # 0
    <3>1. (b - 1) % RxBuffers = i - 1
      BY <1>3, <1>7, <2>1, <2>4, ModBefore
    <3>2. fftIn[i] = b - 1
      BY <1>7, <2>2, <3>1
    <3>3. input[i] = fftIn[i]
      <4> HIDE DEF i, b
      <4> QED BY <1>7, <2>4
    <3> QED BY <3>2, <3>3
  <2> QED BY <2>3, <2>4
<1>10. FrameInv'
  <2>1. \A x \in frames' : x <= b
    <3>1. \A x \in frames : x <= last /\ x \in Nat
      BY DEF InputInv, FrameInv, TypeOK
    <3> QED BY <1>1, <1>3, <3>1
  <2>2. fftIn'[(fftOut'[2] % RxBuffers) + 1] = fftOut'[2]
    BY <1>1, <1>6, <1>8
  <2>3. FramesOverlap'
    <3> SUFFICES ASSUME b - 1 \in frames' PROVE fftOut'[1] = b - 1
      BY <1>6 DEF FramesOverlap
    <3>1. b - 1 \in frames
      BY <1>1, <1>3
    <3> QED BY <1>1, <1>9, <3>1
  <2>4. fftOut'[2] < Given'
    BY <1>3, <1>6
  <2> HIDE DEF b
  <2> QED BY <1>6, <2>1, <2>2, <2>3, <2>4 DEF FrameInv
<1> QED BY <1>5, <1>10 DEF InputInv

-----------------------------------------------------------------------------
LEMMA InputStep == InputInv /\ [Next]_vars => InputInv'
<1> SUFFICES ASSUME InputInv, [Next]_vars PROVE InputInv'
  OBVIOUS
<1>1. TypeOK'
  BY TypeStep DEF InputInv
<1>2. ASSUME NEW n \in 1 .. BlockLen, RxFill(n) PROVE InputInv'
  BY <1>1, <1>2, RxFillKeeps
<1>3. CASE RxPublish
  BY <1>1, <1>3, RxPublishKeeps
<1>4. CASE ChStart \/ ChWait \/ ChDrop
  BY <1>1, <1>4, ChStartKeeps, ChWaitKeeps, ChDropKeeps
<1>5. CASE ChCopy \/ ChCompose
  BY <1>1, <1>5, ChCopyKeeps, ChComposeKeeps
<1>6. CASE DevFft \/ DevPut \/ DevSignal
  BY <1>1, <1>6, DevFftKeeps, DevOtherKeeps
<1>7. CASE AudioPush \/ AudioFree
  BY <1>1, <1>7, InputSame DEF AudioPush, AudioFree, chVars, devVars
<1>8. CASE MagStart \/ MagWait \/ MagDrop \/ MagCopy \/ DevMag
  BY <1>1, <1>8, InputSame
     DEF MagStart, MagWait, MagDrop, MagCopy, EnqueueCopy, DevMag, chVars, devVars
<1>9. CASE UNCHANGED vars
  BY <1>1, <1>9, InputSame DEF vars, chVars, devVars
<1> QED
  BY <1>2, <1>3, <1>4, <1>5, <1>6, <1>7, <1>8, <1>9
     DEF Next, Rx, Channelizer, Device, AudioWorker, Mag

LEMMA InputIsRight == InputInv => InputRight
<1> SUFFICES ASSUME InputInv PROVE InputIntact
  BY DEF InputInv, FrameInv, InputRight
<1> SUFFICES ASSUME NEW i \in DOMAIN stream, stream[i].op = "fft"
             PROVE  /\ (stream[i].slot + 1) * BlockLen <= rxPos
                    /\ rxHead <= (stream[i].slot + RxBuffers) * BlockLen
  BY DEF InputIntact
<1> DEFINE b == stream[i].slot
           s == stream[i].since
<1>1. /\ b \in Nat /\ s \in Nat /\ b < s /\ s <= b + MaxLag /\ s <= RxBlocks
      /\ HeadBlocks <= s + Slack
  <2>1. stream \in Seq(Ops) /\ OpAt(stream[i])
    BY DEF InputInv, TypeOK, StreamInv
  <2>2. stream[i] \in Ops
    BY <2>1
  <2> QED BY <2>1, <2>2 DEF OpAt, Ops
<1>2. rxPos \in Nat /\ rxHead \in Nat /\ RxBlocks \in Nat /\ HeadBlocks \in Nat
  BY Counts DEF InputInv, TypeOK
<1> HIDE DEF b, s
<1>3. b + 1 \in Nat /\ b + 1 <= RxBlocks
  BY <1>1, <1>2
<1>4. (b + 1) * BlockLen <= rxPos
  BY <1>2, <1>3, Constants, DivLeast DEF RxBlocks
<1>5. HeadBlocks + 1 <= b + RxBuffers
  BY <1>1, <1>2, Constants
<1>6. rxHead < (HeadBlocks + 1) * BlockLen
  BY <1>2, Constants, DivBounds DEF HeadBlocks
<1>7. (HeadBlocks + 1) * BlockLen <= (b + RxBuffers) * BlockLen
  <2>1. \A x, y \in Nat : x <= y => x * BlockLen <= y * BlockLen
    BY Constants
  <2>2. HeadBlocks + 1 \in Nat /\ b + RxBuffers \in Nat
    BY <1>1, <1>2, Constants
  <2> QED BY <1>5, <2>1, <2>2
<1>8. rxHead <= (b + RxBuffers) * BlockLen
  <2> DEFINE x == (HeadBlocks + 1) * BlockLen
             y == (b + RxBuffers) * BlockLen
  <2>1. x \in Int /\ y \in Int
    BY <1>1, <1>2, Constants
  <2> HIDE DEF x, y
  <2>2. rxHead < x /\ x <= y
    BY <1>6, <1>7 DEF x, y
  <2>3. rxHead <= y
    BY <1>2, <2>1, <2>2
  <2> QED BY <2>3 DEF y
<1> QED BY <1>4, <1>8 DEF b

(* The host's indices stay in their rings; a block that the channelizer    *)
(* copies in is complete and rx888 has not begun to overwrite it; and each *)
(* FFT covers its block and the one before, across every wrap: for every   *)
(* lag limit and slack with MaxLag + Slack + 1 <= RxBuffers, whether the   *)
(* copy makes the host wait or not.                                        *)
THEOREM InputStaysRight == Spec => []InputRight
<1>1. Init => InputInv
  BY InputInit
<1>2. InputInv /\ [Next]_vars => InputInv'
  BY InputStep
<1>3. InputInv => InputRight
  BY InputIsRight
<1> QED BY <1>1, <1>2, <1>3, PTL DEF Spec
-----------------------------------------------------------------------------
(* The outputs.                                                            *)

LEMMA RingTypes ==
  ASSUME TypeOK
  PROVE  /\ \A r \in Rings, k \in Nat : ring[r][k % Buffers] \in Int
         /\ \A k \in Nat : aRing[k % AudioRing] \in Int
         /\ aOut \in Int /\ mIn \in Int
<1>1. \A k \in Nat : k % Buffers \in 0 .. Buffers - 1 /\ k % AudioRing \in 0 .. AudioRing - 1
  BY Constants, ModRange
<1>2. Block \subseteq Int
  BY DEF Block, NoBlock
<1>3. \A r \in Rings, i \in 0 .. Buffers - 1 : ring[r][i] \in Block
  BY DEF TypeOK
<1>4. \A i \in 0 .. AudioRing - 1 : aRing[i] \in Block
  BY DEF TypeOK
<1>5. aOut \in Block /\ mIn \in Block
  BY DEF TypeOK
<1> QED BY <1>1, <1>2, <1>3, <1>4, <1>5

LEMMA CountType ==
  ASSUME TypeOK, NEW r \in Rings
  PROVE  Count(r) \in Nat /\ bufNum[r] \in Nat /\ pos[r] \in Nat
         /\ (Pending(r) => Count(r) = bufNum[r] + 1)
         /\ (~ Pending(r) => Count(r) = bufNum[r])
<1>1. bufNum[r] \in Nat /\ pos[r] \in Nat
  BY DEF TypeOK
<1>2. (Pending(r) => Count(r) = bufNum[r] + 1) /\ (~ Pending(r) => Count(r) = bufNum[r])
  BY DEF Count
<1> QED BY <1>1, <1>2

(* What is on the stream once its oldest operation has run.                *)
LEMMA Popped ==
  ASSUME TypeOK, ShapeInv, stream # << >>, stream' = Tail(stream)
  PROVE  /\ FftDone'
         /\ stream[1].op = "fft" =>
              /\ \A t : t # "in" => (OnStream(t)' <=> OnStream(t))
              /\ \A t : ~ Signals(t)'
         /\ stream[1].op = "put" =>
              /\ FftDone
              /\ \A t : (OnStream(t)' <=> OnStream(t))
              /\ \A t : Signals(t)' => t = stream[1].to
         /\ stream[1].op = "signal" =>
              /\ FftDone
              /\ \A t : t = stream[1].to => ~ OnStream(t)'
              /\ \A t : t # stream[1].to => (OnStream(t)' <=> OnStream(t))
              /\ \A t : ~ Signals(t)'
<1>1. /\ 1 \in DOMAIN stream
      /\ \A k \in DOMAIN stream : k \in Nat /\ k >= 1
      /\ \A i \in DOMAIN stream' : i + 1 \in DOMAIN stream /\ i + 1 # 1 /\ stream'[i] = stream[i + 1]
      /\ \A k \in DOMAIN stream : k # 1 => k - 1 \in DOMAIN stream' /\ stream'[k - 1] = stream[k]
      /\ stream' # << >> => 2 \in DOMAIN stream /\ stream'[1] = stream[2]
  <2>1. stream \in Seq(Ops)
    BY DEF TypeOK
  <2> QED BY <2>1, HeadTail
<1>2. \A t : OnStream(t)' <=> (\E k \in DOMAIN stream : k # 1 /\ stream[k].to = t)
  <2> TAKE t
  <2>1. ASSUME OnStream(t)' PROVE \E k \in DOMAIN stream : k # 1 /\ stream[k].to = t
    <3>1. PICK i \in DOMAIN stream' : stream'[i].to = t
      BY <2>1 DEF OnStream
    <3> WITNESS i + 1 \in DOMAIN stream
    <3> QED BY <1>1, <3>1
  <2>2. ASSUME NEW k \in DOMAIN stream, k # 1, stream[k].to = t PROVE OnStream(t)'
    <3>1. k - 1 \in DOMAIN stream' /\ stream'[k - 1].to = t
      BY <1>1, <2>2
    <3> QED BY <3>1 DEF OnStream
  <2> QED BY <2>1, <2>2
<1>3. FftDone'
  BY <1>1 DEF FftDone, ShapeInv
<1>4. ASSUME stream[1].op # "fft" PROVE FftDone
  BY <1>4 DEF FftDone, ShapeInv
<1>5. \A t : Signals(t)' => 2 \in DOMAIN stream /\ stream[2].op = "signal" /\ stream[2].to = t
  BY <1>1 DEF Signals
<1>6. 2 \in DOMAIN stream /\ stream[2].op = "signal" =>
        stream[1].op = "put" /\ stream[1].to = stream[2].to
  <2>1. \A i \in DOMAIN stream : stream[i].op = "signal" /\ i > 1 =>
          stream[i - 1].op = "put" /\ stream[i - 1].to = stream[i].to
    BY DEF ShapeInv
  <2>2. 2 > 1 /\ 2 - 1 = 1
    OBVIOUS
  <2> QED BY <2>1, <2>2
<1>7. CASE stream[1].op = "fft"
  <2>1. stream[1].to = "in"
    BY <1>1, <1>7 DEF ShapeInv
  <2>2. \A t : t # "in" => (OnStream(t)' <=> OnStream(t))
    BY <1>1, <1>2, <2>1 DEF OnStream
  <2> QED BY <1>3, <1>5, <1>6, <1>7, <2>2
<1>8. CASE stream[1].op = "put"
  <2>1. 2 \in DOMAIN stream /\ stream[2].to = stream[1].to
    <3>1. 1 + 1 \in DOMAIN stream /\ stream[1 + 1].to = stream[1].to
      BY <1>1, <1>8 DEF ShapeInv
    <3> QED BY <3>1
  <2>2. \A t : OnStream(t)' <=> OnStream(t)
    <3>1. 2 # 1
      OBVIOUS
    <3>2. \A t : (\E k \in DOMAIN stream : stream[k].to = t) =>
                   (\E k \in DOMAIN stream : k # 1 /\ stream[k].to = t)
      BY <2>1, <3>1
    <3> QED BY <1>2, <3>2 DEF OnStream
  <2> QED BY <1>3, <1>4, <1>5, <1>6, <1>8, <2>2
<1>9. CASE stream[1].op = "signal"
  <2>1. \A j \in DOMAIN stream : j # 1 => stream[j].to # stream[1].to
    <3>1. \A j \in DOMAIN stream : j # 1 => j > 1
      BY <1>1
    <3>2. \A j \in DOMAIN stream : j > 1 => stream[j].to # stream[1].to
      BY <1>1, <1>9 DEF ShapeInv
    <3> QED BY <3>1, <3>2
  <2>2. \A t : t = stream[1].to => ~ OnStream(t)'
    BY <1>2, <2>1
  <2>3. \A t : t # stream[1].to => (OnStream(t)' <=> OnStream(t))
    BY <1>1, <1>2, Zenon DEF OnStream
  <2> QED BY <1>3, <1>4, <1>5, <1>6, <1>9, <2>2, <2>3
<1>10. stream[1].op \in {"fft", "put", "signal"}
  <2>1. stream[1] \in Ops
    BY <1>1 DEF TypeOK
  <2> QED BY <2>1 DEF Ops
<1> QED BY <1>7, <1>8, <1>9, <1>10

(* Nothing about a ring changes but that it may be written where no block  *)
(* is held, and that the FFT may go on.                                    *)
LEMMA RingKept ==
  ASSUME TypeOK, TypeOK', NEW r \in Rings, RingAt(r),
         bufNum'[r] = bufNum[r], pos'[r] = pos[r], Count(r) <= Count(r)',
         fftOut[2] <= fftOut'[2],
         Pending(r)' /\ FftDone' => (Pending(r) /\ FftDone) \/ fftOut[2] < fftOut'[2],
         \A k \in Nat : Holds(r, k) /\ Holds(r, k)' => ring'[r][k % Buffers] = ring[r][k % Buffers],
         Signals(r)' => ring'[r][bufNum[r] % Buffers] = fftOut'[2]
  PROVE  RingAt(r)'
<1>1. bufNum[r] \in Nat /\ Count(r) \in Nat /\ fftOut[2] \in Int
  BY CountType, LastFftType
<1>2. Count(r)' \in Nat
  <2>1. Count(r)' = bufNum'[r] + 1 \/ Count(r)' = bufNum'[r]
    BY DEF Count
  <2> QED BY <1>1, <2>1
<1>3. fftOut'[2] \in Int
  <2>1. fftOut'[2] \in Block
    BY DEF TypeOK
  <2> QED BY <2>1 DEF Block, NoBlock
<1>4. \A k \in Nat : Holds(r, k)' => Holds(r, k)
  BY <1>1, <1>2, Constants DEF Holds
<1>5. \A k \in Nat : ring[r][k % Buffers] \in Int
  BY RingTypes
<1>6. \A j, k \in Nat : Holds(r, j)' /\ Holds(r, k)' /\ j < k =>
        ring'[r][j % Buffers] < ring'[r][k % Buffers]
  BY <1>4 DEF RingAt
<1>7. \A k \in Nat : Holds(r, k)' =>
        /\ ring'[r][k % Buffers] <= fftOut'[2]
        /\ Pending(r)' /\ FftDone' => ring'[r][k % Buffers] < fftOut'[2]
  <2> SUFFICES ASSUME NEW k \in Nat, Holds(r, k)'
               PROVE  /\ ring[r][k % Buffers] <= fftOut'[2]
                      /\ Pending(r)' /\ FftDone' => ring[r][k % Buffers] < fftOut'[2]
    BY <1>4
  <2> DEFINE x == ring[r][k % Buffers]
  <2>1. x \in Int /\ x <= fftOut[2] /\ (Pending(r) /\ FftDone => x < fftOut[2])
    BY <1>4, <1>5 DEF RingAt
  <2> HIDE DEF x
  <2>2. x <= fftOut'[2] /\ (Pending(r)' /\ FftDone' => x < fftOut'[2])
    BY <1>1, <1>3, <2>1
  <2> QED BY <2>2 DEF x
<1>8. pos'[r] = IF bufNum'[r] = 0 THEN 0 ELSE bufNum'[r] - 1
  BY DEF RingAt
<1> QED
  BY <1>6, <1>7, <1>8 DEF RingAt

(* The shape of the stream once its oldest operation has run: the slots of *)
(* the puts that are left were chosen from counters that still stand.      *)
LEMMA ShapePopped ==
  ASSUME TypeOK, StreamInv, ShapeInv, stream # << >>, stream' = Tail(stream), chPc' = chPc,
         (stream[1].op = "signal" /\ stream[1].to = "audio") \/ aProd' = aProd,
         \A r \in Rings : (stream[1].op = "signal" /\ stream[1].to = r) \/ bufNum'[r] = bufNum[r]
  PROVE  ShapeInv'
<1>1. /\ 1 \in DOMAIN stream
      /\ \A k \in DOMAIN stream : k \in Nat /\ k >= 1
      /\ \A i \in DOMAIN stream' : i \in Nat /\ i >= 1 /\ i + 1 \in DOMAIN stream
                                   /\ i + 1 # 1 /\ stream'[i] = stream[i + 1]
      /\ \A k \in DOMAIN stream : k # 1 => k - 1 \in DOMAIN stream' /\ stream'[k - 1] = stream[k]
  <2>1. stream \in Seq(Ops)
    BY DEF TypeOK
  <2> QED BY <2>1, HeadTail
<1>2. ASSUME NEW i \in DOMAIN stream'
      PROVE  /\ stream'[i].op = "fft" => i = 1 /\ stream'[i].to = "in"
             /\ stream'[i].op = "put" =>
                  /\ i + 1 \in DOMAIN stream'
                  /\ stream'[i + 1].op = "signal" /\ stream'[i + 1].to = stream'[i].to
                  /\ stream'[i].slot = (IF stream'[i].to = "audio" THEN aProd' % AudioRing
                                       ELSE bufNum'[stream'[i].to] % Buffers)
             /\ stream'[i].op = "signal" =>
                  /\ i > 1 => stream'[i - 1].op = "put" /\ stream'[i - 1].to = stream'[i].to
                  /\ \A j \in DOMAIN stream' : j > i => stream'[j].to # stream'[i].to
  <2> DEFINE k == i + 1
  <2>1. k \in DOMAIN stream /\ k \in Nat /\ k > 1 /\ stream'[i] = stream[k] /\ k - 1 = i
    BY <1>1
  <2>2. stream'[i].op # "fft"
    BY <2>1 DEF ShapeInv
  <2>3. ASSUME stream[k].op = "put"
        PROVE  /\ i + 1 \in DOMAIN stream'
               /\ stream'[i + 1].op = "signal" /\ stream'[i + 1].to = stream[k].to
               /\ stream[k].slot = (IF stream[k].to = "audio" THEN aProd' % AudioRing
                                    ELSE bufNum'[stream[k].to] % Buffers)
    <3>1. /\ k + 1 \in DOMAIN stream /\ stream[k + 1].op = "signal"
          /\ stream[k + 1].to = stream[k].to
          /\ stream[k].slot = (IF stream[k].to = "audio" THEN aProd % AudioRing
                               ELSE bufNum[stream[k].to] % Buffers)
      BY <2>1, <2>3 DEF ShapeInv
    <3>2. (k + 1) - 1 \in DOMAIN stream' /\ stream'[(k + 1) - 1] = stream[k + 1] /\ (k + 1) - 1 = i + 1
      BY <1>1, <2>1, <3>1
    <3>3. stream[1].op = "signal" => stream[1].to # stream[k].to
      BY <1>1, <2>1 DEF ShapeInv
    <3>4. stream[k].to \in Rings \cup {"audio"}
      BY <2>1, <2>3 DEF StreamInv, OpAt
    <3>5. stream[k].slot = (IF stream[k].to = "audio" THEN aProd' % AudioRing
                            ELSE bufNum'[stream[k].to] % Buffers)
      <4>1. CASE stream[k].to = "audio"
        BY <3>1, <3>3, <4>1
      <4>2. CASE stream[k].to # "audio"
        <5>1. stream[k].to \in Rings
          BY <3>4, <4>2
        <5>2. bufNum'[stream[k].to] = bufNum[stream[k].to]
          BY <3>3, <5>1
        <5> QED BY <3>1, <4>2, <5>2
      <4> QED BY <4>1, <4>2
    <3> QED BY <3>1, <3>2, <3>5
  <2>4. ASSUME stream[k].op = "signal"
        PROVE  /\ i > 1 => stream'[i - 1].op = "put" /\ stream'[i - 1].to = stream[k].to
               /\ \A j \in DOMAIN stream' : j > i => stream'[j].to # stream[k].to
    <3>1. /\ stream[k - 1].op = "put" /\ stream[k - 1].to = stream[k].to
          /\ \A j \in DOMAIN stream : j > k => stream[j].to # stream[k].to
      BY <2>1, <2>4 DEF ShapeInv
    <3>2. ASSUME i > 1 PROVE stream'[i - 1] = stream[i]
      <4>1. i \in DOMAIN stream
        <5>1. \E n \in Nat : DOMAIN stream = 1 .. n
          BY DEF TypeOK
        <5> QED BY <1>1, <2>1, <5>1
      <4>2. i # 1
        BY <3>2, <1>1
      <4> QED BY <1>1, <4>1, <4>2
    <3>3. ASSUME NEW j \in DOMAIN stream', j > i PROVE stream'[j].to # stream[k].to
      <4>1. j + 1 \in DOMAIN stream /\ j + 1 > k /\ stream'[j] = stream[j + 1]
        BY <1>1, <3>3
      <4> QED BY <3>1, <4>1
    <3> QED BY <2>1, <3>1, <3>2, <3>3
  <2> QED BY <2>1, <2>2, <2>3, <2>4
<1>3. chPc' = "compose" => \A i \in DOMAIN stream' : stream'[i].to \notin Rings
  BY <1>1 DEF ShapeInv
<1> QED BY <1>2, <1>3 DEF ShapeInv

(* The same for the audio ring as for the others.                          *)
LEMMA AudioKept ==
  ASSUME TypeOK, TypeOK', AudioInv, UNCHANGED <<aProd, aCons, apc, aOut>>,
         fftOut[2] <= fftOut'[2],
         OnStream("audio")' => aProd < aCons + AudioRing,
         OnStream("audio")' /\ FftDone' =>
           (OnStream("audio") /\ FftDone) \/ fftOut[2] < fftOut'[2],
         \A k \in Nat : AudioHolds(k) => aRing'[k % AudioRing] = aRing[k % AudioRing],
         Signals("audio")' => aRing'[aProd % AudioRing] = fftOut'[2]
  PROVE  AudioInv'
<1>1. aProd \in Nat /\ aCons \in Nat /\ aOut \in Int /\ fftOut[2] \in Int /\ fftOut'[2] \in Int
  <2>1. fftOut'[2] \in Block /\ aProd \in Nat /\ aCons \in Nat
    BY DEF TypeOK
  <2> QED BY <2>1, LastFftType, RingTypes DEF Block, NoBlock
<1>2. \A k \in Nat : AudioHolds(k)' <=> AudioHolds(k)
  BY DEF AudioHolds
<1>3. \A k \in Nat : aRing[k % AudioRing] \in Int
  BY RingTypes
<1>4. \A k \in Nat : AudioHolds(k)' =>
        /\ aRing'[k % AudioRing] <= fftOut'[2]
        /\ OnStream("audio")' /\ FftDone' => aRing'[k % AudioRing] < fftOut'[2]
        /\ apc' = "poll" => aOut' < aRing'[k % AudioRing]
  <2> SUFFICES ASSUME NEW k \in Nat, AudioHolds(k)
               PROVE  /\ aRing[k % AudioRing] <= fftOut'[2]
                      /\ OnStream("audio")' /\ FftDone' => aRing[k % AudioRing] < fftOut'[2]
                      /\ apc = "poll" => aOut < aRing[k % AudioRing]
    BY <1>2
  <2> DEFINE x == aRing[k % AudioRing]
  <2>1. /\ x \in Int /\ x <= fftOut[2] /\ (OnStream("audio") /\ FftDone => x < fftOut[2])
        /\ apc = "poll" => aOut < x
    BY <1>3 DEF AudioInv
  <2> HIDE DEF x
  <2>2. x <= fftOut'[2] /\ (OnStream("audio")' /\ FftDone' => x < fftOut'[2])
    BY <1>1, <2>1
  <2> QED BY <2>1, <2>2 DEF x
<1>5. \A j, k \in Nat : AudioHolds(j)' /\ AudioHolds(k)' /\ j < k =>
        aRing'[j % AudioRing] < aRing'[k % AudioRing]
  BY <1>2 DEF AudioInv
<1>6. aOut <= fftOut'[2] /\ (OnStream("audio")' /\ FftDone' => aOut < fftOut'[2])
  <2>1. aOut <= fftOut[2] /\ (OnStream("audio") /\ FftDone => aOut < fftOut[2])
    BY DEF AudioInv
  <2> QED BY <1>1, <2>1
<1>7. apc' = "push" => aCons' < aProd' /\ aOut' = aRing'[aCons' % AudioRing]
  <2> SUFFICES ASSUME apc = "push" PROVE aCons < aProd /\ aOut = aRing'[aCons % AudioRing]
    OBVIOUS
  <2>1. aCons < aProd /\ aOut = aRing[aCons % AudioRing]
    BY DEF AudioInv
  <2>2. AudioHolds(aCons)
    BY <1>1, <2>1 DEF AudioHolds
  <2> QED BY <1>1, <2>1, <2>2
<1>8. aCons' <= aProd' /\ aProd' <= aCons' + AudioRing
  BY DEF AudioInv
<1> QED
  BY <1>4, <1>5, <1>6, <1>7, <1>8 DEF AudioInv
LEMMA OutputSame ==
  ASSUME OutputInv, InputInv',
         UNCHANGED <<stream, chPc, bufNum, pos, ring, fftOut, aProd, aRing, audVars>>
  PROVE  OutputInv'
<1> USE DEF OutputInv, audVars
<1>1. /\ \A t : OnStream(t)' <=> OnStream(t)
      /\ \A t : Pending(t)' <=> Pending(t)
      /\ \A t : Signals(t)' <=> Signals(t)
      /\ FftDone' <=> FftDone
  BY DEF OnStream, Pending, Signals, FftDone
<1>2. \A r : Count(r)' = Count(r)
  BY <1>1 DEF Count
<1>3. ShapeInv'
  BY DEF ShapeInv
<1>4. RingInv'
  <2> SUFFICES ASSUME NEW r \in Rings PROVE RingAt(r)'
    BY DEF RingInv
  <2>1. \A k : Holds(r, k)' <=> Holds(r, k)
    BY <1>2 DEF Holds
  <2>2. RingAt(r)
    BY DEF RingInv
  <2> QED BY <1>1, <2>1, <2>2 DEF RingAt
<1>5. AudioInv'
  <2>1. \A k : AudioHolds(k)' <=> AudioHolds(k)
    BY DEF AudioHolds
  <2> QED BY <1>1, <2>1 DEF AudioInv
<1> QED BY <1>3, <1>4, <1>5

LEMMA AudioPushOut ==
  ASSUME OutputInv, InputInv', AudioPush
  PROVE  OutputInv'
<1> USE DEF OutputInv
<1>1. /\ apc = "poll" /\ aProd > aCons /\ aOut' = aRing[aCons % AudioRing] /\ apc' = "push"
      /\ UNCHANGED <<aCons, chPc, stream, bufNum, ring, pos, fftOut, aProd, aRing>>
  BY DEF AudioPush, chVars, devVars
<1>2. /\ \A t : OnStream(t)' <=> OnStream(t)
      /\ \A t : Pending(t)' <=> Pending(t)
      /\ \A t : Signals(t)' <=> Signals(t)
      /\ FftDone' <=> FftDone
  BY <1>1 DEF OnStream, Pending, Signals, FftDone
<1>3. ShapeInv'
  BY <1>1 DEF ShapeInv
<1>4. RingInv'
  <2> SUFFICES ASSUME NEW r \in Rings PROVE RingAt(r)'
    BY DEF RingInv
  <2>1. \A k : Holds(r, k)' <=> Holds(r, k)
    BY <1>1, <1>2 DEF Holds, Count
  <2>2. RingAt(r)
    BY DEF RingInv
  <2> QED BY <1>1, <1>2, <2>1, <2>2 DEF RingAt
<1>5. AudioInv'
  <2>1. \A k : AudioHolds(k)' <=> AudioHolds(k)
    BY <1>1 DEF AudioHolds
  <2>2. aProd \in Nat /\ aCons \in Nat
    BY DEF InputInv, TypeOK
  <2>3. AudioHolds(aCons)
    BY <1>1, <2>2 DEF AudioHolds
  <2>4. apc' # "poll"
    BY <1>1
  <2>5. aOut' <= fftOut'[2] /\ (OnStream("audio")' /\ FftDone' => aOut' < fftOut'[2])
    BY <1>1, <1>2, <2>2, <2>3 DEF AudioInv
  <2>6. apc' = "push" => aCons' < aProd' /\ aOut' = aRing'[aCons' % AudioRing]
    BY <1>1, <2>2
  <2> QED BY <1>1, <1>2, <2>1, <2>4, <2>5, <2>6 DEF AudioInv
<1> QED BY <1>3, <1>4, <1>5

LEMMA AudioFreeOut ==
  ASSUME OutputInv, InputInv', AudioFree
  PROVE  OutputInv'
<1> USE DEF OutputInv
<1>1. /\ apc = "push" /\ aCons' = aCons + 1 /\ apc' = "poll"
      /\ UNCHANGED <<aOut, chPc, stream, bufNum, ring, pos, fftOut, aProd, aRing>>
  BY DEF AudioFree, chVars, devVars
<1>2. /\ \A t : OnStream(t)' <=> OnStream(t)
      /\ \A t : Pending(t)' <=> Pending(t)
      /\ \A t : Signals(t)' <=> Signals(t)
      /\ FftDone' <=> FftDone
  BY <1>1 DEF OnStream, Pending, Signals, FftDone
<1>3. ShapeInv'
  BY <1>1 DEF ShapeInv
<1>4. RingInv'
  <2> SUFFICES ASSUME NEW r \in Rings PROVE RingAt(r)'
    BY DEF RingInv
  <2>1. \A k : Holds(r, k)' <=> Holds(r, k)
    BY <1>1, <1>2 DEF Holds, Count
  <2>2. RingAt(r)
    BY DEF RingInv
  <2> QED BY <1>1, <1>2, <2>1, <2>2 DEF RingAt
<1>5. AudioInv'
  <2>1. aProd \in Nat /\ aCons \in Nat /\ AudioRing \in Nat
    BY Constants DEF InputInv, TypeOK
  <2>2. \A k \in Nat : AudioHolds(k)' => AudioHolds(k) /\ aCons < k
    BY <1>1, <2>1 DEF AudioHolds
  <2>3. aCons < aProd /\ aOut = aRing[aCons % AudioRing] /\ AudioHolds(aCons)
    BY <1>1, <2>1 DEF AudioInv, AudioHolds
  <2>4. \A k \in Nat : AudioHolds(k)' => aOut < aRing[k % AudioRing]
    BY <2>1, <2>2, <2>3 DEF AudioInv
  <2>5. aCons' <= aProd' /\ aProd' <= aCons' + AudioRing
        /\ (OnStream("audio")' => aProd' < aCons' + AudioRing)
    BY <1>1, <1>2, <2>1, <2>3 DEF AudioInv
  <2>6. apc' # "push"
    BY <1>1
  <2> QED BY <1>1, <1>2, <2>2, <2>4, <2>5, <2>6 DEF AudioInv
<1> QED BY <1>3, <1>4, <1>5

LEMMA ChCopyOut ==
  ASSUME OutputInv, InputInv', ChCopy, HostCopyWaits
  PROVE  OutputInv'
<1> DEFINE new == Fft \o Audio
<1>1. /\ chPc = "copy" /\ stream = << >> /\ stream' = stream \o Fft \o Audio /\ chPc' = "compose"
      /\ UNCHANGED <<fftOut, bufNum, pos, ring, aProd, aRing, aCons, aOut, apc>>
  BY DEF ChCopy, EnqueueFft, devVars, audVars
<1>2. TypeOK /\ TypeOK'
  BY DEF OutputInv, InputInv
<1>3. /\ stream' = new /\ new \in Seq(Ops) /\ 1 \in DOMAIN new /\ new[1] = Fft[1]
      /\ \A i \in DOMAIN new : i # 1 =>
           (i = 2 /\ new[i] = AudioPut[1]) \/ (i = 3 /\ new[i] = AudioPut[2])
      /\ 2 \in DOMAIN new <=> 3 \in DOMAIN new
      /\ 2 \in DOMAIN new => aProd - aCons < AudioRing
  BY <1>1, <1>2, FirstHalf, NewOps
<1> HIDE DEF new
<1>4. /\ \A t : ~ OnStream(t)
      /\ OnStream("audio")' => 2 \in DOMAIN new
      /\ ~ FftDone' /\ (\A t : ~ Signals(t)')
      /\ \A t : Pending(t)' /\ ~ Pending(t)
  BY <1>1, <1>3, OpFields DEF OnStream, FftDone, Signals, Pending
<1>5. ShapeInv'
  <2> DEFINE Right(i, st) ==
        /\ st[i].op = "fft" => i = 1 /\ st[i].to = "in"
        /\ st[i].op = "put" =>
             /\ i + 1 \in DOMAIN st
             /\ st[i + 1].op = "signal" /\ st[i + 1].to = st[i].to
             /\ st[i].slot = (IF st[i].to = "audio" THEN aProd' % AudioRing
                              ELSE bufNum'[st[i].to] % Buffers)
        /\ st[i].op = "signal" =>
             /\ i > 1 => st[i - 1].op = "put" /\ st[i - 1].to = st[i].to
             /\ \A j \in DOMAIN st : j > i => st[j].to # st[i].to
  <2>1. "in" \notin Rings /\ "audio" \notin Rings
    BY Constants
  <2>2. ASSUME NEW i \in DOMAIN new PROVE Right(i, new) /\ new[i].to \notin Rings
    <3>1. CASE i = 1
      BY <1>3, <2>1, <3>1, OpFields
    <3>2. CASE i = 2
      <4>1. new[2] = AudioPut[1] /\ new[3] = AudioPut[2] /\ i + 1 = 3 /\ 3 \in DOMAIN new
        BY <1>3, <2>2, <3>2
      <4> QED BY <1>1, <2>1, <3>2, <4>1, OpFields
    <3>3. CASE i = 3
      <4>1. new[2] = AudioPut[1] /\ new[3] = AudioPut[2] /\ i - 1 = 2
        BY <1>3, <2>2, <3>3
      <4>2. \A j \in DOMAIN new : ~ (j > 3)
        BY <1>3
      <4> QED BY <2>1, <3>3, <4>1, <4>2, OpFields
    <3> QED BY <1>3, <2>2, <3>1, <3>2, <3>3
  <2>3. \A i \in DOMAIN stream' : Right(i, stream')
    BY <1>3, <2>2
  <2>4. \A i \in DOMAIN stream' : stream'[i].to \notin Rings
    BY <1>3, <2>2
  <2> QED BY <2>3, <2>4 DEF ShapeInv
<1>6. fftOut[2] <= fftOut'[2]
  BY <1>1, <1>2, LastFftType
<1>7. RingInv'
  <2> SUFFICES ASSUME NEW r \in Rings PROVE RingAt(r)'
    BY DEF RingInv
  <2>1. RingAt(r) /\ bufNum[r] \in Nat
    BY <1>2, CountType DEF OutputInv, RingInv
  <2>2. Count(r) <= Count(r)'
    BY <1>1, <1>4, <2>1 DEF Count
  <2> QED BY <1>1, <1>2, <1>4, <1>6, <2>1, <2>2, RingKept
<1>8. AudioInv'
  <2>1. OnStream("audio")' => aProd < aCons + AudioRing
    <3>1. aProd \in Nat /\ aCons \in Nat
      BY <1>2 DEF TypeOK
    <3> QED BY <1>3, <1>4, <3>1, Constants
  <2> QED BY <1>1, <1>2, <1>4, <1>6, <2>1, AudioKept DEF OutputInv
<1> QED BY <1>5, <1>7, <1>8 DEF OutputInv
LEMMA ChComposeOut ==
  ASSUME OutputInv, InputInv', ChCompose
  PROVE  OutputInv'
<1> DEFINE new == Composites
           L == Len(stream)
<1>1. /\ chPc = "compose" /\ stream' = stream \o new /\ chPc' = "copy"
      /\ UNCHANGED <<fftOut, bufNum, pos, ring, aProd, aRing, aCons, aOut, apc>>
  BY DEF ChCompose, devVars, audVars
<1>2. TypeOK /\ TypeOK' /\ stream \in Seq(Ops) /\ ShapeInv
  BY DEF OutputInv, InputInv, TypeOK
<1>3. /\ new \in Seq(Ops) /\ DOMAIN new = 1 .. Len(new) /\ Len(new) \in {2, 4}
      /\ Len(new) = 4 <=> "cw" \in Rings
      /\ new[1] = Put("hf")[1] /\ new[2] = Put("hf")[2]
      /\ Len(new) = 4 => new[3] = Put("cw")[1] /\ new[4] = Put("cw")[2]
  BY <1>2, SecondHalf
<1> HIDE DEF new
<1>4. /\ L \in Nat /\ DOMAIN stream = 1 .. L /\ DOMAIN stream' = 1 .. L + Len(new)
      /\ \A i \in 1 .. L : stream'[i] = stream[i]
      /\ \A m \in 1 .. Len(new) : stream'[L + m] = new[m]
  BY <1>1, <1>2, <1>3, Joined
<1> HIDE DEF L
<1>5. \A i \in DOMAIN stream' : i \in DOMAIN stream \/ \E m \in DOMAIN new : i = L + m
  <2> SUFFICES ASSUME NEW i \in 1 .. L + Len(new), i \notin 1 .. L
               PROVE  \E m \in 1 .. Len(new) : i = L + m
    BY <1>3, <1>4
  <2>1. i - L \in 1 .. Len(new) /\ i = L + (i - L)
    BY <1>3, <1>4
  <2> QED BY <2>1
<1>6. \A m \in DOMAIN new : new[m].op # "fft" /\ new[m].to \in Rings
  <2> SUFFICES ASSUME NEW m \in DOMAIN new PROVE new[m].op # "fft" /\ new[m].to \in Rings
    OBVIOUS
  <2>1. m \in {1, 2} \/ (m \in {3, 4} /\ Len(new) = 4)
    BY <1>3
  <2> QED BY <1>3, <2>1, OpFields, Constants
<1>7. /\ \A t : t \notin Rings => (OnStream(t)' <=> OnStream(t))
      /\ \A r \in Rings : OnStream(r)'
      /\ FftDone' <=> FftDone
      /\ \A t : Signals(t)' => Signals(t)
  <2>1. \A t : OnStream(t) => OnStream(t)'
    <3> SUFFICES ASSUME NEW t, NEW i \in DOMAIN stream, stream[i].to = t PROVE OnStream(t)'
      BY DEF OnStream
    <3>1. i \in DOMAIN stream' /\ stream'[i] = stream[i]
      BY <1>3, <1>4
    <3> QED BY <3>1 DEF OnStream
  <2>2. \A t : t \notin Rings /\ OnStream(t)' => OnStream(t)
    <3> SUFFICES ASSUME NEW t, t \notin Rings, NEW i \in DOMAIN stream', stream'[i].to = t
                 PROVE  OnStream(t)
      BY DEF OnStream
    <3>1. i \in DOMAIN stream
      <4> SUFFICES ASSUME NEW m \in DOMAIN new, i = L + m PROVE FALSE
        BY <1>5
      <4>1. stream'[i] = new[m]
        BY <1>3, <1>4
      <4> QED BY <1>6, <4>1
    <3> QED BY <1>4, <3>1 DEF OnStream
  <2>3. \A r \in Rings : OnStream(r)'
    <3> SUFFICES ASSUME NEW r \in Rings PROVE \E i \in DOMAIN stream' : stream'[i].to = r
      BY DEF OnStream
    <3>1. CASE r = "hf"
      <4>1. 1 \in 1 .. Len(new) /\ L + 1 \in DOMAIN stream'
        BY <1>3, <1>4
      <4>2. stream'[L + 1].to = "hf"
        BY <1>3, <1>4, <4>1, OpFields
      <4> QED BY <3>1, <4>1, <4>2
    <3>2. CASE r = "cw"
      <4>1. 3 \in 1 .. Len(new) /\ L + 3 \in DOMAIN stream' /\ Len(new) = 4
        BY <1>3, <1>4, <3>2
      <4>2. stream'[L + 3].to = "cw"
        BY <1>3, <1>4, <4>1, OpFields
      <4> QED BY <3>2, <4>1, <4>2
    <3> QED BY <3>1, <3>2, Constants
  <2>4. FftDone' => FftDone
    <3>1. \A i \in DOMAIN stream : i \in DOMAIN stream' /\ stream'[i] = stream[i]
      BY <1>3, <1>4
    <3> QED BY <3>1 DEF FftDone
  <2>5. FftDone => FftDone'
    <3> SUFFICES ASSUME FftDone, NEW i \in DOMAIN stream' PROVE stream'[i].op # "fft"
      BY DEF FftDone
    <3>1. CASE i \in DOMAIN stream
      BY <1>4, <3>1 DEF FftDone
    <3>2. ASSUME NEW m \in DOMAIN new, i = L + m PROVE stream'[i].op # "fft"
      <4>1. stream'[i] = new[m]
        BY <1>3, <1>4, <3>2
      <4> QED BY <1>6, <4>1
    <3> QED BY <1>5, <3>1, <3>2
  <2>6. \A t : Signals(t)' => Signals(t)
    <3>1. CASE L = 0
      <4>1. stream'[1] = new[1]
        <5>1. 1 \in 1 .. Len(new) /\ L + 1 = 1
          BY <1>3, <3>1
        <5> QED BY <1>4, <5>1
      <4> QED BY <1>3, <4>1, OpFields DEF Signals
    <3>2. CASE L # 0
      <4>1. 1 \in DOMAIN stream /\ stream # << >> /\ stream'[1] = stream[1]
        BY <1>4, <3>2
      <4> QED BY <4>1 DEF Signals
    <3> QED BY <3>1, <3>2
  <2> QED BY <2>1, <2>2, <2>3, <2>4, <2>5, <2>6
<1>8. ShapeInv'
  <2> DEFINE Right(i, st) ==
        /\ st[i].op = "fft" => i = 1 /\ st[i].to = "in"
        /\ st[i].op = "put" =>
             /\ i + 1 \in DOMAIN st
             /\ st[i + 1].op = "signal" /\ st[i + 1].to = st[i].to
             /\ st[i].slot = (IF st[i].to = "audio" THEN aProd' % AudioRing
                              ELSE bufNum'[st[i].to] % Buffers)
        /\ st[i].op = "signal" =>
             /\ i > 1 => st[i - 1].op = "put" /\ st[i - 1].to = st[i].to
             /\ \A j \in DOMAIN st : j > i => st[j].to # st[i].to
  <2>1. ASSUME NEW i \in DOMAIN stream PROVE Right(i, stream')
    <3>1. Right(i, stream) /\ stream[i].to \notin Rings
      BY <1>1, <1>2, <2>1 DEF ShapeInv
    <3>2. /\ stream'[i] = stream[i] /\ i \in Nat
          /\ i + 1 \in DOMAIN stream => i + 1 \in DOMAIN stream' /\ stream'[i + 1] = stream[i + 1]
          /\ i > 1 => stream'[i - 1] = stream[i - 1]
      BY <1>3, <1>4, <2>1
    <3>3. ASSUME NEW j \in DOMAIN stream', j > i, stream[i].op = "signal"
          PROVE  stream'[j].to # stream[i].to
      <4>1. CASE j \in DOMAIN stream
        BY <1>4, <3>1, <3>3, <4>1
      <4>2. ASSUME NEW m \in DOMAIN new, j = L + m PROVE stream'[j].to # stream[i].to
        <5>1. stream'[j] = new[m]
          BY <1>3, <1>4, <4>2
        <5> QED BY <1>6, <3>1, <5>1
      <4> QED BY <1>5, <3>3, <4>1, <4>2
    <3> QED BY <3>1, <3>2, <3>3
  <2>2. ASSUME NEW m \in DOMAIN new PROVE Right(L + m, stream')
    <3>1. stream'[L + 1] = Put("hf")[1] /\ stream'[L + 2] = Put("hf")[2]
      <4>1. 1 \in 1 .. Len(new) /\ 2 \in 1 .. Len(new)
        BY <1>3
      <4> QED BY <1>3, <1>4, <4>1
    <3>2. Len(new) = 4 => stream'[L + 3] = Put("cw")[1] /\ stream'[L + 4] = Put("cw")[2]
      <4>1. Len(new) = 4 => 3 \in 1 .. Len(new) /\ 4 \in 1 .. Len(new)
        OBVIOUS
      <4> QED BY <1>3, <1>4, <4>1
    <3>3. CASE m = 1
      <4>1. (L + m) + 1 = L + 2 /\ L + 2 \in DOMAIN stream' /\ L + m = L + 1
        BY <1>3, <1>4, <3>3
      <4>2. /\ stream'[L + 1].op = "put" /\ stream'[L + 1].to = "hf"
            /\ stream'[L + 1].slot = bufNum'["hf"] % Buffers
            /\ stream'[L + 2].op = "signal" /\ stream'[L + 2].to = "hf"
        BY <1>1, <3>1, OpFields
      <4> QED BY <4>1, <4>2
    <3>4. CASE m = 2
      <4>1. (L + m) - 1 = L + 1 /\ L + m = L + 2
        BY <1>3, <1>4, <3>4
      <4>2. ASSUME NEW j \in DOMAIN stream', j > L + 2 PROVE stream'[j].to = "cw"
        <5>1. Len(new) = 4 /\ (j = L + 3 \/ j = L + 4)
          <6> DEFINE n == Len(new)
          <6>1. L \in Nat /\ j \in 1 .. L + n /\ (n = 2 \/ n = 4)
            BY <1>3, <1>4, <4>2
          <6> HIDE DEF n
          <6>2. n = 4 /\ (j = L + 3 \/ j = L + 4)
            BY <4>2, <6>1
          <6> QED BY <6>2 DEF n
        <5> QED BY <3>2, <5>1, OpFields
      <4> QED BY <3>1, <4>1, <4>2, OpFields
    <3>5. CASE m = 3
      <4>1. (L + m) + 1 = L + 4 /\ L + 4 \in DOMAIN stream' /\ L + m = L + 3 /\ Len(new) = 4
        BY <1>3, <1>4, <2>2, <3>5
      <4>2. /\ stream'[L + 3].op = "put" /\ stream'[L + 3].to = "cw"
            /\ stream'[L + 3].slot = bufNum'["cw"] % Buffers
            /\ stream'[L + 4].op = "signal" /\ stream'[L + 4].to = "cw"
        <5>1. stream'[L + 3] = Put("cw")[1] /\ stream'[L + 4] = Put("cw")[2]
          BY <3>2, <4>1
        <5> QED BY <1>1, <5>1, OpFields
      <4> QED BY <4>1, <4>2
    <3>6. CASE m = 4
      <4>1. (L + m) - 1 = L + 3 /\ L + m = L + 4 /\ Len(new) = 4
        BY <1>3, <1>4, <2>2, <3>6
      <4>2. \A j \in DOMAIN stream' : ~ (j > L + 4)
        BY <1>3, <1>4, <4>1
      <4> QED BY <3>2, <4>1, <4>2, OpFields
    <3>7. m \in 1 .. 4
      BY <1>3, <2>2
    <3> QED BY <3>3, <3>4, <3>5, <3>6, <3>7
  <2>3. \A i \in DOMAIN stream' : Right(i, stream')
    BY <1>5, <2>1, <2>2
  <2>4. chPc' # "compose"
    BY <1>1
  <2> QED BY <2>3, <2>4 DEF ShapeInv
<1>9. fftOut[2] <= fftOut'[2]
  BY <1>1, <1>2, LastFftType
<1>10. RingInv'
  <2> SUFFICES ASSUME NEW r \in Rings PROVE RingAt(r)'
    BY DEF RingInv
  <2>1. RingAt(r) /\ bufNum[r] \in Nat
    BY <1>2, CountType DEF OutputInv, RingInv
  <2>2. Pending(r) /\ Pending(r)'
    BY <1>1, <1>7 DEF Pending
  <2>3. Count(r) <= Count(r)'
    BY <1>1, <2>1, <2>2 DEF Count
  <2>4. Signals(r)' => ring'[r][bufNum[r] % Buffers] = fftOut'[2]
    BY <1>1, <1>7, <2>1 DEF RingAt
  <2> QED BY <1>1, <1>2, <1>7, <1>9, <2>1, <2>2, <2>3, <2>4, RingKept
<1>11. AudioInv'
  <2>1. (OnStream("audio")' <=> OnStream("audio")) /\ AudioInv
    BY <1>7, Constants DEF OutputInv
  <2>2. OnStream("audio")' => aProd < aCons + AudioRing
    BY <2>1 DEF AudioInv
  <2>3. Signals("audio")' => aRing'[aProd % AudioRing] = fftOut'[2]
    BY <1>1, <1>7, <2>1 DEF AudioInv
  <2> QED BY <1>1, <1>2, <1>7, <1>9, <2>1, <2>2, <2>3, AudioKept
<1> QED BY <1>8, <1>10, <1>11 DEF OutputInv
LEMMA DevFftOut ==
  ASSUME OutputInv, InputInv', DevFft
  PROVE  OutputInv'
<1>1. /\ stream # << >> /\ Head(stream).op = "fft" /\ stream' = Tail(stream)
      /\ fftOut'[2] = Head(stream).slot
      /\ UNCHANGED <<chPc, bufNum, pos, ring, aProd, aRing, aCons, aOut, apc>>
  BY DEF DevFft, RunFft, chVars, audVars
<1>2. TypeOK /\ TypeOK' /\ ShapeInv /\ StreamInv
  BY DEF OutputInv, InputInv
<1>3. Head(stream) = stream[1] /\ 1 \in DOMAIN stream /\ stream[1] \in Ops
  BY <1>1, <1>2, HeadTail DEF TypeOK
<1>4. fftOut[2] < fftOut'[2] /\ fftOut[2] <= fftOut'[2]
  <2>1. fftOut[2] < stream[1].slot /\ stream[1].slot \in Nat /\ fftOut[2] \in Int
    BY <1>1, <1>2, <1>3, LastFftType DEF StreamInv, OpAt, Ops
  <2> QED BY <1>1, <1>3, <2>1
<1>5. /\ \A t : t # "in" => (OnStream(t)' <=> OnStream(t))
      /\ \A t : ~ Signals(t)'
  BY <1>1, <1>2, <1>3, Popped
<1>6. ShapeInv'
  BY <1>1, <1>2, ShapePopped
<1>7. RingInv'
  <2> SUFFICES ASSUME NEW r \in Rings PROVE RingAt(r)'
    BY DEF RingInv
  <2>1. RingAt(r) /\ bufNum[r] \in Nat /\ r # "in"
    BY <1>2, CountType, Constants DEF OutputInv, RingInv
  <2>2. Pending(r)' <=> Pending(r)
    BY <1>1, <1>5, <2>1 DEF Pending
  <2>3. Count(r) <= Count(r)'
    BY <1>1, <2>1, <2>2 DEF Count
  <2> QED BY <1>1, <1>2, <1>4, <1>5, <2>1, <2>3, RingKept
<1>8. AudioInv'
  <2>1. OnStream("audio")' => aProd < aCons + AudioRing
    BY <1>5 DEF OutputInv, AudioInv
  <2> QED BY <1>1, <1>2, <1>4, <1>5, <2>1, AudioKept DEF OutputInv
<1> QED BY <1>6, <1>7, <1>8 DEF OutputInv

(* The put of ring r goes to the one slot in which no block is held.       *)
LEMMA PutKeepsHeld ==
  ASSUME OutputInv, DevPut, NEW r \in Rings, NEW k \in Nat, Holds(r, k)
  PROVE  ring'[r][k % Buffers] = ring[r][k % Buffers]
<1> DEFINE o == stream[1]
<1>1. TypeOK /\ ShapeInv /\ StreamInv /\ stream # << >> /\ Head(stream).op = "put"
  BY DEF OutputInv, InputInv, DevPut
<1>2. Head(stream) = o /\ 1 \in DOMAIN stream /\ o \in Ops /\ o.op = "put"
  BY <1>1, HeadTail DEF TypeOK
<1>3. /\ o.to = "audio" => ring' = ring
      /\ o.to # "audio" => ring' = [ring EXCEPT ![o.to][o.slot] = fftOut[2]]
  BY <1>2 DEF DevPut
<1>4. ring \in [Rings -> [0 .. Buffers - 1 -> Block]] /\ r # "audio"
  BY <1>1, Constants DEF TypeOK
<1>5. o.to = r => o.slot = bufNum[r] % Buffers /\ OnStream(r)
  BY <1>1, <1>2, <1>4 DEF ShapeInv, OnStream
<1> HIDE DEF o
<1>6. CASE o.to # r
  BY <1>3, <1>4, <1>6
<1>7. CASE o.to = r
  <2>1. bufNum[r] \in Nat
    BY <1>1, CountType
  <2>2. Count(r) = bufNum[r] + 1
    BY <1>5, <1>7 DEF Count, Pending
  <2>3. k < bufNum[r] /\ bufNum[r] < k + Buffers
    BY <2>1, <2>2, Constants DEF Holds
  <2>4. k % Buffers # bufNum[r] % Buffers /\ k % Buffers \in 0 .. Buffers - 1
    BY <2>1, <2>3, Constants, ModInjective, ModRange
  <2>5. ring'[r] = [ring[r] EXCEPT ![o.slot] = fftOut[2]]
    BY <1>3, <1>4, <1>7
  <2> QED BY <1>4, <1>5, <1>7, <2>4, <2>5
<1> QED BY <1>6, <1>7

LEMMA DevPutOut ==
  ASSUME OutputInv, InputInv', DevPut
  PROVE  OutputInv'
<1> DEFINE o == stream[1]
<1>1. /\ stream # << >> /\ Head(stream).op = "put" /\ stream' = Tail(stream)
      /\ UNCHANGED <<fftOut, chPc, bufNum, pos, aProd, aCons, aOut, apc>>
  BY DEF DevPut, chVars, audVars
<1>2. TypeOK /\ TypeOK' /\ ShapeInv /\ StreamInv
  BY DEF OutputInv, InputInv
<1>3. Head(stream) = o /\ 1 \in DOMAIN stream /\ o \in Ops /\ o.op = "put"
  BY <1>1, <1>2, HeadTail DEF TypeOK
<1>4. /\ o.to = "audio" => aRing' = [aRing EXCEPT ![o.slot] = fftOut[2]] /\ ring' = ring
      /\ o.to # "audio" => ring' = [ring EXCEPT ![o.to][o.slot] = fftOut[2]] /\ aRing' = aRing
  BY <1>3 DEF DevPut
<1>5. /\ o.to \in Rings \cup {"audio"} /\ o.slot \in Nat
      /\ o.slot < (IF o.to = "audio" THEN AudioRing ELSE Buffers)
      /\ o.slot = (IF o.to = "audio" THEN aProd % AudioRing ELSE bufNum[o.to] % Buffers)
  <2>1. /\ o.to \in Rings \cup {"audio"}
        /\ o.slot < (IF o.to = "audio" THEN AudioRing ELSE Buffers)
    BY <1>2, <1>3 DEF StreamInv, OpAt
  <2>2. o.slot = (IF o.to = "audio" THEN aProd % AudioRing ELSE bufNum[o.to] % Buffers)
    BY <1>2, <1>3 DEF ShapeInv
  <2>3. o.slot \in Nat
    BY <1>3 DEF Ops
  <2> QED BY <2>1, <2>2, <2>3
<1>6. /\ FftDone /\ \A t : (OnStream(t)' <=> OnStream(t))
      /\ \A t : Signals(t)' => t = o.to
  BY <1>1, <1>2, <1>3, Popped
<1>7. ShapeInv'
  BY <1>1, <1>2, ShapePopped
<1>8. fftOut[2] <= fftOut'[2] /\ fftOut' = fftOut
  BY <1>1, <1>2, LastFftType
<1> HIDE DEF o
<1>9. RingInv'
  <2> SUFFICES ASSUME NEW r \in Rings PROVE RingAt(r)'
    BY DEF RingInv
  <2>1. RingAt(r) /\ bufNum[r] \in Nat /\ r # "audio"
    BY <1>2, CountType, Constants DEF OutputInv, RingInv
  <2>2. Pending(r)' <=> Pending(r)
    BY <1>1, <1>6 DEF Pending
  <2>3. Count(r)' = Count(r) /\ Count(r) <= Count(r)'
    <3>1. Count(r)' = Count(r)
      BY <1>1, <2>2 DEF Count
    <3> QED BY <1>2, <3>1, CountType
  <2>4. CASE o.to = r
    <3>1. o.slot \in 0 .. Buffers - 1 /\ o.slot = bufNum[r] % Buffers
      BY <1>5, <2>1, <2>4, Constants
    <3>2. ring \in [Rings -> [0 .. Buffers - 1 -> Block]]
      BY <1>2 DEF TypeOK
    <3>3. ring'[r] = [ring[r] EXCEPT ![o.slot] = fftOut[2]]
      BY <1>4, <2>1, <2>4, <3>2
    <3>4. ring'[r][o.slot] = fftOut[2]
      BY <3>1, <3>2, <3>3
    <3>5. ASSUME NEW k \in Nat, Holds(r, k)
          PROVE  ring'[r][k % Buffers] = ring[r][k % Buffers]
      BY <3>5, PutKeepsHeld
    <3> QED BY <1>1, <1>2, <1>6, <1>8, <2>1, <2>2, <2>3, <3>1, <3>4, <3>5, RingKept
  <2>5. CASE o.to # r
    <3>1. ring'[r] = ring[r]
      <4>1. ring \in [Rings -> [0 .. Buffers - 1 -> Block]]
        BY <1>2 DEF TypeOK
      <4> QED BY <1>4, <2>5, <4>1
    <3>2. ~ Signals(r)'
      BY <1>6, <2>5
    <3> QED BY <1>1, <1>2, <1>6, <1>8, <2>1, <2>2, <2>3, <3>1, <3>2, RingKept
  <2> QED BY <2>4, <2>5
<1>10. AudioInv'
  <2>1. AudioInv /\ aProd \in Nat /\ aCons \in Nat /\ aRing \in [0 .. AudioRing - 1 -> Block]
    BY <1>2 DEF OutputInv, TypeOK
  <2>2. OnStream("audio")' => aProd < aCons + AudioRing
    BY <1>6, <2>1 DEF AudioInv
  <2>3. CASE o.to = "audio"
    <3>1. o.slot \in 0 .. AudioRing - 1 /\ o.slot = aProd % AudioRing
      BY <1>5, <2>3, Constants
    <3>2. aRing' = [aRing EXCEPT ![o.slot] = fftOut[2]]
      BY <1>4, <2>3
    <3>3. aRing'[o.slot] = fftOut[2]
      BY <2>1, <3>1, <3>2
    <3>4. ASSUME NEW k \in Nat, AudioHolds(k)
          PROVE  aRing'[k % AudioRing] = aRing[k % AudioRing]
      <4>1. OnStream("audio")
        BY <1>3, <2>3 DEF OnStream, o
      <4>2. k < aProd /\ aProd < k + AudioRing
        BY <2>1, <3>4, <4>1, Constants DEF AudioInv, AudioHolds
      <4>3. k % AudioRing # aProd % AudioRing /\ k % AudioRing \in 0 .. AudioRing - 1
        BY <2>1, <4>2, Constants, ModInjective, ModRange
      <4> QED BY <2>1, <3>1, <3>2, <4>3
    <3> QED BY <1>1, <1>2, <1>6, <1>8, <2>1, <2>2, <3>1, <3>3, <3>4, AudioKept
  <2>4. CASE o.to # "audio"
    <3>1. aRing' = aRing
      BY <1>4, <2>4
    <3>2. ~ Signals("audio")'
      BY <1>6, <2>4
    <3> QED BY <1>1, <1>2, <1>6, <1>8, <2>1, <2>2, <3>1, <3>2, AudioKept
  <2> QED BY <2>3, <2>4
<1> QED BY <1>7, <1>9, <1>10 DEF OutputInv
(* The callback announces the block that its put has left in the ring,     *)
(* newer than every block held there.                                      *)
LEMMA DevSignalOut ==
  ASSUME OutputInv, InputInv', DevSignal
  PROVE  OutputInv'
<1> DEFINE t == stream[1].to
<1>1. /\ stream # << >> /\ Head(stream).op = "signal" /\ stream' = Tail(stream)
      /\ UNCHANGED <<fftOut, chPc, ring, aRing, aCons, aOut, apc>>
  BY DEF DevSignal, Signal, chVars, audVars
<1>2. TypeOK /\ TypeOK' /\ ShapeInv /\ StreamInv
  BY DEF OutputInv, InputInv
<1>3. Head(stream) = stream[1] /\ 1 \in DOMAIN stream /\ stream[1].op = "signal"
  BY <1>1, <1>2, HeadTail DEF TypeOK
<1>4. /\ t = "audio" => aProd' = aProd + 1 /\ pos' = pos /\ bufNum' = bufNum
      /\ t # "audio" => /\ pos' = [pos EXCEPT ![t] = bufNum[t]]
                        /\ bufNum' = [bufNum EXCEPT ![t] = @ + 1] /\ aProd' = aProd
  BY <1>3 DEF DevSignal, Signal
<1>5. t \in Rings \cup {"audio"} /\ OnStream(t) /\ Signals(t)
  BY <1>1, <1>2, <1>3 DEF StreamInv, OpAt, OnStream, Signals
<1>6. /\ FftDone /\ FftDone' /\ (\A x : x = t => ~ OnStream(x)')
      /\ \A x : x # t => (OnStream(x)' <=> OnStream(x))
      /\ \A x : ~ Signals(x)'
  BY <1>1, <1>2, <1>3, Popped
<1>7. t \in Rings => chPc = "copy"
  BY <1>2, <1>3 DEF ShapeInv, TypeOK
<1>8. bufNum \in [Rings -> Nat] /\ pos \in [Rings -> Nat]
  BY <1>2 DEF TypeOK
<1>9. ShapeInv'
  <2>1. \A r \in Rings : t = r \/ bufNum'[r] = bufNum[r]
    BY <1>4, <1>8
  <2>2. t = "audio" \/ aProd' = aProd
    BY <1>4
  <2> QED BY <1>1, <1>2, <1>3, <2>1, <2>2, ShapePopped
<1>10. fftOut[2] <= fftOut'[2] /\ fftOut' = fftOut /\ fftOut[2] \in Int
  BY <1>1, <1>2, LastFftType
<1> HIDE DEF t
<1>11. RingInv'
  <2> SUFFICES ASSUME NEW r \in Rings PROVE RingAt(r)'
    BY DEF RingInv
  <2>1. RingAt(r) /\ bufNum[r] \in Nat /\ r # "audio"
    BY <1>2, CountType, Constants DEF OutputInv, RingInv
  <2>2. CASE t # r
    <3>1. bufNum'[r] = bufNum[r] /\ pos'[r] = pos[r]
      BY <1>4, <1>8, <2>2
    <3>2. Pending(r)' <=> Pending(r)
      BY <1>1, <1>6, <2>2 DEF Pending
    <3>3. Count(r) <= Count(r)'
      <4>1. Count(r)' = Count(r)
        BY <3>1, <3>2 DEF Count
      <4> QED BY <1>2, <4>1, CountType
    <3> QED BY <1>1, <1>2, <1>6, <1>10, <2>1, <3>1, <3>2, <3>3, RingKept
  <2>3. CASE t = r
    <3>1. bufNum'[r] = bufNum[r] + 1 /\ pos'[r] = bufNum[r]
      BY <1>4, <1>8, <2>1, <2>3
    <3>2. Pending(r) /\ ~ Pending(r)'
      BY <1>1, <1>5, <1>6, <1>7, <2>3 DEF Pending
    <3>3. Count(r) = bufNum[r] + 1 /\ Count(r)' = bufNum[r] + 1
      BY <3>1, <3>2 DEF Count
    <3>4. \A k \in Nat : Holds(r, k)' => Holds(r, k) \/ k = bufNum[r]
      BY <2>1, <3>1, <3>3, Constants DEF Holds
    <3>5. ring[r][bufNum[r] % Buffers] = fftOut[2]
      BY <1>5, <2>1, <2>3 DEF RingAt
    <3>6. \A k \in Nat : Holds(r, k) => ring[r][k % Buffers] < fftOut[2]
      BY <1>6, <2>1, <3>2 DEF RingAt
    <3>7. \A j, k \in Nat : Holds(r, j)' /\ Holds(r, k)' /\ j < k =>
            ring'[r][j % Buffers] < ring'[r][k % Buffers]
      <4> SUFFICES ASSUME NEW j \in Nat, NEW k \in Nat, Holds(r, j)', Holds(r, k)', j < k
                   PROVE  ring[r][j % Buffers] < ring[r][k % Buffers]
        BY <1>1
      <4>1. j # bufNum[r]
        BY <2>1, <3>1 DEF Holds
      <4>2. CASE k = bufNum[r]
        BY <3>4, <3>5, <3>6, <4>1, <4>2
      <4>3. CASE k # bufNum[r]
        BY <2>1, <3>4, <4>1, <4>3 DEF RingAt
      <4> QED BY <4>2, <4>3
    <3>8. \A k \in Nat : Holds(r, k)' => ring'[r][k % Buffers] <= fftOut'[2]
      <4> SUFFICES ASSUME NEW k \in Nat, Holds(r, k)' PROVE ring[r][k % Buffers] <= fftOut[2]
        BY <1>1
      <4>1. CASE k = bufNum[r]
        BY <1>10, <3>5, <4>1
      <4>2. CASE k # bufNum[r]
        BY <2>1, <3>4, <4>2 DEF RingAt
      <4> QED BY <4>1, <4>2
    <3>9. pos'[r] = IF bufNum'[r] = 0 THEN 0 ELSE bufNum'[r] - 1
      BY <2>1, <3>1
    <3> QED BY <1>6, <3>2, <3>7, <3>8, <3>9 DEF RingAt
  <2> QED BY <2>2, <2>3
<1>12. AudioInv'
  <2>1. AudioInv /\ aProd \in Nat /\ aCons \in Nat /\ aOut \in Int
    BY <1>2, RingTypes DEF OutputInv, TypeOK
  <2>2. CASE t # "audio"
    <3>1. OnStream("audio")' <=> OnStream("audio")
      BY <1>6, <2>2
    <3>2. OnStream("audio")' => aProd < aCons + AudioRing
      BY <2>1, <3>1 DEF AudioInv
    <3>3. aProd' = aProd
      BY <1>4, <2>2
    <3> QED BY <1>1, <1>2, <1>6, <1>10, <2>1, <3>1, <3>2, <3>3, AudioKept
  <2>3. CASE t = "audio"
    <3>1. aProd' = aProd + 1 /\ OnStream("audio") /\ ~ OnStream("audio")'
      BY <1>4, <1>5, <1>6, <2>3
    <3>2. \A k \in Nat : AudioHolds(k)' => AudioHolds(k) \/ k = aProd
      BY <1>1, <2>1, <3>1 DEF AudioHolds
    <3>3. aRing[aProd % AudioRing] = fftOut[2]
      BY <1>5, <2>1, <2>3 DEF AudioInv
    <3>4. /\ \A k \in Nat : AudioHolds(k) => aRing[k % AudioRing] < fftOut[2]
          /\ aOut < fftOut[2] /\ aOut <= fftOut[2]
      BY <1>6, <2>1, <3>1 DEF AudioInv
    <3>5. \A j, k \in Nat : AudioHolds(j)' /\ AudioHolds(k)' /\ j < k =>
            aRing'[j % AudioRing] < aRing'[k % AudioRing]
      <4> SUFFICES ASSUME NEW j \in Nat, NEW k \in Nat, AudioHolds(j)', AudioHolds(k)', j < k
                   PROVE  aRing[j % AudioRing] < aRing[k % AudioRing]
        BY <1>1
      <4>1. j # aProd
        BY <2>1, <3>1 DEF AudioHolds
      <4>2. CASE k = aProd
        BY <3>2, <3>3, <3>4, <4>1, <4>2
      <4>3. CASE k # aProd
        BY <2>1, <3>2, <4>1, <4>3 DEF AudioInv
      <4> QED BY <4>2, <4>3
    <3>6. \A k \in Nat : AudioHolds(k)' =>
            /\ aRing'[k % AudioRing] <= fftOut'[2]
            /\ apc' = "poll" => aOut' < aRing'[k % AudioRing]
      <4> SUFFICES ASSUME NEW k \in Nat, AudioHolds(k)'
                   PROVE  /\ aRing[k % AudioRing] <= fftOut[2]
                          /\ apc = "poll" => aOut < aRing[k % AudioRing]
        BY <1>1
      <4>1. CASE k = aProd
        BY <1>10, <3>3, <3>4, <4>1
      <4>2. CASE k # aProd
        BY <2>1, <3>2, <4>2 DEF AudioInv
      <4> QED BY <4>1, <4>2
    <3>7. aCons' <= aProd' /\ aProd' <= aCons' + AudioRing
      <4>1. aCons <= aProd /\ aProd < aCons + AudioRing
        BY <2>1, <3>1 DEF AudioInv
      <4> QED BY <1>1, <2>1, <3>1, <4>1, Constants
    <3>8. apc' = "push" => aCons' < aProd' /\ aOut' = aRing'[aCons' % AudioRing]
      <4>1. apc = "push" => aCons < aProd /\ aOut = aRing[aCons % AudioRing]
        BY <2>1 DEF AudioInv
      <4>2. aCons < aProd => aCons < aProd + 1
        BY <2>1
      <4> QED BY <1>1, <3>1, <4>1, <4>2
    <3>9. aOut' <= fftOut'[2]
      BY <1>1, <3>4
    <3> QED BY <1>6, <3>1, <3>5, <3>6, <3>7, <3>8, <3>9 DEF AudioInv
  <2> QED BY <2>2, <2>3
<1> QED BY <1>9, <1>11, <1>12 DEF OutputInv

-----------------------------------------------------------------------------
LEMMA OutputInit == Init => OutputInv
<1> SUFFICES ASSUME Init PROVE OutputInv
  OBVIOUS
<1>1. InputInv
  BY InputInit
<1>2. stream = << >> /\ chPc = "copy"
  BY DEF Init
<1>3. ShapeInv
  BY <1>2 DEF ShapeInv
<1>4. RingInv
  <2> SUFFICES ASSUME NEW r \in Rings PROVE RingAt(r)
    BY DEF RingInv
  <2>1. bufNum[r] = 0 /\ pos[r] = 0
    BY DEF Init
  <2>2. \A k \in Nat : ~ Holds(r, k)
    BY <2>1 DEF Holds
  <2> QED BY <1>2, <2>1, <2>2 DEF RingAt, Signals
<1>5. AudioInv
  <2>1. \A k \in Nat : ~ AudioHolds(k)
    BY DEF Init, AudioHolds
  <2>2. ~ OnStream("audio") /\ ~ Signals("audio")
    BY <1>2 DEF OnStream, Signals
  <2> QED BY <2>1, <2>2, Constants DEF Init, AudioInv, NoBlock
<1> QED BY <1>1, <1>3, <1>4, <1>5 DEF OutputInv

LEMMA OutputStep ==
  ASSUME HostCopyWaits
  PROVE  OutputInv /\ [Next]_vars => OutputInv'
<1> SUFFICES ASSUME OutputInv, [Next]_vars PROVE OutputInv'
  OBVIOUS
<1>1. InputInv'
  BY InputStep DEF OutputInv
<1>2. CASE Rx
  BY <1>1, <1>2, OutputSame DEF Rx, RxFill, RxPublish, chVars, devVars
<1>3. CASE ChStart \/ ChWait \/ ChDrop
  BY <1>1, <1>3, OutputSame DEF ChStart, ChWait, ChDrop, devVars
<1>4. CASE ChCopy \/ ChCompose
  BY <1>1, <1>4, ChCopyOut, ChComposeOut
<1>5. CASE DevFft \/ DevPut \/ DevSignal
  BY <1>1, <1>5, DevFftOut, DevPutOut, DevSignalOut
<1>6. CASE AudioPush \/ AudioFree
  BY <1>1, <1>6, AudioPushOut, AudioFreeOut
<1>7. CASE Mag
  BY <1>1, <1>7, OutputSame
     DEF Mag, MagStart, MagWait, MagDrop, MagCopy, EnqueueCopy, DevMag, chVars, devVars
<1>8. CASE UNCHANGED vars
  BY <1>1, <1>8, OutputSame DEF vars, chVars, devVars
<1> QED
  BY <1>2, <1>3, <1>4, <1>5, <1>6, <1>7, <1>8 DEF Next, Channelizer, Device, AudioWorker

LEMMA SignalsAreNew == OutputInv => SignalsNewBlock
<1> SUFFICES ASSUME OutputInv, NEW r \in Rings, NEW k \in 0 .. pos[r] - 1,
                    k > pos[r] - Buffers + 1
             PROVE  ring[r][k % Buffers] < ring[r][(k + 1) % Buffers]
  BY DEF SignalsNewBlock
<1>1. /\ pos[r] \in Nat /\ bufNum[r] \in Nat /\ Count(r) \in Nat
      /\ Count(r) = bufNum[r] + 1 \/ Count(r) = bufNum[r]
  BY CountType DEF OutputInv, InputInv
<1>2. RingAt(r)
  BY DEF OutputInv, RingInv
<1>3. bufNum[r] = pos[r] + 1
  <2>1. pos[r] # 0
    BY <1>1
  <2> QED BY <1>1, <1>2, <2>1 DEF RingAt
<1>4. Holds(r, k) /\ Holds(r, k + 1) /\ k \in Nat /\ k + 1 \in Nat /\ k < k + 1
  BY <1>1, <1>3, Constants DEF Holds
<1> QED BY <1>2, <1>4 DEF RingAt

(* A block that a composite's position announces is a new one, and the     *)
(* blocks behind it are in order as far back as the ring reaches: the      *)
(* slots that the host picks from counters which callbacks advance later   *)
(* are right because the copy of the input block waits for the stream.     *)
THEOREM SignalsStayNew ==
  ASSUME HostCopyWaits
  PROVE  Spec => []SignalsNewBlock
<1>1. Init => OutputInv
  BY OutputInit
<1>2. OutputInv /\ [Next]_vars => OutputInv'
  BY OutputStep
<1>3. OutputInv => SignalsNewBlock
  BY SignalsAreNew
<1> QED BY <1>1, <1>2, <1>3, PTL DEF Spec
-----------------------------------------------------------------------------
(* MagBlock and the audio worker.                                          *)

(* What a step does to the composite: the count of its blocks grows with   *)
(* the blocks given to the stream; a block that is held stays as it is;    *)
(* and one that is held from now on is the last FFT's.                     *)
HfMoves ==
  /\ bufNum["hf"] <= bufNum'["hf"]
  /\ \/ Count("hf")' = Count("hf") /\ Given <= Given'
     \/ /\ Count("hf")' = Count("hf") + 1 /\ Given' = Given + 1
        /\ chNow < chNext /\ chNext <= Given + MaxLag
  /\ fftOut[2] <= fftOut'[2]
  /\ Pending("hf")' /\ FftDone' => (Pending("hf") /\ FftDone) \/ fftOut[2] < fftOut'[2]
  /\ \A k \in Nat : Holds("hf", k)' /\ Holds("hf", k) =>
       ring'["hf"][k % Buffers] = ring["hf"][k % Buffers]
  /\ \A k \in Nat : Holds("hf", k)' /\ ~ Holds("hf", k) =>
       ring'["hf"][k % Buffers] = fftOut[2] /\ Pending("hf") /\ FftDone

LEMMA HfStep ==
  ASSUME HostCopyWaits, OutputInv, OutputInv', [Next]_vars
  PROVE  HfMoves
<1> DEFINE n == bufNum["hf"]
           c == Count("hf")
<1>1. /\ TypeOK /\ TypeOK' /\ ShapeInv /\ StreamInv /\ InputInv /\ InputInv'
      /\ RingAt("hf") /\ "hf" \in Rings
  BY Constants DEF OutputInv, InputInv, RingInv
<1>2. /\ n \in Nat /\ c \in Nat /\ (Pending("hf") => c = n + 1) /\ (~ Pending("hf") => c = n)
      /\ Given \in Nat /\ fftOut[2] \in Int /\ chNow \in Nat /\ chNext \in Nat
  BY <1>1, CountType, Counts, LastFftType DEF TypeOK
<1>3. ASSUME UNCHANGED <<stream, chPc, bufNum, ring, fftOut>>, Given <= Given' PROVE HfMoves
  <2>1. /\ Pending("hf")' <=> Pending("hf")
        /\ FftDone' <=> FftDone
    BY <1>3 DEF OnStream, Pending, FftDone
  <2>2. c' = c
    BY <1>3, <2>1 DEF Count
  <2>3. \A k \in Nat : Holds("hf", k)' <=> Holds("hf", k)
    BY <1>3, <2>2 DEF Holds
  <2> QED BY <1>2, <1>3, <2>1, <2>2, <2>3 DEF HfMoves
<1>4. CASE Rx \/ AudioWorker \/ Mag \/ UNCHANGED vars
  <2>1. UNCHANGED <<stream, chPc, bufNum, ring, fftOut, chNow>>
    BY <1>4 DEF Rx, RxFill, RxPublish, AudioWorker, AudioPush, AudioFree, Mag, MagStart, MagWait,
                MagDrop, MagCopy, EnqueueCopy, DevMag, vars, chVars, devVars
  <2>2. Given' = Given
    BY <2>1 DEF Given
  <2> QED BY <1>2, <1>3, <2>1, <2>2
<1>5. CASE ChStart \/ ChWait \/ ChDrop
  <2>1. UNCHANGED <<stream, chPc, bufNum, ring, fftOut>>
    BY <1>5 DEF ChStart, ChWait, ChDrop, devVars
  <2>2. chNow <= chNow' /\ chNow' \in Nat
    <3>1. chNow <= chNext
      BY <1>1 DEF InputInv, BatchInv
    <3>2. chNow' = chNow \/ chNow' = chNext \/ chNow = 0
      BY <1>5 DEF ChStart, ChWait, ChDrop
    <3>3. chNow' \in Nat
      BY <1>1 DEF TypeOK
    <3> QED BY <1>2, <3>1, <3>2, <3>3
  <2>3. Given <= Given'
    <3>1. \/ Given = chNow + 1 /\ Given' = chNow' + 1
          \/ Given = chNow /\ Given' = chNow'
      BY <2>1 DEF Given
    <3> QED BY <1>2, <2>2, <3>1
  <2> QED BY <1>3, <2>1, <2>3
<1>6. CASE ChCopy
  <2>1. /\ stream = << >> /\ chPc = "copy" /\ chPc' = "compose" /\ chNow < chNext
        /\ chNext - chNow <= MaxLag /\ UNCHANGED <<chNow, bufNum, ring, fftOut>>
    BY <1>6 DEF ChCopy, EnqueueFft, devVars
  <2>2. ~ Pending("hf") /\ Pending("hf")'
    BY <2>1 DEF Pending, OnStream
  <2>3. ~ FftDone'
    <3>1. stream' = Fft \o Audio
      BY <1>1, <1>6, <2>1, NewOps DEF ChCopy, EnqueueFft
    <3>2. 1 \in DOMAIN stream' /\ stream'[1] = Fft[1]
      BY <1>1, <3>1, FirstHalf
    <3> QED BY <3>2, OpFields DEF FftDone
  <2>4. c = n /\ c' = n + 1 /\ Given = chNow /\ Given' = chNow + 1
    BY <2>1, <2>2 DEF Count, Given
  <2>5. \A k \in Nat : Holds("hf", k)' => Holds("hf", k)
    BY <1>2, <2>1, <2>4, Constants DEF Holds
  <2>6. chNext <= Given + MaxLag
    BY <1>2, <2>1, <2>4, Constants
  <2>7. n <= bufNum'["hf"] /\ fftOut[2] <= fftOut'[2]
    BY <1>2, <2>1
  <2>8. c' = c + 1 /\ Given' = Given + 1
    BY <2>4
  <2> QED BY <2>1, <2>3, <2>5, <2>6, <2>7, <2>8 DEF HfMoves
<1>7. CASE ChCompose
  <2>1. /\ chPc = "compose" /\ chPc' = "copy" /\ chNow' = chNow + 1
        /\ UNCHANGED <<bufNum, ring, fftOut>> /\ stream' = stream \o Composites
    BY <1>7 DEF ChCompose, devVars
  <2>2. Composites \in Seq(Ops) /\ Composites[1].to = "hf" /\ 1 \in DOMAIN Composites
    BY <1>1, SecondHalf, OpFields
  <2>3. stream \in Seq(Ops)
    BY <1>1 DEF TypeOK
  <2>4. Pending("hf") /\ Pending("hf")'
    <3>1. Len(stream) + 1 \in DOMAIN stream' /\ stream'[Len(stream) + 1] = Composites[1]
      BY <2>1, <2>2, <2>3, Joined
    <3> QED BY <2>1, <2>2, <3>1 DEF Pending, OnStream
  <2>5. FftDone' => FftDone
    <3>1. \A i \in DOMAIN stream : i \in DOMAIN stream' /\ stream'[i] = stream[i]
      BY <2>1, <2>2, <2>3, Joined
    <3> QED BY <3>1 DEF FftDone
  <2>6. c' = c /\ Given' = Given
    BY <2>1, <2>4 DEF Count, Given
  <2>7. \A k \in Nat : Holds("hf", k)' <=> Holds("hf", k)
    BY <2>1, <2>6 DEF Holds
  <2> QED BY <1>2, <2>1, <2>4, <2>5, <2>6, <2>7 DEF HfMoves
<1>8. ASSUME stream # << >>, stream' = Tail(stream), UNCHANGED <<chPc, chNow>>
      PROVE  /\ Given' = Given
             /\ stream[1].op # "signal" \/ stream[1].to # "hf" => (Pending("hf")' <=> Pending("hf"))
             /\ stream[1].op = "signal" /\ stream[1].to = "hf" =>
                  Pending("hf") /\ ~ Pending("hf")' /\ Signals("hf")
             /\ stream[1].op # "fft" => FftDone
  <2>1. stream[1] \in Ops /\ 1 \in DOMAIN stream
    BY <1>1, <1>8, HeadTail DEF TypeOK
  <2>2. stream[1].op \in {"fft", "put", "signal"}
    BY <2>1 DEF Ops
  <2>3. Given' = Given
    BY <1>8 DEF Given
  <2>4. stream[1].op # "signal" \/ stream[1].to # "hf" => (OnStream("hf")' <=> OnStream("hf"))
    BY <1>1, <1>8, <2>2, Popped
  <2>5. stream[1].op = "signal" /\ stream[1].to = "hf" =>
          OnStream("hf") /\ ~ OnStream("hf")' /\ Signals("hf") /\ chPc = "copy"
    <3> SUFFICES ASSUME stream[1].op = "signal", stream[1].to = "hf"
                 PROVE  OnStream("hf") /\ ~ OnStream("hf")' /\ Signals("hf") /\ chPc = "copy"
      OBVIOUS
    <3>1. OnStream("hf") /\ Signals("hf")
      BY <1>8, <2>1 DEF OnStream, Signals
    <3>2. ~ OnStream("hf")'
      BY <1>1, <1>8, Popped
    <3>3. chPc # "compose" /\ chPc \in {"copy", "compose"}
      BY <1>1, <2>1 DEF ShapeInv, TypeOK
    <3> QED BY <3>1, <3>2, <3>3
  <2>6. stream[1].op # "fft" => FftDone
    BY <1>1, <1>8, <2>2, Popped
  <2> QED BY <1>8, <2>3, <2>4, <2>5, <2>6 DEF Pending
<1>9. CASE DevFft
  <2>1. /\ stream # << >> /\ stream' = Tail(stream) /\ UNCHANGED <<chPc, chNow, bufNum, ring>>
        /\ Head(stream).op = "fft" /\ fftOut'[2] = Head(stream).slot
    BY <1>9 DEF DevFft, RunFft, chVars
  <2>2. stream[1] \in Ops /\ 1 \in DOMAIN stream /\ Head(stream) = stream[1]
    BY <1>1, <2>1, HeadTail DEF TypeOK
  <2>3. fftOut[2] < fftOut'[2] /\ fftOut[2] <= fftOut'[2]
    <3>1. fftOut[2] < stream[1].slot /\ stream[1].slot \in Nat
      BY <1>1, <2>1, <2>2 DEF StreamInv, OpAt, Ops
    <3> QED BY <1>2, <2>1, <2>2, <3>1
  <2>4. Given' = Given /\ (Pending("hf")' <=> Pending("hf"))
    BY <1>8, <2>1, <2>2
  <2>5. c' = c
    BY <2>1, <2>4 DEF Count
  <2>6. \A k \in Nat : Holds("hf", k)' <=> Holds("hf", k)
    BY <2>1, <2>5 DEF Holds
  <2> QED BY <1>2, <2>1, <2>3, <2>4, <2>5, <2>6 DEF HfMoves
<1>10. CASE DevPut
  <2>1. /\ stream # << >> /\ stream' = Tail(stream) /\ UNCHANGED <<chPc, chNow, bufNum, fftOut>>
        /\ Head(stream).op = "put"
    BY <1>10 DEF DevPut, chVars
  <2>2. Head(stream) = stream[1]
    BY <1>1, <2>1, HeadTail DEF TypeOK
  <2>3. Given' = Given /\ (Pending("hf")' <=> Pending("hf")) /\ FftDone
    BY <1>8, <2>1, <2>2
  <2>4. c' = c
    BY <2>1, <2>3 DEF Count
  <2>5. \A k \in Nat : Holds("hf", k)' <=> Holds("hf", k)
    BY <2>1, <2>4 DEF Holds
  <2>6. \A k \in Nat : Holds("hf", k) => ring'["hf"][k % Buffers] = ring["hf"][k % Buffers]
    BY <1>1, <1>10, PutKeepsHeld
  <2> QED BY <1>2, <2>1, <2>3, <2>4, <2>5, <2>6 DEF HfMoves
<1>11. CASE DevSignal
  <2>1. /\ stream # << >> /\ stream' = Tail(stream) /\ UNCHANGED <<chPc, chNow, ring, fftOut>>
        /\ Head(stream).op = "signal"
    BY <1>11 DEF DevSignal, Signal, chVars
  <2>2. Head(stream) = stream[1]
    BY <1>1, <2>1, HeadTail DEF TypeOK
  <2>3. bufNum'["hf"] = IF stream[1].to = "hf" THEN n + 1 ELSE n
    <3>1. bufNum \in [Rings -> Nat]
      BY <1>1 DEF TypeOK
    <3>2. \/ bufNum' = bufNum /\ stream[1].to = "audio"
          \/ bufNum' = [bufNum EXCEPT ![stream[1].to] = @ + 1]
      BY <1>11, <2>2 DEF DevSignal, Signal
    <3> QED BY <1>1, <3>1, <3>2
  <2>4. FftDone /\ Given' = Given
    BY <1>8, <2>1, <2>2
  <2>5. CASE stream[1].to = "hf"
    <3>1. Pending("hf") /\ ~ Pending("hf")' /\ Signals("hf")
      BY <1>8, <2>1, <2>2, <2>5
    <3>2. bufNum'["hf"] = n + 1 /\ c' = n + 1 /\ c = n + 1
      BY <2>3, <2>5, <3>1 DEF Count
    <3>3. \A k \in Nat : Holds("hf", k)' /\ ~ Holds("hf", k) => k = n
      BY <1>2, <3>2, Constants DEF Holds
    <3>4. ring["hf"][n % Buffers] = fftOut[2]
      BY <1>1, <3>1 DEF RingAt
    <3>5. n <= bufNum'["hf"]
      BY <1>2, <3>2
    <3> QED BY <1>2, <2>1, <2>4, <3>1, <3>2, <3>3, <3>4, <3>5 DEF HfMoves
  <2>6. CASE stream[1].to # "hf"
    <3>1. (Pending("hf")' <=> Pending("hf")) /\ bufNum'["hf"] = n
      BY <1>8, <2>1, <2>2, <2>3, <2>6
    <3>2. c' = c
      BY <3>1 DEF Count
    <3>3. \A k \in Nat : Holds("hf", k)' <=> Holds("hf", k)
      BY <3>1, <3>2 DEF Holds
    <3> QED BY <1>2, <2>1, <2>4, <3>1, <3>2, <3>3 DEF HfMoves
  <2> QED BY <2>5, <2>6
<1> QED
  BY <1>4, <1>5, <1>6, <1>7, <1>9, <1>10, <1>11 DEF Next, Channelizer, Device

(* The channelizer never gives the stream a block that rx888 has not       *)
(* completed.                                                              *)
LEMMA GivenIsComplete ==
  ASSUME InputInv, StartInv, bufNum["hf"] > 0
  PROVE  Given <= RxBlocks /\ RxBlocks <= HeadBlocks
<1>1. /\ chNow \in Nat /\ chNext \in Nat /\ RxBlocks \in Nat /\ RxBlocks <= HeadBlocks
      /\ chNext <= RxBlocks
  BY Counts DEF InputInv, RxInv, TypeOK, StartInv
<1>2. chNow <= chNext /\ (chPc = "compose" => chNow < chNext)
  BY DEF InputInv, BatchInv
<1> QED BY <1>1, <1>2 DEF Given

LEMMA GivenIsCompleteNext ==
  ASSUME InputInv', StartInv', bufNum'["hf"] > 0
  PROVE  Given' <= RxBlocks' /\ RxBlocks' <= HeadBlocks'
<1>1. TypeOK' /\ RxInv' /\ BatchInv'
  BY DEF InputInv
<1>2. /\ chNow' \in Nat /\ chNext' \in Nat /\ RxBlocks' \in Nat /\ HeadBlocks' \in Nat
      /\ bufNum'["hf"] # 0
  <2>1. "hf" \in Rings
    BY Constants
  <2>2. chNow' \in Nat /\ chNext' \in Nat /\ bufNum'["hf"] \in Nat
    BY <1>1, <2>1 DEF TypeOK
  <2>3. bufNum'["hf"] # 0
    BY <2>2
  <2> QED BY <1>1, <2>2, <2>3, CountsNext
<1>3. chNext' <= RxBlocks'
  BY <1>2 DEF StartInv
<1>4. RxBlocks' <= HeadBlocks'
  <2>1. rxPos' \in Nat /\ rxHead' \in Nat /\ rxPos' <= rxHead'
    BY <1>1 DEF TypeOK, RxInv
  <2> QED BY <2>1, Constants, DivMonotone DEF RxBlocks, HeadBlocks
<1>5. Given' <= chNext'
  <2>1. chNow' <= chNext' /\ (chPc' = "compose" => chNow' < chNext')
    BY <1>1 DEF BatchInv
  <2>2. \/ chPc' = "compose" /\ Given' = chNow' + 1
        \/ chPc' # "compose" /\ Given' = chNow'
    BY DEF Given
  <2> QED BY <1>2, <2>1, <2>2
<1>6. Given' \in Nat
  BY <1>1, CountsNext
<1> QED BY <1>2, <1>3, <1>4, <1>5, <1>6

(* The arithmetic of ReaderFits.                                           *)
LEMMA NotLapped ==
  ASSUME NEW count \in Nat, NEW given \in Nat, NEW head \in Nat,
         NEW last \in Nat, NEW since \in Nat,
         count <= last \/ count + since <= last + given + Slack + MaxLag,
         given <= head, head <= since + Slack
  PROVE  count <= last + 2 * Slack + MaxLag
BY Constants

(* The bound on the count of blocks holds from step to step.               *)
LEMMA WithinKept ==
  ASSUME InputInv, InputInv', HfMoves, NEW last \in Nat, NEW since \in Nat,
         Within(last, since), since <= RxBlocks
  PROVE  Within(last, since)'
<1> DEFINE c == Count("hf")
<1>1. /\ c \in Nat /\ Given \in Nat /\ Given' \in Nat /\ RxBlocks \in Nat /\ HeadBlocks \in Nat
      /\ RxBlocks <= HeadBlocks /\ chNext \in Nat
  BY CountType, Counts, CountsNext, Constants DEF InputInv, RxInv, TypeOK
<1>2. CASE c' = c /\ Given <= Given'
  BY <1>1, <1>2, Constants DEF Within
<1>3. CASE c' = c + 1 /\ Given' = Given + 1 /\ chNow < chNext /\ chNext <= Given + MaxLag
  <2>1. since <= Given + Slack + MaxLag
    <3>1. HeadBlocks <= chNext + Slack
      BY <1>3 DEF InputInv, BatchInv
    <3> QED BY <1>1, <1>3, <3>1, Constants
  <2> HIDE DEF c
  <2>2. c <= last \/ c + since <= last + Given + Slack + MaxLag
    BY DEF Within, c
  <2>3. c + 1 + since <= last + (Given + 1) + Slack + MaxLag
    BY <1>1, <2>1, <2>2, Constants
  <2> QED BY <1>3, <2>3 DEF Within, c
<1> QED BY <1>2, <1>3 DEF HfMoves

LEMMA StartKept ==
  ASSUME InputInv, StartInv, [Next]_vars
  PROVE  StartInv'
<1>1. /\ RxBlocks \in Nat /\ HeadBlocks \in Nat /\ RxBlocks <= HeadBlocks
      /\ chNow \in Nat /\ chNext \in Nat /\ "hf" \in Rings
  BY Counts, Constants DEF InputInv, RxInv, TypeOK
<1>2. CASE Rx
  <2>1. UNCHANGED <<chNow, chNext, chPc, bufNum, stream>>
    BY <1>2 DEF Rx, RxFill, RxPublish, chVars, devVars
  <2>2. RxBlocks' = RxBlocks \/ RxBlocks' = HeadBlocks
    BY <1>2 DEF Rx, RxFill, RxPublish, RxBlocks, HeadBlocks
  <2> QED BY <1>1, <2>1, <2>2 DEF StartInv
<1>3. ASSUME UNCHANGED rxVars PROVE RxBlocks' = RxBlocks
  BY <1>3 DEF RxBlocks, rxVars
<1>4. CASE ChStart
  <2>1. chNow = 0 /\ UNCHANGED <<chPc, bufNum, stream>>
    BY <1>4 DEF ChStart, devVars
  <2> QED BY <2>1 DEF StartInv
<1>5. CASE ChWait \/ ChDrop
  <2>1. /\ chNow > 0 /\ chNow' > 0 /\ UNCHANGED <<chPc, bufNum, stream, rxVars>>
        /\ chNext' = RxBlocks \/ chNext' = chNext
    BY <1>1, <1>5, Constants DEF ChWait, ChDrop, devVars
  <2> QED BY <1>1, <1>3, <2>1 DEF StartInv
<1>6. CASE ChCopy \/ ChCompose
  <2>1. chNow > 0 /\ chNow < chNext
    BY <1>6 DEF ChCopy, ChCompose, InputInv, BatchInv
  <2>2. /\ chNow' = chNow \/ chNow' = chNow + 1
        /\ chNext' = chNext /\ UNCHANGED rxVars
    BY <1>6 DEF ChCopy, EnqueueFft, ChCompose
  <2>3. chNext <= RxBlocks
    BY <2>1 DEF InputInv, BatchInv
  <2> QED BY <1>1, <1>3, <2>1, <2>2, <2>3 DEF StartInv
<1>7. CASE Device
  <2>1. stream # << >> /\ UNCHANGED <<chNow, chNext, rxVars>>
    BY <1>7 DEF Device, DevFft, RunFft, DevPut, DevSignal, Signal, chVars
  <2> QED BY <1>3, <2>1 DEF StartInv
<1>8. CASE AudioWorker \/ Mag \/ UNCHANGED vars
  <2>1. UNCHANGED <<chNow, chNext, chPc, bufNum, stream, rxVars>>
    BY <1>8 DEF AudioWorker, AudioPush, AudioFree, Mag, MagStart, MagWait, MagDrop, MagCopy,
                EnqueueCopy, DevMag, vars, chVars, devVars
  <2> QED BY <1>3, <2>1 DEF StartInv
<1> QED BY <1>2, <1>4, <1>5, <1>6, <1>7, <1>8 DEF Next, Channelizer

LEMMA CopyType ==
  ASSUME TypeOK, NEW i \in DOMAIN mStream
  PROVE  mStream[i] \in [block : Nat, since : Nat]
<1> DEFINE S == [block : Nat, since : Nat]
<1>1. mStream \in Seq(S)
  BY DEF TypeOK
<1> HIDE DEF S
<1>2. mStream[i] \in S
  BY <1>1
<1> QED BY <1>2 DEF S

(* A block that MagBlock has still to copy, or is about to, is held.       *)
LEMMA CopyHeld ==
  ASSUME ReaderFits, MagOutputInv, NEW i \in DOMAIN mStream
  PROVE  /\ mStream[i].block \in Nat /\ mStream[i].since \in Nat /\ CopyAt(mStream[i])
         /\ Holds("hf", mStream[i].block)
<1> DEFINE b == mStream[i].block
           s == mStream[i].since
<1>1. b \in Nat /\ s \in Nat /\ CopyAt(mStream[i])
  <2>1. mStream[i] \in [block : Nat, since : Nat]
    BY CopyType DEF MagOutputInv, OutputInv, InputInv
  <2>2. CopyAt(mStream[i])
    BY DEF MagOutputInv, MagInv
  <2> QED BY <2>1, <2>2
<1>2. /\ b < bufNum["hf"] /\ HeadBlocks <= s + Slack /\ Within(b + MaxLag + 1, s)
  BY <1>1 DEF CopyAt
<1> HIDE DEF b, s
<1>3. Count("hf") \in Nat /\ bufNum["hf"] \in Nat /\ Given \in Nat /\ HeadBlocks \in Nat
      /\ RxBlocks \in Nat
  BY CountType, Counts, Constants DEF MagOutputInv, OutputInv, InputInv
<1>4. Given <= HeadBlocks
  <2>1. bufNum["hf"] > 0
    BY <1>1, <1>2, <1>3
  <2>2. Given <= RxBlocks /\ RxBlocks <= HeadBlocks
    BY <2>1, GivenIsComplete DEF MagOutputInv, OutputInv
  <2> QED BY <1>3, <2>2
<1>5. Count("hf") <= (b + MaxLag + 1) + 2 * Slack + MaxLag
  <2>1. b + MaxLag + 1 \in Nat
    BY <1>1, Constants
  <2> QED BY <1>1, <1>2, <1>3, <1>4, <2>1, NotLapped DEF Within
<1>6. Count("hf") <= b + Buffers
  BY <1>1, <1>3, <1>5, Constants DEF ReaderFits
<1>7. Holds("hf", b)
  BY <1>1, <1>2, <1>6 DEF Holds
<1> QED BY <1>1, <1>7 DEF b, s

LEMMA NextHeld ==
  ASSUME ReaderFits, MagOutputInv, mNow < mNext, mNext - mNow <= MaxLag
  PROVE  Holds("hf", mNow)
<1>1. /\ mNow \in Nat /\ mNext \in Nat /\ mSince \in Nat /\ Count("hf") \in Nat
      /\ bufNum["hf"] \in Nat /\ Given \in Nat /\ HeadBlocks \in Nat /\ RxBlocks \in Nat
  BY CountType, Counts, Constants DEF MagOutputInv, OutputInv, InputInv, TypeOK
<1>2. mNext < bufNum["hf"] /\ HeadBlocks <= mSince + Slack /\ Within(mNext + 1, mSince)
  BY DEF MagOutputInv, MagInv
<1>3. Given <= HeadBlocks
  <2>1. bufNum["hf"] > 0
    BY <1>1, <1>2
  <2>2. Given <= RxBlocks /\ RxBlocks <= HeadBlocks
    BY <2>1, GivenIsComplete DEF MagOutputInv, OutputInv
  <2> QED BY <1>1, <2>2
<1>4. Count("hf") <= (mNext + 1) + 2 * Slack + MaxLag
  <2>1. mNext + 1 \in Nat
    BY <1>1
  <2> QED BY <1>1, <1>2, <1>3, <2>1, NotLapped DEF Within
<1>5. Count("hf") <= mNow + Buffers
  BY <1>1, <1>4, Constants DEF ReaderFits
<1> QED BY <1>1, <1>2, <1>5 DEF Holds

(* A block as far behind as a copy may be is held after a step too.        *)
LEMMA HeldNext ==
  ASSUME ReaderFits, InputInv', StartInv', NEW b \in Nat, NEW s \in Nat,
         b < bufNum'["hf"], HeadBlocks' <= s + Slack, Within(b + MaxLag + 1, s)'
  PROVE  Holds("hf", b)'
<1> DEFINE c == Count("hf")'
<1>1. /\ bufNum'["hf"] \in Nat /\ Given' \in Nat /\ HeadBlocks' \in Nat /\ RxBlocks' \in Nat
  <2>1. TypeOK' /\ "hf" \in Rings
    BY Constants DEF InputInv
  <2>2. bufNum'["hf"] \in Nat
    BY <2>1 DEF TypeOK
  <2> QED BY <2>1, <2>2, CountsNext
<1>2. c \in Nat
  <2>1. c = bufNum'["hf"] + 1 \/ c = bufNum'["hf"]
    BY DEF Count
  <2> QED BY <1>1, <2>1
<1>3. Given' <= HeadBlocks'
  <2>1. bufNum'["hf"] > 0
    BY <1>1
  <2>2. Given' <= RxBlocks' /\ RxBlocks' <= HeadBlocks'
    BY <2>1, GivenIsCompleteNext
  <2> QED BY <1>1, <2>2
<1>4. c <= b + MaxLag + 1 \/ c + s <= b + MaxLag + 1 + Given' + Slack + MaxLag
  BY DEF Within
<1> HIDE DEF c
<1>5. c <= (b + MaxLag + 1) + 2 * Slack + MaxLag
  <2>1. b + MaxLag + 1 \in Nat
    BY Constants
  <2> QED BY <1>1, <1>2, <1>3, <1>4, <2>1, NotLapped
<1>6. c <= b + Buffers
  BY <1>2, <1>5, Constants DEF ReaderFits
<1> QED BY <1>6 DEF Holds, c

(* MagBlock's invariant when MagBlock itself does not move.                *)
LEMMA MagKept ==
  ASSUME ReaderFits, MagOutputInv, OutputInv', StartInv', HfMoves, UNCHANGED magVars,
         RxBlocks <= RxBlocks',
         mNow < mNext => HeadBlocks' <= mSince + Slack,
         \A i \in DOMAIN mStream : HeadBlocks' <= mStream[i].since + Slack
  PROVE  MagInv'
<1>1. /\ InputInv /\ InputInv' /\ TypeOK /\ TypeOK' /\ RingAt("hf") /\ "hf" \in Rings
      /\ mNow' = mNow /\ mNext' = mNext /\ mSince' = mSince /\ mStream' = mStream /\ mIn' = mIn
      /\ MagInv
  BY Constants DEF MagOutputInv, OutputInv, InputInv, RingInv, magVars
<1>2. /\ bufNum["hf"] \in Nat /\ RxBlocks \in Nat /\ mIn \in Int /\ fftOut[2] \in Int
      /\ mNow \in Nat /\ mNext \in Nat /\ mSince \in Nat
  BY <1>1, CountType, Counts, RingTypes, LastFftType DEF TypeOK
<1>3. bufNum'["hf"] \in Nat /\ RxBlocks' \in Nat /\ fftOut'[2] \in Int
  <2>1. bufNum'["hf"] \in Nat /\ fftOut'[2] \in Block
    BY <1>1 DEF TypeOK
  <2> QED BY <1>1, <2>1, CountsNext DEF Block, NoBlock
<1>4. bufNum["hf"] <= bufNum'["hf"] /\ fftOut[2] <= fftOut'[2]
  BY DEF HfMoves
<1>5. mNow < mNext =>
        /\ mNext < bufNum'["hf"]
        /\ mSince <= RxBlocks' /\ HeadBlocks' <= mSince + Slack
        /\ \A l, s \in Nat : l = mNext + 1 /\ s = mSince => Within(l, s)'
  <2> SUFFICES ASSUME mNow < mNext
               PROVE  /\ mNext < bufNum'["hf"]
                      /\ mSince <= RxBlocks'
                      /\ \A l, s \in Nat : l = mNext + 1 /\ s = mSince => Within(l, s)'
    OBVIOUS
  <2>1. mNext < bufNum["hf"] /\ mSince <= RxBlocks /\ Within(mNext + 1, mSince)
    BY <1>1 DEF MagInv
  <2>2. mNext < bufNum'["hf"] /\ mSince <= RxBlocks'
    BY <1>2, <1>3, <1>4, <2>1
  <2>3. ASSUME NEW l \in Nat, NEW s \in Nat, l = mNext + 1, s = mSince PROVE Within(l, s)'
    BY <1>1, <2>1, <2>3, WithinKept
  <2> QED BY <2>2, <2>3
<1>6. ASSUME NEW i \in DOMAIN mStream, NEW x \in [block : Nat, since : Nat], x = mStream[i]
      PROVE  CopyAt(x)'
  <2> DEFINE b == x.block
             s == x.since
  <2>1. b \in Nat /\ s \in Nat /\ CopyAt(x) /\ Holds("hf", b)
    BY <1>6, CopyHeld
  <2>2. /\ b < mNow /\ b < bufNum["hf"] /\ s <= RxBlocks /\ Within(b + MaxLag + 1, s)
        /\ mIn < ring["hf"][b % Buffers]
    BY <2>1 DEF CopyAt
  <2>3. HeadBlocks' <= s + Slack
    BY <1>6
  <2> HIDE DEF b, s
  <2>4. b < bufNum'["hf"] /\ s <= RxBlocks' /\ b + MaxLag + 1 \in Nat
    BY <1>2, <1>3, <1>4, <2>1, <2>2, Constants
  <2>5. Within(b + MaxLag + 1, s)'
    BY <1>1, <2>1, <2>2, <2>4, WithinKept
  <2>6. Holds("hf", b)'
    BY <1>1, <2>1, <2>3, <2>4, <2>5, HeldNext
  <2>7. ring'["hf"][b % Buffers] = ring["hf"][b % Buffers]
    BY <2>1, <2>6 DEF HfMoves
  <2>8. mIn' < ring'["hf"][b % Buffers] /\ b < mNow'
    BY <1>1, <2>2, <2>7
  <2> QED BY <2>3, <2>4, <2>5, <2>8 DEF CopyAt, b, s
<1>7. \A i \in DOMAIN mStream' : CopyAt(mStream[i])'
  <2> SUFFICES ASSUME NEW i \in DOMAIN mStream PROVE CopyAt(mStream[i])'
    BY <1>1
  <2>1. PICK x \in [block : Nat, since : Nat] : x = mStream[i]
    BY <1>1, CopyType
  <2>2. CopyAt(x)' /\ x = mStream'[i]
    BY <1>1, <1>6, <2>1
  <2> QED BY <2>2 DEF CopyAt
<1>8. mIn <= fftOut'[2] /\ (Pending("hf")' /\ FftDone' => mIn < fftOut'[2])
  <2>1. mIn <= fftOut[2] /\ (Pending("hf") /\ FftDone => mIn < fftOut[2])
    BY <1>1 DEF MagInv
  <2>2. Pending("hf")' /\ FftDone' => (Pending("hf") /\ FftDone) \/ fftOut[2] < fftOut'[2]
    BY DEF HfMoves
  <2> QED BY <1>2, <1>3, <1>4, <2>1, <2>2
<1>9. \A k \in Nat : mNow <= k /\ Holds("hf", k)' => mIn < ring'["hf"][k % Buffers]
  <2> SUFFICES ASSUME NEW k \in Nat, mNow <= k, Holds("hf", k)'
               PROVE  mIn < ring'["hf"][k % Buffers]
    OBVIOUS
  <2>1. CASE Holds("hf", k)
    BY <1>1, <2>1 DEF HfMoves, MagInv
  <2>2. CASE ~ Holds("hf", k)
    BY <1>1, <2>2 DEF HfMoves, MagInv
  <2> QED BY <2>1, <2>2
<1>10. mNow <= mNext /\ \A i, j \in DOMAIN mStream : i < j => mStream[i].block < mStream[j].block
  BY <1>1 DEF MagInv
<1>11. mNow' < mNext' =>
         /\ mNext' < bufNum'["hf"]
         /\ mSince' <= RxBlocks' /\ HeadBlocks' <= mSince' + Slack
         /\ Within(mNext + 1, mSince)'
  <2>1. mNext + 1 \in Nat
    BY <1>2
  <2> QED BY <1>1, <1>2, <1>5, <2>1 DEF Within
<1> QED BY <1>1, <1>7, <1>8, <1>9, <1>10, <1>11 DEF MagInv

(* What a step of MagBlock sees of the rest.                               *)
LEMMA RestSame ==
  ASSUME UNCHANGED <<rxVars, chVars, stream, devVars>>
  PROVE  /\ UNCHANGED <<ring, bufNum, fftOut>> /\ RxBlocks' = RxBlocks /\ HeadBlocks' = HeadBlocks
         /\ (Pending("hf")' <=> Pending("hf")) /\ (FftDone' <=> FftDone)
         /\ \A k : Holds("hf", k)' <=> Holds("hf", k)
         /\ \A l, s : Within(l, s)' <=> Within(l, s)
<1>1. UNCHANGED <<ring, bufNum, fftOut>> /\ RxBlocks' = RxBlocks /\ HeadBlocks' = HeadBlocks
  BY DEF rxVars, devVars, RxBlocks, HeadBlocks
<1>2. (Pending("hf")' <=> Pending("hf")) /\ (FftDone' <=> FftDone)
  BY DEF chVars, Pending, OnStream, FftDone
<1>3. Count("hf")' = Count("hf") /\ Given' = Given
  BY <1>1, <1>2 DEF Count, Given, chVars
<1>4. \A k : Holds("hf", k)' <=> Holds("hf", k)
  BY <1>1, <1>3 DEF Holds
<1>5. \A l, s : Within(l, s)' <=> Within(l, s)
  BY <1>3 DEF Within
<1> QED BY <1>1, <1>2, <1>4, <1>5

(* The copies that are on the stream already, when MagBlock moves on.      *)
LEMMA CopiesSame ==
  ASSUME MagInv, UNCHANGED <<rxVars, chVars, stream, devVars, mIn>>, TypeOK,
         mNow' \in Nat, mNow <= mNow'
  PROVE  \A i \in DOMAIN mStream : \A x \in [block : Nat, since : Nat] :
           x = mStream[i] => CopyAt(x)'
<1> SUFFICES ASSUME NEW i \in DOMAIN mStream, NEW x \in [block : Nat, since : Nat],
                    x = mStream[i]
             PROVE  CopyAt(x)'
  OBVIOUS
<1>1. CopyAt(x) /\ mNow \in Nat /\ x.block \in Nat
  BY DEF MagInv, TypeOK
<1>2. x.block < mNow'
  <2>1. x.block < mNow
    BY <1>1 DEF CopyAt
  <2> QED BY <1>1, <2>1
<1> QED BY <1>1, <1>2, RestSame DEF CopyAt

(* A block in flight for the composite: the channelizer is not further     *)
(* behind rx888 than its lag limit and the slack.                          *)
LEMMA PendingIsNear ==
  ASSUME InputInv, Pending("hf")
  PROVE  RxBlocks + 1 <= Given + Slack + MaxLag
<1>1. /\ RxBlocks \in Nat /\ HeadBlocks \in Nat /\ Given \in Nat /\ RxBlocks <= HeadBlocks
      /\ chNow \in Nat /\ chNext \in Nat
  BY Counts DEF InputInv, RxInv, TypeOK
<1>2. CASE chPc = "compose"
  <2>1. chNow < chNext /\ HeadBlocks <= chNext + Slack /\ chNext <= chNow + MaxLag
    BY <1>2 DEF InputInv, BatchInv
  <2>2. Given = chNow + 1
    BY <1>2 DEF Given
  <2> QED BY <1>1, <2>1, <2>2, Constants
<1>3. CASE OnStream("hf")
  <2>1. PICK i \in DOMAIN stream : TRUE
    BY <1>3 DEF OnStream
  <2>2. stream[i].since \in Nat
    <3>1. stream \in Seq(Ops)
      BY DEF InputInv, TypeOK
    <3>2. stream[i] \in Ops
      BY <3>1
    <3> QED BY <3>2 DEF Ops
  <2>3. OpAt(stream[i])
    BY DEF InputInv, StreamInv
  <2>4. HeadBlocks <= stream[i].since + Slack /\ stream[i].since < Given + MaxLag
    BY <2>3 DEF OpAt
  <2> QED BY <1>1, <2>2, <2>4, Constants
<1> QED BY <1>2, <1>3 DEF Pending

LEMMA MagStartKeeps ==
  ASSUME MagOutputInv, MagStart
  PROVE  MagInv'
<1>1. /\ UNCHANGED <<rxVars, chVars, stream, devVars, mIn, mStream>> /\ MagInv /\ TypeOK
      /\ RingAt("hf") /\ "hf" \in Rings /\ mNow = 0 /\ mNow' = pos["hf"] + 1 /\ mNext' = mNow'
  BY Constants DEF MagStart, MagOutputInv, OutputInv, InputInv, RingInv
<1>2. bufNum["hf"] \in Nat /\ pos["hf"] \in Nat
  BY <1>1, CountType
<1>3. ~ \E i : i \in DOMAIN mStream
  <2> SUFFICES ASSUME NEW i \in DOMAIN mStream PROVE FALSE
    OBVIOUS
  <2>1. mStream[i].block \in Nat
    BY <1>1, CopyType
  <2>2. mStream[i].block < mNow
    BY <1>1 DEF MagInv, CopyAt
  <2> QED BY <1>1, <2>1, <2>2
<1>4. \A k \in Nat : ~ (mNow' <= k /\ Holds("hf", k)')
  <2>1. bufNum["hf"] <= mNow'
    BY <1>1, <1>2 DEF RingAt
  <2>2. mNow' \in Nat
    BY <1>1, <1>2
  <2>3. \A k \in Nat : Holds("hf", k)' => k < bufNum["hf"]
    BY <1>1, RestSame DEF Holds
  <2> QED BY <1>2, <2>1, <2>2, <2>3
<1>5. mNow' <= mNext' /\ ~ (mNow' < mNext')
  BY <1>1, <1>2
<1>6. mIn' <= fftOut'[2] /\ (Pending("hf")' /\ FftDone' => mIn' < fftOut'[2])
  BY <1>1, RestSame DEF MagInv
<1> QED BY <1>1, <1>3, <1>4, <1>5, <1>6 DEF MagInv

LEMMA MagWaitKeeps ==
  ASSUME MagOutputInv, MagWait
  PROVE  MagInv'
<1>1. /\ UNCHANGED <<rxVars, chVars, stream, devVars, mIn, mStream, mNow>> /\ MagInv /\ TypeOK
      /\ RingAt("hf") /\ "hf" \in Rings /\ InputInv
      /\ mNow + 1 <= pos["hf"] /\ mNext' = pos["hf"] /\ mSince' = RxBlocks
  <2>1. mNow \in Nat /\ pos["hf"] \in Nat
    BY Constants, CountType DEF MagOutputInv, OutputInv, InputInv, TypeOK
  <2> QED BY <2>1, Constants DEF MagWait, MagOutputInv, OutputInv, InputInv, RingInv
<1>2. /\ bufNum["hf"] \in Nat /\ pos["hf"] \in Nat /\ mNow \in Nat /\ Count("hf") \in Nat
      /\ RxBlocks \in Nat /\ HeadBlocks \in Nat /\ Given \in Nat /\ HeadBlocks <= RxBlocks + 1
  BY <1>1, CountType, Counts DEF InputInv, RxInv, TypeOK
<1>3. bufNum["hf"] = pos["hf"] + 1
  <2>1. pos["hf"] # 0
    BY <1>1, <1>2
  <2> QED BY <1>1, <1>2, <2>1 DEF RingAt
<1>4. Within(pos["hf"] + 1, RxBlocks)
  <2>1. CASE Pending("hf")
    <3>1. Count("hf") = bufNum["hf"] + 1
      BY <1>1, <2>1, CountType
    <3>2. RxBlocks + 1 <= Given + Slack + MaxLag
      BY <1>1, <2>1, PendingIsNear
    <3>3. Count("hf") + RxBlocks <= pos["hf"] + 1 + Given + Slack + MaxLag
      BY <1>2, <1>3, <3>1, <3>2, Constants
    <3> QED BY <3>3 DEF Within
  <2>2. CASE ~ Pending("hf")
    <3>1. Count("hf") = bufNum["hf"]
      BY <1>1, <2>2, CountType
    <3>2. Count("hf") <= pos["hf"] + 1
      BY <1>2, <1>3, <3>1
    <3> QED BY <3>2 DEF Within
  <2> QED BY <2>1, <2>2
<1>5. /\ mNext' < bufNum'["hf"] /\ mSince' <= RxBlocks' /\ HeadBlocks' <= mSince' + Slack
      /\ mNow' <= mNext'
  <2>1. bufNum' = bufNum /\ RxBlocks' = RxBlocks /\ HeadBlocks' = HeadBlocks
    BY <1>1, RestSame
  <2> QED BY <1>1, <1>2, <1>3, <2>1, Constants
<1>6. Within(mNext + 1, mSince)'
  <2>1. \A l, s : l = pos["hf"] + 1 /\ s = RxBlocks => Within(l, s)'
    BY <1>1, <1>4, RestSame
  <2>2. PICK l, s : l = pos["hf"] + 1 /\ s = RxBlocks
    OBVIOUS
  <2>3. Within(l, s)' /\ l = mNext' + 1 /\ s = mSince'
    BY <1>1, <2>1, <2>2
  <2> QED BY <2>3 DEF Within
<1>7. \A i \in DOMAIN mStream' : CopyAt(mStream[i])'
  <2> SUFFICES ASSUME NEW i \in DOMAIN mStream PROVE CopyAt(mStream[i])'
    BY <1>1
  <2>1. PICK x \in [block : Nat, since : Nat] : x = mStream[i]
    BY <1>1, CopyType
  <2>2. CopyAt(x)' /\ x = mStream'[i]
    BY <1>1, <1>2, <2>1, CopiesSame
  <2> QED BY <2>2 DEF CopyAt
<1>8. /\ mIn' <= fftOut'[2] /\ (Pending("hf")' /\ FftDone' => mIn' < fftOut'[2])
      /\ \A k \in Nat : mNow' <= k /\ Holds("hf", k)' => mIn' < ring'["hf"][k % Buffers]
      /\ \A i, j \in DOMAIN mStream' : i < j => mStream'[i].block < mStream'[j].block
  BY <1>1, RestSame DEF MagInv
<1> QED BY <1>5, <1>6, <1>7, <1>8 DEF MagInv

LEMMA MagDropKeeps ==
  ASSUME MagOutputInv, MagDrop
  PROVE  MagInv'
<1>1. /\ UNCHANGED <<rxVars, chVars, stream, devVars, mIn, mStream, mNext>> /\ MagInv /\ TypeOK
      /\ mNow \in Nat /\ mNext \in Nat /\ mNow' = mNext /\ mNow <= mNext
  BY DEF MagDrop, MagOutputInv, OutputInv, InputInv, TypeOK, MagInv
<1>2. mNow' <= mNext' /\ ~ (mNow' < mNext')
  BY <1>1
<1>3. \A i \in DOMAIN mStream' : CopyAt(mStream[i])'
  <2> SUFFICES ASSUME NEW i \in DOMAIN mStream PROVE CopyAt(mStream[i])'
    BY <1>1
  <2>1. PICK x \in [block : Nat, since : Nat] : x = mStream[i]
    BY <1>1, CopyType
  <2>2. CopyAt(x)' /\ x = mStream'[i]
    BY <1>1, <2>1, CopiesSame
  <2> QED BY <2>2 DEF CopyAt
<1>4. \A k \in Nat : mNow' <= k /\ Holds("hf", k)' => mIn' < ring'["hf"][k % Buffers]
  <2> SUFFICES ASSUME NEW k \in Nat, mNow' <= k, Holds("hf", k)'
               PROVE  mIn' < ring'["hf"][k % Buffers]
    OBVIOUS
  <2>1. mNow <= k
    BY <1>1
  <2> QED BY <1>1, <2>1, RestSame DEF MagInv
<1>5. /\ mIn' <= fftOut'[2] /\ (Pending("hf")' /\ FftDone' => mIn' < fftOut'[2])
      /\ \A i, j \in DOMAIN mStream' : i < j => mStream'[i].block < mStream'[j].block
  BY <1>1, RestSame DEF MagInv
<1> QED BY <1>2, <1>3, <1>4, <1>5 DEF MagInv

LEMMA MagCopyKeeps ==
  ASSUME ReaderFits, MagOutputInv, MagCopy
  PROVE  MagInv'
<1> DEFINE new == [block |-> mNow, since |-> mSince]
           n == Len(mStream)
<1>1. /\ UNCHANGED <<rxVars, chVars, stream, devVars, mIn, mNext, mSince>> /\ MagInv /\ TypeOK
      /\ mNow < mNext /\ mNext - mNow <= MaxLag
      /\ mNow' = mNow + 1 /\ mStream' = Append(mStream, new)
  BY DEF MagCopy, EnqueueCopy, MagOutputInv, OutputInv, InputInv
<1>2. /\ mNow \in Nat /\ mNext \in Nat /\ mSince \in Nat /\ new \in [block : Nat, since : Nat]
      /\ mStream \in Seq([block : Nat, since : Nat])
  BY <1>1 DEF TypeOK
<1>3. /\ bufNum["hf"] \in Nat /\ Count("hf") \in Nat /\ Given \in Nat
  BY <1>1, Constants, CountType, Counts
<1>4. /\ mNext < bufNum["hf"] /\ mSince <= RxBlocks /\ HeadBlocks <= mSince + Slack
      /\ Within(mNext + 1, mSince)
  BY <1>1 DEF MagInv
<1>5. n \in Nat /\ DOMAIN mStream = 1 .. n /\ DOMAIN mStream' = 1 .. (n + 1)
      /\ mStream'[n + 1] = new /\ \A i \in 1 .. n : mStream'[i] = mStream[i]
  <2> DEFINE S == [block : Nat, since : Nat]
             x == new
  <2>1. mStream \in Seq(S) /\ x \in S /\ mStream' = Append(mStream, x)
    BY <1>1, <1>2
  <2> HIDE DEF S, x
  <2>2. n \in Nat /\ DOMAIN mStream = 1 .. n /\ DOMAIN mStream' = 1 .. (n + 1)
        /\ mStream'[n + 1] = x /\ \A i \in 1 .. n : mStream'[i] = mStream[i]
    BY <2>1
  <2> QED BY <2>2 DEF x
<1>6. Within(mNow + MaxLag + 1, mSince)
  <2>1. Count("hf") <= mNext + 1 \/ Count("hf") + mSince <= mNext + 1 + Given + Slack + MaxLag
    BY <1>4 DEF Within
  <2>2. \/ Count("hf") <= mNow + MaxLag + 1
        \/ Count("hf") + mSince <= mNow + MaxLag + 1 + Given + Slack + MaxLag
    BY <1>1, <1>2, <1>3, <2>1, Constants
  <2> QED BY <2>2 DEF Within
<1>7. mIn < ring["hf"][mNow % Buffers]
  <2>1. Holds("hf", mNow) /\ mNow <= mNow
    BY <1>1, <1>2, NextHeld
  <2> QED BY <1>1, <1>2, <2>1 DEF MagInv
<1>8. mNow < mNow' /\ mNow < bufNum["hf"] /\ mNow' <= mNext' /\ mNow' \in Nat /\ mNow <= mNow'
  BY <1>1, <1>2, <1>3, <1>4
<1>9. ASSUME NEW x, x = new PROVE CopyAt(x)'
  <2>1. x.block = mNow /\ x.since = mSince
    BY <1>9
  <2>2. /\ x.block < mNow' /\ x.block < bufNum["hf"] /\ x.since <= RxBlocks
        /\ HeadBlocks <= x.since + Slack /\ Within(x.block + MaxLag + 1, x.since)
        /\ mIn < ring["hf"][x.block % Buffers]
    BY <1>4, <1>6, <1>7, <1>8, <2>1
  <2> QED BY <1>1, <2>2, RestSame DEF CopyAt
<1>10. \A i \in DOMAIN mStream' : CopyAt(mStream[i])'
  <2> SUFFICES ASSUME NEW i \in DOMAIN mStream' PROVE CopyAt(mStream[i])'
    OBVIOUS
  <2>1. CASE i = n + 1
    <3>1. PICK x : x = new
      OBVIOUS
    <3>2. CopyAt(x)' /\ x = mStream'[i]
      BY <1>5, <1>9, <2>1, <3>1
    <3> QED BY <3>2 DEF CopyAt
  <2>2. CASE i # n + 1
    <3>1. i \in DOMAIN mStream /\ mStream'[i] = mStream[i]
      BY <1>5, <2>2
    <3>2. PICK x \in [block : Nat, since : Nat] : x = mStream[i]
      BY <1>1, <3>1, CopyType
    <3>3. CopyAt(x)' /\ x = mStream'[i]
      BY <1>1, <1>8, <3>1, <3>2, CopiesSame
    <3> QED BY <3>3 DEF CopyAt
  <2> QED BY <2>1, <2>2
<1>11. \A i, j \in DOMAIN mStream' : i < j => mStream'[i].block < mStream'[j].block
  <2>1. \A i \in 1 .. n : mStream[i].block < mNow
    BY <1>1, <1>5 DEF MagInv, CopyAt
  <2>2. \A i, j \in 1 .. n : i < j => mStream[i].block < mStream[j].block
    BY <1>1, <1>5 DEF MagInv
  <2> SUFFICES ASSUME NEW i \in 1 .. (n + 1), NEW j \in 1 .. (n + 1), i < j
               PROVE  mStream'[i].block < mStream'[j].block
    BY <1>5
  <2>3. i \in 1 .. n /\ mStream'[i] = mStream[i]
    BY <1>5
  <2>4. CASE j = n + 1
    <3>1. mStream'[j].block = mNow
      BY <1>5, <2>4
    <3> QED BY <2>1, <2>3, <3>1
  <2>5. CASE j # n + 1
    <3>1. j \in 1 .. n /\ mStream'[j] = mStream[j]
      BY <1>5, <2>5
    <3> QED BY <2>2, <2>3, <3>1
  <2> QED BY <2>4, <2>5
<1>12. \A k \in Nat : mNow' <= k /\ Holds("hf", k)' => mIn' < ring'["hf"][k % Buffers]
  <2> SUFFICES ASSUME NEW k \in Nat, mNow' <= k, Holds("hf", k)'
               PROVE  mIn' < ring'["hf"][k % Buffers]
    OBVIOUS
  <2>1. mNow <= k
    BY <1>1, <1>2
  <2> QED BY <1>1, <2>1, RestSame DEF MagInv
<1>13. mIn' <= fftOut'[2] /\ (Pending("hf")' /\ FftDone' => mIn' < fftOut'[2])
  BY <1>1, RestSame DEF MagInv
<1>14. /\ mNext' < bufNum'["hf"] /\ mSince' <= RxBlocks' /\ HeadBlocks' <= mSince' + Slack
       /\ Within(mNext + 1, mSince)'
  <2>1. PICK l, s : l = mNext + 1 /\ s = mSince
    OBVIOUS
  <2>2. Within(l, s)' /\ l = mNext' + 1 /\ s = mSince'
    BY <1>1, <1>4, <2>1, RestSame
  <2>3. Within(mNext + 1, mSince)'
    BY <2>2 DEF Within
  <2> QED BY <1>1, <1>4, <2>3, RestSame
<1> QED BY <1>8, <1>10, <1>11, <1>12, <1>13, <1>14 DEF MagInv

(* The oldest copy runs: the blocks that are left are newer.               *)
LEMMA DevMagKeeps ==
  ASSUME ReaderFits, MagOutputInv, DevMag
  PROVE  MagInv' /\ mIn < mIn'
<1> DEFINE b == mStream[1].block
<1>1. /\ UNCHANGED <<rxVars, chVars, stream, devVars, mNow, mNext, mSince>> /\ MagInv /\ TypeOK
      /\ mStream # << >> /\ mIn' = ring["hf"][Head(mStream).block % Buffers]
      /\ mStream' = Tail(mStream) /\ RingAt("hf") /\ "hf" \in Rings
  BY Constants DEF DevMag, MagOutputInv, OutputInv, InputInv, RingInv
<1>2. /\ 1 \in DOMAIN mStream /\ Head(mStream) = mStream[1]
      /\ DOMAIN mStream' = 1 .. (Len(mStream) - 1) /\ Len(mStream) \in Nat
      /\ \A i \in DOMAIN mStream' : i + 1 \in DOMAIN mStream /\ mStream'[i] = mStream[i + 1]
      /\ DOMAIN mStream = 1 .. Len(mStream)
  <2> DEFINE S == [block : Nat, since : Nat]
  <2>1. mStream \in Seq(S)
    BY <1>1 DEF TypeOK
  <2> HIDE DEF S
  <2> QED BY <1>1, <2>1
<1>3. b \in Nat /\ CopyAt(mStream[1]) /\ Holds("hf", b)
  BY <1>2, CopyHeld
<1>4. mIn' = ring["hf"][b % Buffers] /\ mIn < ring["hf"][b % Buffers] /\ b < mNow /\ mNow \in Nat
  BY <1>1, <1>2, <1>3 DEF CopyAt, TypeOK
<1> HIDE DEF b
<1>5. ASSUME NEW k \in Nat, Holds("hf", k), b < k PROVE mIn' < ring["hf"][k % Buffers]
  BY <1>1, <1>3, <1>4, <1>5 DEF RingAt
<1>6. \A i \in DOMAIN mStream' : CopyAt(mStream[i])'
  <2> SUFFICES ASSUME NEW i \in DOMAIN mStream' PROVE CopyAt(mStream[i])'
    OBVIOUS
  <2>1. PICK x \in [block : Nat, since : Nat] : x = mStream[i + 1]
    BY <1>1, <1>2, CopyType
  <2>2. x.block \in Nat /\ CopyAt(x) /\ Holds("hf", x.block)
    BY <1>2, <2>1, CopyHeld
  <2>3. b < x.block
    <3>1. 1 < i + 1
      BY <1>2
    <3> QED BY <1>1, <1>2, <2>1, <3>1 DEF MagInv, b
  <2>4. mIn' < ring["hf"][x.block % Buffers]
    BY <1>5, <2>2, <2>3
  <2>5. CopyAt(x)'
    BY <1>1, <2>2, <2>4, RestSame DEF CopyAt
  <2>6. x = mStream'[i]
    BY <1>2, <2>1
  <2> QED BY <2>5, <2>6 DEF CopyAt
<1>7. \A i, j \in DOMAIN mStream' : i < j => mStream'[i].block < mStream'[j].block
  <2> SUFFICES ASSUME NEW i \in DOMAIN mStream', NEW j \in DOMAIN mStream', i < j
               PROVE  mStream[i + 1].block < mStream[j + 1].block
    BY <1>2
  <2>1. i + 1 < j + 1
    BY <1>2
  <2> QED BY <1>1, <1>2, <2>1 DEF MagInv
<1>8. \A k \in Nat : mNow' <= k /\ Holds("hf", k)' => mIn' < ring'["hf"][k % Buffers]
  <2> SUFFICES ASSUME NEW k \in Nat, mNow' <= k, Holds("hf", k)'
               PROVE  mIn' < ring'["hf"][k % Buffers]
    OBVIOUS
  <2>1. Holds("hf", k) /\ b < k /\ ring' = ring
    BY <1>1, <1>3, <1>4, RestSame
  <2> QED BY <1>5, <2>1
<1>9. mIn' <= fftOut'[2] /\ (Pending("hf")' /\ FftDone' => mIn' < fftOut'[2])
  BY <1>1, <1>3, <1>4, RestSame DEF RingAt
<1>10. mNow' <= mNext' /\ (mNow' < mNext' =>
         /\ mNext' < bufNum'["hf"] /\ mSince' <= RxBlocks' /\ HeadBlocks' <= mSince' + Slack
         /\ Within(mNext + 1, mSince)')
  <2>1. mNow < mNext => Within(mNext + 1, mSince)
    BY <1>1 DEF MagInv
  <2>2. PICK l, s : l = mNext + 1 /\ s = mSince
    OBVIOUS
  <2>3. (mNow < mNext => Within(l, s)') /\ l = mNext' + 1 /\ s = mSince'
    BY <1>1, <2>1, <2>2, RestSame
  <2>4. mNow < mNext => Within(mNext + 1, mSince)'
    BY <2>3 DEF Within
  <2> QED BY <1>1, <2>4, RestSame DEF MagInv
<1> QED BY <1>4, <1>6, <1>7, <1>8, <1>9, <1>10 DEF MagInv

LEMMA MagInit == Init => MagOutputInv
<1> SUFFICES ASSUME Init PROVE MagOutputInv
  OBVIOUS
<1>1. OutputInv
  BY OutputInit
<1>2. StartInv
  BY Constants DEF Init, StartInv
<1>3. MagInv
  <2>1. \A k \in Nat : ~ Holds("hf", k)
    BY Constants DEF Init, Holds
  <2>2. ~ Pending("hf")
    BY DEF Init, Pending, OnStream
  <2>3. mNow = 0 /\ mNext = 0 /\ mStream = << >> /\ mIn = -1 /\ fftOut[2] = -1
    BY DEF Init, NoBlock
  <2> QED BY <2>1, <2>2, <2>3 DEF MagInv
<1> QED BY <1>1, <1>2, <1>3 DEF MagOutputInv

(* What the steps of the others do to rx888's counts.                      *)
LEMMA MagOthers ==
  ASSUME MagOutputInv, OutputInv', Rx \/ Channelizer \/ Device \/ AudioWorker \/ UNCHANGED vars
  PROVE  /\ UNCHANGED magVars /\ RxBlocks <= RxBlocks'
         /\ mNow < mNext => HeadBlocks' <= mSince + Slack
         /\ \A i \in DOMAIN mStream : HeadBlocks' <= mStream[i].since + Slack
<1>1. /\ RxBlocks \in Nat /\ HeadBlocks \in Nat /\ RxBlocks <= HeadBlocks
  BY Counts DEF MagOutputInv, OutputInv, InputInv, RxInv
<1>2. /\ mNow < mNext => HeadBlocks <= mSince + Slack
      /\ \A i \in DOMAIN mStream : HeadBlocks <= mStream[i].since + Slack
  BY DEF MagOutputInv, MagInv, CopyAt
<1>3. CASE \E n \in 1 .. BlockLen : RxFill(n)
  <2>1. PICK n \in 1 .. BlockLen : RxFill(n)
    BY <1>3
  <2>2. UNCHANGED magVars /\ RxBlocks' = RxBlocks
    BY <2>1 DEF RxFill, RxBlocks
  <2>3. HeadBlocks' = (rxPos + n) \div BlockLen
    BY <2>1 DEF RxFill, HeadBlocks
  <2>4. OnTime(HeadBlocks')
    BY <2>1, <2>3 DEF RxFill
  <2> QED BY <1>1, <2>2, <2>4 DEF OnTime
<1>4. CASE RxPublish
  <2>1. UNCHANGED magVars /\ RxBlocks' = HeadBlocks /\ HeadBlocks' = HeadBlocks
    BY <1>4 DEF RxPublish, RxBlocks, HeadBlocks
  <2> QED BY <1>1, <1>2, <2>1
<1>5. CASE Channelizer \/ Device \/ AudioWorker \/ UNCHANGED vars
  <2>1. UNCHANGED rxVars /\ UNCHANGED magVars
    BY <1>5 DEF Channelizer, ChStart, ChWait, ChDrop, ChCopy, EnqueueFft, ChCompose,
                Device, DevFft, RunFft, DevPut, DevSignal, Signal,
                AudioWorker, AudioPush, AudioFree, vars
  <2>2. RxBlocks' = RxBlocks /\ HeadBlocks' = HeadBlocks
    BY <2>1 DEF rxVars, RxBlocks, HeadBlocks
  <2> QED BY <1>1, <1>2, <2>1, <2>2
<1> QED BY <1>3, <1>4, <1>5 DEF Rx

LEMMA MagStep ==
  ASSUME HostCopyWaits, ReaderFits
  PROVE  MagOutputInv /\ [Next]_vars => MagOutputInv'
<1> SUFFICES ASSUME MagOutputInv, [Next]_vars PROVE MagOutputInv'
  OBVIOUS
<1>1. OutputInv'
  BY OutputStep DEF MagOutputInv
<1>2. StartInv'
  BY StartKept DEF MagOutputInv, OutputInv
<1>3. MagInv'
  <2>1. CASE Mag
    BY <2>1, MagStartKeeps, MagWaitKeeps, MagDropKeeps, MagCopyKeeps, DevMagKeeps DEF Mag
  <2>2. CASE Rx \/ Channelizer \/ Device \/ AudioWorker \/ UNCHANGED vars
    <3>1. HfMoves
      BY <1>1, HfStep DEF MagOutputInv
    <3> QED BY <1>1, <1>2, <2>2, <3>1, MagOthers, MagKept
  <2> QED BY <2>1, <2>2 DEF Next
<1> QED BY <1>1, <1>2, <1>3 DEF MagOutputInv

(* Only a copy that has run shortens MagBlock's stream.                    *)
LEMMA MagReads ==
  ASSUME HostCopyWaits, ReaderFits, MagOutputInv, [Next]_vars
  PROVE  Len(mStream') < Len(mStream) => mIn' > mIn
<1>1. TypeOK
  BY DEF MagOutputInv, OutputInv, InputInv
<1>2. CASE DevMag
  <2>1. MagOutputInv'
    BY MagStep
  <2>2. mIn \in Int /\ mIn' \in Int /\ mIn < mIn'
    <3>1. mIn' \in Block
      BY <2>1 DEF MagOutputInv, OutputInv, InputInv, TypeOK
    <3> QED BY <1>1, <1>2, <3>1, RingTypes, DevMagKeeps DEF Block, NoBlock
  <2> QED BY <2>2
<1>3. CASE MagCopy
  <2> DEFINE S == [block : Nat, since : Nat]
             x == [block |-> mNow, since |-> mSince]
  <2>1. mStream \in Seq(S) /\ x \in S /\ mStream' = Append(mStream, x)
    BY <1>1, <1>3 DEF MagCopy, EnqueueCopy, TypeOK
  <2> HIDE DEF S, x
  <2>2. Len(mStream') = Len(mStream) + 1 /\ Len(mStream) \in Nat
    BY <2>1
  <2> QED BY <2>2
<1>4. CASE mStream' = mStream
  <2>1. mStream \in Seq([block : Nat, since : Nat])
    BY <1>1 DEF TypeOK
  <2>2. Len(mStream) \in Nat
    BY <2>1
  <2> QED BY <1>4, <2>2
<1>5. CASE Rx \/ Channelizer \/ Device \/ AudioWorker \/ UNCHANGED vars
  <2>1. OutputInv'
    BY OutputStep DEF MagOutputInv
  <2>2. mStream' = mStream
    BY <1>5, <2>1, MagOthers DEF magVars
  <2> QED BY <1>4, <2>2
<1>6. CASE MagStart \/ MagWait \/ MagDrop
  BY <1>4, <1>6 DEF MagStart, MagWait, MagDrop
<1> QED BY <1>2, <1>3, <1>5, <1>6 DEF Next, Mag

(* Only AudioPush takes a block.                                           *)
LEMMA AudioReads ==
  ASSUME OutputInv, [Next]_vars
  PROVE  apc' = "push" /\ apc = "poll" => aOut' > aOut
<1> SUFFICES ASSUME apc' = "push", apc = "poll" PROVE aOut' > aOut
  OBVIOUS
<1>1. AudioPush
  <2>1. CASE Rx \/ Channelizer \/ Device \/ Mag \/ UNCHANGED vars
    BY <2>1 DEF Rx, RxFill, RxPublish, Channelizer, ChStart, ChWait, ChDrop, ChCopy, EnqueueFft,
                ChCompose, Device, DevFft, RunFft, DevPut, DevSignal, Signal, Mag, MagStart,
                MagWait, MagDrop, MagCopy, EnqueueCopy, DevMag, vars, audVars
  <2>2. CASE AudioFree
    BY <2>2 DEF AudioFree
  <2> QED BY <2>1, <2>2 DEF Next, AudioWorker
<1>2. aCons \in Nat /\ aProd \in Nat /\ aOut \in Int /\ aRing[aCons % AudioRing] \in Int
  BY RingTypes DEF OutputInv, InputInv, TypeOK
<1>3. AudioHolds(aCons)
  BY <1>1, <1>2 DEF AudioPush, AudioHolds
<1>4. aOut < aRing[aCons % AudioRing]
  BY <1>2, <1>3 DEF OutputInv, AudioInv
<1> QED BY <1>1, <1>2, <1>4 DEF AudioPush

(* What MagBlock copies out of the composite and what the audio worker     *)
(* pushes is in order and never repeated, when the copy of an input block  *)
(* waits for the stream and the composite has twice as many blocks as the  *)
(* lag limit and the slack of a batch allow, and one more.  The audio ring *)
(* needs no such bound: its writer skips a block rather than overtake the  *)
(* worker.                                                                 *)
THEOREM ReadsStayInOrder ==
  ASSUME HostCopyWaits, ReaderFits
  PROVE  Spec => ReadInOrder
<1>1. Init => MagOutputInv
  BY MagInit
<1>2. MagOutputInv /\ [Next]_vars => MagOutputInv'
  BY MagStep
<1>3. MagOutputInv /\ [Next]_vars =>
        [Len(mStream') < Len(mStream) => mIn' > mIn]_<<mStream, mIn>>
  BY MagReads
<1>4. MagOutputInv /\ [Next]_vars =>
        [apc' = "push" /\ apc = "poll" => aOut' > aOut]_<<apc, aOut>>
  BY AudioReads DEF MagOutputInv
<1> QED
  BY <1>1, <1>2, <1>3, <1>4, PTL DEF Spec, ReadInOrder, MagInOrder, AudioInOrder

=============================================================================
