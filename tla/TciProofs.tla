------------------------------ MODULE TciProofs ------------------------------
(***************************************************************************)
(* Proofs about Tci for every number of connections, sinks, commands and   *)
(* blocks and every channel depth: the tuning of the sinks and what is     *)
(* told of it, the subscriber lists and the bounded channels, and the      *)
(* order of the audio frames.                                              *)
(***************************************************************************)
EXTENDS Tci, FiniteSetTheorems, SequenceTheorems, TLAPS

LEMMA ConstFacts ==
  /\ MaxHz \in Nat /\ Step \in Nat /\ Step # 0 /\ MaxHz = (FftBins - AudioBins) * Step
  /\ FftBins \in Nat /\ AudioBins \in Nat
  /\ Default \in 0 .. MaxHz /\ Default \in Nat /\ MinHz \in 0 .. MaxHz
  /\ Depth \in Nat /\ Depth # 0 /\ Raw \subseteq Nat /\ Sinks \subseteq Nat
<1>1. /\ FftBins \in Nat /\ AudioBins \in Nat /\ Step \in Nat /\ Step # 0 /\ MinHz \in Nat
      /\ MinHz <= MaxHz /\ Default \in MinHz .. MaxHz /\ Depth \in Nat /\ Depth # 0
      /\ Raw \subseteq Nat /\ Sinks \subseteq Nat
  BY TciAssumption
<1>2. MaxHz = (FftBins - AudioBins) * Step
  BY DEF MaxHz
<1>3. MaxHz \in Int
  BY <1>1, <1>2
<1> QED BY <1>1, <1>2, <1>3

(* Bins of a frequency.                                                    *)
LEMMA BinsOf ==
  ASSUME NEW f \in Nat
  PROVE  f \div Step \in Nat
  BY ConstFacts

LEMMA BinsBelow ==
  ASSUME NEW f \in Nat, f <= MaxHz
  PROVE  f \div Step + AudioBins <= FftBins
<1> DEFINE q == f \div Step
           n == FftBins - AudioBins
<1>1. /\ q \in Nat /\ Step \in Nat /\ Step > 0 /\ n \in Int /\ MaxHz = n * Step
      /\ FftBins \in Nat /\ AudioBins \in Nat /\ MaxHz \in Nat
  BY ConstFacts, BinsOf
<1>2. q * Step <= f
  BY ConstFacts
<1> HIDE DEF q, n
<1>3. q * Step <= n * Step
  BY <1>1, <1>2
<1>4. ASSUME q >= n + 1 PROVE FALSE
  <2>1. q * Step >= (n + 1) * Step
    BY <1>1, <1>4
  <2>2. (n + 1) * Step = n * Step + Step
    BY <1>1
  <2>3. n * Step \in Int /\ q * Step \in Int
    BY <1>1
  <2> QED BY <1>1, <1>3, <2>1, <2>2, <2>3
<1>5. q <= n
  BY <1>1, <1>4
<1> QED BY <1>1, <1>5 DEF q, n

LEMMA BinsBack ==
  ASSUME NEW b \in Nat
  PROVE  (b * Step) \div Step = b /\ b * Step \in Nat
  BY ConstFacts

-----------------------------------------------------------------------------
(***************************************************************************)
(* Tuning.  The queue of VFO commands: the last one for sink t asks for v, *)
(* or there is none for t.                                                 *)
(***************************************************************************)
LastFor(q, t, v) ==
  \E i \in DOMAIN q : q[i].sink = t /\ q[i].hz = v /\ \A j \in DOMAIN q : j > i => q[j].sink # t

NoneFor(q, t) == \A i \in DOMAIN q : q[i].sink # t

LEMMA QueuePush ==
  ASSUME NEW M, NEW q \in Seq(M), NEW m \in M, NEW t
  PROVE  /\ q \o <<m>> \in Seq(M)
         /\ m.sink = t => LastFor(q \o <<m>>, t, m.hz)
         /\ \A v : m.sink # t /\ LastFor(q, t, v) => LastFor(q \o <<m>>, t, v)
         /\ m.sink # t /\ NoneFor(q, t) => NoneFor(q \o <<m>>, t)
<1> DEFINE r == q \o <<m>>
           n == Len(q)
<1>1. /\ r \in Seq(M) /\ n \in Nat /\ DOMAIN q = 1 .. n /\ DOMAIN r = 1 .. n + 1 /\ r[n + 1] = m
      /\ \A i \in 1 .. n : r[i] = q[i]
  <2>1. <<m>> \in Seq(M) /\ Len(<<m>>) = 1 /\ <<m>>[1] = m
    OBVIOUS
  <2>2. n \in Nat /\ DOMAIN q = 1 .. n
    BY LenProperties
  <2>3. /\ r \in Seq(M) /\ Len(r) = n + 1
        /\ \A i \in 1 .. n + 1 : r[i] = IF i <= n THEN q[i] ELSE <<m>>[i - n]
    BY <2>1, ConcatProperties
  <2>4. r[n + 1] = <<m>>[1]
    BY <2>2, <2>3
  <2> QED BY <2>1, <2>2, <2>3, <2>4, LenProperties
<1> HIDE DEF r, n
<1>2. m.sink = t => LastFor(r, t, m.hz)
  BY <1>1 DEF LastFor
<1>3. ASSUME NEW v, m.sink # t, LastFor(q, t, v) PROVE LastFor(r, t, v)
  <2>1. PICK i \in DOMAIN q : /\ q[i].sink = t /\ q[i].hz = v
                              /\ \A j \in DOMAIN q : j > i => q[j].sink # t
    BY <1>3 DEF LastFor
  <2>2. i \in DOMAIN r /\ r[i] = q[i]
    BY <1>1
  <2>3. \A j \in DOMAIN r : j > i => r[j].sink # t
    BY <1>1, <1>3, <2>1
  <2> QED BY <2>1, <2>2, <2>3 DEF LastFor
<1>4. m.sink # t /\ NoneFor(q, t) => NoneFor(r, t)
  BY <1>1 DEF NoneFor
<1> QED BY <1>1, <1>2, <1>3, <1>4 DEF r

LEMMA QueuePop ==
  ASSUME NEW M, NEW q \in Seq(M), q # << >>, NEW t
  PROVE  /\ Head(q) \in M /\ Tail(q) \in Seq(M)
         /\ \A v : LastFor(q, t, v) =>
              \/ LastFor(Tail(q), t, v)
              \/ NoneFor(Tail(q), t) /\ Head(q).sink = t /\ Head(q).hz = v
         /\ NoneFor(q, t) => NoneFor(Tail(q), t) /\ Head(q).sink # t
<1> DEFINE r == Tail(q)
           n == Len(q)
<1>0. Head(q) \in M /\ r \in Seq(M)
  BY HeadTailProperties
<1>1. /\ n \in Nat /\ n >= 1 /\ DOMAIN q = 1 .. n /\ DOMAIN r = 1 .. n - 1 /\ q[1] = Head(q)
      /\ \A i \in 1 .. n - 1 : r[i] = q[i + 1]
  <2>1. n \in Nat /\ DOMAIN q = 1 .. n /\ n # 0
    BY LenProperties, EmptySeq
  <2>2. r \in Seq(M) /\ Len(r) = n - 1 /\ \A i \in 1 .. n - 1 : r[i] = q[i + 1]
    BY HeadTailProperties
  <2>3. Head(q) = q[1]
    OBVIOUS
  <2> QED BY <2>1, <2>2, <2>3, LenProperties
<1> HIDE DEF r, n
<1>2. ASSUME NEW v, LastFor(q, t, v)
      PROVE  LastFor(r, t, v) \/ (NoneFor(r, t) /\ Head(q).sink = t /\ Head(q).hz = v)
  <2>1. PICK i \in DOMAIN q : /\ q[i].sink = t /\ q[i].hz = v
                              /\ \A j \in DOMAIN q : j > i => q[j].sink # t
    BY <1>2 DEF LastFor
  <2>2. CASE i = 1
    <3>1. NoneFor(r, t)
      BY <1>1, <2>1, <2>2 DEF NoneFor
    <3> QED BY <1>1, <2>1, <2>2, <3>1
  <2>3. CASE i # 1
    <3> DEFINE p == i - 1
    <3>1. p \in DOMAIN r /\ r[p] = q[i]
      BY <1>1, <2>3
    <3>2. \A j \in DOMAIN r : j > p => j + 1 \in DOMAIN q /\ j + 1 > i /\ r[j] = q[j + 1]
      BY <1>1
    <3>3. \A j \in DOMAIN r : j > p => r[j].sink # t
      BY <2>1, <3>2
    <3> HIDE DEF p
    <3> QED BY <2>1, <3>1, <3>3 DEF LastFor
  <2> QED BY <2>2, <2>3
<1>3. NoneFor(q, t) => NoneFor(r, t) /\ Head(q).sink # t
  BY <1>1 DEF NoneFor
<1> QED BY <1>0, <1>2, <1>3 DEF r

(* Every tune that is on its way was clamped or checked.                   *)
Tuning == [sink : Sinks, hz : 0 .. MaxHz]

TuneShape ==
  /\ busy \in [Conns -> Seq(Tuning)]
  /\ \A c \in Conns : busy[c] = Idle \/ \E v \in Tuning : busy[c] = <<v>>
  /\ vfoFreqs \in [Sinks -> Nat] /\ vfoQueue \in Seq(Tuning)
  /\ overlap \in [Sinks -> BOOLEAN]
  /\ bins \in [Sinks -> Nat] /\ status \in [Sinks -> Nat]
  /\ tuner \in [Sinks -> {"init", "browser", "tci"}]
  /\ cmdPc \in {"start", "run", "dead"}
  /\ cmdJob = Idle \/ \E v \in Tuning : cmdJob = <<v>>

(***************************************************************************)
(* Where a sink is going: while no command overlapped another, a command   *)
(* that is not yet queued, the last one in the queue, or the sink itself   *)
(* is at vfo_freqs.                                                        *)
(***************************************************************************)
GoingAt(t) ==
  ~overlap[t] =>
    /\ \A c, d \in Midway(t) : c = d
    /\ \A c \in Midway(t) : busy[c][1].hz = vfoFreqs[t]
    /\ Midway(t) = {} =>
         \/ LastFor(vfoQueue, t, vfoFreqs[t])
         \/ /\ NoneFor(vfoQueue, t)
            /\ tuner[t] = "browser" \/ bins[t] = vfoFreqs[t] \div Step

(* What cmdWorker publishes, or is about to, is what it stored.            *)
StatusAt(t) ==
  cmdPc = "run" /\ tuner[t] # "tci" =>
    bins[t] = (IF cmdJob # Idle /\ cmdJob[1].sink = t THEN cmdJob[1].hz ELSE status[t]) \div Step

TuneInv ==
  /\ TuneShape /\ WindowInFft
  /\ \A t \in Sinks : GoingAt(t) /\ StatusAt(t)
  /\ cmdPc = "start" => cmdJob = Idle

LEMMA ClampFacts ==
  ASSUME NEW f \in Nat
  PROVE  Clamp(f) \in 0 .. MaxHz
  BY ConstFacts DEF Clamp

LEMMA OneTune ==
  ASSUME NEW q, q = << >> \/ \E v \in Tuning : q = <<v>>
  PROVE  /\ q \in Seq(Tuning)
         /\ q # << >> => q[1] \in Tuning /\ q = <<q[1]>>
<1>1. ASSUME NEW v \in Tuning, q = <<v>> PROVE q \in Seq(Tuning) /\ q[1] \in Tuning /\ q = <<q[1]>>
  BY <1>1
<1>2. ASSUME q = << >> PROVE q \in Seq(Tuning)
  BY <1>2
<1> QED BY <1>1, <1>2

(* A tune on its way leaves the sink's window in the FFT.                  *)
LEMMA TuningFacts ==
  ASSUME NEW v \in Tuning
  PROVE  /\ v.sink \in Sinks /\ v.hz \in Nat /\ v.hz \div Step \in Nat
         /\ v.hz \div Step + AudioBins <= FftBins
<1>1. v.sink \in Sinks /\ v.hz \in 0 .. MaxHz
  BY DEF Tuning
<1>2. MaxHz \in Nat
  BY ConstFacts
<1>3. v.hz \in Nat /\ v.hz <= MaxHz
  BY <1>1, <1>2
<1> QED BY <1>1, <1>3, BinsOf, BinsBelow

(* Setting a sink.                                                         *)
LEMMA SinkFacts ==
  ASSUME TuneShape, NEW v \in Tuning, bins' = [bins EXCEPT ![v.sink] = v.hz \div Step],
         WindowInFft
  PROVE  bins' \in [Sinks -> Nat] /\ WindowInFft'
<1>1. /\ v.sink \in Sinks /\ v.hz \in Nat /\ v.hz \div Step \in Nat
      /\ v.hz \div Step + AudioBins <= FftBins
  BY TuningFacts
<1>2. /\ bins' \in [Sinks -> Nat] /\ bins'[v.sink] = v.hz \div Step
      /\ \A t \in Sinks \ {v.sink} : bins'[t] = bins[t]
  BY <1>1 DEF TuneShape
<1> QED BY <1>1, <1>2 DEF WindowInFft

LEMMA TuneInit == Init => TuneInv
<1> SUFFICES ASSUME Init PROVE TuneInv
  OBVIOUS
<1>1. /\ Default \in Nat /\ Default <= MaxHz
  BY ConstFacts
<1>2. Default \div Step \in Nat /\ Default \div Step + AudioBins <= FftBins
  BY <1>1, BinsOf, BinsBelow
<1>3. << >> \in Seq(Tuning)
  OBVIOUS
<1>4. TuneShape
  BY <1>1, <1>2, <1>3 DEF Init, TuneShape, Idle
<1>5. WindowInFft
  BY <1>2 DEF Init, WindowInFft
<1>6. ASSUME NEW t \in Sinks PROVE GoingAt(t) /\ StatusAt(t)
  <2>1. Midway(t) = {}
    BY DEF Midway, Init
  <2>2. NoneFor(vfoQueue, t)
    BY DEF NoneFor, Init
  <2>3. bins[t] = vfoFreqs[t] \div Step /\ cmdPc = "start"
    BY DEF Init
  <2> QED BY <2>1, <2>2, <2>3 DEF GoingAt, StatusAt
<1>7. cmdJob = Idle
  BY DEF Init
<1> QED BY <1>4, <1>5, <1>6, <1>7 DEF TuneInv

(* parse_vfo_cmd stores the frequency: the command is on its way alone, or *)
(* overlaps.                                                               *)
LEMMA StoreTunes ==
  ASSUME TuneInv, NEW c \in Conns, NEW s \in Sinks, NEW raw \in Raw, VfoStore(c, s, raw)
  PROVE  TuneInv'
<1> DEFINE v == [sink |-> s, hz |-> Clamp(raw)]
<1>1. TuneShape
  BY DEF TuneInv
<1>2. v \in Tuning /\ v.sink = s /\ v.hz = Clamp(raw) /\ Clamp(raw) \in Nat
  <2>1. raw \in Nat /\ MaxHz \in Nat
    BY ConstFacts
  <2>2. Clamp(raw) \in 0 .. MaxHz
    BY <2>1, ClampFacts
  <2> QED BY <2>1, <2>2 DEF Tuning
<1>3. /\ busy[c] = Idle /\ busy' = [busy EXCEPT ![c] = <<v>>]
      /\ vfoFreqs' = [vfoFreqs EXCEPT ![s] = v.hz]
      /\ overlap' = [overlap EXCEPT ![s] = Midway(s) # {}]
      /\ UNCHANGED <<vfoQueue, bins, tuner, cmdPc, cmdJob, status>>
  BY <1>2 DEF VfoStore, Ready, sinkVars, cmdVars
<1> HIDE DEF v
<1>4. /\ busy'[c] = <<v>> /\ vfoFreqs'[s] = v.hz /\ overlap'[s] = (Midway(s) # {})
      /\ \A d \in Conns \ {c} : busy'[d] = busy[d]
      /\ \A t \in Sinks \ {s} : vfoFreqs'[t] = vfoFreqs[t] /\ overlap'[t] = overlap[t]
  BY <1>1, <1>3 DEF TuneShape
<1>5. TuneShape'
  <2>1. <<v>> \in Seq(Tuning) /\ v.hz \in Nat
    BY <1>2
  <2>2. busy' \in [Conns -> Seq(Tuning)] /\ vfoFreqs' \in [Sinks -> Nat]
    BY <1>1, <1>3, <2>1 DEF TuneShape
  <2>3. overlap' \in [Sinks -> BOOLEAN]
    BY <1>1, <1>3 DEF TuneShape
  <2>4. \A d \in Conns : busy'[d] = Idle \/ \E u \in Tuning : busy'[d] = <<u>>
    BY <1>1, <1>2, <1>4 DEF TuneShape
  <2> QED BY <1>1, <1>3, <2>2, <2>3, <2>4 DEF TuneShape
<1>6. busy'[c] # Idle /\ busy'[c][1] = v
  BY <1>4 DEF Idle
<1>7. ASSUME NEW t \in Sinks PROVE GoingAt(t)' /\ StatusAt(t)'
  <2>1. GoingAt(t) /\ StatusAt(t)
    BY DEF TuneInv
  <2>2. StatusAt(t)'
    BY <1>3, <2>1 DEF StatusAt
  <2>3. CASE t # s
    <3>1. Midway(t)' = Midway(t) /\ c \notin Midway(t)
      BY <1>2, <1>3, <1>4, <1>6, <2>3 DEF Midway
    <3>2. \A d \in Midway(t) : busy'[d] = busy[d]
      BY <1>4, <3>1 DEF Midway
    <3> QED BY <1>3, <1>4, <2>1, <2>2, <2>3, <3>1, <3>2 DEF GoingAt
  <2>4. CASE t = s
    <3> SUFFICES ASSUME ~overlap'[s] PROVE GoingAt(t)'
      BY <2>2, <2>4 DEF GoingAt
    <3>1. Midway(s) = {}
      BY <1>4
    <3>2. Midway(s)' = {c}
      <4>1. \A d \in Conns \ {c} : d \notin Midway(s)'
        BY <1>4, <3>1 DEF Midway
      <4>2. c \in Midway(s)'
        BY <1>2, <1>6 DEF Midway
      <4>3. Midway(s)' \subseteq Conns
        BY DEF Midway
      <4> QED BY <4>1, <4>2, <4>3
    <3> QED BY <1>4, <1>6, <2>4, <3>2 DEF GoingAt
  <2> QED BY <2>2, <2>3, <2>4
<1>8. WindowInFft' /\ (cmdPc' = "start" => cmdJob' = Idle)
  BY <1>3 DEF TuneInv, WindowInFft
<1> QED BY <1>5, <1>7, <1>8 DEF TuneInv

(* The command goes to the end of the queue.                               *)
LEMMA PushTunes ==
  ASSUME TuneInv, NEW c \in Conns, VfoPush(c)
  PROVE  TuneInv'
<1> DEFINE v == busy[c][1]
<1>1. TuneShape
  BY DEF TuneInv
<1>2. /\ busy[c] # Idle /\ busy' = [busy EXCEPT ![c] = Idle] /\ vfoQueue' = vfoQueue \o busy[c]
      /\ UNCHANGED <<vfoFreqs, overlap, bins, tuner, cmdPc, cmdJob, status>>
  BY DEF VfoPush, sinkVars, cmdVars
<1>3. v \in Tuning /\ busy[c] = <<v>> /\ Idle = << >>
  BY <1>1, <1>2, OneTune DEF TuneShape, Idle
<1> HIDE DEF v
<1>4. busy'[c] = Idle /\ \A d \in Conns \ {c} : busy'[d] = busy[d]
  BY <1>1, <1>2 DEF TuneShape
<1>5. vfoQueue \in Seq(Tuning) /\ vfoQueue' = vfoQueue \o <<v>>
  BY <1>1, <1>2, <1>3 DEF TuneShape
<1>6. TuneShape'
  <2>1. busy' \in [Conns -> Seq(Tuning)]
    <3>1. Idle \in Seq(Tuning)
      BY DEF Idle
    <3> QED BY <1>1, <1>2, <3>1 DEF TuneShape
  <2>2. vfoQueue' \in Seq(Tuning)
    BY <1>3, <1>5, QueuePush
  <2>3. \A d \in Conns : busy'[d] = Idle \/ \E u \in Tuning : busy'[d] = <<u>>
    BY <1>1, <1>4 DEF TuneShape
  <2> QED BY <1>1, <1>2, <2>1, <2>2, <2>3 DEF TuneShape
<1>7. ASSUME NEW t \in Sinks PROVE GoingAt(t)' /\ StatusAt(t)'
  <2>1. GoingAt(t) /\ StatusAt(t)
    BY DEF TuneInv
  <2>2. StatusAt(t)'
    BY <1>2, <2>1 DEF StatusAt
  <2>3. Midway(t)' = Midway(t) \ {c}
    BY <1>4 DEF Midway
  <2>4. \A d \in Midway(t)' : busy'[d] = busy[d]
    BY <1>4, <2>3 DEF Midway
  <2>5. CASE v.sink # t
    <3>1. c \notin Midway(t)
      BY <2>5 DEF Midway, v
    <3>2. Midway(t)' = Midway(t)
      BY <2>3, <3>1
    <3>3. /\ \A x : LastFor(vfoQueue, t, x) => LastFor(vfoQueue', t, x)
          /\ NoneFor(vfoQueue, t) => NoneFor(vfoQueue', t)
      BY <1>3, <1>5, <2>5, QueuePush
    <3> QED BY <1>2, <2>1, <2>2, <2>4, <3>2, <3>3 DEF GoingAt
  <2>6. CASE v.sink = t
    <3>1. c \in Midway(t)
      BY <1>2, <2>6 DEF Midway, v
    <3> SUFFICES ASSUME ~overlap'[t] PROVE GoingAt(t)'
      BY <2>2 DEF GoingAt
    <3>2. /\ \A d, e \in Midway(t) : d = e
          /\ \A d \in Midway(t) : busy[d][1].hz = vfoFreqs[t]
      BY <1>2, <2>1 DEF GoingAt
    <3>3. v.hz = vfoFreqs'[t] /\ Midway(t)' = {}
      BY <1>2, <2>3, <3>1, <3>2 DEF v
    <3>4. LastFor(vfoQueue', t, v.hz)
      BY <1>3, <1>5, <2>6, QueuePush
    <3> QED BY <3>3, <3>4 DEF GoingAt
  <2> QED BY <2>5, <2>6
<1>8. WindowInFft' /\ (cmdPc' = "start" => cmdJob' = Idle)
  BY <1>2 DEF TuneInv, WindowInFft
<1> QED BY <1>6, <1>7, <1>8 DEF TuneInv

(* tciVfoWorker tunes a sink as the oldest command says.                   *)
LEMMA ApplyTunes ==
  ASSUME TuneInv, VfoApply
  PROVE  TuneInv'
<1> DEFINE v == Head(vfoQueue)
<1>1. TuneShape /\ WindowInFft
  BY DEF TuneInv
<1>2. /\ vfoQueue # << >> /\ vfoQueue' = Tail(vfoQueue)
      /\ bins' = [bins EXCEPT ![v.sink] = v.hz \div Step] /\ tuner' = [tuner EXCEPT ![v.sink] = "tci"]
      /\ UNCHANGED <<busy, vfoFreqs, overlap, cmdPc, cmdJob, status>>
  BY DEF VfoApply, cmdVars
<1>3. vfoQueue \in Seq(Tuning)
  BY <1>1 DEF TuneShape
<1>4. v \in Tuning /\ vfoQueue' \in Seq(Tuning)
  BY <1>2, <1>3, QueuePop
<1>5. v.sink \in Sinks
  BY <1>4 DEF Tuning
<1>pop. ASSUME NEW t \in Sinks
        PROVE  /\ \A x : LastFor(vfoQueue, t, x) =>
                    LastFor(vfoQueue', t, x) \/ (NoneFor(vfoQueue', t) /\ v.sink = t /\ v.hz = x)
               /\ NoneFor(vfoQueue, t) => NoneFor(vfoQueue', t) /\ v.sink # t
  BY <1>2, <1>3, QueuePop
<1> HIDE DEF v
<1>6. bins' \in [Sinks -> Nat] /\ WindowInFft'
  BY <1>1, <1>2, <1>4, SinkFacts
<1>7. /\ bins'[v.sink] = v.hz \div Step /\ tuner'[v.sink] = "tci"
      /\ \A t \in Sinks \ {v.sink} : bins'[t] = bins[t] /\ tuner'[t] = tuner[t]
  BY <1>1, <1>2, <1>5 DEF TuneShape
<1>8. TuneShape'
  <2>1. tuner' \in [Sinks -> {"init", "browser", "tci"}]
    BY <1>1, <1>2 DEF TuneShape
  <2> QED BY <1>1, <1>2, <1>4, <1>6, <2>1 DEF TuneShape
<1>9. ASSUME NEW t \in Sinks PROVE GoingAt(t)' /\ StatusAt(t)'
  <2>1. GoingAt(t) /\ StatusAt(t)
    BY DEF TuneInv
  <2>2. StatusAt(t)'
    BY <1>2, <1>7, <2>1 DEF StatusAt
  <2>3. Midway(t)' = Midway(t)
    BY <1>2 DEF Midway
  <2>4. ASSUME ~overlap[t], Midway(t) = {}
        PROVE  \/ LastFor(vfoQueue', t, vfoFreqs[t])
               \/ /\ NoneFor(vfoQueue', t)
                  /\ tuner'[t] = "browser" \/ bins'[t] = vfoFreqs[t] \div Step
    <3>1. CASE LastFor(vfoQueue, t, vfoFreqs[t])
      <4>1. CASE LastFor(vfoQueue', t, vfoFreqs[t])
        BY <4>1
      <4>2. CASE NoneFor(vfoQueue', t) /\ v.sink = t /\ v.hz = vfoFreqs[t]
        BY <1>7, <4>2
      <4> QED BY <1>pop, <3>1, <4>1, <4>2
    <3>2. CASE NoneFor(vfoQueue, t) /\ (tuner[t] = "browser" \/ bins[t] = vfoFreqs[t] \div Step)
      <4>1. NoneFor(vfoQueue', t) /\ v.sink # t
        BY <1>pop, <3>2
      <4> QED BY <1>7, <3>2, <4>1
    <3> QED BY <2>1, <2>4, <3>1, <3>2 DEF GoingAt
  <2>5. GoingAt(t)'
    BY <1>2, <2>1, <2>3, <2>4 DEF GoingAt
  <2> QED BY <2>2, <2>5
<1> QED BY <1>2, <1>6, <1>8, <1>9 DEF TuneInv

(* cmdWorker.                                                              *)
LEMMA BrowserTunes ==
  ASSUME TuneInv, NEW s \in Sinks, NEW f \in Raw, CmdTune(s, f)
  PROVE  TuneInv'
<1> DEFINE v == [sink |-> s, hz |-> f]
<1>1. TuneShape /\ WindowInFft
  BY DEF TuneInv
<1>2. v \in Tuning /\ v.sink = s /\ v.hz = f
  <2>1. f \in Nat /\ MaxHz \in Nat /\ f <= MaxHz
    BY ConstFacts DEF CmdTune
  <2> QED BY <2>1 DEF Tuning
<1>3. /\ cmdPc = "run" /\ cmdJob' = <<v>>
      /\ bins' = [bins EXCEPT ![v.sink] = v.hz \div Step]
      /\ tuner' = [tuner EXCEPT ![v.sink] = "browser"]
      /\ UNCHANGED <<busy, vfoFreqs, overlap, vfoQueue, cmdPc, status>>
  BY <1>2 DEF CmdTune, vfoVars
<1>idle. cmdJob = Idle
  BY DEF CmdTune
<1> HIDE DEF v
<1>4. bins' \in [Sinks -> Nat] /\ WindowInFft'
  BY <1>1, <1>2, <1>3, SinkFacts
<1>5. /\ bins'[s] = v.hz \div Step /\ tuner'[s] = "browser"
      /\ \A t \in Sinks \ {s} : bins'[t] = bins[t] /\ tuner'[t] = tuner[t]
  BY <1>1, <1>2, <1>3 DEF TuneShape
<1>6. cmdJob' # Idle /\ cmdJob'[1] = v
  BY <1>3 DEF Idle
<1>7. TuneShape'
  <2>1. tuner' \in [Sinks -> {"init", "browser", "tci"}]
    BY <1>1, <1>3 DEF TuneShape
  <2>2. cmdJob' = Idle \/ \E u \in Tuning : cmdJob' = <<u>>
    BY <1>2, <1>3
  <2> QED BY <1>1, <1>3, <1>4, <2>1, <2>2 DEF TuneShape
<1>8. ASSUME NEW t \in Sinks PROVE GoingAt(t)' /\ StatusAt(t)'
  <2>1. GoingAt(t) /\ StatusAt(t)
    BY DEF TuneInv
  <2>2. Midway(t)' = Midway(t)
    BY <1>3 DEF Midway
  <2>3. GoingAt(t)'
    <3>1. tuner'[t] = "browser" \/ (tuner'[t] = tuner[t] /\ bins'[t] = bins[t])
      BY <1>5
    <3> QED BY <1>3, <2>1, <2>2, <3>1 DEF GoingAt
  <2>4. StatusAt(t)'
    <3>1. CASE t = s
      <4>1. bins'[t] = cmdJob'[1].hz \div Step /\ cmdJob'[1].sink = t
        BY <1>2, <1>5, <1>6, <3>1
      <4> QED BY <1>6, <4>1 DEF StatusAt
    <3>2. CASE t # s
      <4>1. cmdJob'[1].sink # t /\ bins'[t] = bins[t] /\ tuner'[t] = tuner[t]
        BY <1>2, <1>5, <1>6, <3>2
      <4> QED BY <1>3, <1>idle, <2>1, <4>1 DEF StatusAt
    <3> QED BY <3>1, <3>2
  <2> QED BY <2>3, <2>4
<1>9. cmdPc' = "start" => cmdJob' = Idle
  BY <1>3
<1> QED BY <1>4, <1>7, <1>8, <1>9 DEF TuneInv

LEMMA StatusTunes ==
  ASSUME TuneInv, CmdStart \/ CmdPublish \/ CmdFail
  PROVE  TuneInv'
<1>1. TuneShape /\ WindowInFft
  BY DEF TuneInv
<1>2. UNCHANGED <<busy, vfoFreqs, overlap, vfoQueue, bins, tuner>>
  BY DEF CmdStart, CmdPublish, CmdFail, vfoVars, sinkVars
<1>3. \A t \in Sinks : GoingAt(t)'
  <2> SUFFICES ASSUME NEW t \in Sinks PROVE GoingAt(t)'
    OBVIOUS
  <2>1. Midway(t)' = Midway(t)
    BY <1>2 DEF Midway
  <2> QED BY <1>2, <2>1 DEF TuneInv, GoingAt
<1>4. WindowInFft'
  BY <1>1, <1>2 DEF WindowInFft
<1>5. CASE CmdStart
  <2>1. /\ cmdPc = "start" /\ cmdPc' = "run" /\ status' = [t \in Sinks |-> bins[t] * Step]
        /\ cmdJob' = cmdJob /\ cmdJob = Idle
    BY <1>5 DEF CmdStart, TuneInv
  <2>2. \A t \in Sinks : bins[t] * Step \in Nat /\ (bins[t] * Step) \div Step = bins[t]
    BY <1>1, BinsBack DEF TuneShape
  <2>3. status' \in [Sinks -> Nat] /\ \A t \in Sinks : status'[t] \div Step = bins[t]
    BY <2>1, <2>2
  <2>4. TuneShape'
    BY <1>1, <1>2, <2>1, <2>3 DEF TuneShape
  <2>5. \A t \in Sinks : StatusAt(t)'
    BY <1>2, <2>1, <2>3 DEF StatusAt
  <2> QED BY <1>3, <1>4, <2>1, <2>4, <2>5 DEF TuneInv
<1>6. CASE CmdPublish
  <2> DEFINE v == cmdJob[1]
  <2>1. /\ cmdPc = "run" /\ cmdJob # Idle /\ cmdPc' = cmdPc /\ cmdJob' = Idle
        /\ status' = [status EXCEPT ![v.sink] = v.hz]
    BY <1>6 DEF CmdPublish
  <2>2. v \in Tuning
    BY <1>1, <2>1, OneTune DEF TuneShape, Idle
  <2>3. v.sink \in Sinks /\ v.hz \in Nat
    BY <2>2, TuningFacts
  <2> HIDE DEF v
  <2>4. /\ status' \in [Sinks -> Nat] /\ status'[v.sink] = v.hz
        /\ \A t \in Sinks \ {v.sink} : status'[t] = status[t]
    BY <1>1, <2>1, <2>3 DEF TuneShape
  <2>5. TuneShape'
    BY <1>1, <1>2, <2>1, <2>4 DEF TuneShape
  <2>6. ASSUME NEW t \in Sinks PROVE StatusAt(t)'
    <3>1. StatusAt(t)
      BY DEF TuneInv
    <3>2. CASE t = v.sink
      BY <1>2, <2>1, <2>4, <3>1, <3>2 DEF StatusAt, v
    <3>3. CASE t # v.sink
      BY <1>2, <2>1, <2>4, <3>1, <3>3 DEF StatusAt, v
    <3> QED BY <3>2, <3>3
  <2> QED BY <1>3, <1>4, <2>1, <2>5, <2>6 DEF TuneInv
<1>7. CASE CmdFail
  <2>1. cmdPc' = "dead" /\ UNCHANGED <<cmdJob, status>>
    BY <1>7 DEF CmdFail
  <2>2. TuneShape'
    BY <1>1, <1>2, <2>1 DEF TuneShape
  <2> QED BY <1>3, <1>4, <2>1, <2>2 DEF TuneInv, StatusAt
<1> QED BY <1>5, <1>6, <1>7

LEMMA TuneStep == TuneInv /\ [Next]_vars => TuneInv'
<1> SUFFICES ASSUME TuneInv, [Next]_vars PROVE TuneInv'
  OBVIOUS
<1>1. ASSUME UNCHANGED <<vfoVars, sinkVars, cmdVars>> PROVE TuneInv'
  <2>1. UNCHANGED <<busy, vfoFreqs, overlap, vfoQueue, bins, tuner, cmdPc, cmdJob, status>>
    BY <1>1 DEF vfoVars, sinkVars, cmdVars
  <2>2. TuneShape' /\ WindowInFft' /\ (cmdPc' = "start" => cmdJob' = Idle)
    BY <2>1 DEF TuneInv, TuneShape, WindowInFft
  <2>3. ASSUME NEW t \in Sinks PROVE GoingAt(t)' /\ StatusAt(t)'
    <3>1. Midway(t)' = Midway(t)
      BY <2>1 DEF Midway
    <3> QED BY <2>1, <3>1 DEF TuneInv, GoingAt, StatusAt
  <2> QED BY <2>2, <2>3 DEF TuneInv
<1>2. ASSUME NEW c \in Conns, Connection(c) \/ AudioCommands(c) PROVE TuneInv'
  BY <1>1, <1>2 DEF Connection, AudioCommands, Accept, InitSent, HandlerEnd, WriterFail, WriterSend,
     Senders, SenderRun, SenderResume, AudioStart, AudioStop, EchoOnly
<1>3. ASSUME NEW c \in Conns, VfoCommands(c) PROVE TuneInv'
  BY <1>3, StoreTunes, PushTunes DEF VfoCommands
<1>4. CASE AudioWorker
  BY <1>1, <1>4 DEF AudioWorker, PushAudio, PushSmeter
<1>5. CASE CmdWorker
  BY <1>5, BrowserTunes, StatusTunes DEF CmdWorker
<1>6. CASE UNCHANGED vars
  BY <1>1, <1>6 DEF vars
<1> QED BY <1>2, <1>3, <1>4, <1>5, <1>6, ApplyTunes DEF Next

(* Whoever tunes a sink, TCI client or browser, doCopy reads inside the    *)
(* front FFT: frequencies are clamped (parse_vfo_cmd) or checked           *)
(* (cmdWorker) before they are stored.                                     *)
THEOREM WindowStaysIn == Spec => []WindowInFft
<1>1. TuneInv => WindowInFft
  BY DEF TuneInv
<1> QED BY <1>1, TuneInit, TuneStep, PTL DEF Spec

(* A sink that no browser tuned and no two commands raced for is tuned     *)
(* where vfo_freqs says once its commands are applied, and the published   *)
(* status is what cmdWorker tuned: the store, the queue, tciVfoWorker and  *)
(* cmdWorker may interleave in any way.                                    *)
THEOREM TunedWhereTold == Spec => []TuningAgrees
<1>1. TuneInv => TunedAsTold
  <2> SUFFICES ASSUME TuneInv, NEW t \in Sinks, Midway(t) = {},
                      \A i \in DOMAIN vfoQueue : vfoQueue[i].sink # t,
                      tuner[t] # "browser", ~overlap[t]
               PROVE  bins[t] = vfoFreqs[t] \div Step
    BY DEF TunedAsTold
  <2>1. ~LastFor(vfoQueue, t, vfoFreqs[t])
    BY DEF LastFor
  <2> QED BY <2>1 DEF TuneInv, GoingAt
<1>2. TuneInv => StatusAgrees
  BY DEF TuneInv, StatusAt, StatusAgrees
<1>3. TuneInv => TuningAgrees
  BY <1>1, <1>2 DEF TuningAgrees
<1> QED BY <1>3, TuneInit, TuneStep, PTL DEF Spec

-----------------------------------------------------------------------------
(***************************************************************************)
(* The channels.  Message m is an audio frame of sink t; the frames of t   *)
(* in q are numbered upwards, above lo and up to hi.                       *)
(***************************************************************************)
IsFrame(m, t) == m.kind = "audio" /\ m.sink = t

Ordered(q, t, lo, hi) ==
  /\ lo <= hi
  /\ \A i \in DOMAIN q : IsFrame(q[i], t) => lo < q[i].id /\ q[i].id <= hi
  /\ \A i, j \in DOMAIN q : i < j /\ IsFrame(q[i], t) /\ IsFrame(q[j], t) => q[i].id < q[j].id

EchoesIn(q, n) == \A i \in DOMAIN q : q[i].kind = "echo" => q[i].id \in 1 .. n

(* A message put at the end.                                               *)
LEMMA ChanAppend ==
  ASSUME NEW q \in Seq(Msg), NEW m \in Msg
  PROVE  /\ Append(q, m) \in Seq(Msg) /\ Len(Append(q, m)) = Len(q) + 1 /\ Len(q) \in Nat
         /\ \A n \in Nat : EchoesIn(q, n) /\ (m.kind = "echo" => m.id \in 1 .. n)
                             => EchoesIn(Append(q, m), n)
         /\ \A t : \A lo, hi, new \in Nat :
              /\ Ordered(q, t, lo, hi) /\ hi <= new
              /\ IsFrame(m, t) => hi < m.id /\ m.id <= new
              => Ordered(Append(q, m), t, lo, new)
<1> DEFINE r == Append(q, m)
           k == Len(q)
<1>1. /\ r \in Seq(Msg) /\ Len(r) = k + 1 /\ k \in Nat
      /\ DOMAIN q = 1 .. k /\ DOMAIN r = 1 .. k + 1 /\ r[k + 1] = m
      /\ \A i \in 1 .. k : r[i] = q[i]
  BY LenProperties, AppendProperties
<1>2. m.id \in Nat /\ \A i \in 1 .. k : q[i].id \in Nat
  <2>1. \A i \in 1 .. k : q[i] \in Msg
    BY ElementOfSeq
  <2> QED BY <2>1 DEF Msg
<1> HIDE DEF r, k
<1>3. ASSUME NEW n \in Nat, EchoesIn(q, n), m.kind = "echo" => m.id \in 1 .. n
      PROVE  EchoesIn(r, n)
  BY <1>1, <1>3 DEF EchoesIn
<1>4. ASSUME NEW t, NEW lo \in Nat, NEW hi \in Nat, NEW new \in Nat, Ordered(q, t, lo, hi), hi <= new,
             IsFrame(m, t) => hi < m.id /\ m.id <= new
      PROVE  Ordered(r, t, lo, new)
  <2>1. lo <= hi
    BY <1>4 DEF Ordered
  <2>2. ASSUME NEW i \in DOMAIN r, IsFrame(r[i], t) PROVE lo < r[i].id /\ r[i].id <= new
    <3>1. CASE i = k + 1
      BY <1>1, <1>2, <1>4, <2>1, <2>2, <3>1
    <3>2. CASE i # k + 1
      <4>1. i \in DOMAIN q /\ r[i] = q[i] /\ q[i].id \in Nat
        BY <1>1, <1>2, <3>2
      <4>2. lo < q[i].id /\ q[i].id <= hi
        BY <1>4, <2>2, <4>1 DEF Ordered
      <4> QED BY <1>4, <4>1, <4>2
    <3> QED BY <3>1, <3>2
  <2>3. ASSUME NEW i \in DOMAIN r, NEW j \in DOMAIN r, i < j, IsFrame(r[i], t), IsFrame(r[j], t)
        PROVE  r[i].id < r[j].id
    <3>1. i \in DOMAIN q /\ r[i] = q[i] /\ q[i].id \in Nat
      BY <1>1, <1>2, <2>3
    <3>2. CASE j = k + 1
      <4>1. q[i].id <= hi
        BY <1>4, <2>3, <3>1 DEF Ordered
      <4>2. hi < m.id /\ r[j] = m
        BY <1>1, <1>4, <2>3, <3>2
      <4> QED BY <1>2, <1>4, <3>1, <4>1, <4>2
    <3>3. CASE j # k + 1
      <4>1. j \in DOMAIN q /\ r[j] = q[j]
        BY <1>1, <3>3
      <4> QED BY <1>4, <2>3, <3>1, <4>1 DEF Ordered
    <3> QED BY <3>2, <3>3
  <2>4. lo <= new
    BY <1>4, <2>1
  <2> QED BY <2>2, <2>3, <2>4 DEF Ordered
<1> QED BY <1>1, <1>3, <1>4 DEF r, k

(* The first message taken out.                                            *)
LEMMA ChanTail ==
  ASSUME NEW q \in Seq(Msg), q # << >>
  PROVE  /\ Head(q) \in Msg /\ Tail(q) \in Seq(Msg) /\ Len(Tail(q)) = Len(q) - 1 /\ Len(q) \in Nat
         /\ \A n \in Nat : EchoesIn(q, n) => EchoesIn(Tail(q), n) /\ (Head(q).kind = "echo" => Head(q).id \in 1 .. n)
         /\ \A t : \A lo, hi \in Nat : Ordered(q, t, lo, hi) =>
              /\ IsFrame(Head(q), t) => lo < Head(q).id
              /\ Ordered(Tail(q), t, IF IsFrame(Head(q), t) THEN Head(q).id ELSE lo, hi)
<1> DEFINE r == Tail(q)
           h == Head(q)
           k == Len(q)
<1>0. h \in Msg /\ r \in Seq(Msg) /\ Len(r) = k - 1 /\ k \in Nat
  BY HeadTailProperties, LenProperties
<1>1. /\ k \in Nat /\ k >= 1 /\ DOMAIN q = 1 .. k /\ DOMAIN r = 1 .. k - 1 /\ q[1] = h
      /\ \A i \in 1 .. k - 1 : r[i] = q[i + 1]
  <2>1. k \in Nat /\ DOMAIN q = 1 .. k /\ k # 0
    BY LenProperties, EmptySeq
  <2>2. r \in Seq(Msg) /\ Len(r) = k - 1 /\ \A i \in 1 .. k - 1 : r[i] = q[i + 1]
    BY HeadTailProperties
  <2>3. h = q[1]
    OBVIOUS
  <2> QED BY <2>1, <2>2, <2>3, LenProperties
<1> HIDE DEF r, h, k
<1>2. 1 \in DOMAIN q /\ \A i \in DOMAIN r : i + 1 \in DOMAIN q /\ r[i] = q[i + 1] /\ 1 < i + 1
  BY <1>1
<1>3. ASSUME NEW n \in Nat, EchoesIn(q, n)
      PROVE  EchoesIn(r, n) /\ (h.kind = "echo" => h.id \in 1 .. n)
  BY <1>1, <1>2, <1>3 DEF EchoesIn
<1>4. ASSUME NEW t, NEW lo \in Nat, NEW hi \in Nat, Ordered(q, t, lo, hi)
      PROVE  /\ IsFrame(h, t) => lo < h.id
             /\ Ordered(r, t, IF IsFrame(h, t) THEN h.id ELSE lo, hi)
  <2>1. /\ lo <= hi
        /\ \A i \in DOMAIN q : IsFrame(q[i], t) => lo < q[i].id /\ q[i].id <= hi
        /\ \A i, j \in DOMAIN q : i < j /\ IsFrame(q[i], t) /\ IsFrame(q[j], t) => q[i].id < q[j].id
    BY <1>4 DEF Ordered
  <2>2. IsFrame(h, t) => lo < h.id /\ h.id <= hi
    BY <1>1, <1>2, <2>1
  <2>3. \A i \in DOMAIN r : IsFrame(r[i], t) =>
          /\ lo < r[i].id /\ r[i].id <= hi
          /\ IsFrame(h, t) => h.id < r[i].id
    BY <1>1, <1>2, <2>1
  <2>4. \A i, j \in DOMAIN r : i < j /\ IsFrame(r[i], t) /\ IsFrame(r[j], t) => r[i].id < r[j].id
    <3> SUFFICES ASSUME NEW i \in DOMAIN r, NEW j \in DOMAIN r, i < j, IsFrame(r[i], t), IsFrame(r[j], t)
                 PROVE  r[i].id < r[j].id
      OBVIOUS
    <3>1. i + 1 < j + 1
      BY <1>1
    <3> QED BY <1>2, <2>1, <3>1
  <2> QED BY <2>1, <2>2, <2>3, <2>4 DEF Ordered
<1> QED BY <1>0, <1>3, <1>4 DEF r, h, k

(* Nothing in the channel, or more blocks pushed since.                    *)
LEMMA OrderedMore ==
  ASSUME NEW q \in Seq(Msg), NEW t, NEW lo \in Nat, NEW hi \in Nat, NEW new \in Nat, hi <= new
  PROVE  /\ Ordered(q, t, lo, hi) => Ordered(q, t, lo, new)
         /\ lo <= hi => Ordered(<< >>, t, lo, new)
<1>1. \A i \in DOMAIN q : q[i].id \in Nat
  <2>1. \A i \in DOMAIN q : q[i] \in Msg
    BY ElementOfSeq, LenProperties
  <2> QED BY <2>1 DEF Msg
<1>2. ASSUME Ordered(q, t, lo, hi) PROVE Ordered(q, t, lo, new)
  BY <1>1, <1>2 DEF Ordered
<1>3. ASSUME lo <= hi PROVE Ordered(<< >>, t, lo, new)
  BY <1>3 DEF Ordered
<1> QED BY <1>2, <1>3

LEMMA EchoesMore ==
  ASSUME NEW q, NEW n \in Nat, EchoesIn(q, n)
  PROVE  EchoesIn(q, n + 1) /\ 1 .. n \subseteq 1 .. n + 1 /\ n + 1 \in 1 .. n + 1
<1>1. 1 .. n \subseteq 1 .. n + 1 /\ n + 1 \in 1 .. n + 1
  OBVIOUS
<1> QED BY <1>1 DEF EchoesIn

-----------------------------------------------------------------------------
(***************************************************************************)
(* A connection: what is on its way are echoes of its commands and frames  *)
(* of pushed blocks, in order, and there is room for it.                   *)
(***************************************************************************)
ChanShape ==
  /\ chan \in [Conns -> Seq(Msg)] /\ waitq \in [Conns -> Seq(Nat)]
  /\ spawned \in [Conns -> SUBSET Nat] /\ granted \in [Conns -> SUBSET Nat]
  /\ got \in [Conns -> SUBSET Nat] /\ sent \in [Conns -> Nat]
  /\ lastFrame \in [Conns -> [Sinks -> Nat]] /\ blocks \in [Sinks -> Nat]

ConnAt(c) ==
  /\ spawned[c] \cup granted[c] \cup got[c] \subseteq 1 .. sent[c]
  /\ waitq[c] \in Seq(1 .. sent[c]) /\ EchoesIn(chan[c], sent[c])
  /\ Room(c) >= 0
  /\ \A t \in Sinks : Ordered(chan[c], t, lastFrame[c][t], blocks[t])

ConnInv == ChanShape /\ \A c \in Conns : ConnAt(c)

LEMMA GrantedFacts ==
  ASSUME ChanShape, NEW c \in Conns, ConnAt(c)
  PROVE  /\ IsFiniteSet(granted[c]) /\ Cardinality(granted[c]) \in Nat
         /\ chan[c] \in Seq(Msg) /\ Len(chan[c]) \in Nat /\ Depth \in Nat /\ sent[c] \in Nat
         /\ Len(chan[c]) + Cardinality(granted[c]) <= Depth
<1>1. sent[c] \in Nat /\ chan[c] \in Seq(Msg) /\ Depth \in Nat
  BY ConstFacts DEF ChanShape
<1>2. Len(chan[c]) \in Nat
  BY <1>1, LenProperties
<1>3. IsFiniteSet(1 .. sent[c])
  BY <1>1, FS_Interval
<1>4. granted[c] \in SUBSET (1 .. sent[c])
  BY DEF ConnAt
<1>5. IsFiniteSet(granted[c])
  BY <1>3, <1>4, FS_Subset
<1>6. Cardinality(granted[c]) \in Nat
  BY <1>5, FS_CardinalityType
<1>7. Depth - Len(chan[c]) - Cardinality(granted[c]) >= 0
  BY DEF ConnAt, Room
<1> QED BY <1>1, <1>2, <1>5, <1>6, <1>7

(* A step that leaves the connection alone.                                *)
LEMMA SameConn ==
  ASSUME ChanShape, NEW c \in Conns, ConnAt(c),
         chan'[c] = chan[c], waitq'[c] = waitq[c], spawned'[c] = spawned[c],
         granted'[c] = granted[c], got'[c] = got[c], sent'[c] = sent[c],
         lastFrame'[c] = lastFrame[c], \A t \in Sinks : blocks'[t] \in Nat /\ blocks'[t] >= blocks[t]
  PROVE  ConnAt(c)'
<1>1. chan[c] \in Seq(Msg)
  BY DEF ChanShape
<1>2. \A t \in Sinks : blocks[t] \in Nat /\ lastFrame[c][t] \in Nat
  BY DEF ChanShape
<1>3. \A t \in Sinks : Ordered(chan[c], t, lastFrame[c][t], blocks'[t])
  <2> SUFFICES ASSUME NEW t \in Sinks PROVE Ordered(chan[c], t, lastFrame[c][t], blocks'[t])
    OBVIOUS
  <2>1. Ordered(chan[c], t, lastFrame[c][t], blocks[t])
    BY DEF ConnAt
  <2>2. blocks[t] \in Nat /\ blocks'[t] \in Nat /\ lastFrame[c][t] \in Nat /\ blocks[t] <= blocks'[t]
    BY <1>2
  <2> QED BY <1>1, <2>1, <2>2, OrderedMore
<1>4. Room(c)' = Room(c)
  BY DEF Room
<1> QED BY <1>3, <1>4 DEF ConnAt

(* A step that puts a message in the channel, where there is room or into  *)
(* the room that was granted.                                              *)
LEMMA GrowConn ==
  ASSUME ChanShape, NEW c \in Conns, ConnAt(c), NEW m \in Msg, chan'[c] = Append(chan[c], m),
         m.kind = "echo" => m.id \in 1 .. sent[c],
         \A t \in Sinks : IsFrame(m, t) => blocks[t] < m.id /\ m.id <= blocks'[t],
         waitq'[c] = waitq[c], spawned'[c] \subseteq spawned[c], got'[c] = got[c],
         sent'[c] = sent[c], lastFrame'[c] = lastFrame[c],
         \A t \in Sinks : blocks'[t] \in Nat /\ blocks'[t] >= blocks[t],
         \/ Room(c) > 0 /\ granted'[c] = granted[c]
         \/ \E n \in granted[c] : granted'[c] = granted[c] \ {n}
  PROVE  ConnAt(c)'
<1>1. /\ IsFiniteSet(granted[c]) /\ Cardinality(granted[c]) \in Nat
      /\ chan[c] \in Seq(Msg) /\ Len(chan[c]) \in Nat /\ Depth \in Nat /\ sent[c] \in Nat
      /\ Len(chan[c]) + Cardinality(granted[c]) <= Depth
  BY GrantedFacts
<1>2. \A t \in Sinks : blocks[t] \in Nat /\ lastFrame[c][t] \in Nat
  BY DEF ChanShape
<1>3. ASSUME NEW t \in Sinks PROVE Ordered(chan'[c], t, lastFrame'[c][t], blocks'[t])
  <2>1. Ordered(chan[c], t, lastFrame[c][t], blocks[t])
    BY DEF ConnAt
  <2>2. blocks[t] \in Nat /\ blocks'[t] \in Nat /\ lastFrame[c][t] \in Nat /\ blocks[t] <= blocks'[t]
    BY <1>2
  <2>3. IsFrame(m, t) => blocks[t] < m.id /\ m.id <= blocks'[t]
    OBVIOUS
  <2>4. Ordered(Append(chan[c], m), t, lastFrame[c][t], blocks'[t])
    BY <1>1, <2>1, <2>2, <2>3, ChanAppend
  <2> QED BY <2>4
<1>4. EchoesIn(chan'[c], sent'[c])
  <2>1. EchoesIn(chan[c], sent[c])
    BY DEF ConnAt
  <2> QED BY <1>1, <2>1, ChanAppend
<1>5. Room(c)' >= 0
  <2>1. Len(chan'[c]) = Len(chan[c]) + 1
    BY <1>1, ChanAppend
  <2>2. Room(c)' = Depth - (Len(chan[c]) + 1) - Cardinality(granted'[c])
    BY <2>1 DEF Room
  <2>3. CASE Room(c) > 0 /\ granted'[c] = granted[c]
    <3>1. Depth - Len(chan[c]) - Cardinality(granted[c]) > 0
      BY <2>3 DEF Room
    <3> QED BY <1>1, <2>2, <2>3, <3>1
  <2>4. CASE \E n \in granted[c] : granted'[c] = granted[c] \ {n}
    <3>1. PICK n \in granted[c] : granted'[c] = granted[c] \ {n}
      BY <2>4
    <3>2. Cardinality(granted[c] \ {n}) = Cardinality(granted[c]) - 1
      BY <1>1, FS_RemoveElement
    <3> QED BY <1>1, <2>2, <3>1, <3>2
  <2> QED BY <2>3, <2>4
<1>6. spawned'[c] \cup granted'[c] \cup got'[c] \subseteq 1 .. sent'[c]
  <2>1. granted'[c] \subseteq granted[c]
    OBVIOUS
  <2> QED BY <2>1 DEF ConnAt
<1>7. waitq'[c] \in Seq(1 .. sent'[c])
  BY DEF ConnAt
<1> QED BY <1>3, <1>4, <1>5, <1>6, <1>7 DEF ConnAt

(* A message that is offered to some channels.                             *)
LEMMA TrySendConn ==
  ASSUME ConnInv, NEW to, NEW m \in Msg, TrySend(to, m), m.kind # "echo",
         \A t \in Sinks : IsFrame(m, t) => blocks[t] < m.id /\ m.id <= blocks'[t],
         UNCHANGED <<waitq, spawned, granted, got, sent, lastFrame>>, blocks' \in [Sinks -> Nat],
         \A t \in Sinks : blocks'[t] >= blocks[t]
  PROVE  ConnInv'
<1>1. ChanShape
  BY DEF ConnInv
<1>2. ASSUME NEW c \in Conns
      PROVE  chan'[c] = chan[c] \/ (chan'[c] = Append(chan[c], m) /\ HasRoom(c))
  BY DEF TrySend
<1>3. ASSUME NEW c \in Conns PROVE ConnAt(c)' /\ chan'[c] \in Seq(Msg)
  <2>0. ConnAt(c) /\ chan[c] \in Seq(Msg) /\ \A t \in Sinks : blocks'[t] \in Nat
    BY <1>1 DEF ConnInv, ChanShape
  <2>1. CASE chan'[c] = chan[c]
    BY <1>1, <2>0, <2>1, SameConn
  <2>2. CASE chan'[c] = Append(chan[c], m) /\ HasRoom(c)
    <3>1. Room(c) > 0
      BY <2>2 DEF HasRoom
    <3>2. ConnAt(c)'
      BY <1>1, <2>0, <2>2, <3>1, GrowConn
    <3>3. chan'[c] \in Seq(Msg)
      BY <2>0, <2>2, ChanAppend
    <3> QED BY <3>2, <3>3
  <2> QED BY <1>2, <2>1, <2>2
<1>4. chan' \in [Conns -> Seq(Msg)]
  <2>1. chan' = [c \in Conns |-> IF c \in to /\ writer[c] # "dead" /\ HasRoom(c)
                                 THEN Append(chan[c], m) ELSE chan[c]]
    BY DEF TrySend
  <2> QED BY <1>3, <2>1
<1>5. ChanShape'
  BY <1>1, <1>4 DEF ChanShape
<1> QED BY <1>3, <1>5 DEF ConnInv

LEMMA EchoFacts ==
  ASSUME NEW n \in Nat
  PROVE  /\ Echo(n) \in Msg /\ Echo(n).kind = "echo" /\ Echo(n).id = n
         /\ \A t : ~IsFrame(Echo(n), t)
<1>1. Echo(n) \in Msg /\ Echo(n).kind = "echo" /\ Echo(n).id = n
  BY DEF Echo, Msg
<1> QED BY <1>1 DEF IsFrame

(* reliable_send's task: it sends, or waits for room, or has been given    *)
(* room.                                                                   *)
LEMMA SenderConn ==
  ASSUME ConnInv, NEW c \in Conns, NEW n, SenderRun(c, n) \/ SenderResume(c, n)
  PROVE  ConnInv'
<1>1. ChanShape /\ ConnAt(c)
  BY DEF ConnInv
<1>2. UNCHANGED <<got, sent, lastFrame, blocks>>
  BY DEF SenderRun, SenderResume, clientVars, audioVars
<1>3. n \in spawned[c] \cup granted[c]
  BY DEF SenderRun, SenderResume
<1>4. n \in Nat /\ n \in 1 .. sent[c]
  BY <1>1, <1>3 DEF ChanShape, ConnAt
<1>5. /\ Echo(n) \in Msg /\ Echo(n).kind = "echo" /\ Echo(n).id = n
      /\ \A t : ~IsFrame(Echo(n), t)
  BY <1>4, EchoFacts
<1>6. chan[c] \in Seq(Msg) /\ Append(chan[c], Echo(n)) \in Seq(Msg)
  BY <1>1, <1>5, ChanAppend DEF ChanShape
<1>7. \A t \in Sinks : blocks'[t] \in Nat /\ blocks'[t] >= blocks[t]
  BY <1>1, <1>2 DEF ChanShape
<1>8. ASSUME NEW d \in Conns \ {c}, chan'[d] = chan[d], waitq'[d] = waitq[d],
             spawned'[d] = spawned[d], granted'[d] = granted[d]
      PROVE  ConnAt(d)'
  <2>1. ConnAt(d)
    BY DEF ConnInv
  <2> QED BY <1>1, <1>2, <1>7, <1>8, <2>1, SameConn
<1>9. CASE SenderRun(c, n) /\ HasRoom(c)
  <2>1. /\ spawned' = [spawned EXCEPT ![c] = spawned[c] \ {n}]
        /\ chan' = [chan EXCEPT ![c] = Append(chan[c], Echo(n))] /\ UNCHANGED <<waitq, granted>>
    BY <1>9 DEF SenderRun
  <2>2. /\ chan'[c] = Append(chan[c], Echo(n)) /\ spawned'[c] \subseteq spawned[c]
        /\ \A d \in Conns \ {c} : chan'[d] = chan[d] /\ spawned'[d] = spawned[d]
    BY <1>1, <2>1 DEF ChanShape
  <2>3. ChanShape'
    BY <1>1, <1>2, <1>6, <2>1 DEF ChanShape
  <2>4. Room(c) > 0
    BY <1>9 DEF HasRoom
  <2>5. ConnAt(c)'
    BY <1>1, <1>2, <1>4, <1>5, <1>7, <2>1, <2>2, <2>4, GrowConn
  <2> QED BY <1>8, <2>1, <2>2, <2>3, <2>5 DEF ConnInv
<1>10. CASE SenderRun(c, n) /\ ~HasRoom(c)
  <2>1. /\ spawned' = [spawned EXCEPT ![c] = spawned[c] \ {n}]
        /\ waitq' = [waitq EXCEPT ![c] = Append(waitq[c], n)] /\ UNCHANGED <<chan, granted>>
    BY <1>10 DEF SenderRun
  <2>2. /\ waitq'[c] = Append(waitq[c], n) /\ spawned'[c] \subseteq spawned[c]
        /\ \A d \in Conns \ {c} : waitq'[d] = waitq[d] /\ spawned'[d] = spawned[d]
    BY <1>1, <2>1 DEF ChanShape
  <2>3. waitq[c] \in Seq(Nat) /\ waitq[c] \in Seq(1 .. sent[c])
    BY <1>1 DEF ChanShape, ConnAt
  <2>4. Append(waitq[c], n) \in Seq(Nat) /\ Append(waitq[c], n) \in Seq(1 .. sent[c])
    BY <1>4, <2>3, AppendProperties
  <2>5. ChanShape'
    BY <1>1, <1>2, <2>1, <2>4 DEF ChanShape
  <2>6. Room(c)' = Room(c)
    BY <2>1 DEF Room
  <2>7. ConnAt(c)'
    BY <1>1, <1>2, <2>1, <2>2, <2>4, <2>6 DEF ConnAt
  <2> QED BY <1>8, <2>1, <2>2, <2>5, <2>7 DEF ConnInv
<1>11. CASE SenderResume(c, n)
  <2>1. /\ n \in granted[c] /\ granted' = [granted EXCEPT ![c] = granted[c] \ {n}]
        /\ chan' = [chan EXCEPT ![c] = Append(chan[c], Echo(n))] /\ UNCHANGED <<spawned, waitq>>
    BY <1>11 DEF SenderResume
  <2>2. /\ chan'[c] = Append(chan[c], Echo(n)) /\ granted'[c] = granted[c] \ {n}
        /\ \A d \in Conns \ {c} : chan'[d] = chan[d] /\ granted'[d] = granted[d]
    BY <1>1, <2>1 DEF ChanShape
  <2>3. ChanShape'
    BY <1>1, <1>2, <1>6, <2>1 DEF ChanShape
  <2>4. ConnAt(c)'
    BY <1>1, <1>2, <1>4, <1>5, <1>7, <2>1, <2>2, GrowConn
  <2> QED BY <1>8, <2>1, <2>2, <2>3, <2>4 DEF ConnInv
<1> QED BY <1>9, <1>10, <1>11

(* The writer takes the oldest message, and the room goes to the sender    *)
(* that has waited longest.                                                *)
LEMMA WriterConn ==
  ASSUME ConnInv, NEW c \in Conns, WriterSend(c)
  PROVE  /\ ConnInv'
         /\ \A d \in Conns, t \in Sinks :
              lastFrame'[d][t] # lastFrame[d][t] => lastFrame'[d][t] > lastFrame[d][t]
<1> DEFINE m == Head(chan[c])
           first == {waitq[c][i] : i \in DOMAIN waitq[c] \cap {1}}
<1>1. ChanShape /\ ConnAt(c)
  BY DEF ConnInv
<1>2. /\ chan[c] # << >> /\ chan' = [chan EXCEPT ![c] = Tail(chan[c])]
      /\ waitq' = [waitq EXCEPT ![c] = IF waitq[c] = << >> THEN waitq[c] ELSE Tail(waitq[c])]
      /\ granted' = [granted EXCEPT ![c] = granted[c] \cup first]
      /\ got' = IF m.kind = "echo" THEN [got EXCEPT ![c] = got[c] \cup {m.id}] ELSE got
      /\ lastFrame' = IF m.kind = "audio" THEN [lastFrame EXCEPT ![c][m.sink] = m.id] ELSE lastFrame
      /\ UNCHANGED <<spawned, sent, blocks>>
  BY DEF WriterSend, audioVars
<1>3. /\ IsFiniteSet(granted[c]) /\ Cardinality(granted[c]) \in Nat
      /\ chan[c] \in Seq(Msg) /\ Len(chan[c]) \in Nat /\ Depth \in Nat /\ sent[c] \in Nat
      /\ Len(chan[c]) + Cardinality(granted[c]) <= Depth
  BY <1>1, GrantedFacts
<1>4. /\ m \in Msg /\ Tail(chan[c]) \in Seq(Msg) /\ Len(Tail(chan[c])) = Len(chan[c]) - 1
      /\ EchoesIn(Tail(chan[c]), sent[c]) /\ (m.kind = "echo" => m.id \in 1 .. sent[c])
  BY <1>1, <1>2, <1>3, ChanTail DEF ConnAt
<1>5. m.id \in Nat
  BY <1>4 DEF Msg
<1>6. waitq[c] \in Seq(1 .. sent[c]) /\ waitq[c] \in Seq(Nat)
  BY <1>1 DEF ConnAt, ChanShape
<1>7. first = {} \/ \E x \in 1 .. sent[c] : first = {x}
  <2>1. CASE 1 \in DOMAIN waitq[c]
    <3>1. first = {waitq[c][1]}
      BY <2>1
    <3>2. waitq[c][1] \in 1 .. sent[c]
      BY <1>6, <2>1, ElementOfSeq, LenProperties
    <3> QED BY <3>1, <3>2
  <2>2. CASE 1 \notin DOMAIN waitq[c]
    BY <2>2
  <2> QED BY <2>1, <2>2
<1>ord. ASSUME NEW t \in Sinks
        PROVE  /\ IsFrame(m, t) => lastFrame[c][t] < m.id
               /\ Ordered(Tail(chan[c]), t, IF IsFrame(m, t) THEN m.id ELSE lastFrame[c][t], blocks[t])
  <2>1. Ordered(chan[c], t, lastFrame[c][t], blocks[t]) /\ lastFrame[c][t] \in Nat /\ blocks[t] \in Nat
    BY <1>1 DEF ConnAt, ChanShape
  <2> QED BY <1>2, <1>3, <2>1, ChanTail
<1> HIDE DEF m, first
<1>8. /\ chan'[c] = Tail(chan[c]) /\ granted'[c] = granted[c] \cup first
      /\ waitq'[c] = (IF waitq[c] = << >> THEN waitq[c] ELSE Tail(waitq[c]))
      /\ \A d \in Conns \ {c} : chan'[d] = chan[d] /\ granted'[d] = granted[d] /\ waitq'[d] = waitq[d]
  BY <1>1, <1>2 DEF ChanShape
<1>9. waitq'[c] \in Seq(1 .. sent[c]) /\ waitq'[c] \in Seq(Nat)
  <2>1. CASE waitq[c] = << >>
    BY <1>6, <1>8, <2>1
  <2>2. CASE waitq[c] # << >>
    <3>1. waitq'[c] = Tail(waitq[c])
      BY <1>8, <2>2
    <3>2. Tail(waitq[c]) \in Seq(1 .. sent[c]) /\ Tail(waitq[c]) \in Seq(Nat)
      BY <1>6, <2>2, HeadTailProperties
    <3> QED BY <3>1, <3>2
  <2> QED BY <2>1, <2>2
<1>10. /\ got'[c] \subseteq 1 .. sent[c] /\ got' \in [Conns -> SUBSET Nat]
       /\ \A d \in Conns \ {c} : got'[d] = got[d]
  <2>1. CASE m.kind = "echo"
    <3>1. got' = [got EXCEPT ![c] = got[c] \cup {m.id}]
      BY <1>2, <2>1
    <3> QED BY <1>1, <1>4, <1>5, <2>1, <3>1 DEF ChanShape, ConnAt
  <2>2. CASE m.kind # "echo"
    BY <1>1, <1>2, <2>2 DEF ChanShape, ConnAt
  <2> QED BY <2>1, <2>2
<1>11. /\ lastFrame' \in [Conns -> [Sinks -> Nat]]
       /\ \A d \in Conns \ {c} : lastFrame'[d] = lastFrame[d]
       /\ \A t \in Sinks : lastFrame'[c][t] = IF IsFrame(m, t) THEN m.id ELSE lastFrame[c][t]
  <2>1. CASE m.kind = "audio"
    <3>1. lastFrame' = [lastFrame EXCEPT ![c] = [lastFrame[c] EXCEPT ![m.sink] = m.id]]
      BY <1>2, <2>1
    <3>2. /\ [lastFrame[c] EXCEPT ![m.sink] = m.id] \in [Sinks -> Nat]
          /\ \A t \in Sinks : [lastFrame[c] EXCEPT ![m.sink] = m.id][t]
                                = IF t = m.sink THEN m.id ELSE lastFrame[c][t]
      BY <1>1, <1>5 DEF ChanShape
    <3> QED BY <1>1, <2>1, <3>1, <3>2 DEF ChanShape, IsFrame
  <2>2. CASE m.kind # "audio"
    BY <1>1, <1>2, <2>2 DEF ChanShape, IsFrame
  <2> QED BY <2>1, <2>2
<1>12. ChanShape'
  <2>1. chan' \in [Conns -> Seq(Msg)]
    BY <1>1, <1>2, <1>4 DEF ChanShape
  <2>2. waitq' \in [Conns -> Seq(Nat)]
    BY <1>1, <1>2, <1>8, <1>9 DEF ChanShape
  <2>3. granted' \in [Conns -> SUBSET Nat]
    <3>1. first \subseteq Nat
      BY <1>3, <1>7
    <3> QED BY <1>1, <1>2, <3>1 DEF ChanShape
  <2> QED BY <1>1, <1>2, <1>10, <1>11, <2>1, <2>2, <2>3 DEF ChanShape
<1>13. Room(c)' >= 0
  <2>1. Cardinality(granted'[c]) \in Nat /\ Cardinality(granted'[c]) <= Cardinality(granted[c]) + 1
    <3>1. CASE first = {}
      <4>1. granted'[c] = granted[c]
        BY <1>8, <3>1
      <4> QED BY <1>3, <4>1
    <3>2. CASE \E x \in 1 .. sent[c] : first = {x}
      <4>1. PICK x \in 1 .. sent[c] : first = {x}
        BY <3>2
      <4>2. Cardinality(granted[c] \cup {x}) =
              IF x \in granted[c] THEN Cardinality(granted[c]) ELSE Cardinality(granted[c]) + 1
        BY <1>3, FS_AddElement
      <4> QED BY <1>3, <1>8, <4>1, <4>2
    <3> QED BY <1>7, <3>1, <3>2
  <2>2. Room(c)' = Depth - (Len(chan[c]) - 1) - Cardinality(granted'[c])
    BY <1>4, <1>8 DEF Room
  <2> DEFINE l == Len(chan[c])
             g == Cardinality(granted[c])
             h == Cardinality(granted'[c])
  <2>3. l \in Nat /\ g \in Nat /\ h \in Nat /\ Depth \in Nat /\ l + g <= Depth /\ h <= g + 1
    BY <1>3, <2>1
  <2> HIDE DEF l, g, h
  <2>4. Depth - (l - 1) - h >= 0
    BY <2>3
  <2> QED BY <2>2, <2>4 DEF l, h
<1>14. ConnAt(c)'
  <2>1. spawned'[c] \cup granted'[c] \cup got'[c] \subseteq 1 .. sent'[c]
    BY <1>1, <1>2, <1>7, <1>8, <1>10 DEF ConnAt
  <2>2. \A t \in Sinks : Ordered(chan'[c], t, lastFrame'[c][t], blocks'[t])
    BY <1>2, <1>8, <1>11, <1>ord
  <2> QED BY <1>2, <1>4, <1>8, <1>9, <1>13, <2>1, <2>2 DEF ConnAt
<1>15. ASSUME NEW d \in Conns \ {c} PROVE ConnAt(d)'
  <2>1. ConnAt(d) /\ \A t \in Sinks : blocks'[t] \in Nat /\ blocks'[t] >= blocks[t]
    BY <1>1, <1>2 DEF ConnInv, ChanShape
  <2> QED BY <1>1, <1>2, <1>8, <1>10, <1>11, <2>1, SameConn
<1>16. \A d \in Conns, t \in Sinks :
         lastFrame'[d][t] # lastFrame[d][t] => lastFrame'[d][t] > lastFrame[d][t]
  <2> SUFFICES ASSUME NEW d \in Conns, NEW t \in Sinks, lastFrame'[d][t] # lastFrame[d][t]
               PROVE  lastFrame'[d][t] > lastFrame[d][t]
    OBVIOUS
  <2>1. d = c /\ IsFrame(m, t)
    BY <1>11
  <2>2. lastFrame[c][t] \in Nat /\ lastFrame[c][t] < m.id /\ lastFrame'[c][t] = m.id
    BY <1>1, <1>11, <1>ord, <2>1 DEF ChanShape
  <2> QED BY <1>5, <2>1, <2>2
<1> QED BY <1>12, <1>14, <1>15, <1>16 DEF ConnInv

(* A channel that is closed.                                               *)
LEMMA CloseConn ==
  ASSUME ConnInv, NEW c \in Conns, CloseChan(c), UNCHANGED <<got, sent, lastFrame, blocks>>
  PROVE  ConnInv'
<1>1. ChanShape /\ ConnAt(c)
  BY DEF ConnInv
<1>2. /\ chan' = [chan EXCEPT ![c] = << >>] /\ waitq' = [waitq EXCEPT ![c] = << >>]
      /\ spawned' = [spawned EXCEPT ![c] = {}] /\ granted' = [granted EXCEPT ![c] = {}]
  BY DEF CloseChan
<1>3. /\ chan'[c] = << >> /\ waitq'[c] = << >> /\ spawned'[c] = {} /\ granted'[c] = {}
      /\ \A d \in Conns \ {c} : /\ chan'[d] = chan[d] /\ waitq'[d] = waitq[d]
                                /\ spawned'[d] = spawned[d] /\ granted'[d] = granted[d]
  BY <1>1, <1>2 DEF ChanShape
<1>4. ChanShape'
  <2>1. << >> \in Seq(Msg) /\ << >> \in Seq(Nat)
    OBVIOUS
  <2> QED BY <1>1, <1>2, <2>1 DEF ChanShape
<1>5. ConnAt(c)'
  <2>1. Room(c)' = Depth - 0 - 0
    <3>1. Cardinality({}) = 0 /\ Len(<< >>) = 0
      BY FS_EmptySet
    <3> QED BY <1>3, <3>1 DEF Room
  <2>2. Room(c)' >= 0
    BY <2>1, ConstFacts
  <2>3. << >> \in Seq(1 .. sent[c]) /\ EchoesIn(<< >>, sent[c])
    BY DEF EchoesIn
  <2>4. ASSUME NEW t \in Sinks PROVE Ordered(<< >>, t, lastFrame[c][t], blocks[t])
    <3>1. Ordered(chan[c], t, lastFrame[c][t], blocks[t])
      BY <1>1 DEF ConnAt
    <3> QED BY <3>1 DEF Ordered
  <2> QED BY <1>1, <1>3, <2>2, <2>3, <2>4 DEF ConnAt
<1>6. ASSUME NEW d \in Conns \ {c} PROVE ConnAt(d)'
  <2>1. ConnAt(d) /\ \A t \in Sinks : blocks'[t] \in Nat /\ blocks'[t] >= blocks[t]
    BY <1>1 DEF ConnInv, ChanShape
  <2> QED BY <1>1, <1>3, <2>1, SameConn
<1> QED BY <1>4, <1>5, <1>6 DEF ConnInv

(* A command with an echo.                                                 *)
LEMMA EchoConn ==
  ASSUME ConnInv, NEW c \in Conns, ReliableSend(c), UNCHANGED <<waitq, granted, got, lastFrame, blocks>>
  PROVE  ConnInv'
<1>1. ChanShape /\ ConnAt(c) /\ sent[c] \in Nat
  BY DEF ConnInv, ChanShape
<1>2. /\ sent' = [sent EXCEPT ![c] = sent[c] + 1] /\ chan' = chan
      /\ spawned' = spawned \/ spawned' = [spawned EXCEPT ![c] = spawned[c] \cup {sent[c] + 1}]
  BY DEF ReliableSend, Spawn
<1>3. /\ sent'[c] = sent[c] + 1 /\ spawned'[c] \subseteq spawned[c] \cup {sent[c] + 1}
      /\ \A d \in Conns \ {c} : sent'[d] = sent[d] /\ spawned'[d] = spawned[d]
  BY <1>1, <1>2 DEF ChanShape
<1>4. ChanShape'
  <2>1. sent' \in [Conns -> Nat]
    BY <1>1, <1>2 DEF ChanShape
  <2>2. spawned' \in [Conns -> SUBSET Nat]
    <3>1. spawned[c] \cup {sent[c] + 1} \in SUBSET Nat
      BY <1>1 DEF ChanShape
    <3> QED BY <1>1, <1>2, <3>1 DEF ChanShape
  <2> QED BY <1>1, <1>2, <2>1, <2>2 DEF ChanShape
<1>5. /\ EchoesIn(chan[c], sent[c] + 1) /\ 1 .. sent[c] \subseteq 1 .. sent[c] + 1
      /\ sent[c] + 1 \in 1 .. sent[c] + 1
  BY <1>1, EchoesMore DEF ConnAt
<1>6. waitq[c] \in Seq(1 .. sent[c] + 1)
  BY <1>1, <1>5, SeqMonotonic DEF ConnAt
<1>7. Room(c)' = Room(c)
  BY <1>2 DEF Room
<1>8. ConnAt(c)'
  BY <1>1, <1>2, <1>3, <1>5, <1>6, <1>7 DEF ConnAt
<1>9. ASSUME NEW d \in Conns \ {c} PROVE ConnAt(d)'
  <2>1. ConnAt(d) /\ \A t \in Sinks : blocks'[t] \in Nat /\ blocks'[t] >= blocks[t]
    BY <1>1 DEF ConnInv, ChanShape
  <2> QED BY <1>1, <1>2, <1>3, <2>1, SameConn
<1> QED BY <1>4, <1>8, <1>9 DEF ConnInv

(* push_audio and push_smeter.                                             *)
LEMMA PushConn ==
  ASSUME ConnInv, NEW t \in Sinks, accum \in [Sinks -> 0 .. 1], PushAudio(t) \/ PushSmeter(t)
  PROVE  ConnInv'
<1>1. ChanShape /\ blocks[t] \in Nat /\ t \in Nat
  BY ConstFacts DEF ConnInv, ChanShape
<1>2. UNCHANGED <<waitq, spawned, granted, got, sent, lastFrame>>
  BY DEF PushAudio, PushSmeter, clientVars
<1>3. CASE PushSmeter(t)
  <2> DEFINE m == [kind |-> "smeter", id |-> 0, sink |-> t]
  <2>1. TrySend(allSubs, m) /\ blocks' = blocks
    BY <1>3 DEF PushSmeter, audioVars
  <2>2. m \in Msg /\ m.kind # "echo" /\ \A u \in Sinks : ~IsFrame(m, u)
    BY <1>1 DEF Msg, IsFrame
  <2>3. blocks' \in [Sinks -> Nat] /\ \A u \in Sinks : blocks'[u] >= blocks[u]
    BY <1>1, <2>1 DEF ChanShape
  <2> HIDE DEF m
  <2> QED BY <1>2, <2>1, <2>2, <2>3, TrySendConn
<1>4. CASE PushAudio(t)
  <2> DEFINE m == [kind |-> "audio", id |-> blocks[t] + 1, sink |-> t]
  <2>1. blocks' = [blocks EXCEPT ![t] = blocks[t] + 1]
    BY <1>4 DEF PushAudio
  <2>2. /\ blocks' \in [Sinks -> Nat] /\ blocks'[t] = blocks[t] + 1
        /\ \A u \in Sinks : blocks'[u] >= blocks[u]
    BY <1>1, <2>1 DEF ChanShape
  <2>3. CASE accum[t] = 1
    <3>1. TrySend(audioSubs[t], m)
      BY <1>4, <2>3 DEF PushAudio, PushFrame
    <3>2. m \in Msg /\ m.kind = "audio" /\ m.sink = t /\ m.id = blocks[t] + 1
      BY <1>1 DEF Msg
    <3> HIDE DEF m
    <3>3. \A u \in Sinks : IsFrame(m, u) => blocks[u] < m.id /\ m.id <= blocks'[u]
      BY <1>1, <2>2, <3>2 DEF IsFrame
    <3>4. m.kind # "echo"
      BY <3>2
    <3> QED BY <1>2, <2>2, <3>1, <3>2, <3>3, <3>4, TrySendConn
  <2>4. CASE accum[t] # 1
    <3>1. chan' = chan
      BY <1>4, <2>4 DEF PushAudio
    <3>2. ChanShape'
      BY <1>1, <1>2, <2>2, <3>1 DEF ChanShape
    <3>3. ASSUME NEW d \in Conns PROVE ConnAt(d)'
      <4>1. ConnAt(d) /\ \A u \in Sinks : blocks'[u] \in Nat /\ blocks'[u] >= blocks[u]
        BY <2>2 DEF ConnInv
      <4> QED BY <1>1, <1>2, <3>1, <4>1, SameConn
    <3> QED BY <3>2, <3>3 DEF ConnInv
  <2> QED BY <2>3, <2>4
<1> QED BY <1>3, <1>4

-----------------------------------------------------------------------------
(***************************************************************************)
(* The subscriber lists.  Before its handler runs a connection is on no    *)
(* audio list and has asked for nothing.                                   *)
(***************************************************************************)
LifeShape ==
  /\ stage \in [Conns -> {"none", "init", "open", "gone"}]
  /\ writer \in [Conns -> {"none", "up", "dead"}]
  /\ allSubs \subseteq Conns /\ audioSubs \in [Sinks -> SUBSET Conns]
  /\ wants \in [Conns -> SUBSET Sinks] /\ accum \in [Sinks -> 0 .. 1]

ListedAt(c) ==
  /\ stage[c] \in {"none", "init"} => wants[c] = {} /\ \A t \in Sinks : c \notin audioSubs[t]
  /\ stage[c] = "open" /\ writer[c] = "up" => \A t \in Sinks : c \in audioSubs[t] <=> t \in wants[c]
  /\ stage[c] = "gone" => c \notin allSubs /\ \A t \in Sinks : c \notin audioSubs[t]

ListInv == LifeShape /\ \A c \in Conns : ListedAt(c)

(* A step that leaves connection c on the lists it is on.                  *)
LEMMA SameLists ==
  ASSUME NEW c \in Conns, ListedAt(c), stage'[c] = stage[c], writer'[c] = writer[c],
         wants'[c] = wants[c], c \in allSubs' => c \in allSubs,
         \A t \in Sinks : c \in audioSubs'[t] => c \in audioSubs[t],
         writer[c] = "up" => \A t \in Sinks : c \in audioSubs[t] => c \in audioSubs'[t]
  PROVE  ListedAt(c)'
  BY DEF ListedAt

LEMMA ListInit == Init => ListInv
<1> SUFFICES ASSUME Init PROVE ListInv
  OBVIOUS
<1>1. LifeShape
  BY DEF Init, LifeShape
<1>2. \A c \in Conns : ListedAt(c)
  BY DEF Init, ListedAt
<1> QED BY <1>1, <1>2 DEF ListInv

(* The life of a connection.                                               *)
LEMMA LifeLists ==
  ASSUME ListInv, NEW c \in Conns, Accept(c) \/ InitSent(c) \/ HandlerEnd(c) \/ WriterFail(c)
  PROVE  ListInv'
<1>1. LifeShape /\ ListedAt(c)
  BY DEF ListInv
<1>2. UNCHANGED <<wants, accum>>
  BY DEF Accept, InitSent, HandlerEnd, WriterFail, clientVars, audioVars
<1>3. \A d \in Conns \ {c} : stage'[d] = stage[d] /\ writer'[d] = writer[d]
  BY <1>1 DEF Accept, InitSent, HandlerEnd, WriterFail, LifeShape
<1>4. /\ \A d \in Conns \ {c} : d \in allSubs' <=> d \in allSubs
      /\ \A d \in Conns \ {c}, t \in Sinks : d \in audioSubs'[t] <=> d \in audioSubs[t]
  BY <1>1 DEF Accept, InitSent, HandlerEnd, WriterFail, subVars, CleanupConn, LifeShape
<1>5. ASSUME NEW d \in Conns \ {c} PROVE ListedAt(d)'
  <2>1. ListedAt(d)
    BY DEF ListInv
  <2> QED BY <1>2, <1>3, <1>4, <2>1, SameLists
<1>6. LifeShape'
  <2>1. stage' \in [Conns -> {"none", "init", "open", "gone"}]
    BY <1>1 DEF Accept, InitSent, HandlerEnd, WriterFail, LifeShape
  <2>2. writer' \in [Conns -> {"none", "up", "dead"}]
    BY <1>1 DEF Accept, InitSent, HandlerEnd, WriterFail, LifeShape
  <2>3. allSubs' \subseteq Conns
    BY <1>1 DEF Accept, InitSent, HandlerEnd, WriterFail, LifeShape, subVars, CleanupConn
  <2>4. audioSubs' \in [Sinks -> SUBSET Conns]
    BY <1>1 DEF Accept, InitSent, HandlerEnd, WriterFail, LifeShape, subVars, CleanupConn
  <2> QED BY <1>1, <1>2, <2>1, <2>2, <2>3, <2>4 DEF LifeShape
<1>7. ListedAt(c)'
  <2>1. CASE Accept(c)
    <3>1. stage[c] = "none" /\ stage'[c] = "init" /\ audioSubs' = audioSubs
      BY <1>1, <2>1 DEF Accept, LifeShape
    <3> QED BY <1>1, <1>2, <3>1 DEF ListedAt
  <2>2. CASE InitSent(c)
    <3>1. stage[c] = "init" /\ stage'[c] = "open" /\ audioSubs' = audioSubs
      BY <1>1, <2>2 DEF InitSent, LifeShape, subVars
    <3> QED BY <1>1, <1>2, <3>1 DEF ListedAt
  <2>3. CASE HandlerEnd(c)
    <3>1. stage'[c] = "gone" /\ c \notin allSubs' /\ \A t \in Sinks : c \notin audioSubs'[t]
      BY <1>1, <2>3 DEF HandlerEnd, LifeShape, CleanupConn
    <3> QED BY <3>1 DEF ListedAt
  <2>4. CASE WriterFail(c)
    <3>1. writer'[c] = "dead" /\ UNCHANGED <<stage, allSubs, audioSubs>>
      BY <1>1, <2>4 DEF WriterFail, LifeShape, subVars
    <3> QED BY <1>1, <1>2, <3>1 DEF ListedAt
  <2> QED BY <2>1, <2>2, <2>3, <2>4
<1> QED BY <1>5, <1>6, <1>7 DEF ListInv

(* audio_start and audio_stop.                                             *)
LEMMA AudioLists ==
  ASSUME ListInv, NEW c \in Conns,
         (\E t \in Sinks \cup BadTrx : AudioStart(c, t)) \/ (\E t \in Sinks : AudioStop(c, t))
  PROVE  ListInv'
<1>1. LifeShape /\ ListedAt(c)
  BY DEF ListInv
<1>2. UNCHANGED <<stage, writer, allSubs, accum>> /\ stage[c] = "open"
  BY DEF AudioStart, AudioStop, Ready, connVars, audioVars
<1>3. /\ wants' \in [Conns -> SUBSET Sinks] /\ audioSubs' \in [Sinks -> SUBSET Conns]
      /\ \A d \in Conns \ {c} : wants'[d] = wants[d]
      /\ \A d \in Conns \ {c}, t \in Sinks : d \in audioSubs'[t] <=> d \in audioSubs[t]
      /\ writer[c] = "up" => \A t \in Sinks : c \in audioSubs'[t] <=> t \in wants'[c]
  <2>1. ASSUME NEW s \in Sinks \cup BadTrx, AudioStart(c, s)
        PROVE  /\ wants' \in [Conns -> SUBSET Sinks] /\ audioSubs' \in [Sinks -> SUBSET Conns]
               /\ \A d \in Conns \ {c} : wants'[d] = wants[d]
               /\ \A d \in Conns \ {c}, t \in Sinks : d \in audioSubs'[t] <=> d \in audioSubs[t]
               /\ writer[c] = "up" => \A t \in Sinks : c \in audioSubs'[t] <=> t \in wants'[c]
    <3>1. /\ audioSubs' = [u \in Sinks |-> IF u = s THEN audioSubs[u] \cup {c} ELSE audioSubs[u]]
          /\ wants' = [wants EXCEPT ![c] = wants[c] \cup ({s} \cap Sinks)]
      BY <2>1 DEF AudioStart
    <3>2. wants'[c] = wants[c] \cup ({s} \cap Sinks) /\ wants' \in [Conns -> SUBSET Sinks]
      BY <1>1, <3>1 DEF LifeShape
    <3>3. audioSubs' \in [Sinks -> SUBSET Conns]
      BY <1>1, <3>1 DEF LifeShape
    <3>4. writer[c] = "up" => \A t \in Sinks : c \in audioSubs[t] <=> t \in wants[c]
      BY <1>1, <1>2 DEF ListedAt
    <3>5. writer[c] = "up" => \A t \in Sinks : c \in audioSubs'[t] <=> t \in wants'[c]
      BY <3>1, <3>2, <3>4
    <3> QED BY <1>1, <3>1, <3>2, <3>3, <3>5 DEF LifeShape
  <2>2. ASSUME NEW s \in Sinks, AudioStop(c, s)
        PROVE  /\ wants' \in [Conns -> SUBSET Sinks] /\ audioSubs' \in [Sinks -> SUBSET Conns]
               /\ \A d \in Conns \ {c} : wants'[d] = wants[d]
               /\ \A d \in Conns \ {c}, t \in Sinks : d \in audioSubs'[t] <=> d \in audioSubs[t]
               /\ writer[c] = "up" => \A t \in Sinks : c \in audioSubs'[t] <=> t \in wants'[c]
    <3>1. /\ audioSubs' = [audioSubs EXCEPT ![s] = audioSubs[s] \ {c}]
          /\ wants' = [wants EXCEPT ![c] = wants[c] \ {s}]
      BY <2>2 DEF AudioStop
    <3>2. wants'[c] = wants[c] \ {s} /\ wants' \in [Conns -> SUBSET Sinks]
      BY <1>1, <3>1 DEF LifeShape
    <3>3. /\ audioSubs' \in [Sinks -> SUBSET Conns] /\ audioSubs'[s] = audioSubs[s] \ {c}
          /\ \A t \in Sinks \ {s} : audioSubs'[t] = audioSubs[t]
      BY <1>1, <3>1 DEF LifeShape
    <3>4. writer[c] = "up" => \A t \in Sinks : c \in audioSubs[t] <=> t \in wants[c]
      BY <1>1, <1>2 DEF ListedAt
    <3>5. writer[c] = "up" => \A t \in Sinks : c \in audioSubs'[t] <=> t \in wants'[c]
      BY <3>2, <3>3, <3>4
    <3> QED BY <1>1, <3>1, <3>2, <3>3, <3>5 DEF LifeShape
  <2> QED BY <2>1, <2>2
<1>4. LifeShape'
  BY <1>1, <1>2, <1>3 DEF LifeShape
<1>5. ListedAt(c)'
  BY <1>2, <1>3 DEF ListedAt
<1>6. ASSUME NEW d \in Conns \ {c} PROVE ListedAt(d)'
  <2>1. ListedAt(d)
    BY DEF ListInv
  <2> QED BY <1>2, <1>3, <2>1, SameLists
<1> QED BY <1>4, <1>5, <1>6 DEF ListInv

(* The audio thread takes connections off whose writer has ended, and no   *)
(* others.                                                                 *)
LEMMA PushLists ==
  ASSUME ListInv, NEW t \in Sinks, PushAudio(t) \/ PushSmeter(t)
  PROVE  ListInv'
<1>1. LifeShape
  BY DEF ListInv
<1>2. UNCHANGED <<stage, writer, wants>>
  BY DEF PushAudio, PushSmeter, clientVars, connVars
<1>3. accum' \in [Sinks -> 0 .. 1]
  <2>1. CASE PushAudio(t)
    <3>1. accum' = [accum EXCEPT ![t] = (accum[t] + 1) % 2]
      BY <2>1 DEF PushAudio
    <3>2. (accum[t] + 1) % 2 \in 0 .. 1
      BY <1>1 DEF LifeShape
    <3> QED BY <1>1, <3>1, <3>2 DEF LifeShape
  <2>2. CASE PushSmeter(t)
    BY <1>1, <2>2 DEF PushSmeter, audioVars, LifeShape
  <2> QED BY <2>1, <2>2
<1>4. /\ allSubs' \subseteq allSubs
      /\ audioSubs' \in [Sinks -> SUBSET Conns]
      /\ \A u \in Sinks : /\ audioSubs'[u] \subseteq audioSubs[u]
                          /\ \A c \in audioSubs[u] : writer[c] = "up" => c \in audioSubs'[u]
  <2>1. CASE PushSmeter(t)
    BY <1>1, <2>1 DEF PushSmeter, Retained, LifeShape
  <2>2. CASE PushAudio(t)
    <3>1. allSubs' = allSubs
      BY <2>2 DEF PushAudio
    <3>2. audioSubs' = audioSubs \/ audioSubs' = [audioSubs EXCEPT ![t] = Retained(audioSubs[t])]
      BY <2>2 DEF PushAudio, PushFrame
    <3>3. /\ Retained(audioSubs[t]) \subseteq audioSubs[t]
          /\ \A c \in audioSubs[t] : writer[c] = "up" => c \in Retained(audioSubs[t])
      BY DEF Retained, Closed
    <3> QED BY <1>1, <3>1, <3>2, <3>3 DEF LifeShape
  <2> QED BY <2>1, <2>2
<1>5. LifeShape'
  BY <1>1, <1>2, <1>3, <1>4 DEF LifeShape
<1>6. ASSUME NEW d \in Conns PROVE ListedAt(d)'
  <2>1. ListedAt(d)
    BY DEF ListInv
  <2> QED BY <1>2, <1>4, <2>1, SameLists
<1> QED BY <1>5, <1>6 DEF ListInv

LEMMA ListStep == ListInv /\ [Next]_vars => ListInv'
<1> SUFFICES ASSUME ListInv, [Next]_vars PROVE ListInv'
  OBVIOUS
<1>1. ASSUME UNCHANGED <<stage, writer, allSubs, audioSubs, wants, accum>> PROVE ListInv'
  BY <1>1 DEF ListInv, LifeShape, ListedAt
<1>2. ASSUME NEW c \in Conns, Connection(c) PROVE ListInv'
  <2>1. CASE WriterSend(c) \/ Senders(c)
    BY <1>1, <2>1 DEF WriterSend, Senders, SenderRun, SenderResume, subVars, connVars, audioVars, clientVars
  <2> QED BY <1>2, <2>1, LifeLists DEF Connection
<1>3. ASSUME NEW c \in Conns, AudioCommands(c) PROVE ListInv'
  <2>1. CASE EchoOnly(c)
    BY <1>1, <2>1 DEF EchoOnly, subVars, connVars, audioVars
  <2> QED BY <1>3, <2>1, AudioLists DEF AudioCommands
<1>4. ASSUME NEW c \in Conns, VfoCommands(c) PROVE ListInv'
  BY <1>1, <1>4 DEF VfoCommands, VfoPush, VfoStore, subVars, connVars, audioVars, clientVars
<1>5. CASE AudioWorker
  BY <1>5, PushLists DEF AudioWorker
<1>6. CASE VfoApply \/ CmdWorker
  BY <1>1, <1>6 DEF VfoApply, CmdWorker, CmdStart, CmdPublish, CmdFail, CmdTune, subVars, connVars,
     audioVars, clientVars
<1>7. CASE UNCHANGED vars
  BY <1>1, <1>7 DEF vars, subVars, connVars, audioVars, clientVars
<1> QED BY <1>2, <1>3, <1>4, <1>5, <1>6, <1>7 DEF Next

-----------------------------------------------------------------------------
LEMMA ConnInit == Init => ConnInv
<1> SUFFICES ASSUME Init PROVE ConnInv
  OBVIOUS
<1>1. << >> \in Seq(Msg) /\ << >> \in Seq(Nat)
  OBVIOUS
<1>2. ChanShape
  BY <1>1 DEF Init, ChanShape
<1>3. ASSUME NEW c \in Conns PROVE ConnAt(c)
  <2>1. /\ chan[c] = << >> /\ waitq[c] = << >> /\ spawned[c] = {} /\ granted[c] = {} /\ got[c] = {}
        /\ sent[c] = 0 /\ \A t \in Sinks : lastFrame[c][t] = 0 /\ blocks[t] = 0
    BY DEF Init
  <2>2. Room(c) = Depth - 0 - 0
    <3>1. Cardinality({}) = 0 /\ Len(<< >>) = 0
      BY FS_EmptySet
    <3> QED BY <2>1, <3>1 DEF Room
  <2>3. Room(c) >= 0
    BY <2>2, ConstFacts
  <2>4. << >> \in Seq(1 .. sent[c]) /\ EchoesIn(<< >>, sent[c])
    BY DEF EchoesIn
  <2>5. \A t \in Sinks : Ordered(<< >>, t, 0, 0)
    BY DEF Ordered
  <2> QED BY <2>1, <2>3, <2>4, <2>5 DEF ConnAt
<1> QED BY <1>2, <1>3 DEF ConnInv

(* Every step keeps the channels right and takes no frame back.            *)
LEMMA ConnStep ==
  ASSUME ConnInv, ListInv, [Next]_vars
  PROVE  /\ ConnInv'
         /\ \A c \in Conns, t \in Sinks :
              lastFrame'[c][t] # lastFrame[c][t] => lastFrame'[c][t] > lastFrame[c][t]
<1> DEFINE Kept == \A c \in Conns, t \in Sinks :
                     lastFrame'[c][t] # lastFrame[c][t] => lastFrame'[c][t] > lastFrame[c][t]
<1>1. UNCHANGED lastFrame => Kept
  OBVIOUS
<1> HIDE DEF Kept
<1>2. ASSUME UNCHANGED <<chan, waitq, spawned, granted, got, sent, lastFrame, blocks>>
      PROVE  ConnInv' /\ Kept
  <2>1. ChanShape'
    BY <1>2 DEF ConnInv, ChanShape
  <2>2. ASSUME NEW d \in Conns PROVE ConnAt(d)'
    <3>1. ChanShape /\ ConnAt(d) /\ \A u \in Sinks : blocks'[u] \in Nat /\ blocks'[u] >= blocks[u]
      BY <1>2 DEF ConnInv, ChanShape
    <3> QED BY <1>2, <3>1, SameConn
  <2> QED BY <1>1, <1>2, <2>1, <2>2 DEF ConnInv
<1>3. ASSUME NEW c \in Conns, Connection(c) PROVE ConnInv' /\ Kept
  <2>1. CASE Accept(c) \/ InitSent(c)
    BY <1>2, <2>1 DEF Accept, InitSent, chanVars, clientVars, audioVars
  <2>2. CASE HandlerEnd(c) \/ WriterFail(c)
    <3>1. CloseChan(c) /\ UNCHANGED <<got, sent, lastFrame, blocks>>
      BY <2>2 DEF HandlerEnd, WriterFail, clientVars, audioVars
    <3> QED BY <1>1, <3>1, CloseConn
  <2>3. CASE WriterSend(c)
    BY <2>3, WriterConn DEF Kept
  <2>4. ASSUME NEW n, SenderRun(c, n) \/ SenderResume(c, n) PROVE ConnInv' /\ Kept
    <3>1. UNCHANGED lastFrame
      BY <2>4 DEF SenderRun, SenderResume, clientVars
    <3> QED BY <1>1, <2>4, <3>1, SenderConn
  <2> QED BY <1>3, <2>1, <2>2, <2>3, <2>4 DEF Connection, Senders
<1>4. ASSUME NEW c \in Conns, AudioCommands(c) \/ VfoPush(c) PROVE ConnInv' /\ Kept
  <2>1. CASE \E t \in Sinks : AudioStop(c, t)
    BY <1>2, <2>1 DEF AudioStop, chanVars, audioVars
  <2>2. CASE EchoOnly(c) \/ VfoPush(c) \/ \E t \in Sinks \cup BadTrx : AudioStart(c, t)
    <3>1. ReliableSend(c) /\ UNCHANGED <<waitq, granted, got, lastFrame, blocks>>
      BY <2>2 DEF EchoOnly, VfoPush, AudioStart, audioVars
    <3> QED BY <1>1, <3>1, EchoConn
  <2> QED BY <1>4, <2>1, <2>2 DEF AudioCommands
<1>5. ASSUME NEW c \in Conns, VfoCommands(c) PROVE ConnInv' /\ Kept
  <2>1. CASE \E t \in Sinks, raw \in Raw : VfoStore(c, t, raw)
    BY <1>2, <2>1 DEF VfoStore, chanVars, clientVars, audioVars
  <2> QED BY <1>4, <1>5, <2>1 DEF VfoCommands
<1>6. ASSUME NEW t \in Sinks, PushAudio(t) \/ PushSmeter(t) PROVE ConnInv' /\ Kept
  <2>1. UNCHANGED lastFrame
    BY <1>6 DEF PushAudio, PushSmeter, clientVars
  <2>2. accum \in [Sinks -> 0 .. 1]
    BY DEF ListInv, LifeShape
  <2> QED BY <1>1, <1>6, <2>1, <2>2, PushConn
<1>7. ASSUME VfoApply \/ CmdWorker PROVE ConnInv' /\ Kept
  BY <1>2, <1>7 DEF VfoApply, CmdWorker, CmdStart, CmdPublish, CmdFail, CmdTune, chanVars,
     clientVars, audioVars
<1>8. ASSUME UNCHANGED vars PROVE ConnInv' /\ Kept
  BY <1>2, <1>8 DEF vars, chanVars, clientVars, audioVars
<1>9. ConnInv' /\ Kept
  <2>1. CASE AudioWorker
    BY <1>6, <2>1 DEF AudioWorker
  <2>2. CASE \E c \in Conns : Connection(c) \/ AudioCommands(c) \/ VfoCommands(c)
    BY <1>3, <1>4, <1>5, <2>2
  <2> QED BY <1>7, <1>8, <2>1, <2>2 DEF Next
<1> QED BY <1>9 DEF Kept

(* The three parts are the types.                                          *)
LEMMA PartsTyped == TuneInv /\ ConnInv /\ ListInv => ClientsListed
<1> SUFFICES ASSUME TuneInv, ConnInv, ListInv PROVE ClientsListed
  OBVIOUS
<1>1. TuneShape /\ ChanShape /\ LifeShape
  BY DEF TuneInv, ConnInv, ListInv
<1>2. Tuning \subseteq Tune
  <2>1. 0 .. MaxHz \subseteq Nat
    BY ConstFacts
  <2> QED BY <2>1 DEF Tuning, Tune
<1>3. (\A c \in Conns : busy[c] \in Seq(Tune)) /\ vfoQueue \in Seq(Tune)
  BY <1>1, <1>2, SeqMonotonic DEF TuneShape
<1>4. cmdJob \in Seq(Tune)
  <2>1. cmdJob \in Seq(Tuning)
    BY <1>1, OneTune DEF TuneShape, Idle
  <2> QED BY <1>2, <2>1, SeqMonotonic
<1>5. ASSUME NEW c \in Conns
      PROVE  /\ chan[c] \in Seq(Msg) /\ Room(c) >= 0
             /\ waitq[c] \in Seq(Nat)
             /\ spawned[c] \cup granted[c] \cup got[c] \subseteq 1 .. sent[c]
  BY <1>1 DEF ChanShape, ConnInv, ConnAt
<1>6. TypeOK
  BY <1>1, <1>3, <1>4, <1>5 DEF TypeOK, TuneShape, ChanShape, LifeShape
<1>7. ListsAreClients
  BY DEF ListsAreClients, ListInv, ListedAt
<1> QED BY <1>6, <1>7 DEF ClientsListed

(* No channel holds more than CHAN_DEPTH, counting the room granted to     *)
(* echoes that have not run again, and the subscriber lists of push_audio  *)
(* and push_smeter are those of the live clients: a slow client stays on,  *)
(* a closed connection does not.                                           *)
THEOREM ListsStayRight == Spec => []ClientsListed
<1>1. TuneInv /\ ConnInv /\ ListInv /\ [Next]_vars => TuneInv' /\ ConnInv' /\ ListInv'
  BY TuneStep, ConnStep, ListStep
<1> QED BY <1>1, TuneInit, ConnInit, ListInit, PartsTyped, PTL DEF Spec

(* A client gets the frames of a sink in the order of their blocks and     *)
(* none twice, although push_audio drops frames on a full channel and the  *)
(* client stops and starts: the safety half of Delivered.                  *)
THEOREM FramesStayInOrder == Spec => FramesInOrder
<1> DEFINE Kept == \A c \in Conns, t \in Sinks :
                     lastFrame'[c][t] # lastFrame[c][t] => lastFrame'[c][t] > lastFrame[c][t]
<1>1. ConnInv /\ ListInv /\ [Next]_vars => ConnInv' /\ ListInv'
  BY ConnStep, ListStep
<1>2. ConnInv /\ ListInv /\ [Next]_vars => [Kept]_vars
  BY ConnStep
<1> QED BY <1>1, <1>2, ConnInit, ListInit, PTL DEF Spec, FramesInOrder

=============================================================================
