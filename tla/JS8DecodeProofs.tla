--------------------------- MODULE JS8DecodeProofs ---------------------------
(***************************************************************************)
(* Proofs about JS8Decode for every set of candidates, every limit and     *)
(* every length of an epoch: between two clearings of seen_this_epoch_     *)
(* exactly one of the two threads that decode a message publishes it, a    *)
(* message is published for every epoch it is decoded in, and repeats      *)
(* within an epoch are late ones of the refine worker.                     *)
(***************************************************************************)
EXTENDS JS8Decode, SequenceTheorems, TLAPS

(***************************************************************************)
(* The strengthening.  Elems is what was or is being published, without    *)
(* its order, which two threads on their way to ZMQ may change.            *)
(***************************************************************************)
Sent == {published[i] : i \in DOMAIN published}
Going(t) == {out[t][i] : i \in DOMAIN out[t]}
Elems == Sent \cup Going("scan") \cup Going("refine")

(* A thread publishes one message at a time, and the refine worker takes a *)
(* job only when it is through with the one before.                        *)
OutInv ==
  /\ \A t \in Threads : out[t] = << >> \/ \E r \in Recs : out[t] = <<r>>
  /\ job # << >> => ~Publishing("refine")

(* OncePerClearing, by where the two messages are.                         *)
OnceInv ==
  /\ \A i, j \in DOMAIN published :
       i # j /\ Same(published[i], published[j]) => published[i].gen # published[j].gen
  /\ \A t \in Threads, i \in DOMAIN published, r \in Recs :
       out[t] = <<r>> /\ Same(published[i], r) => published[i].gen # r.gen
  /\ \A r, s \in Recs :
       out["scan"] = <<r>> /\ out["refine"] = <<s>> /\ Same(r, s) => r.gen # s.gen

(* The set is that of the messages of the present epoch's clearing, and no *)
(* message is of a later one: the clock, and so the epoch, never goes back.*)
SeenInv ==
  /\ lastEpoch <= EpochOf(clock)
  /\ \A r \in Elems : r.gen <= lastEpoch
  /\ \A r \in Elems : r.gen = lastEpoch => Key(r.text, r.bin) \in seen
  /\ \A k \in seen : \E r \in Elems : k = Key(r.text, r.bin) /\ r.gen = lastEpoch

IInv == TypeOK /\ OutInv /\ OnceInv /\ SeenInv

(* While the callback runs, the epoch it last noted is that of its own     *)
(* unix_now: no one else writes last_epoch_.                               *)
EpochInv == spc # "idle" => lastEpoch = EpochOf(now)

(* No job is of an epoch still to come.                                    *)
JobsInv ==
  /\ \A i \in DOMAIN queue : EpochOf(queue[i].time) <= lastEpoch
  /\ \A i \in DOMAIN job : EpochOf(job[i].time) <= lastEpoch

(* What was published has no time after its clearing, what the scan        *)
(* published has the time of its clearing, and what was decoded is         *)
(* published in the clearing of its scan.                                  *)
Timely ==
  /\ \A r \in Elems : EpochOf(r.time) <= r.gen
  /\ \A r \in Elems : r.by = "scan" => EpochOf(r.time) = r.gen
  /\ \A d \in decoded : \E r \in Elems :
       r.text = d[1] /\ r.bin = d[2] /\ r.gen = d[3]

AInv == IInv /\ EpochInv /\ JobsInv /\ Timely

-----------------------------------------------------------------------------
(* Epochs.                                                                 *)

(* An epoch is a natural number and later times have no earlier epochs.    *)
LEMMA EpochType ==
  ASSUME NEW a \in Nat
  PROVE  EpochOf(a) \in Nat
<1>1. Cycle \in Nat \ {0}
  BY JS8Assumption
<1> QED BY <1>1, SMT DEF EpochOf

LEMMA EpochMonotonic ==
  ASSUME NEW a \in Nat, NEW b \in Nat, a <= b
  PROVE  EpochOf(a) <= EpochOf(b)
<1> DEFINE qa == a \div Cycle
           qb == b \div Cycle
<1>1. Cycle \in Nat \ {0}
  BY JS8Assumption
<1>2. /\ qa \in Int /\ qb \in Int /\ a % Cycle \in 0 .. Cycle - 1 /\ b % Cycle \in 0 .. Cycle - 1
      /\ a = Cycle * qa + (a % Cycle) /\ b = Cycle * qb + (b % Cycle)
  BY <1>1, SMT
<1> HIDE DEF qa, qb
<1>3. ASSUME qa >= qb + 1 PROVE FALSE
  <2>1. Cycle * qa >= Cycle * (qb + 1)
    BY <1>1, <1>2, <1>3, SMT
  <2>2. Cycle * (qb + 1) = Cycle * qb + Cycle
    BY <1>1, <1>2, SMT
  <2>3. Cycle * qa \in Int /\ Cycle * qb \in Int
    BY <1>1, <1>2, SMT
  <2> QED BY <1>1, <1>2, <2>1, <2>2, <2>3, SMT
<1>4. qa <= qb
  BY <1>2, <1>3
<1> QED BY <1>4 DEF EpochOf, qa, qb

-----------------------------------------------------------------------------
(* The sequence that the properties are stated on holds what Elems holds.  *)
LEMMA OutgoingType ==
  ASSUME TypeOK
  PROVE  /\ Outgoing \in Seq(Recs)
         /\ \A i \in DOMAIN Outgoing :
              \/ \E p \in DOMAIN published : i = p /\ Outgoing[i] = published[p]
              \/ \E p \in DOMAIN out["scan"] :
                   i = Len(published) + p /\ Outgoing[i] = out["scan"][p]
              \/ \E p \in DOMAIN out["refine"] :
                   /\ i = Len(published) + Len(out["scan"]) + p
                   /\ Outgoing[i] = out["refine"][p]
         /\ \A r \in Elems : \E i \in DOMAIN Outgoing : Outgoing[i] = r
<1> DEFINE p == published
           a == out["scan"]
           b == out["refine"]
<1>1. p \in Seq(Recs) /\ a \in Seq(Recs) /\ b \in Seq(Recs)
  BY DEF TypeOK, Threads
<1>2. Outgoing = (p \o a) \o b
  BY DEF Outgoing
<1>3. Elems = {p[i] : i \in DOMAIN p} \cup {a[i] : i \in DOMAIN a} \cup {b[i] : i \in DOMAIN b}
  BY DEF Elems, Sent, Going
<1> DEFINE o == (p \o a) \o b
<1> HIDE DEF p, a, b
<1>4. /\ Len(p) \in Nat /\ Len(a) \in Nat /\ Len(b) \in Nat
      /\ DOMAIN p = 1 .. Len(p) /\ DOMAIN a = 1 .. Len(a) /\ DOMAIN b = 1 .. Len(b)
  BY <1>1, LenProperties
<1>5. /\ p \o a \in Seq(Recs) /\ Len(p \o a) = Len(p) + Len(a)
      /\ \A i \in 1 .. Len(p) + Len(a) :
           (p \o a)[i] = IF i <= Len(p) THEN p[i] ELSE a[i - Len(p)]
  BY <1>1, ConcatProperties
<1>6. /\ o \in Seq(Recs) /\ Len(o) = Len(p) + Len(a) + Len(b)
      /\ \A i \in 1 .. Len(p) + Len(a) + Len(b) :
           o[i] = IF i <= Len(p) + Len(a) THEN (p \o a)[i] ELSE b[i - (Len(p) + Len(a))]
  <2> DEFINE c == p \o a
  <2>1. c \in Seq(Recs) /\ b \in Seq(Recs) /\ Len(c) = Len(p) + Len(a)
    BY <1>1, <1>5
  <2> HIDE DEF c
  <2>2. /\ c \o b \in Seq(Recs) /\ Len(c \o b) = Len(c) + Len(b)
        /\ \A i \in 1 .. Len(c) + Len(b) :
             (c \o b)[i] = IF i <= Len(c) THEN c[i] ELSE b[i - Len(c)]
    BY <2>1, ConcatProperties
  <2> QED BY <2>1, <2>2 DEF c
<1> HIDE DEF o
<1>7. DOMAIN o = 1 .. Len(p) + Len(a) + Len(b)
  BY <1>6, LenProperties
<1>8. ASSUME NEW i \in DOMAIN o
      PROVE  \/ \E k \in DOMAIN p : i = k /\ o[i] = p[k]
             \/ \E k \in DOMAIN a : i = Len(p) + k /\ o[i] = a[k]
             \/ \E k \in DOMAIN b : i = Len(p) + Len(a) + k /\ o[i] = b[k]
  <2>1. CASE i <= Len(p)
    BY <1>4, <1>5, <1>6, <1>7, <2>1
  <2>2. CASE Len(p) < i /\ i <= Len(p) + Len(a)
    <3> DEFINE k == i - Len(p)
    <3>1. k \in DOMAIN a /\ i = Len(p) + k /\ o[i] = a[k]
      BY <1>4, <1>5, <1>6, <1>7, <2>2
    <3> QED BY <3>1
  <2>3. CASE Len(p) + Len(a) < i
    <3> DEFINE k == i - (Len(p) + Len(a))
    <3>1. k \in DOMAIN b /\ i = Len(p) + Len(a) + k /\ o[i] = b[k]
      BY <1>4, <1>6, <1>7, <2>3
    <3> QED BY <3>1
  <2> QED BY <1>4, <1>7, <2>1, <2>2, <2>3
<1>9. ASSUME NEW r \in Elems PROVE \E i \in DOMAIN o : o[i] = r
  <2>1. ASSUME NEW k \in DOMAIN p, r = p[k] PROVE \E i \in DOMAIN o : o[i] = r
    <3>1. k \in DOMAIN o /\ o[k] = r
      BY <1>4, <1>5, <1>6, <1>7, <2>1
    <3> QED BY <3>1
  <2>2. ASSUME NEW k \in DOMAIN a, r = a[k] PROVE \E i \in DOMAIN o : o[i] = r
    <3> DEFINE i == Len(p) + k
    <3>1. i \in 1 .. Len(p) + Len(a) /\ ~(i <= Len(p)) /\ i - Len(p) = k
      BY <1>4
    <3>2. i \in DOMAIN o /\ i <= Len(p) + Len(a)
      BY <1>4, <1>7, <3>1
    <3> HIDE DEF i
    <3>3. o[i] = r
      BY <1>5, <1>6, <1>7, <2>2, <3>1, <3>2
    <3> QED BY <3>2, <3>3
  <2>3. ASSUME NEW k \in DOMAIN b, r = b[k] PROVE \E i \in DOMAIN o : o[i] = r
    <3> DEFINE i == Len(p) + Len(a) + k
    <3>1. i \in DOMAIN o /\ ~(i <= Len(p) + Len(a)) /\ i - (Len(p) + Len(a)) = k
      BY <1>4, <1>7
    <3> HIDE DEF i
    <3>2. o[i] = r
      BY <1>6, <1>7, <2>3, <3>1
    <3> QED BY <3>1, <3>2
  <2> QED BY <1>3, <2>1, <2>2, <2>3
<1> QED BY <1>2, <1>6, <1>8, <1>9 DEF o, p, a, b

-----------------------------------------------------------------------------
(* Type correctness.                                                       *)

(* Candidates have a bin, and jobs a candidate and a time.                 *)
LEMMA CandidateType ==
  ASSUME NEW c \in Candidates
  PROVE  c.bin \in Nat
  BY JS8Assumption

LEMMA RecType ==
  ASSUME NEW t \in Threads, NEW text \in Texts, NEW bin \in Nat, NEW time \in Nat,
         lastEpoch \in Nat
  PROVE  /\ Rec(t, text, bin, time) \in Recs
         /\ Rec(t, text, bin, time).text = text /\ Rec(t, text, bin, time).bin = bin
         /\ Rec(t, text, bin, time).time = time /\ Rec(t, text, bin, time).gen = lastEpoch
         /\ Rec(t, text, bin, time).by = t
  BY DEF Rec, Recs

(* Jobs go through the queue unchanged, and it never grows past its limit. *)
LEMMA PushType ==
  ASSUME NEW q \in Seq(Jobs), Len(q) <= QueueMax, NEW j \in Jobs
  PROVE  Push(q, j) \in Seq(Jobs) /\ Len(Push(q, j)) <= QueueMax
<1>1. QueueMax \in Nat /\ QueueMax >= 1
  BY JS8Assumption
<1>2. CASE Len(q) >= QueueMax
  <2>1. q # << >> /\ Len(q) >= 1
    BY <1>1, <1>2
  <2>2. Tail(q) \in Seq(Jobs) /\ Len(Tail(q)) = Len(q) - 1
    BY <2>1
  <2> QED BY <1>1, <1>2, <2>2 DEF Push
<1>3. CASE ~(Len(q) >= QueueMax)
  BY <1>1, <1>3 DEF Push
<1> QED BY <1>2, <1>3

(* publishCandidateCore keeps the types of the set and of what a thread is *)
(* about to send.                                                          *)
LEMMA PublishType ==
  ASSUME TypeOK, NEW t \in Threads, NEW text \in Texts, NEW bin \in Nat, NEW time \in Nat,
         PublishCandidate(t, text, bin, time)
  PROVE  seen' \subseteq Texts \X Nat /\ out' \in [Threads -> Seq(Recs)]
<1>1. Rec(t, text, bin, time) \in Recs
  BY RecType DEF TypeOK
<1>2. <<Rec(t, text, bin, time)>> \in Seq(Recs) /\ << >> \in Seq(Recs)
  BY <1>1
<1>3. Key(text, bin) \in Texts \X Nat
  BY DEF Key
<1> QED BY <1>2, <1>3 DEF PublishCandidate, TypeOK

(* The state before the first scan.                                        *)
LEMMA InitType == Init => TypeOK
<1> SUFFICES ASSUME Init PROVE TypeOK
  OBVIOUS
<1>1. /\ queue \in Seq(Jobs) /\ Len(queue) = 0 /\ job \in Seq(Jobs) /\ Len(job) = 0
      /\ published \in Seq(Recs)
  BY DEF Init
<1>2. out \in [Threads -> Seq(Recs)] /\ opc \in [Threads -> {"zmq", "ws"}]
  BY DEF Init
<1>3. RefineMax \in Nat /\ QueueMax \in Nat /\ Cycle \in Nat
  BY JS8Assumption
<1>4. /\ clock \in Nat /\ scans \in Nat /\ now \in Nat /\ used \in 0 .. RefineMax
      /\ lastEpoch \in Nat /\ Len(queue) <= QueueMax /\ Len(job) <= 1
  BY <1>1, <1>3 DEF Init
<1>5. ws \in BOOLEAN /\ crashed \in BOOLEAN /\ refine \in BOOLEAN
  BY DEF Init
<1> QED BY <1>1, <1>2, <1>4, <1>5 DEF Init, TypeOK

(* Entering the callback.                                                  *)
LEMMA BeginType ==
  ASSUME TypeOK, NEW cs \in SUBSET Candidates, ScanBegin(cs)
  PROVE  TypeOK'
<1>1. RefineMax \in Nat
  BY JS8Assumption
<1>2. EpochOf(clock) \in Nat
  BY EpochType DEF TypeOK
<1>3. /\ now' \in Nat /\ scans' \in Nat /\ used' \in 0 .. RefineMax /\ lastEpoch' \in Nat
      /\ seen' \subseteq Texts \X Nat /\ todo' \subseteq Candidates /\ failed' \subseteq Candidates
      /\ spc' = "pass1"
  BY <1>1, <1>2 DEF ScanBegin, NewEpoch, TypeOK
<1>4. UNCHANGED <<clock, out, opc, ws, crashed, published, refine, queue, job, decoded>>
  BY DEF ScanBegin, pubVars, refVars
<1> QED BY <1>3, <1>4 DEF TypeOK

(* Pass 1.                                                                 *)
LEMMA PassOneType ==
  ASSUME TypeOK, NEW c \in todo, PassOne(c)
  PROVE  TypeOK'
<1>1. c \in Candidates /\ c.bin \in Nat /\ now \in Nat /\ "scan" \in Threads
  BY CandidateType DEF TypeOK, Threads
<1>2. /\ UNCHANGED <<clock, scans, spc, now, failed, used, lastEpoch, opc, ws, crashed,
                     published, refine, queue, job>>
      /\ todo' \subseteq Candidates
  BY DEF PassOne, pubVars, refVars, TypeOK
<1>3. CASE c.sp \in Texts
  <2>1. PublishCandidate("scan", c.sp, c.bin, now)
    BY <1>3 DEF PassOne
  <2>2. seen' \subseteq Texts \X Nat /\ out' \in [Threads -> Seq(Recs)]
    BY <1>1, <1>3, <2>1, PublishType
  <2>3. decoded' \subseteq Texts \X Nat \X Nat
    <3>1. EpochOf(now) \in Nat
      BY <1>1, EpochType
    <3> QED BY <1>1, <1>3, <3>1 DEF PassOne, TypeOK
  <2> QED BY <1>2, <2>2, <2>3 DEF TypeOK
<1>4. CASE c.sp \notin Texts
  BY <1>2, <1>4 DEF PassOne, TypeOK
<1> QED BY <1>3, <1>4

(* Pass 2 publishes what OSD finds or queues a refine job.                 *)
LEMMA PassTwoType ==
  ASSUME TypeOK, NEW c \in failed, PassTwo(c)
  PROVE  TypeOK'
<1>1. c \in Candidates /\ c.bin \in Nat /\ now \in Nat /\ "scan" \in Threads
  BY CandidateType DEF TypeOK, Threads
<1>2. /\ UNCHANGED <<clock, scans, spc, now, todo, lastEpoch, opc, ws, crashed, published,
                     refine, job>>
      /\ failed' \subseteq Candidates
  BY DEF PassTwo, pubVars, TypeOK
<1>3. CASE c.osd \in Texts
  <2>1. PublishCandidate("scan", c.osd, c.bin, now) /\ UNCHANGED <<used, queue>>
    BY <1>3 DEF PassTwo
  <2>2. seen' \subseteq Texts \X Nat /\ out' \in [Threads -> Seq(Recs)]
    BY <1>1, <1>3, <2>1, PublishType
  <2>3. decoded' \subseteq Texts \X Nat \X Nat
    <3>1. EpochOf(now) \in Nat
      BY <1>1, EpochType
    <3> QED BY <1>1, <1>3, <3>1 DEF PassTwo, TypeOK
  <2> QED BY <1>2, <2>1, <2>2, <2>3 DEF TypeOK
<1>4. CASE c.osd \notin Texts
  <2>1. UNCHANGED <<seen, out, decoded>>
    BY <1>4 DEF PassTwo
  <2>2. used' \in 0 .. RefineMax /\ queue' \in Seq(Jobs) /\ Len(queue') <= QueueMax
    <3>1. [cand |-> c, time |-> now] \in Jobs
      BY <1>1 DEF Jobs
    <3>2. RefineMax \in Nat
      BY JS8Assumption
    <3>3. CASE refine /\ used < RefineMax
      <4>1. used' = used + 1 /\ queue' = Push(queue, [cand |-> c, time |-> now])
        BY <1>4, <3>3 DEF PassTwo
      <4> QED BY <3>1, <3>2, <3>3, <4>1, PushType DEF TypeOK
    <3>4. CASE ~(refine /\ used < RefineMax)
      BY <1>4, <3>4 DEF PassTwo, TypeOK
    <3> QED BY <3>3, <3>4
  <2> QED BY <1>2, <2>1, <2>2 DEF TypeOK
<1> QED BY <1>3, <1>4

(* The refine worker's job is one of the queue's.                          *)
LEMMA JobType ==
  ASSUME TypeOK, job # << >>
  PROVE  job[1].cand \in Candidates /\ job[1].cand.bin \in Nat /\ job[1].time \in Nat
<1> DEFINE q == job
<1>1. q \in Seq(Jobs) /\ q # << >>
  BY DEF TypeOK
<1> HIDE DEF q
<1>2. 1 \in 1 .. Len(q)
  BY <1>1, EmptySeq, LenProperties
<1>3. q[1] \in Jobs
  BY <1>1, <1>2, ElementOfSeq
<1> QED BY <1>3, CandidateType DEF Jobs, q

(* The refine worker takes the oldest job and reports on it.               *)
LEMMA RefineType ==
  ASSUME TypeOK, RefineTake \/ RefineDone
  PROVE  TypeOK'
<1>1. CASE RefineTake
  <2>1. /\ UNCHANGED <<refine, clock, scanVars, lastEpoch, seen, out, pubVars, decoded>>
        /\ queue # << >> /\ job' = <<Head(queue)>> /\ queue' = Tail(queue)
    BY <1>1 DEF RefineTake
  <2>2. /\ Head(queue) \in Jobs /\ Tail(queue) \in Seq(Jobs)
        /\ Len(Tail(queue)) = Len(queue) - 1 /\ Len(queue) \in Nat
    BY <2>1, HeadTailProperties, LenProperties DEF TypeOK
  <2>3. job' \in Seq(Jobs) /\ Len(job') = 1
    BY <2>1, <2>2
  <2>4. Len(queue') <= QueueMax
    BY <2>1, <2>2, JS8Assumption DEF TypeOK
  <2> QED BY <2>1, <2>2, <2>3, <2>4 DEF TypeOK, scanVars, pubVars
<1>2. CASE RefineDone
  <2>1. UNCHANGED <<clock, scanVars, lastEpoch, pubVars, refine, queue, decoded>> /\ job' = << >>
    BY <1>2 DEF RefineDone
  <2>3. job[1].cand \in Candidates /\ job[1].cand.bin \in Nat /\ job[1].time \in Nat
    BY <1>2, JobType DEF RefineDone
  <2>4. seen' \subseteq Texts \X Nat /\ out' \in [Threads -> Seq(Recs)]
    <3>1. CASE job[1].cand.ref \in Texts
      <4>1. PublishCandidate("refine", job[1].cand.ref, job[1].cand.bin, job[1].time)
        BY <1>2, <3>1 DEF RefineDone
      <4>2. "refine" \in Threads
        BY DEF Threads
      <4> QED BY <2>3, <3>1, <4>1, <4>2, PublishType
    <3>2. CASE job[1].cand.ref \notin Texts
      BY <1>2, <3>2 DEF RefineDone, TypeOK
    <3> QED BY <3>1, <3>2
  <2>5. job' \in Seq(Jobs) /\ Len(job') <= 1
    BY <2>1
  <2> QED BY <2>1, <2>4, <2>5 DEF TypeOK, scanVars, pubVars
<1> QED BY <1>1, <1>2

(* publishDecoded.                                                         *)
LEMMA SendType ==
  ASSUME TypeOK, NEW t \in Threads, SendZmq(t) \/ SendWs(t)
  PROVE  TypeOK'
<1>1. CASE SendZmq(t)
  <2>1. /\ UNCHANGED <<clock, scanVars, lastEpoch, seen, ws, crashed, refVars, decoded>>
        /\ published' = published \o out[t]
        /\ out' = [out EXCEPT ![t] = << >>]
    BY <1>1 DEF SendZmq
  <2>2. published' \in Seq(Recs)
    BY <2>1, ConcatProperties DEF TypeOK
  <2>3. out' \in [Threads -> Seq(Recs)] /\ opc' \in [Threads -> {"zmq", "ws"}]
    <3>1. << >> \in Seq(Recs)
      OBVIOUS
    <3> QED BY <1>1, <2>1, <3>1 DEF SendZmq, TypeOK
  <2> QED BY <2>1, <2>2, <2>3 DEF TypeOK, scanVars, refVars
<1>2. CASE SendWs(t)
  <2>1. UNCHANGED <<clock, scanVars, lastEpoch, seen, out, published, refVars, decoded>>
    BY <1>2 DEF SendWs
  <2>2. /\ opc' \in [Threads -> {"zmq", "ws"}] /\ ws' \in BOOLEAN /\ crashed' \in BOOLEAN
    BY <1>2 DEF SendWs, TypeOK
  <2> QED BY <2>1, <2>2 DEF TypeOK, scanVars, refVars
<1> QED BY <1>1, <1>2

(* Every step keeps the types.                                             *)
LEMMA TypeStep == TypeOK /\ [Next]_vars => TypeOK'
<1> SUFFICES ASSUME TypeOK, [Next]_vars PROVE TypeOK'
  OBVIOUS
<1>1. CASE Tick
  BY <1>1 DEF Tick, TypeOK, scanVars, pubVars, refVars
<1>2. ASSUME NEW cs \in SUBSET Candidates, ScanBegin(cs) PROVE TypeOK'
  BY <1>2, BeginType
<1>3. ASSUME NEW c \in todo, PassOne(c) PROVE TypeOK'
  BY <1>3, PassOneType
<1>4. CASE PassTwoStart
  <2>1. failed' \subseteq Candidates
    BY <1>4 DEF PassTwoStart, Gated, TypeOK
  <2> QED BY <1>4, <2>1 DEF PassTwoStart, TypeOK, pubVars, refVars
<1>5. ASSUME NEW c \in failed, PassTwo(c) PROVE TypeOK'
  BY <1>5, PassTwoType
<1>6. CASE Return
  BY <1>6 DEF Return, TypeOK, pubVars, refVars
<1>7. CASE RefineTake \/ RefineDone
  BY <1>7, RefineType
<1>8. ASSUME NEW t \in Threads, SendZmq(t) \/ SendWs(t) PROVE TypeOK'
  BY <1>8, SendType
<1>9. CASE UNCHANGED vars
  BY <1>9 DEF vars, TypeOK, scanVars, pubVars, refVars
<1> QED BY <1>1, <1>2, <1>3, <1>4, <1>5, <1>6, <1>7, <1>8, <1>9 DEF Next, Scan

(* The limits of the refine queue and of the jobs of a scan are kept, and  *)
(* every message published is one of the protocol's (JS8::publishDecoded). *)
THEOREM TypeCorrect == Spec => []TypeOK
  BY InitType, TypeStep, PTL DEF Spec

-----------------------------------------------------------------------------
(* What was and is being published.                                        *)

(* A thread with one message contributes that one.                         *)
LEMMA GoingIs ==
  /\ \A t \in Threads : out[t] = << >> => Going(t) = {}
  /\ \A t \in Threads, r \in Recs : out[t] = <<r>> => Going(t) = {r}
  BY DEF Going

LEMMA GoingNextIs ==
  /\ \A t \in Threads : out'[t] = << >> => Going(t)' = {}
  /\ \A t \in Threads, r \in Recs : out'[t] = <<r>> => Going(t)' = {r}
  BY DEF Going

(* What is being published is among the elements, and is a record.         *)
LEMMA ElemsAre ==
  ASSUME TypeOK, OutInv
  PROVE  /\ \A i \in DOMAIN published : published[i] \in Elems
         /\ \A t \in Threads, r \in Recs : out[t] = <<r>> => r \in Elems
         /\ Elems \subseteq Recs
<1>1. \A i \in DOMAIN published : published[i] \in Recs
  BY LenProperties, ElementOfSeq DEF TypeOK
<1>2. \A t \in Threads : Going(t) \subseteq Recs
  BY GoingIs DEF OutInv
<1> QED BY <1>1, <1>2, GoingIs DEF Elems, Sent, Threads

(* publishCandidateCore adds the message to what is published if its key   *)
(* was not in the set, and only then.                                      *)
LEMMA PublishElems ==
  ASSUME TypeOK, OutInv, NEW t \in Threads, NEW text \in Texts, NEW bin \in Nat,
         NEW time \in Nat, PublishCandidate(t, text, bin, time), out[t] = << >>,
         UNCHANGED published
  PROVE  /\ \A u \in Threads \ {t} : out'[u] = out[u]
         /\ Key(text, bin) \in seen => out' = out /\ Elems' = Elems
         /\ Key(text, bin) \notin seen =>
              /\ out'[t] = <<Rec(t, text, bin, time)>>
              /\ Elems' = Elems \cup {Rec(t, text, bin, time)}
<1> DEFINE r0 == Rec(t, text, bin, time)
<1>1. r0 \in Recs
  BY RecType DEF TypeOK
<1>2. \A u \in Threads \ {t} : out'[u] = out[u]
  BY DEF PublishCandidate, TypeOK
<1>3. CASE Key(text, bin) \in seen
  <2>1. out'[t] = << >>
    BY <1>3 DEF PublishCandidate, TypeOK
  <2>2. out' = out
    BY <1>3 DEF PublishCandidate, TypeOK
  <2> QED BY <1>2, <1>3, <2>2 DEF Elems, Sent, Going
<1>4. CASE Key(text, bin) \notin seen
  <2>1. out'[t] = <<r0>>
    BY <1>4 DEF PublishCandidate, TypeOK
  <2> HIDE DEF r0
  <2>2. Going(t) = {} /\ Going(t)' = {r0}
    BY <1>1, <2>1, GoingIs, GoingNextIs
  <2>3. \A u \in Threads \ {t} : Going(u)' = Going(u)
    BY <1>2 DEF Going
  <2>4. Sent' = Sent
    BY DEF Sent
  <2>5. Elems' = Elems \cup {r0}
    BY <2>2, <2>3, <2>4 DEF Elems, Threads
  <2> QED BY <1>2, <1>4, <2>1, <2>5 DEF r0
<1> QED BY <1>3, <1>4

(* ... so that one of the threads that decode it publishes it.             *)
LEMMA PublishKeeps ==
  ASSUME IInv, NEW t \in Threads, NEW text \in Texts, NEW bin \in Nat,
         NEW time \in Nat, PublishCandidate(t, text, bin, time), out[t] = << >>,
         UNCHANGED <<published, lastEpoch, clock>>
  PROVE  /\ \A u \in Threads : out'[u] = << >> \/ \E r \in Recs : out'[u] = <<r>>
         /\ OnceInv' /\ SeenInv'
<1> USE DEF IInv
<1> DEFINE r0 == Rec(t, text, bin, time)
<1>1. /\ r0 \in Recs /\ r0.text = text /\ r0.bin = bin /\ r0.gen = lastEpoch
      /\ lastEpoch \in Nat
  BY RecType DEF TypeOK
<1>2. seen' = seen \cup {Key(text, bin)}
  BY DEF PublishCandidate
<1>3. /\ \A i \in DOMAIN published : published[i] \in Elems
      /\ \A u \in Threads, r \in Recs : out[u] = <<r>> => r \in Elems
      /\ Elems \subseteq Recs
  BY ElemsAre
<1>4. CASE Key(text, bin) \in seen
  <2>1. out' = out /\ Elems' = Elems /\ seen' = seen
    BY <1>2, <1>4, PublishElems
  <2>2. OnceInv'
    BY <2>1 DEF OnceInv, Same
  <2>3. SeenInv'
    BY <2>1 DEF SeenInv, EpochOf, Key
  <2> QED BY <2>1, <2>2, <2>3 DEF OutInv
<1>5. CASE Key(text, bin) \notin seen
  <2>1. /\ \A u \in Threads \ {t} : out'[u] = out[u]
        /\ out'[t] = <<r0>> /\ Elems' = Elems \cup {r0}
    BY <1>5, PublishElems
  <2>2. \A r \in Elems : Same(r, r0) => r.gen # r0.gen
    BY <1>1, <1>5 DEF SeenInv, Same, Key
  <2> HIDE DEF r0
  <2>3. \A r \in Recs : out'[t] = <<r>> => r = r0
    BY <2>1
  <2>4. OnceInv'
    <3>1. ASSUME NEW u \in Threads, NEW i \in DOMAIN published, NEW r \in Recs,
                 out'[u] = <<r>>, Same(published[i], r)
          PROVE  published[i].gen # r.gen
      <4>1. CASE u = t
        BY <3>1, <4>1, <2>2, <2>3, <1>3
      <4>2. CASE u # t
        BY <3>1, <4>2, <2>1 DEF OnceInv
      <4> QED BY <4>1, <4>2
    <3>2. ASSUME NEW r \in Recs, NEW s \in Recs,
                 out'["scan"] = <<r>>, out'["refine"] = <<s>>, Same(r, s)
          PROVE  r.gen # s.gen
      <4>1. CASE t = "scan"
        <5>1. r = r0 /\ out["refine"] = <<s>>
          BY <2>1, <2>3, <3>2, <4>1 DEF Threads
        <5>2. s \in Elems /\ Same(s, r)
          BY <1>3, <3>2, <5>1 DEF Same, Threads
        <5> QED BY <2>2, <5>1, <5>2
      <4>2. CASE t = "refine"
        <5>1. s = r0 /\ out["scan"] = <<r>>
          BY <2>1, <2>3, <3>2, <4>2 DEF Threads
        <5>2. r \in Elems
          BY <1>3, <5>1 DEF Threads
        <5> QED BY <2>2, <3>2, <5>1, <5>2
      <4> QED BY <4>1, <4>2 DEF Threads
    <3> QED BY <3>1, <3>2 DEF OnceInv, Same
  <2>5. SeenInv'
    <3>1. (lastEpoch <= EpochOf(clock))'
      BY DEF SeenInv, EpochOf
    <3>2. \A r \in Elems' : r.gen <= lastEpoch
      BY <1>1, <2>1 DEF SeenInv
    <3>3. \A r \in Elems' : r.gen = lastEpoch => Key(r.text, r.bin) \in seen'
      BY <1>1, <1>2, <2>1 DEF SeenInv
    <3>4. \A k \in seen' : \E r \in Elems' : k = Key(r.text, r.bin) /\ r.gen = lastEpoch
      BY <1>1, <1>2, <2>1 DEF SeenInv
    <3> QED BY <3>1, <3>2, <3>3, <3>4 DEF SeenInv, Key
  <2>6. \A u \in Threads : out'[u] = << >> \/ \E r \in Recs : out'[u] = <<r>>
    BY <1>1, <2>1 DEF OutInv
  <2> QED BY <2>4, <2>5, <2>6
<1> QED BY <1>4, <1>5

(* publishDecoded's first half moves the message from the thread to ZMQ.   *)
LEMMA SendElems ==
  ASSUME TypeOK, OutInv, NEW t \in Threads, SendZmq(t)
  PROVE  \E r \in Recs :
           /\ out[t] = <<r>> /\ out'[t] = << >>
           /\ \A u \in Threads \ {t} : out'[u] = out[u]
           /\ Len(published) \in Nat
           /\ DOMAIN published = 1 .. Len(published)
           /\ DOMAIN published' = 1 .. Len(published) + 1
           /\ \A i \in 1 .. Len(published) : published'[i] = published[i]
           /\ published'[Len(published) + 1] = r
           /\ Elems' = Elems
<1>1. PICK r \in Recs : out[t] = <<r>>
  BY DEF OutInv, SendZmq
<1>2. out'[t] = << >> /\ \A u \in Threads \ {t} : out'[u] = out[u]
  BY DEF SendZmq, TypeOK
<1> DEFINE p == published
           q == <<r>>
<1>3. published' = p \o q
  BY <1>1 DEF SendZmq
<1>4. p \in Seq(Recs) /\ q \in Seq(Recs) /\ Len(q) = 1 /\ q[1] = r
  BY DEF TypeOK
<1> HIDE DEF p, q
<1>5. /\ p \o q \in Seq(Recs) /\ Len(p \o q) = Len(p) + Len(q) /\ Len(p) \in Nat
      /\ DOMAIN p = 1 .. Len(p)
      /\ \A i \in 1 .. Len(p) + Len(q) : (p \o q)[i] = IF i <= Len(p) THEN p[i] ELSE q[i - Len(p)]
  BY <1>4, ConcatProperties, LenProperties
<1> DEFINE o == p \o q
           n == Len(p)
<1>6. o \in Seq(Recs) /\ Len(o) = n + 1 /\ n \in Nat
  BY <1>4, <1>5
<1>7. \A i \in 1 .. n : o[i] = p[i]
  BY <1>4, <1>5
<1>8. o[n + 1] = r
  <2>1. n + 1 \in 1 .. Len(p) + Len(q) /\ ~(n + 1 <= Len(p)) /\ n + 1 - Len(p) = 1
    BY <1>4, <1>5
  <2> QED BY <1>4, <1>5, <2>1
<1> HIDE DEF o, n
<1>9. DOMAIN o = 1 .. n + 1
  BY <1>6, LenProperties
<1>10. {o[i] : i \in DOMAIN o} = {p[i] : i \in DOMAIN p} \cup {r}
  <2>1. DOMAIN p = 1 .. n
    BY <1>5 DEF n
  <2>2. \A i \in 1 .. n + 1 : i \in 1 .. n \/ i = n + 1
    BY <1>6
  <2>3. 1 .. n \subseteq 1 .. n + 1 /\ n + 1 \in 1 .. n + 1
    BY <1>6
  <2> QED BY <1>7, <1>8, <1>9, <2>1, <2>2, <2>3
<1>11. Elems' = Elems
  <2>1. Sent' = Sent \cup {r}
    BY <1>3, <1>10 DEF Sent, o, p
  <2>2. Going(t) = {r} /\ Going(t)' = {}
    BY <1>1, <1>2, GoingIs, GoingNextIs
  <2>3. \A u \in Threads \ {t} : Going(u)' = Going(u)
    BY <1>2 DEF Going
  <2> QED BY <2>1, <2>2, <2>3 DEF Elems, Threads
<1> QED BY <1>1, <1>2, <1>3, <1>5, <1>6, <1>7, <1>8, <1>9, <1>11 DEF o, n, p

LEMMA SendKeeps ==
  ASSUME IInv, NEW t \in Threads, SendZmq(t)
  PROVE  /\ \A u \in Threads : out'[u] = << >> \/ \E r \in Recs : out'[u] = <<r>>
         /\ OnceInv' /\ SeenInv'
<1> USE DEF IInv
<1>1. PICK r \in Recs :
           /\ out[t] = <<r>> /\ out'[t] = << >>
           /\ \A u \in Threads \ {t} : out'[u] = out[u]
           /\ Len(published) \in Nat
           /\ DOMAIN published = 1 .. Len(published)
           /\ DOMAIN published' = 1 .. Len(published) + 1
           /\ \A i \in 1 .. Len(published) : published'[i] = published[i]
           /\ published'[Len(published) + 1] = r
           /\ Elems' = Elems
  BY SendElems
<1>2. UNCHANGED <<clock, lastEpoch, seen>>
  BY DEF SendZmq
<1> DEFINE n == Len(published)
<1>3. \A i \in DOMAIN published' : i \in 1 .. n \/ i = n + 1
  BY <1>1
<1>4. \A i \in 1 .. n : Same(published[i], r) => published[i].gen # r.gen
  BY <1>1 DEF OnceInv
<1>5. OnceInv'
  <2>1. ASSUME NEW i \in DOMAIN published', NEW j \in DOMAIN published', i # j,
               Same(published'[i], published'[j])
        PROVE  published'[i].gen # published'[j].gen
    <3>1. CASE i \in 1 .. n /\ j \in 1 .. n
      BY <1>1, <2>1, <3>1 DEF OnceInv
    <3>2. CASE i \in 1 .. n /\ j = n + 1
      BY <1>1, <1>4, <2>1, <3>2
    <3>3. CASE i = n + 1 /\ j \in 1 .. n
      BY <1>1, <1>4, <2>1, <3>3 DEF Same
    <3> QED BY <1>3, <2>1, <3>1, <3>2, <3>3
  <2>2. ASSUME NEW u \in Threads, NEW i \in DOMAIN published', NEW s \in Recs,
               out'[u] = <<s>>, Same(published'[i], s)
        PROVE  published'[i].gen # s.gen
    <3>1. u # t /\ out[u] = <<s>>
      BY <1>1, <2>2
    <3>2. CASE i \in 1 .. n
      BY <1>1, <2>2, <3>1, <3>2 DEF OnceInv
    <3>3. CASE i = n + 1
      <4>1. Same(r, s)
        BY <1>1, <2>2, <3>3
      <4> QED BY <1>1, <3>1, <3>3, <4>1 DEF OnceInv, Threads, Same
    <3> QED BY <1>3, <3>2, <3>3
  <2>3. ASSUME NEW s \in Recs, NEW o \in Recs, out'["scan"] = <<s>>, out'["refine"] = <<o>>
        PROVE  FALSE
    <3>1. <<s>> # << >> /\ <<o>> # << >>
      OBVIOUS
    <3>2. CASE t = "scan"
      BY <1>1, <2>3, <3>1, <3>2
    <3>3. CASE t = "refine"
      BY <1>1, <2>3, <3>1, <3>3
    <3> QED BY <3>2, <3>3 DEF Threads
  <2> QED BY <2>1, <2>2, <2>3 DEF OnceInv, Same
<1>6. SeenInv'
  BY <1>1, <1>2 DEF SeenInv, EpochOf, Key
<1> QED BY <1>1, <1>5, <1>6 DEF OutInv

(* A step that neither decodes nor sends leaves what is published alone,   *)
(* and time only makes the epoch grow.                                     *)
LEMMA QuietKeeps ==
  ASSUME IInv, UNCHANGED <<published, out, seen, lastEpoch>>, clock' \in Nat, clock <= clock'
  PROVE  /\ \A u \in Threads : out'[u] = << >> \/ \E r \in Recs : out'[u] = <<r>>
         /\ OnceInv' /\ SeenInv'
<1> USE DEF IInv
<1>1. OnceInv'
  BY DEF OnceInv, Same
<1>2. Elems' = Elems
  BY DEF Elems, Sent, Going
<1>3. lastEpoch <= EpochOf(clock')
  <2>1. clock \in Nat /\ lastEpoch \in Nat /\ lastEpoch <= EpochOf(clock)
    BY DEF TypeOK, SeenInv
  <2>2. EpochOf(clock) <= EpochOf(clock')
    BY <2>1, EpochMonotonic
  <2>3. EpochOf(clock) \in Nat /\ EpochOf(clock') \in Nat
    BY <2>1, EpochType
  <2> QED BY <2>1, <2>2, <2>3
<1>4. SeenInv'
  BY <1>2, <1>3 DEF SeenInv, EpochOf, Key
<1> QED BY <1>1, <1>4 DEF OutInv

(* The callback moves the epoch forward, and clears the set exactly when   *)
(* every message published so far is of an earlier epoch's clearing.       *)
LEMMA BeginKeeps ==
  ASSUME IInv, NEW cs \in SUBSET Candidates, ScanBegin(cs)
  PROVE  /\ \A u \in Threads : out'[u] = << >> \/ \E r \in Recs : out'[u] = <<r>>
         /\ OnceInv' /\ SeenInv'
<1> USE DEF IInv
<1>1. UNCHANGED <<clock, out, published>> /\ lastEpoch' = EpochOf(clock)
  BY DEF ScanBegin, NewEpoch, pubVars
<1>2. OnceInv' /\ Elems' = Elems
  BY <1>1 DEF OnceInv, Same, Elems, Sent, Going
<1>3. EpochOf(clock) \in Nat /\ lastEpoch \in Nat
  BY EpochType DEF TypeOK
<1>4. (lastEpoch <= EpochOf(clock))'
  BY <1>1, <1>3 DEF EpochOf
<1>5. \A r \in Elems : r.gen \in Nat /\ r.gen <= lastEpoch
  BY ElemsAre DEF SeenInv, Recs
<1>6. CASE EpochOf(clock) = lastEpoch
  <2>1. seen' = seen /\ lastEpoch' = lastEpoch
    BY <1>1, <1>6 DEF ScanBegin, NewEpoch
  <2>2. SeenInv'
    BY <1>2, <1>4, <2>1 DEF SeenInv, EpochOf, Key
  <2> QED BY <1>1, <1>2, <2>2 DEF OutInv
<1>7. CASE EpochOf(clock) # lastEpoch
  <2>1. seen' = {}
    BY <1>7 DEF ScanBegin, NewEpoch
  <2>2. lastEpoch < lastEpoch'
    BY <1>1, <1>3, <1>7 DEF SeenInv
  <2>3. \A r \in Elems : r.gen < lastEpoch'
    BY <1>1, <1>3, <1>5, <2>2
  <2>4. \A r \in Elems' : r.gen <= lastEpoch' /\ r.gen # lastEpoch'
    BY <1>1, <1>2, <1>3, <1>5, <2>3
  <2>5. SeenInv'
    BY <1>4, <2>1, <2>4 DEF SeenInv, Key
  <2> QED BY <1>1, <1>2, <2>5 DEF OutInv
<1> QED BY <1>6, <1>7

(* The refine worker, which publishes before it takes its next job.        *)
LEMMA WorkerStep ==
  ASSUME TypeOK, OutInv, [Next]_vars
  PROVE  (job # << >> => ~Publishing("refine"))'
<1> DEFINE Free == job # << >> => ~Publishing("refine")
<1>1. Free
  BY DEF OutInv
<1>2. CASE UNCHANGED <<job, opc>> /\ out'["refine"] = out["refine"]
  BY <1>1, <1>2 DEF Publishing
<1>3. CASE RefineTake
  <2>1. ~Publishing("refine") /\ UNCHANGED <<out, opc>>
    BY <1>3 DEF RefineTake, pubVars
  <2> QED BY <2>1 DEF Publishing
<1>4. CASE RefineDone
  BY <1>4 DEF RefineDone
<1>5. ASSUME NEW t \in Threads, SendZmq(t) PROVE Free'
  <2>1. UNCHANGED job /\ out[t] # << >>
    BY <1>5 DEF SendZmq, refVars
  <2>2. CASE t = "refine"
    BY <1>1, <2>1, <2>2 DEF Publishing
  <2>3. CASE t = "scan"
    <3>1. out'["refine"] = out["refine"] /\ opc'["refine"] = opc["refine"]
      BY <1>5, <2>3 DEF SendZmq, TypeOK, Threads
    <3> QED BY <1>1, <2>1, <3>1 DEF Publishing
  <2> QED BY <2>2, <2>3 DEF Threads
<1>6. ASSUME NEW t \in Threads, SendWs(t) PROVE Free'
  <2>1. UNCHANGED <<job, out>> /\ opc[t] = "ws"
    BY <1>6 DEF SendWs, refVars
  <2>2. CASE t = "refine"
    BY <1>1, <2>1, <2>2 DEF Publishing
  <2>3. CASE t = "scan"
    <3>1. opc'["refine"] = opc["refine"]
      BY <1>6, <2>3 DEF SendWs, TypeOK, Threads
    <3> QED BY <1>1, <2>1, <3>1 DEF Publishing
  <2> QED BY <2>2, <2>3 DEF Threads
<1>7. ASSUME NEW c \in Candidates, PassOne(c) \/ PassTwo(c) PROVE Free'
  <2>1. UNCHANGED <<job, opc>> /\ out'["refine"] = out["refine"]
    BY <1>7 DEF PassOne, PassTwo, PublishCandidate, pubVars, refVars, TypeOK, Threads
  <2> QED BY <1>2, <2>1
<1>8. CASE Tick \/ PassTwoStart \/ Return \/ UNCHANGED vars
  BY <1>2, <1>8 DEF Tick, PassTwoStart, Return, vars, pubVars, refVars
<1>9. ASSUME NEW cs \in SUBSET Candidates, ScanBegin(cs) PROVE Free'
  BY <1>2, <1>9 DEF ScanBegin, pubVars, refVars
<1>10. todo \subseteq Candidates /\ failed \subseteq Candidates
  BY DEF TypeOK
<1> QED BY <1>3, <1>4, <1>5, <1>6, <1>7, <1>8, <1>9, <1>10 DEF Next, Scan

(* The strengthening is inductive.                                         *)
LEMMA InitOnce == Init => IInv
<1> SUFFICES ASSUME Init PROVE IInv
  OBVIOUS
<1>1. TypeOK
  BY InitType
<1>2. (\A t \in Threads : out[t] = << >>) /\ published = << >> /\ DOMAIN published = {}
  BY DEF Init
<1>3. OutInv
  BY <1>2 DEF Init, OutInv
<1>4. Elems = {}
  BY <1>2, GoingIs DEF Elems, Sent, Threads
<1>5. \A t \in Threads, r \in Recs : out[t] # <<r>>
  BY <1>2
<1>6. OnceInv
  BY <1>2, <1>5 DEF OnceInv, Threads
<1>7. EpochOf(clock) \in Nat
  BY <1>1, EpochType DEF TypeOK
<1>8. SeenInv
  BY <1>4, <1>7 DEF SeenInv, Init
<1> QED BY <1>1, <1>3, <1>6, <1>8 DEF IInv

LEMMA OnceStep == IInv /\ [Next]_vars => IInv'
<1> SUFFICES ASSUME IInv, [Next]_vars PROVE IInv'
  OBVIOUS
<1> DEFINE One == \A u \in Threads : out[u] = << >> \/ \E r \in Recs : out[u] = <<r>>
<1>1. TypeOK' /\ (job # << >> => ~Publishing("refine"))'
  BY TypeStep, WorkerStep DEF IInv
<1> SUFFICES One' /\ OnceInv' /\ SeenInv'
  BY <1>1 DEF IInv, OutInv
<1>2. CASE UNCHANGED <<published, out, seen, lastEpoch>> /\ clock' \in {clock, clock + 1}
  <2>1. clock' \in Nat /\ clock <= clock'
    BY <1>2 DEF IInv, TypeOK
  <2> QED BY <1>2, <2>1, QuietKeeps
<1>3. CASE Tick
  BY <1>2, <1>3 DEF Tick, pubVars
<1>4. ASSUME NEW cs \in SUBSET Candidates, ScanBegin(cs) PROVE One' /\ OnceInv' /\ SeenInv'
  BY <1>4, BeginKeeps
<1>5. ASSUME NEW c \in Candidates, NEW text, PublishCandidate("scan", text, c.bin, now),
             text \in Texts, ~Publishing("scan"), UNCHANGED <<published, lastEpoch, clock>>
      PROVE  One' /\ OnceInv' /\ SeenInv'
  <2>1. now \in Nat /\ c.bin \in Nat /\ "scan" \in Threads /\ out["scan"] = << >>
    BY <1>5, CandidateType DEF IInv, TypeOK, Threads, Publishing
  <2> QED BY <1>5, <2>1, PublishKeeps
<1>6. ASSUME NEW c \in todo, PassOne(c) PROVE One' /\ OnceInv' /\ SeenInv'
  <2>1. c \in Candidates
    BY DEF IInv, TypeOK
  <2>2. ~Publishing("scan") /\ UNCHANGED <<published, lastEpoch, clock>>
    BY <1>6 DEF PassOne, pubVars
  <2>3. CASE c.sp \in Texts
    BY <1>5, <1>6, <2>1, <2>2, <2>3 DEF PassOne
  <2>4. CASE c.sp \notin Texts
    BY <1>2, <1>6, <2>2, <2>4 DEF PassOne
  <2> QED BY <2>3, <2>4
<1>7. ASSUME NEW c \in failed, PassTwo(c) PROVE One' /\ OnceInv' /\ SeenInv'
  <2>1. c \in Candidates
    BY DEF IInv, TypeOK
  <2>2. ~Publishing("scan") /\ UNCHANGED <<published, lastEpoch, clock>>
    BY <1>7 DEF PassTwo, pubVars
  <2>3. CASE c.osd \in Texts
    BY <1>5, <1>7, <2>1, <2>2, <2>3 DEF PassTwo
  <2>4. CASE c.osd \notin Texts
    BY <1>2, <1>7, <2>2, <2>4 DEF PassTwo
  <2> QED BY <2>3, <2>4
<1>8. CASE PassTwoStart \/ Return \/ RefineTake
  BY <1>2, <1>8 DEF PassTwoStart, Return, RefineTake, pubVars
<1>9. CASE RefineDone
  <2>1. UNCHANGED <<published, lastEpoch, clock>> /\ job # << >>
    BY <1>9 DEF RefineDone, pubVars
  <2>2. CASE job[1].cand.ref \in Texts
    <3>1. PublishCandidate("refine", job[1].cand.ref, job[1].cand.bin, job[1].time)
      BY <1>9, <2>2 DEF RefineDone
    <3>2. "refine" \in Threads /\ out["refine"] = << >>
      BY <2>1 DEF IInv, OutInv, Publishing, Threads
    <3>3. job[1].cand.bin \in Nat /\ job[1].time \in Nat
      BY <2>1, JobType DEF IInv
    <3> QED BY <2>1, <2>2, <3>1, <3>2, <3>3, PublishKeeps
  <2>3. CASE job[1].cand.ref \notin Texts
    BY <1>2, <1>9, <2>1, <2>3 DEF RefineDone
  <2> QED BY <2>2, <2>3
<1>10. ASSUME NEW t \in Threads, SendZmq(t) PROVE One' /\ OnceInv' /\ SeenInv'
  BY <1>10, SendKeeps
<1>11. ASSUME NEW t \in Threads, SendWs(t) PROVE One' /\ OnceInv' /\ SeenInv'
  BY <1>2, <1>11 DEF SendWs
<1>12. CASE UNCHANGED vars
  BY <1>2, <1>12 DEF vars, pubVars
<1> QED BY <1>3, <1>4, <1>6, <1>7, <1>8, <1>9, <1>10, <1>11, <1>12 DEF Next, Scan

(* What the sequence of the properties says of two places in it.           *)
LEMMA OnceHolds == IInv => OnePublishes
<1> SUFFICES ASSUME IInv PROVE OnePublishes
  OBVIOUS
<1> USE DEF IInv
<1>1. \A i \in DOMAIN Outgoing :
        \/ \E p \in DOMAIN published : i = p /\ Outgoing[i] = published[p]
        \/ \E p \in DOMAIN out["scan"] : i = Len(published) + p /\ Outgoing[i] = out["scan"][p]
        \/ \E p \in DOMAIN out["refine"] :
             /\ i = Len(published) + Len(out["scan"]) + p
             /\ Outgoing[i] = out["refine"][p]
  BY OutgoingType
<1>2. \A t \in Threads : \A p \in DOMAIN out[t] :
        p = 1 /\ out[t][1] \in Recs /\ out[t] = <<out[t][1]>>
  BY DEF OutInv
<1> DEFINE InPub(i) == i \in DOMAIN published /\ Outgoing[i] = published[i]
           InOut(t, i) == Outgoing[i] \in Recs /\ out[t] = <<Outgoing[i]>>
<1>3. \A i \in DOMAIN Outgoing :
        \/ InPub(i)
        \/ InOut("scan", i) /\ i = Len(published) + 1
        \/ InOut("refine", i) /\ i = Len(published) + Len(out["scan"]) + 1
  BY <1>1, <1>2 DEF Threads
<1>4. ASSUME NEW i \in DOMAIN Outgoing, NEW j \in DOMAIN Outgoing, i # j,
             Same(Outgoing[i], Outgoing[j])
      PROVE  Outgoing[i].gen # Outgoing[j].gen
  <2>1. Same(Outgoing[j], Outgoing[i])
    BY <1>4 DEF Same
  <2>2. CASE InPub(i) /\ InPub(j)
    BY <1>4, <2>2 DEF OnceInv
  <2>3. ASSUME NEW t \in Threads, InPub(i), InOut(t, j)
        PROVE  Outgoing[i].gen # Outgoing[j].gen
    BY <1>4, <2>3 DEF OnceInv
  <2>4. ASSUME NEW t \in Threads, InOut(t, i), InPub(j)
        PROVE  Outgoing[i].gen # Outgoing[j].gen
    BY <2>1, <2>4 DEF OnceInv
  <2>5. CASE InOut("scan", i) /\ InOut("refine", j)
    BY <1>4, <2>5 DEF OnceInv
  <2>6. CASE InOut("refine", i) /\ InOut("scan", j)
    BY <2>1, <2>6 DEF OnceInv
  <2>7. "scan" \in Threads /\ "refine" \in Threads
    BY DEF Threads
  <2> HIDE DEF InPub, InOut
  <2> QED BY <1>3, <1>4, <2>2, <2>3, <2>4, <2>5, <2>6, <2>7
<1>5. OncePerClearing
  BY <1>4 DEF OncePerClearing
<1>6. SeenIsPublished
  <2>1. \A r \in Elems : \E i \in DOMAIN Outgoing : Outgoing[i] = r
    BY OutgoingType
  <2> QED BY <2>1 DEF SeenIsPublished, SeenInv
<1> QED BY <1>5, <1>6 DEF OnePublishes

(* Whatever the callback and the refine worker decode, and in whatever     *)
(* order they enter publishCandidateCore, one of them publishes a message  *)
(* between two clearings of seen_this_epoch_: not two, and not none.       *)
THEOREM PublishedOnce == Spec => []OnePublishes
<1>1. Init => IInv
  BY InitOnce
<1>2. IInv /\ [Next]_vars => IInv'
  BY OnceStep
<1>3. IInv => OnePublishes
  BY OnceHolds
<1> QED BY <1>1, <1>2, <1>3, PTL DEF Spec

-----------------------------------------------------------------------------
(* Epochs, with the refine worker and without it.                          *)

LEMMA EpochStep ==
  ASSUME IInv, EpochInv, [Next]_vars
  PROVE  EpochInv'
<1>1. CASE UNCHANGED <<lastEpoch, now>> /\ (spc' # "idle" => spc # "idle")
  BY <1>1 DEF EpochInv, EpochOf
<1>2. CASE Tick \/ RefineTake \/ RefineDone \/ UNCHANGED vars
  BY <1>1, <1>2 DEF Tick, RefineTake, RefineDone, vars, scanVars
<1>3. ASSUME NEW cs \in SUBSET Candidates, ScanBegin(cs) PROVE EpochInv'
  BY <1>3 DEF ScanBegin, NewEpoch, EpochInv, EpochOf
<1>4. ASSUME NEW c, PassOne(c) \/ PassTwo(c) PROVE EpochInv'
  BY <1>1, <1>4 DEF PassOne, PassTwo
<1>5. CASE PassTwoStart \/ Return
  BY <1>1, <1>5 DEF PassTwoStart, Return
<1>6. ASSUME NEW t \in Threads, SendZmq(t) \/ SendWs(t) PROVE EpochInv'
  BY <1>1, <1>6 DEF SendZmq, SendWs, scanVars
<1> QED BY <1>2, <1>3, <1>4, <1>5, <1>6 DEF Next, Scan

(* A job gets the time of its scan, keeps it in the queue, and the epoch   *)
(* only moves on.                                                          *)
LEMMA PushTimely ==
  ASSUME NEW q \in Seq(Jobs), NEW c \in Candidates, NEW e \in Nat, NEW n \in Nat,
         Len(q) <= QueueMax, EpochOf(n) <= e,
         \A i \in DOMAIN q : EpochOf(q[i].time) <= e
  PROVE  \A i \in DOMAIN Push(q, [cand |-> c, time |-> n]) :
           EpochOf(Push(q, [cand |-> c, time |-> n])[i].time) <= e
<1> DEFINE j == [cand |-> c, time |-> n]
           b == IF Len(q) >= QueueMax THEN Tail(q) ELSE q
<1>1. j \in Jobs /\ j.time = n
  BY DEF Jobs
<1>2. QueueMax \in Nat /\ QueueMax >= 1
  BY JS8Assumption
<1>3. b \in Seq(Jobs) /\ \A i \in DOMAIN b : EpochOf(b[i].time) <= e
  <2>1. CASE Len(q) >= QueueMax
    <3>1. q # << >> /\ Len(q) \in Nat
      BY <1>2, <2>1
    <3>2. Tail(q) \in Seq(Jobs) /\ Len(Tail(q)) = Len(q) - 1
          /\ \A i \in 1 .. Len(q) - 1 : Tail(q)[i] = q[i + 1]
      BY <3>1
    <3>3. DOMAIN Tail(q) = 1 .. Len(q) - 1 /\ DOMAIN q = 1 .. Len(q)
      BY <3>1, <3>2
    <3> QED BY <2>1, <3>1, <3>2, <3>3
  <2>2. CASE ~(Len(q) >= QueueMax)
    BY <2>2
  <2> QED BY <2>1, <2>2
<1> HIDE DEF j, b
<1>4. /\ DOMAIN Append(b, j) = 1 .. Len(b) + 1 /\ Len(b) \in Nat
      /\ \A i \in 1 .. Len(b) : Append(b, j)[i] = b[i] /\ i \in DOMAIN b
      /\ Append(b, j)[Len(b) + 1] = j
  BY <1>1, <1>3
<1>5. \A i \in DOMAIN Append(b, j) : i \in 1 .. Len(b) \/ i = Len(b) + 1
  BY <1>4
<1>6. \A i \in DOMAIN Append(b, j) : EpochOf(Append(b, j)[i].time) <= e
  BY <1>1, <1>3, <1>4, <1>5
<1>7. Push(q, j) = Append(b, j)
  BY DEF Push, b
<1> QED BY <1>6, <1>7 DEF j

LEMMA JobsStep ==
  ASSUME IInv, EpochInv, JobsInv, [Next]_vars
  PROVE  JobsInv'
<1> USE DEF IInv
<1>1. CASE UNCHANGED <<queue, job, lastEpoch>>
  BY <1>1 DEF JobsInv, EpochOf
<1>2. CASE Tick \/ PassTwoStart \/ Return \/ UNCHANGED vars
  BY <1>1, <1>2 DEF Tick, PassTwoStart, Return, vars, refVars
<1>3. ASSUME NEW cs \in SUBSET Candidates, ScanBegin(cs) PROVE JobsInv'
  <2>1. UNCHANGED <<queue, job>> /\ lastEpoch' = EpochOf(clock)
    BY <1>3 DEF ScanBegin, NewEpoch, refVars
  <2>2. lastEpoch \in Nat /\ EpochOf(clock) \in Nat /\ lastEpoch <= EpochOf(clock)
    BY EpochType DEF TypeOK, SeenInv
  <2>3. \A i \in DOMAIN queue : EpochOf(queue[i].time) \in Nat
    <3>1. queue \in Seq(Jobs)
      BY DEF TypeOK
    <3>2. \A i \in DOMAIN queue : queue[i] \in Jobs
      BY <3>1, ElementOfSeq, LenProperties
    <3> QED BY <3>2, EpochType DEF Jobs
  <2>4. \A i \in DOMAIN job : EpochOf(job[i].time) \in Nat
    <3>1. job \in Seq(Jobs)
      BY DEF TypeOK
    <3>2. \A i \in DOMAIN job : job[i] \in Jobs
      BY <3>1, ElementOfSeq, LenProperties
    <3> QED BY <3>2, EpochType DEF Jobs
  <2>5. \A i \in DOMAIN queue : EpochOf(queue[i].time) <= EpochOf(clock)
    BY <2>2, <2>3 DEF JobsInv
  <2>6. \A i \in DOMAIN job : EpochOf(job[i].time) <= EpochOf(clock)
    BY <2>2, <2>4 DEF JobsInv
  <2> QED BY <2>1, <2>5, <2>6 DEF JobsInv, EpochOf
<1>4. ASSUME NEW c, PassOne(c) PROVE JobsInv'
  BY <1>1, <1>4 DEF PassOne, refVars
<1>5. ASSUME NEW c \in failed, PassTwo(c) PROVE JobsInv'
  <2>1. UNCHANGED <<job, lastEpoch>> /\ spc # "idle" /\ c \in Candidates
    BY <1>5 DEF PassTwo, TypeOK
  <2>2. \/ UNCHANGED queue
        \/ queue' = Push(queue, [cand |-> c, time |-> now])
    BY <1>5 DEF PassTwo
  <2>3. EpochOf(now) <= lastEpoch /\ now \in Nat /\ lastEpoch \in Nat
    BY <2>1 DEF EpochInv, TypeOK
  <2>4. CASE queue' = Push(queue, [cand |-> c, time |-> now])
    <3>1. queue \in Seq(Jobs) /\ Len(queue) <= QueueMax
      BY DEF TypeOK
    <3>2. \A i \in DOMAIN queue' : EpochOf(queue'[i].time) <= lastEpoch
      BY <2>1, <2>3, <2>4, <3>1, PushTimely DEF JobsInv
    <3> QED BY <2>1, <3>2 DEF JobsInv, EpochOf
  <2> QED BY <1>1, <2>1, <2>2, <2>4
<1>6. CASE RefineTake
  <2>1. UNCHANGED lastEpoch /\ queue # << >> /\ job' = <<Head(queue)>> /\ queue' = Tail(queue)
    BY <1>6 DEF RefineTake
  <2>2. queue \in Seq(Jobs) /\ Len(queue) \in Nat /\ Len(queue) >= 1
    BY <2>1 DEF TypeOK
  <2>3. /\ DOMAIN queue = 1 .. Len(queue) /\ DOMAIN queue' = 1 .. Len(queue) - 1
        /\ \A i \in 1 .. Len(queue) - 1 : queue'[i] = queue[i + 1] /\ i + 1 \in DOMAIN queue
    BY <2>1, <2>2
  <2>4. DOMAIN job' = {1} /\ job'[1] = queue[1] /\ 1 \in DOMAIN queue
    BY <2>1, <2>2, <2>3
  <2>5. \A i \in DOMAIN queue' : EpochOf(queue'[i].time) <= lastEpoch
    BY <2>3 DEF JobsInv
  <2>6. \A i \in DOMAIN job' : EpochOf(job'[i].time) <= lastEpoch
    BY <2>4 DEF JobsInv
  <2> QED BY <2>1, <2>5, <2>6 DEF JobsInv, EpochOf
<1>7. CASE RefineDone
  <2>1. UNCHANGED <<queue, lastEpoch>> /\ job' = << >>
    BY <1>7 DEF RefineDone
  <2>2. DOMAIN job' = {}
    BY <2>1
  <2> QED BY <2>1, <2>2 DEF JobsInv, EpochOf
<1>8. ASSUME NEW t \in Threads, SendZmq(t) \/ SendWs(t) PROVE JobsInv'
  BY <1>1, <1>8 DEF SendZmq, SendWs, refVars
<1> QED BY <1>2, <1>3, <1>4, <1>5, <1>6, <1>7, <1>8 DEF Next, Scan

(* publishCandidateCore: a message whose key is in the set was published   *)
(* since it was cleared, any other is sent now.                            *)
LEMMA DecodeTimely ==
  ASSUME IInv, Timely, NEW t \in Threads, out[t] = << >>,
         NEW text \in Texts, NEW bin \in Nat, NEW time \in Nat,
         EpochOf(time) <= lastEpoch, t = "scan" => EpochOf(time) = lastEpoch,
         PublishCandidate(t, text, bin, time), UNCHANGED <<published, lastEpoch>>,
         decoded' \subseteq decoded \cup {<<text, bin, lastEpoch>>}
  PROVE  Timely'
<1> USE DEF IInv
<1>1. lastEpoch \in Nat
  BY DEF TypeOK
<1>2. ASSUME Elems \subseteq Elems',
             \A r \in Elems' : EpochOf(r.time) <= r.gen,
             \A r \in Elems' : r.by = "scan" => EpochOf(r.time) = r.gen,
             NEW s \in Elems', s.text = text, s.bin = bin, s.gen = lastEpoch
      PROVE  Timely'
  <2>1. ASSUME NEW d \in decoded'
        PROVE  \E r \in Elems' : r.text = d[1] /\ r.bin = d[2] /\ r.gen = d[3]
    <3>1. CASE d \in decoded
      BY <1>2, <3>1 DEF Timely
    <3>2. CASE d = <<text, bin, lastEpoch>>
      BY <1>2, <3>2
    <3> QED BY <2>1, <3>1, <3>2
  <2> QED BY <1>2, <2>1 DEF Timely, EpochOf
<1>3. CASE Key(text, bin) \in seen
  <2>1. Elems' = Elems
    BY <1>3, PublishElems
  <2>2. PICK s \in Elems : Key(text, bin) = Key(s.text, s.bin) /\ s.gen = lastEpoch
    BY <1>3 DEF SeenInv
  <2>3. s.text = text /\ s.bin = bin
    BY <2>2 DEF Key
  <2> QED BY <1>2, <2>1, <2>2, <2>3 DEF Timely
<1>4. CASE Key(text, bin) \notin seen
  <2> DEFINE s == Rec(t, text, bin, time)
  <2>1. Elems' = Elems \cup {s}
    BY <1>4, PublishElems
  <2>2. s.text = text /\ s.bin = bin /\ s.time = time /\ s.gen = lastEpoch /\ s.by = t
    BY <1>1, RecType
  <2> HIDE DEF s
  <2>3. \A r \in Elems' : EpochOf(r.time) <= r.gen
    BY <2>1, <2>2 DEF Timely
  <2>4. \A r \in Elems' : r.by = "scan" => EpochOf(r.time) = r.gen
    BY <2>1, <2>2 DEF Timely
  <2> QED BY <1>2, <2>1, <2>2, <2>3, <2>4
<1> QED BY <1>3, <1>4

LEMMA TimelyStep ==
  ASSUME IInv, EpochInv, JobsInv, Timely, [Next]_vars
  PROVE  Timely'
<1> USE DEF IInv
<1>1. CASE Elems' = Elems /\ UNCHANGED decoded
  BY <1>1 DEF Timely, EpochOf
<1>2. CASE UNCHANGED <<published, out, decoded>>
  BY <1>1, <1>2 DEF Elems, Sent, Going
<1>3. CASE Tick \/ PassTwoStart \/ Return \/ RefineTake \/ UNCHANGED vars
  BY <1>2, <1>3 DEF Tick, PassTwoStart, Return, RefineTake, vars, pubVars
<1>4. ASSUME NEW cs \in SUBSET Candidates, ScanBegin(cs) PROVE Timely'
  BY <1>2, <1>4 DEF ScanBegin, pubVars
<1>5. ASSUME NEW c \in Candidates, NEW text \in Texts, spc # "idle", ~Publishing("scan"),
             PublishCandidate("scan", text, c.bin, now), UNCHANGED <<published, lastEpoch>>,
             decoded' = decoded \cup {<<text, c.bin, EpochOf(now)>>}
      PROVE  Timely'
  <2>1. "scan" \in Threads /\ out["scan"] = << >> /\ c.bin \in Nat /\ now \in Nat
    BY <1>5, CandidateType DEF Threads, Publishing, TypeOK
  <2>2. EpochOf(now) = lastEpoch /\ lastEpoch \in Nat
    BY <1>5 DEF EpochInv, TypeOK
  <2>3. EpochOf(now) <= lastEpoch
    BY <2>2
  <2>4. decoded' \subseteq decoded \cup {<<text, c.bin, lastEpoch>>}
    BY <1>5, <2>2
  <2> QED BY <1>5, <2>1, <2>2, <2>3, <2>4, DecodeTimely
<1>6. ASSUME NEW c \in todo, PassOne(c) PROVE Timely'
  <2>1. /\ c \in Candidates /\ spc # "idle" /\ ~Publishing("scan")
        /\ UNCHANGED <<published, lastEpoch>>
    BY <1>6 DEF PassOne, TypeOK, pubVars
  <2>2. CASE c.sp \in Texts
    <3>1. /\ PublishCandidate("scan", c.sp, c.bin, now)
          /\ decoded' = decoded \cup {<<c.sp, c.bin, EpochOf(now)>>}
      BY <1>6, <2>2 DEF PassOne
    <3> QED BY <1>5, <2>1, <2>2, <3>1
  <2>3. CASE c.sp \notin Texts
    BY <1>2, <1>6, <2>1, <2>3 DEF PassOne
  <2> QED BY <2>2, <2>3
<1>7. ASSUME NEW c \in failed, PassTwo(c) PROVE Timely'
  <2>1. /\ c \in Candidates /\ spc # "idle" /\ ~Publishing("scan")
        /\ UNCHANGED <<published, lastEpoch>>
    BY <1>7 DEF PassTwo, TypeOK, pubVars
  <2>2. CASE c.osd \in Texts
    <3>1. /\ PublishCandidate("scan", c.osd, c.bin, now)
          /\ decoded' = decoded \cup {<<c.osd, c.bin, EpochOf(now)>>}
      BY <1>7, <2>2 DEF PassTwo
    <3> QED BY <1>5, <2>1, <2>2, <3>1
  <2>3. CASE c.osd \notin Texts
    BY <1>2, <1>7, <2>1, <2>3 DEF PassTwo
  <2> QED BY <2>2, <2>3
<1>8. CASE RefineDone
  <2>1. UNCHANGED <<published, lastEpoch, decoded>> /\ job # << >>
    BY <1>8 DEF RefineDone, pubVars
  <2>2. CASE job[1].cand.ref \in Texts
    <3>1. PublishCandidate("refine", job[1].cand.ref, job[1].cand.bin, job[1].time)
      BY <1>8, <2>2 DEF RefineDone
    <3>2. "refine" \in Threads /\ "refine" # "scan" /\ out["refine"] = << >>
      BY <2>1 DEF OutInv, Publishing, Threads
    <3>3. job[1].cand.bin \in Nat /\ job[1].time \in Nat
      BY <2>1, JobType
    <3>4. 1 \in DOMAIN job
      BY <2>1 DEF TypeOK
    <3>5. EpochOf(job[1].time) <= lastEpoch
      BY <3>4 DEF JobsInv
    <3>6. decoded' \subseteq decoded \cup {<<job[1].cand.ref, job[1].cand.bin, lastEpoch>>}
      BY <2>1
    <3> QED BY <2>1, <2>2, <3>1, <3>2, <3>3, <3>5, <3>6, DecodeTimely
  <2>3. CASE job[1].cand.ref \notin Texts
    BY <1>2, <1>8, <2>1, <2>3 DEF RefineDone
  <2> QED BY <2>2, <2>3
<1>9. ASSUME NEW t \in Threads, SendZmq(t) PROVE Timely'
  <2>1. Elems' = Elems
    BY <1>9, SendElems
  <2> QED BY <1>1, <1>9, <2>1 DEF SendZmq
<1>10. ASSUME NEW t \in Threads, SendWs(t) PROVE Timely'
  BY <1>2, <1>10 DEF SendWs
<1> QED BY <1>3, <1>4, <1>6, <1>7, <1>8, <1>9, <1>10 DEF Next, Scan

LEMMA EpochsStep == AInv /\ [Next]_vars => AInv'
  BY OnceStep, EpochStep, JobsStep, TimelyStep DEF AInv

LEMMA EpochsInit == Init => AInv
<1> SUFFICES ASSUME Init PROVE AInv
  OBVIOUS
<1>1. IInv
  BY InitOnce
<1>2. (\A t \in Threads : out[t] = << >>) /\ DOMAIN published = {} /\ decoded = {}
  BY DEF Init
<1>3. Elems = {}
  BY <1>2, GoingIs DEF Elems, Sent, Threads
<1>4. Timely
  BY <1>2, <1>3 DEF Timely
<1>5. DOMAIN queue = {} /\ DOMAIN job = {}
  BY DEF Init
<1>6. JobsInv
  BY <1>5 DEF JobsInv
<1>7. EpochInv
  BY DEF Init, EpochInv
<1> QED BY <1>1, <1>4, <1>6, <1>7 DEF AInv

(* Every message that a scan decodes is published for that scan's epoch,   *)
(* and a message that goes out twice with times of one epoch was found the *)
(* second time by the refine worker, after decodeAndPublishContinuous had  *)
(* cleared seen_this_epoch_ for a later epoch.                             *)
THEOREM EpochsKept == Spec => []EpochRight
<1>1. AInv => EpochRight
  <2> SUFFICES ASSUME AInv PROVE EpochRight
    OBVIOUS
  <2>1. \A r \in Elems : \E i \in DOMAIN Outgoing : Outgoing[i] = r
    BY OutgoingType DEF AInv, IInv
  <2>2. HeardInEpoch
    BY <2>1 DEF HeardInEpoch, AInv, Timely
  <2>3. \A i \in DOMAIN Outgoing : Outgoing[i] \in Elems
    <3>1. \A i \in DOMAIN Outgoing :
            \/ \E p \in DOMAIN published : Outgoing[i] = published[p]
            \/ \E p \in DOMAIN out["scan"] : Outgoing[i] = out["scan"][p]
            \/ \E p \in DOMAIN out["refine"] : Outgoing[i] = out["refine"][p]
      BY OutgoingType DEF AInv, IInv
    <3> QED BY <3>1 DEF Elems, Sent, Going
  <2>4. OncePerClearing
    BY OnceHolds DEF AInv, OnePublishes
  <2>5. \A r \in Elems : r.by \in Threads /\ r.gen \in Nat /\ EpochOf(r.time) \in Nat
    <3>1. \A r \in Elems : r \in Recs
      BY ElemsAre DEF AInv, IInv
    <3> QED BY <3>1, EpochType DEF Recs
  <2>6. \A r \in Elems : r.by # "refine" \/ ~(EpochOf(r.time) < r.gen) => EpochOf(r.time) = r.gen
    BY <2>5 DEF AInv, Timely, Threads
  <2>7. RepeatsAreLate
    BY <2>3, <2>4, <2>6 DEF RepeatsAreLate, OncePerClearing
  <2> QED BY <2>2, <2>7 DEF EpochRight
<1> QED BY <1>1, EpochsInit, EpochsStep, PTL DEF Spec

=============================================================================
