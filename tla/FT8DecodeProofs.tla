--------------------------- MODULE FT8DecodeProofs ---------------------------
(***************************************************************************)
(* Proofs about FT8Decode for every set of candidates, every limit and     *)
(* every length of the window: the window that the decode callback and the *)
(* refine worker share loses no spot, doubles none and keeps the strongest,*)
(* and the callback's spots belong to the window they are put in.  Then    *)
(* proofs about CallsignTable, the other state ft8.cc keeps, for every     *)
(* table size, hash function and maximal age.  The two share no variable.  *)
(***************************************************************************)
EXTENDS FT8Decode, CallsignTable, FiniteSetTheorems, TLAPS

(***************************************************************************)
(* The strengthening.  A spot carries the number of the window it was put  *)
(* in: the present one while it is in window_buf_, an earlier one once it  *)
(* has been swapped out; and nothing is left to publish when the callback  *)
(* is not in flushWindow, so that a swap overwrites nothing.               *)
(***************************************************************************)
GenInv ==
  /\ spc # "flush" => flushing = {}
  /\ \A s \in window : s.gen = gen
  /\ \A s \in flushing \cup published : s.gen < gen

(* starts[gen + 1] is the start of the present window, and the scan that   *)
(* the callback is working on lies in it.                                  *)
TimeInv ==
  /\ windowStart <= clock /\ clock > 0
  /\ spc # "idle" => /\ windowStart > 0
                     /\ windowStart <= now /\ now < windowStart + Window
  /\ windowStart = 0 => gen = 0 /\ starts = << >>
  /\ windowStart > 0 => Len(starts) = gen + 1 /\ starts[gen + 1] = windowStart
  /\ \A d \in decoded : d.who = "scan" => d.gen + 1 <= Len(starts)

IInv == TypeOK /\ GenInv /\ BestOfWindow /\ OncePerWindow
TInv == TypeOK /\ TimeInv /\ SpotsInWindow

-----------------------------------------------------------------------------
(* Candidates have a bin and a score.                                      *)
LEMMA CandidateType ==
  ASSUME NEW c \in Candidates
  PROVE  c.bin \in Nat /\ c.score \in Nat
  BY FT8Assumption

(* What publishSpot makes of one is a spot of the present window.          *)
LEMMA SpotType ==
  ASSUME NEW c \in Candidates, NEW text \in Texts, NEW time \in Nat,
         NEW who \in {"scan", "refine"}, gen \in Nat
  PROVE  /\ Spot(text, c, time, who) \in Spots
         /\ Spot(text, c, time, who).gen = gen
         /\ Spot(text, c, time, who).time = time
         /\ Spot(text, c, time, who).who = who
  BY CandidateType DEF Spot, Spots

(* Jobs go through the queue unchanged, and it never grows past its limit. *)
LEMMA PushType ==
  ASSUME NEW q \in Seq(Jobs), Len(q) <= QueueMax, NEW j \in Jobs
  PROVE  Push(q, j) \in Seq(Jobs) /\ Len(Push(q, j)) <= QueueMax
<1>1. QueueMax \in Nat /\ QueueMax >= 1
  BY FT8Assumption
<1>2. CASE Len(q) >= QueueMax
  <2>1. q # << >> /\ Len(q) >= 1
    BY <1>1, <1>2
  <2>2. Tail(q) \in Seq(Jobs) /\ Len(Tail(q)) = Len(q) - 1
    BY <2>1
  <2> QED BY <1>1, <1>2, <2>2 DEF Push
<1>3. CASE ~(Len(q) >= QueueMax)
  BY <1>1, <1>3 DEF Push
<1> QED BY <1>2, <1>3

-----------------------------------------------------------------------------
(* Type correctness.                                                       *)

(* publishSpot, or its absence, keeps the types of what it may change.     *)
LEMMA PublishType ==
  ASSUME TypeOK, NEW c \in Candidates, NEW text \in Texts, NEW time \in Nat,
         NEW who \in {"scan", "refine"}, PublishSpot(text, c, time, who)
  PROVE  window' \subseteq Spots /\ decoded' \subseteq Spots
<1> DEFINE s == Spot(text, c, time, who)
<1>1. s \in Spots
  BY SpotType DEF TypeOK
<1> QED BY <1>1 DEF PublishSpot, Keep, TypeOK

(* The state before the first scan.                                        *)
LEMMA InitType == Init => TypeOK
<1> SUFFICES ASSUME Init PROVE TypeOK
  OBVIOUS
<1>1. /\ queue \in Seq(Jobs) /\ Len(queue) = 0 /\ job \in Seq(Jobs) /\ Len(job) = 0
      /\ starts \in Seq(Nat)
  BY DEF Init
<1>2. RefineMax \in Nat /\ QueueMax \in Nat
  BY FT8Assumption
<1>3. /\ clock \in Nat /\ scans \in Nat /\ now \in Nat /\ used \in 0 .. RefineMax
      /\ windowStart \in Nat /\ gen \in Nat /\ Len(queue) <= QueueMax /\ Len(job) <= 1
  BY <1>1, <1>2 DEF Init
<1>4. ws \in BOOLEAN /\ exited \in BOOLEAN
  BY DEF Init
<1> QED BY <1>1, <1>3, <1>4 DEF Init, TypeOK

(* Entering the callback, with or without a flush.                         *)
LEMMA BeginType ==
  ASSUME TypeOK, NEW t \in 1 .. MaxTime, NEW cands \in SUBSET Candidates,
         ScanBegin(cands, t) \/ ScanFlush(cands, t)
  PROVE  TypeOK'
<1>1. t \in Nat /\ MaxTime \in Nat
  BY FT8Assumption
<1>2. Begin(cands, t)
  BY DEF ScanBegin, ScanFlush
<1>3. /\ clock' \in Nat /\ now' \in Nat /\ scans' \in Nat /\ used' \in 0 .. RefineMax
      /\ todo' \subseteq Candidates /\ failed' \subseteq Candidates
  BY <1>1, <1>2, FT8Assumption DEF Begin, Selections, TypeOK
<1>4. UNCHANGED <<queue, job, decoded, exited, ws, published>>
  BY <1>2 DEF Begin, refVars
<1>5. /\ window' \subseteq Spots /\ flushing' \subseteq Spots
      /\ windowStart' \in Nat /\ gen' \in Nat /\ starts' \in Seq(Nat)
      /\ spc' \in {"flush", "pass1"}
  <2>1. CASE ScanBegin(cands, t)
    <3>1. <<t>> \in Seq(Nat)
      BY <1>1
    <3> QED BY <1>1, <2>1, <3>1 DEF ScanBegin, Start, Starts, TypeOK
  <2>2. CASE ScanFlush(cands, t)
    <3>1. Append(starts, t) \in Seq(Nat)
      BY <1>1 DEF TypeOK
    <3> QED BY <1>1, <2>2, <3>1 DEF ScanFlush, TypeOK
  <2> QED BY <2>1, <2>2
<1> QED BY <1>3, <1>4, <1>5 DEF TypeOK

(* The second pass publishes what OSD finds or queues a refine job.        *)
LEMMA PassTwoType ==
  ASSUME TypeOK, NEW c \in failed, PassTwo(c)
  PROVE  TypeOK'
<1>1. c \in Candidates /\ now \in Nat
  BY DEF TypeOK
<1>2. /\ UNCHANGED <<clock, scans, spc, now, todo, flushing, ws, published, job, exited>>
      /\ failed' \subseteq Candidates
  BY DEF PassTwo, outVars, TypeOK
<1>3. CASE c.osd \in Texts
  <2>1. PublishSpot(c.osd, c, now, "scan") /\ UNCHANGED <<used, queue>>
    BY <1>3 DEF PassTwo
  <2>2. window' \subseteq Spots /\ decoded' \subseteq Spots
    BY <1>1, <1>3, <2>1, PublishType
  <2> QED BY <1>2, <2>1, <2>2 DEF TypeOK, PublishSpot
<1>4. CASE c.osd \notin Texts
  <2>1. UNCHANGED <<window, windowStart, gen, starts, decoded>>
    BY <1>4 DEF PassTwo, NoSpot, winVars
  <2>2. used' \in 0 .. RefineMax /\ queue' \in Seq(Jobs) /\ Len(queue') <= QueueMax
    <3>1. CASE Refine /\ used < RefineMax
      <4> DEFINE j == [cand |-> c, time |-> now]
      <4>1. j \in Jobs
        BY <1>1 DEF Jobs
      <4>2. queue' = Push(queue, j) /\ used' = used + 1
        BY <1>4, <3>1 DEF PassTwo
      <4> HIDE DEF j
      <4>3. Push(queue, j) \in Seq(Jobs) /\ Len(Push(queue, j)) <= QueueMax
        BY <4>1, PushType DEF TypeOK
      <4> QED BY <3>1, <4>2, <4>3, FT8Assumption DEF TypeOK
    <3>2. CASE ~(Refine /\ used < RefineMax)
      BY <1>4, <3>2 DEF PassTwo, TypeOK
    <3> QED BY <3>1, <3>2
  <2> QED BY <1>2, <2>1, <2>2 DEF TypeOK
<1> QED BY <1>3, <1>4

(* The refine worker takes a job and ends it.                              *)
LEMMA RefineType ==
  ASSUME TypeOK, RefineTake \/ RefineDone
  PROVE  TypeOK'
<1>1. CASE RefineTake
  <2>1. Head(queue) \in Jobs /\ Tail(queue) \in Seq(Jobs) /\ Len(Tail(queue)) <= QueueMax
    BY <1>1, FT8Assumption DEF RefineTake, TypeOK
  <2>2. <<Head(queue)>> \in Seq(Jobs) /\ Len(<<Head(queue)>>) <= 1
    BY <2>1
  <2> QED BY <1>1, <2>1, <2>2 DEF RefineTake, TypeOK, scanVars, winVars, outVars
<1>2. CASE RefineDone
  <2>1. job[1] \in Jobs
    BY <1>2 DEF RefineDone, TypeOK
  <2>2. job[1].cand \in Candidates /\ job[1].time \in Nat
    BY <2>1 DEF Jobs
  <2>3. << >> \in Seq(Jobs) /\ Len(<< >>) <= 1
    OBVIOUS
  <2>4. UNCHANGED <<clock, scans, spc, now, todo, failed, used, flushing, ws, published, queue, exited>>
        /\ job' = << >>
    BY <1>2 DEF RefineDone, scanVars, outVars
  <2>5. CASE job[1].cand.ref \in Texts
    <3>1. PublishSpot(job[1].cand.ref, job[1].cand, job[1].time, "refine")
      BY <1>2, <2>5 DEF RefineDone
    <3>2. window' \subseteq Spots /\ decoded' \subseteq Spots
      BY <2>2, <2>5, <3>1, PublishType
    <3> QED BY <2>3, <2>4, <3>1, <3>2 DEF TypeOK, PublishSpot
  <2>6. CASE job[1].cand.ref \notin Texts
    <3>1. UNCHANGED <<window, windowStart, gen, starts, decoded>>
      BY <1>2, <2>6 DEF RefineDone, NoSpot, winVars
    <3> QED BY <2>3, <2>4, <3>1 DEF TypeOK
  <2> QED BY <2>5, <2>6
<1> QED BY <1>1, <1>2

(* The first pass publishes a candidate or leaves it to the second.        *)
LEMMA PassOneType ==
  ASSUME TypeOK, NEW c \in todo, PassOne(c)
  PROVE  TypeOK'
<1>1. c \in Candidates /\ now \in Nat
  BY DEF TypeOK
<1>2. /\ UNCHANGED <<clock, scans, spc, now, used, flushing, ws, published, queue, job, exited>>
      /\ todo' \subseteq Candidates /\ failed' \subseteq Candidates
  BY <1>1 DEF PassOne, outVars, refVars, TypeOK
<1>3. CASE c.bp \in Texts
  <2>1. PublishSpot(c.bp, c, now, "scan")
    BY <1>3 DEF PassOne
  <2>2. window' \subseteq Spots /\ decoded' \subseteq Spots
    BY <1>1, <1>3, <2>1, PublishType
  <2> QED BY <1>2, <2>1, <2>2 DEF TypeOK, PublishSpot
<1>4. CASE c.bp \notin Texts
  BY <1>2, <1>4 DEF PassOne, NoSpot, winVars, TypeOK
<1> QED BY <1>3, <1>4

(* Every step keeps the types.                                             *)
LEMMA TypeStep == TypeOK /\ [Next]_vars => TypeOK'
<1> SUFFICES ASSUME TypeOK, [Next]_vars PROVE TypeOK'
  OBVIOUS
<1>1. CASE UNCHANGED vars
  BY <1>1 DEF vars, scanVars, winVars, outVars, refVars, TypeOK
<1>2. ASSUME NEW t \in 1 .. MaxTime, ScanEmpty(t) PROVE TypeOK'
  BY <1>2, FT8Assumption DEF ScanEmpty, winVars, outVars, refVars, TypeOK
<1>3. ASSUME NEW t \in 1 .. MaxTime, NEW cands \in SUBSET Candidates,
             ScanBegin(cands, t) \/ ScanFlush(cands, t)
      PROVE TypeOK'
  BY <1>3, BeginType
<1>4. CASE Flush
  BY <1>4 DEF Flush, scanVars, winVars, refVars, TypeOK
<1>5. CASE Flushed
  BY <1>5 DEF Flushed, winVars, outVars, refVars, TypeOK
<1>6. ASSUME NEW c \in todo, PassOne(c) PROVE TypeOK'
  BY <1>6, PassOneType
<1>7. CASE PassTwoStart
  BY <1>7 DEF PassTwoStart, Gated, winVars, outVars, refVars, TypeOK
<1>8. ASSUME NEW c \in failed, PassTwo(c) PROVE TypeOK'
  BY <1>8, PassTwoType
<1>9. CASE Return
  BY <1>9 DEF Return, winVars, outVars, refVars, TypeOK
<1>10. CASE RefineTake \/ RefineDone
  BY <1>10, RefineType
<1>11. CASE Exit
  BY <1>11 DEF Exit, scanVars, winVars, outVars, refVars, TypeOK
<1> QED BY <1>1, <1>2, <1>3, <1>4, <1>5, <1>6, <1>7, <1>8, <1>9, <1>10, <1>11 DEF Next, Scan

(* The refine queue and the jobs of a scan keep within their limits, and   *)
(* every variable its type, in every behaviour of FT8's decoding threads.  *)
THEOREM TypeCorrect == Spec => []TypeOK
  BY InitType, TypeStep, PTL DEF Spec

-----------------------------------------------------------------------------
(* The shared window.                                                      *)

(* publishSpot keeps the strongest spot of each message and one only.      *)
LEMMA PublishKeeps ==
  ASSUME IInv, NEW s \in Spots, s.gen = gen,
         window' = Keep(s), decoded' = decoded \cup {s},
         UNCHANGED <<gen, flushing, published, spc>>
  PROVE  GenInv' /\ BestOfWindow' /\ OncePerWindow'
<1> USE DEF IInv
<1>1. /\ \A o \in window \cup flushing \cup published \cup decoded : o.snr \in Nat
      /\ s.snr \in Nat
  BY DEF TypeOK, Spots
<1>2. \A o \in window' : o \in window \/ o = s
  BY DEF Keep
<1>3. GenInv'
  BY <1>2 DEF GenInv
<1>4. \A o \in window : \E p \in window' : p.text = o.text /\ p.gen = o.gen /\ p.snr >= o.snr
  BY <1>1 DEF Keep, GenInv
<1>5. \E p \in window' : p.text = s.text /\ p.gen = s.gen /\ p.snr >= s.snr
  BY <1>1 DEF Keep, GenInv
<1>6. BestOfWindow'
  <2> SUFFICES ASSUME NEW d \in decoded \cup {s}
               PROVE \E p \in window' \cup flushing \cup published :
                       p.text = d.text /\ p.gen = d.gen /\ p.snr >= d.snr
    BY DEF BestOfWindow
  <2>1. CASE d = s
    BY <1>5, <2>1
  <2>2. CASE d \in decoded
    <3>1. PICK o \in window \cup flushing \cup published :
            o.text = d.text /\ o.gen = d.gen /\ o.snr >= d.snr
      BY <2>2 DEF BestOfWindow
    <3>2. CASE o \in window
      <4>1. PICK p \in window' : p.text = o.text /\ p.gen = o.gen /\ p.snr >= o.snr
        BY <1>4, <3>2
      <4>2. p.snr \in Nat /\ o.snr \in Nat /\ d.snr \in Nat
        BY <1>1, <1>2, <2>2
      <4> QED BY <3>1, <4>1, <4>2
    <3> QED BY <3>1, <3>2
  <2> QED BY <2>1, <2>2
<1>7. OncePerWindow'
  <2>1. \A o, p \in window' : o.text = p.text => o = p
    <3>1. \A o, p \in window : o.text = p.text => o = p
      BY DEF OncePerWindow, GenInv
    <3> QED BY <3>1 DEF Keep
  <2>2. \A o \in window', p \in flushing \cup published : o.gen = gen /\ p.gen < gen
    BY <1>3 DEF GenInv
  <2>3. gen \in Nat
    BY DEF TypeOK
  <2> QED BY <2>1, <2>2, <2>3 DEF OncePerWindow
<1> QED BY <1>3, <1>6, <1>7

(* No spot exists before the first scan.                                   *)
LEMMA InitInv == Init => IInv
<1> SUFFICES ASSUME Init PROVE IInv
  OBVIOUS
<1>1. TypeOK
  BY InitType
<1> QED BY <1>1 DEF Init, IInv, GenInv, BestOfWindow, OncePerWindow

(* A swap starts the next window with an empty buffer.                     *)
LEMMA FlushStep ==
  ASSUME IInv, NEW t, NEW cands, ScanFlush(cands, t)
  PROVE  GenInv' /\ BestOfWindow' /\ OncePerWindow'
<1>1. /\ flushing = {} /\ flushing' = window /\ window' = {} /\ gen' = gen + 1
      /\ spc' = "flush" /\ published' = published /\ decoded' = decoded
  BY DEF ScanFlush, Begin, IInv, GenInv
<1>2. gen \in Nat /\ \A s \in published : s.gen \in Nat
  BY DEF IInv, TypeOK, Spots
<1>3. GenInv'
  BY <1>1, <1>2 DEF IInv, GenInv
<1>4. BestOfWindow'
  BY <1>1 DEF IInv, BestOfWindow
<1>5. OncePerWindow'
  BY <1>1 DEF IInv, OncePerWindow
<1> QED BY <1>3, <1>4, <1>5

(* Every step keeps the strengthening for the spots.                       *)
LEMMA InvStep == IInv /\ [Next]_vars => IInv'
<1> SUFFICES ASSUME IInv, [Next]_vars PROVE IInv'
  OBVIOUS
<1> DEFINE Inv == GenInv /\ BestOfWindow /\ OncePerWindow
           Same == UNCHANGED <<window, gen, flushing, published, decoded>>
<1>1. TypeOK'
  BY TypeStep DEF IInv
<1> SUFFICES Inv'
  BY <1>1 DEF IInv
<1>2. ASSUME Same, spc' = "flush" => spc = "flush" \/ flushing = {},
             spc' # "flush" => flushing = {}
      PROVE Inv'
  BY <1>2 DEF IInv, GenInv, BestOfWindow, OncePerWindow
<1>3. ASSUME NEW c \in Candidates, NEW text \in Texts, NEW time \in Nat,
             NEW who \in {"scan", "refine"}, PublishSpot(text, c, time, who),
             UNCHANGED <<flushing, published, spc>>
      PROVE Inv'
  <2> DEFINE s == Spot(text, c, time, who)
  <2>1. s \in Spots /\ s.gen = gen
    BY <1>3, SpotType DEF IInv, TypeOK
  <2>2. window' = Keep(s) /\ decoded' = decoded \cup {s} /\ gen' = gen
    BY <1>3 DEF PublishSpot
  <2> HIDE DEF s
  <2> QED BY <1>3, <2>1, <2>2, PublishKeeps
<1> HIDE DEF Inv
<1>4. CASE UNCHANGED vars
  <2>1. Same /\ spc' = spc
    BY <1>4 DEF vars, scanVars, winVars, outVars
  <2> QED BY <1>2, <2>1 DEF IInv, GenInv
<1>5. ASSUME NEW t \in 1 .. MaxTime, ScanEmpty(t) PROVE Inv'
  <2>1. Same /\ spc' = spc
    BY <1>5 DEF ScanEmpty, winVars, outVars
  <2> QED BY <1>2, <2>1 DEF IInv, GenInv
<1>6. ASSUME NEW t \in 1 .. MaxTime, NEW cands \in SUBSET Candidates, ScanBegin(cands, t)
      PROVE Inv'
  <2>1. Same /\ spc = "idle" /\ spc' = "pass1"
    BY <1>6 DEF ScanBegin, Begin
  <2> QED BY <1>2, <2>1 DEF IInv, GenInv
<1>7. ASSUME NEW t \in 1 .. MaxTime, NEW cands \in SUBSET Candidates, ScanFlush(cands, t)
      PROVE Inv'
  BY <1>7, FlushStep DEF Inv
<1>8. CASE Flush
  <2>1. /\ UNCHANGED <<window, gen, decoded, spc>> /\ spc = "flush"
        /\ flushing' \cup published' = flushing \cup published
    BY <1>8 DEF Flush, scanVars, winVars
  <2> QED BY <2>1 DEF Inv, IInv, GenInv, BestOfWindow, OncePerWindow
<1>9. CASE Flushed
  <2>1. Same /\ flushing = {}
    BY <1>9 DEF Flushed, winVars, outVars
  <2> QED BY <1>2, <2>1
<1>10. ASSUME NEW c \in todo, PassOne(c) PROVE Inv'
  <2>1. c \in Candidates /\ now \in Nat /\ UNCHANGED <<flushing, published, spc>>
    BY <1>10 DEF PassOne, outVars, IInv, TypeOK
  <2>2. CASE c.bp \in Texts
    BY <1>3, <1>10, <2>1, <2>2 DEF PassOne
  <2>3. CASE c.bp \notin Texts
    <3>1. Same
      BY <1>10, <2>1, <2>3 DEF PassOne, NoSpot, winVars
    <3> QED BY <1>2, <2>1, <3>1 DEF IInv, GenInv
  <2> QED BY <2>2, <2>3
<1>11. CASE PassTwoStart
  <2>1. Same /\ spc = "pass1" /\ spc' = "pass2"
    BY <1>11 DEF PassTwoStart, winVars, outVars
  <2> QED BY <1>2, <2>1 DEF IInv, GenInv
<1>12. ASSUME NEW c \in failed, PassTwo(c) PROVE Inv'
  <2>1. c \in Candidates /\ now \in Nat /\ UNCHANGED <<flushing, published, spc>>
    BY <1>12 DEF PassTwo, outVars, IInv, TypeOK
  <2>2. CASE c.osd \in Texts
    BY <1>3, <1>12, <2>1, <2>2 DEF PassTwo
  <2>3. CASE c.osd \notin Texts
    <3>1. Same
      BY <1>12, <2>1, <2>3 DEF PassTwo, NoSpot, winVars
    <3> QED BY <1>2, <2>1, <3>1 DEF IInv, GenInv
  <2> QED BY <2>2, <2>3
<1>13. CASE Return
  <2>1. Same /\ spc = "pass2" /\ spc' = "idle"
    BY <1>13 DEF Return, winVars, outVars
  <2> QED BY <1>2, <2>1 DEF IInv, GenInv
<1>14. CASE RefineTake
  <2>1. Same /\ spc' = spc
    BY <1>14 DEF RefineTake, scanVars, winVars, outVars
  <2> QED BY <1>2, <2>1 DEF IInv, GenInv
<1>15. CASE RefineDone
  <2>1. /\ job[1].cand \in Candidates /\ job[1].time \in Nat
        /\ UNCHANGED <<flushing, published, spc>>
    <3>1. job[1] \in Jobs
      BY <1>15 DEF RefineDone, IInv, TypeOK
    <3> QED BY <1>15, <3>1 DEF RefineDone, Jobs, scanVars, outVars
  <2>2. CASE job[1].cand.ref \in Texts
    BY <1>3, <1>15, <2>1, <2>2 DEF RefineDone
  <2>3. CASE job[1].cand.ref \notin Texts
    <3>1. Same
      BY <1>15, <2>1, <2>3 DEF RefineDone, NoSpot, winVars
    <3> QED BY <1>2, <2>1, <3>1 DEF IInv, GenInv
  <2> QED BY <2>2, <2>3
<1>16. CASE Exit
  <2>1. Same /\ spc' = spc
    BY <1>16 DEF Exit, scanVars, winVars, outVars
  <2> QED BY <1>2, <2>1 DEF IInv, GenInv
<1> QED
  BY <1>4, <1>5, <1>6, <1>7, <1>8, <1>9, <1>10, <1>11, <1>12, <1>13, <1>14, <1>15, <1>16
     DEF Next, Scan

(* No spot that either thread decodes is lost, and the strongest of its    *)
(* message in its window is what is published (publishSpot, flushWindow).  *)
THEOREM StrongestIsKept == Spec => []BestOfWindow
<1>1. IInv => BestOfWindow
  BY DEF IInv
<1> QED BY <1>1, InitInv, InvStep, PTL DEF Spec

(* A message is published once per window, although two threads decode it  *)
(* and the window is swapped out under them.                               *)
THEOREM PublishedOnce == Spec => []OncePerWindow
<1>1. IInv => OncePerWindow
  BY DEF IInv
<1> QED BY <1>1, InitInv, InvStep, PTL DEF Spec

-----------------------------------------------------------------------------
(* Windows and times.                                                      *)

(* No window is open before the first scan.                                *)
LEMMA InitTime == Init => TInv
<1> SUFFICES ASSUME Init PROVE TInv
  OBVIOUS
<1>1. TypeOK
  BY InitType
<1> QED BY <1>1 DEF Init, TInv, TimeInv, SpotsInWindow

(* The scan puts its spots in a window that its own time lies in.          *)
LEMMA PublishInWindow ==
  ASSUME TInv, spc # "idle", NEW s \in Spots, s.gen = gen, s.time = now,
         decoded' = decoded \cup {s},
         UNCHANGED <<clock, now, spc, windowStart, gen, starts>>
  PROVE  TimeInv' /\ SpotsInWindow'
<1> USE DEF TInv
<1>1. /\ windowStart > 0 /\ windowStart <= now /\ now < windowStart + Window
      /\ Len(starts) = gen + 1 /\ starts[gen + 1] = windowStart
  BY DEF TimeInv
<1>2. gen \in Nat
  BY DEF TypeOK
<1>3. s.gen + 1 <= Len(starts)
  BY <1>1, <1>2
<1>4. TimeInv'
  BY <1>3 DEF TimeInv
<1>5. SpotsInWindow'
  BY <1>1 DEF SpotsInWindow
<1> QED BY <1>4, <1>5

(* The refine worker's spots are not the scan's.                           *)
LEMMA PublishRefined ==
  ASSUME TInv, NEW s, s.who = "refine", decoded' = decoded \cup {s},
         UNCHANGED <<clock, now, spc, windowStart, gen, starts>>
  PROVE  TimeInv' /\ SpotsInWindow'
  BY DEF TInv, TimeInv, SpotsInWindow

(* A scan that finds its window expired starts the next one.               *)
LEMMA EnterInWindow ==
  ASSUME TInv, NEW t \in 1 .. MaxTime, NEW cands,
         ScanBegin(cands, t) \/ ScanFlush(cands, t)
  PROVE  TimeInv' /\ SpotsInWindow'
<1> USE DEF TInv
<1>1. t \in Nat /\ t >= 1 /\ Window \in Nat /\ Window >= 1
  BY FT8Assumption
<1>2. clock' = t /\ now' = t /\ t >= clock /\ decoded' = decoded
  BY DEF ScanBegin, ScanFlush, Begin
<1>3. /\ clock \in Nat /\ windowStart \in Nat /\ gen \in Nat /\ starts \in Seq(Nat)
      /\ windowStart <= clock
      /\ \A d \in decoded : d.gen \in Nat /\ d.time \in Nat
  BY DEF TypeOK, TimeInv, Spots
<1>4. CASE ScanBegin(cands, t)
  <2>1. t - Start(t) < Window /\ windowStart' = Start(t) /\ starts' = Starts(t) /\ gen' = gen
    BY <1>4 DEF ScanBegin
  <2>2. CASE windowStart = 0
    <3>1. windowStart' = t /\ starts' = <<t>> /\ gen' = 0 /\ gen = 0 /\ starts = << >>
      BY <2>1, <2>2 DEF Start, Starts, TimeInv
    <3>2. \A d \in decoded : d.who # "scan"
      BY <1>3, <3>1 DEF TimeInv
    <3>3. Len(starts') = 1 /\ starts'[1] = t
      BY <3>1
    <3> QED BY <1>1, <1>2, <3>1, <3>2, <3>3 DEF TimeInv, SpotsInWindow
  <2>3. CASE windowStart > 0
    <3>1. windowStart' = windowStart /\ starts' = starts
      BY <1>3, <2>1, <2>3 DEF Start, Starts
    <3>2. t < windowStart + Window
      BY <1>1, <1>3, <2>1, <2>3 DEF Start
    <3>3. TimeInv'
      BY <1>1, <1>2, <1>3, <2>1, <2>3, <3>1, <3>2 DEF TimeInv
    <3>4. SpotsInWindow'
      BY <1>2, <3>1 DEF SpotsInWindow
    <3> QED BY <3>3, <3>4
  <2> QED BY <1>3, <2>2, <2>3
<1>5. CASE ScanFlush(cands, t)
  <2>1. /\ t - Start(t) >= Window /\ windowStart' = t /\ gen' = gen + 1
        /\ starts' = Append(starts, t)
    BY <1>5 DEF ScanFlush
  <2>2. windowStart > 0
    BY <1>1, <1>3, <2>1 DEF Start
  <2>3. Len(starts) = gen + 1
    BY <2>2 DEF TimeInv
  <2>4. /\ Len(starts') = gen + 2 /\ starts'[gen + 2] = t
        /\ \A i \in 1 .. gen + 1 : starts'[i] = starts[i]
    BY <1>1, <1>3, <2>1, <2>3
  <2>5. TimeInv'
    BY <1>1, <1>2, <1>3, <2>1, <2>3, <2>4 DEF TimeInv
  <2>6. SpotsInWindow'
    <3> SUFFICES ASSUME NEW d \in decoded, d.who = "scan"
                 PROVE starts'[d.gen + 1] <= d.time /\ d.time < starts'[d.gen + 1] + Window
      BY <1>2 DEF SpotsInWindow
    <3>1. d.gen + 1 \in 1 .. gen + 1
      BY <1>3, <2>3 DEF TimeInv
    <3> QED BY <2>4, <3>1 DEF SpotsInWindow
  <2> QED BY <2>5, <2>6
<1> QED BY <1>4, <1>5

(* Every step keeps the strengthening for the windows' times.              *)
LEMMA TimeStep == TInv /\ [Next]_vars => TInv'
<1> SUFFICES ASSUME TInv, [Next]_vars PROVE TInv'
  OBVIOUS
<1> DEFINE Inv == TimeInv /\ SpotsInWindow
           Same == UNCHANGED <<clock, now, windowStart, gen, starts, decoded>>
<1>1. TypeOK'
  BY TypeStep DEF TInv
<1> SUFFICES Inv'
  BY <1>1 DEF TInv
<1>2. ASSUME Same, spc' # "idle" => spc # "idle" PROVE Inv'
  BY <1>2 DEF TInv, TimeInv, SpotsInWindow
<1>3. ASSUME NEW c \in Candidates, NEW text \in Texts, PublishSpot(text, c, now, "scan"),
             UNCHANGED <<clock, now, spc>>, spc # "idle"
      PROVE Inv'
  <2> DEFINE s == Spot(text, c, now, "scan")
  <2>1. s \in Spots /\ s.gen = gen /\ s.time = now
    BY SpotType DEF TInv, TypeOK
  <2>2. decoded' = decoded \cup {s} /\ UNCHANGED <<windowStart, gen, starts>>
    BY <1>3 DEF PublishSpot
  <2> HIDE DEF s
  <2> QED BY <1>3, <2>1, <2>2, PublishInWindow
<1> HIDE DEF Inv
<1>4. CASE UNCHANGED vars
  BY <1>2, <1>4 DEF vars, scanVars, winVars
<1>5. ASSUME NEW t \in 1 .. MaxTime, ScanEmpty(t) PROVE Inv'
  <2>1. /\ t \in Nat /\ clock' = t /\ t >= clock /\ spc = "idle" /\ spc' = "idle"
        /\ UNCHANGED <<windowStart, gen, starts, decoded>>
    BY <1>5, FT8Assumption DEF ScanEmpty, winVars
  <2>2. clock \in Nat /\ windowStart \in Nat
    BY DEF TInv, TypeOK
  <2> QED BY <2>1, <2>2 DEF Inv, TInv, TimeInv, SpotsInWindow
<1>6. ASSUME NEW t \in 1 .. MaxTime, NEW cands \in SUBSET Candidates,
             ScanBegin(cands, t) \/ ScanFlush(cands, t)
      PROVE Inv'
  BY <1>6, EnterInWindow DEF Inv
<1>7. CASE Flush
  BY <1>2, <1>7 DEF Flush, scanVars, winVars
<1>8. CASE Flushed
  BY <1>2, <1>8 DEF Flushed, winVars
<1>9. ASSUME NEW c \in todo, PassOne(c) PROVE Inv'
  <2>1. c \in Candidates /\ UNCHANGED <<clock, now, spc>> /\ spc = "pass1"
    BY <1>9 DEF PassOne, TInv, TypeOK
  <2>2. CASE c.bp \in Texts
    BY <1>3, <1>9, <2>1, <2>2 DEF PassOne
  <2>3. CASE c.bp \notin Texts
    BY <1>2, <1>9, <2>1, <2>3 DEF PassOne, NoSpot, winVars
  <2> QED BY <2>2, <2>3
<1>10. CASE PassTwoStart
  BY <1>2, <1>10 DEF PassTwoStart, winVars
<1>11. ASSUME NEW c \in failed, PassTwo(c) PROVE Inv'
  <2>1. c \in Candidates /\ UNCHANGED <<clock, now, spc>> /\ spc = "pass2"
    BY <1>11 DEF PassTwo, TInv, TypeOK
  <2>2. CASE c.osd \in Texts
    BY <1>3, <1>11, <2>1, <2>2 DEF PassTwo
  <2>3. CASE c.osd \notin Texts
    BY <1>2, <1>11, <2>1, <2>3 DEF PassTwo, NoSpot, winVars
  <2> QED BY <2>2, <2>3
<1>12. CASE Return
  BY <1>2, <1>12 DEF Return, winVars
<1>13. CASE RefineTake
  BY <1>2, <1>13 DEF RefineTake, scanVars, winVars
<1>14. CASE RefineDone
  <2>1. UNCHANGED <<clock, now, spc>>
    BY <1>14 DEF RefineDone, scanVars
  <2>2. CASE job[1].cand.ref \in Texts
    <3> DEFINE s == Spot(job[1].cand.ref, job[1].cand, job[1].time, "refine")
    <3>1. s.who = "refine"
      BY DEF Spot
    <3>2. decoded' = decoded \cup {s} /\ UNCHANGED <<windowStart, gen, starts>>
      BY <1>14, <2>2 DEF RefineDone, PublishSpot
    <3> HIDE DEF s
    <3> QED BY <2>1, <3>1, <3>2, PublishRefined DEF Inv
  <2>3. CASE job[1].cand.ref \notin Texts
    BY <1>2, <1>14, <2>1, <2>3 DEF RefineDone, NoSpot, winVars
  <2> QED BY <2>2, <2>3
<1>15. CASE Exit
  BY <1>2, <1>15 DEF Exit, scanVars, winVars
<1> QED
  BY <1>4, <1>5, <1>6, <1>7, <1>8, <1>9, <1>10, <1>11, <1>12, <1>13, <1>14, <1>15
     DEF Next, Scan

(* What the callback decodes was received in the window it is put in: an   *)
(* expired window is always swapped out first (decodeAndPublishContinuous).*)
THEOREM ScansStayInWindow == Spec => []SpotsInWindow
<1>1. TInv => SpotsInWindow
  BY DEF TInv
<1> QED BY <1>1, InitTime, TimeStep, PTL DEF Spec

-----------------------------------------------------------------------------
(***************************************************************************)
(* The callsign table: the count is that of the occupied slots, what was   *)
(* stored lately is stored, and until a clean-up removes an entry the      *)
(* probing finds every stored callsign by its 22 bit hash.                 *)
(***************************************************************************)
(* The occupied slots.                                                     *)
Used == {i \in Slots : table[i].used}

(* The entry of a callsign is no older than the time since it was stored.  *)
FreshInv ==
  \A c \in Calls : since[c] <= MaxAge =>
    \E i \in Slots : table[i].used /\ table[i].call = c /\ table[i].age <= since[c]

(* The probing invariant: from the home slot of a stored callsign to the   *)
(* slot that holds it, all slots are occupied.                             *)
ChainInv ==
  ~removed => \A i \in Used : \E d \in Slots :
    /\ ProbeSlot(Home(table[i].call), d) = i
    /\ \A m \in 0 .. d - 1 : ProbeSlot(Home(table[i].call), m) \in Used

TableInv == TableTypeOK /\ SizeCounts /\ FreshInv /\ ChainInv

-----------------------------------------------------------------------------
(* Entries and slots.                                                      *)

(* An entry is empty or holds a callsign and an age that fits.             *)
LEMMA EntryIs ==
  ASSUME NEW e \in Entries
  PROVE  \/ e.used = FALSE /\ e = Empty
         \/ e.used = TRUE /\ e.call \in Calls /\ e.age \in 0 .. MaxAge
<1>1. CASE e = Empty
  BY <1>1 DEF Empty
<1>2. CASE e \in [used : {TRUE}, call : Calls, age : 0 .. MaxAge]
  BY <1>2
<1> QED BY <1>1, <1>2 DEF Entries

LEMMA EntryType ==
  ASSUME NEW c \in Calls, NEW a \in 0 .. MaxAge
  PROVE  /\ Entry(c, a) \in Entries
         /\ Entry(c, a).used = TRUE /\ Entry(c, a).call = c /\ Entry(c, a).age = a
  BY DEF Entries, Entry

LEMMA EmptyType == Empty \in Entries /\ Empty.used = FALSE
  BY DEF Entries, Empty

(* The constants are numbers and the probe stays in the table.             *)
LEMMA SlotFacts ==
  /\ Size \in Nat /\ Size >= 1 /\ MaxAge \in Nat
  /\ \A c \in Calls : Hash22[c] \in Nat /\ Home(c) \in Slots
  /\ \A n, d \in Nat : ProbeSlot(n, d) \in Slots
  /\ IsFiniteSet(Slots) /\ Cardinality(Slots) = Size
<1>1. Size \in Nat /\ Size >= 1 /\ MaxAge \in Nat /\ \A c \in Calls : Hash22[c] \in Nat
  BY TableAssumption
<1>2. \A n \in Nat : n % Size \in Slots
  BY <1>1 DEF Slots
<1>3. \A n, d \in Nat : ProbeSlot(n, d) \in Slots
  BY <1>2 DEF ProbeSlot
<1>4. \A c \in Calls : Home(c) \in Slots
  BY <1>1, <1>2 DEF Home
<1>5. IsFiniteSet(Slots) /\ Cardinality(Slots) = Size
  BY <1>1, FS_Interval DEF Slots
<1> QED BY <1>1, <1>3, <1>4, <1>5

(* A set of distances has a least one.                                     *)
LEMMA LeastExists ==
  ASSUME NEW S \in SUBSET Slots, S # {}
  PROVE  /\ Min(S) \in S
         /\ \A d \in S : Min(S) <= d
<1>1. S \subseteq Nat
  BY SlotFacts DEF Slots
<1>2. \E x \in S : \A y \in S : ~(<<y, x>> \in OpToRel(<, Nat))
  BY <1>1, NatLessThanWellFounded, WFMin
<1>3. \E x \in S : \A y \in S : ~(y < x)
  BY <1>1, <1>2, Zenon DEF OpToRel
<1>4. \E x \in S : \A y \in S : x <= y
  BY <1>1, <1>3
<1> QED BY <1>4 DEF Min

(* Where hashtable_add stores: the first slot of the probe that is empty   *)
(* or holds the callsign, and all slots before it are occupied.            *)
LEMMA AddSlot ==
  ASSUME TableTypeOK, NEW c \in Calls, AddStops(c) # {}
  PROVE  \E d \in Slots :
           /\ d = Min(AddStops(c))
           /\ ProbeSlot(Home(c), d) \in Slots
           /\ table[ProbeSlot(Home(c), d)].used => table[ProbeSlot(Home(c), d)].call = c
           /\ \A m \in 0 .. d - 1 : ProbeSlot(Home(c), m) \in Used
<1> DEFINE d == Min(AddStops(c))
<1>1. AddStops(c) = {k \in Slots : \/ ~table[ProbeSlot(Home(c), k)].used
                                   \/ table[ProbeSlot(Home(c), k)].call = c}
  BY DEF AddStops, Stops
<1>2. d \in AddStops(c) /\ \A k \in AddStops(c) : d <= k
  BY <1>1, LeastExists
<1>3. d \in Slots /\ d \in Nat /\ Home(c) \in Nat
  BY <1>1, <1>2, SlotFacts DEF Slots
<1> HIDE DEF d
<1>4. ASSUME NEW m \in 0 .. d - 1 PROVE ProbeSlot(Home(c), m) \in Used
  <2>1. m \in Slots /\ m \in Nat /\ ~(d <= m)
    BY <1>3, SlotFacts DEF Slots
  <2>2. m \notin AddStops(c)
    BY <1>2, <2>1
  <2>3. table[ProbeSlot(Home(c), m)].used
    BY <1>1, <2>1, <2>2
  <2>4. ProbeSlot(Home(c), m) \in Slots
    BY <1>3, <2>1, SlotFacts
  <2> QED BY <2>3, <2>4 DEF Used
<1>5. ProbeSlot(Home(c), d) \in Slots
  BY <1>3, SlotFacts
<1> QED BY <1>1, <1>2, <1>3, <1>4, <1>5 DEF d

(* hashtable_add changes one slot.                                         *)
LEMMA AddEffect ==
  ASSUME TableTypeOK, NEW c \in Calls, Add(c)
  PROVE  \E d \in Slots : LET i == ProbeSlot(Home(c), d) IN
           /\ i \in Slots
           /\ i \in Used => table[i].call = c
           /\ \A m \in 0 .. d - 1 : ProbeSlot(Home(c), m) \in Used
           /\ table'[i] = Entry(c, 0)
           /\ \A j \in Slots \ {i} : table'[j] = table[j]
           /\ table' \in [Slots -> Entries]
           /\ Used' = Used \cup {i}
           /\ size' = IF i \in Used THEN size ELSE size + 1
<1>1. PICK d \in Slots :
           /\ d = Min(AddStops(c))
           /\ ProbeSlot(Home(c), d) \in Slots
           /\ table[ProbeSlot(Home(c), d)].used => table[ProbeSlot(Home(c), d)].call = c
           /\ \A m \in 0 .. d - 1 : ProbeSlot(Home(c), m) \in Used
  BY AddSlot DEF Add
<1> DEFINE i == ProbeSlot(Home(c), d)
<1>2. /\ table' = [table EXCEPT ![i] = Entry(c, 0)]
      /\ size' = IF table[i].used THEN size ELSE size + 1
  BY <1>1 DEF Add, Store
<1>3. i \in Slots /\ (table[i].used => table[i].call = c)
  BY <1>1
<1> HIDE DEF i
<1>4. Entry(c, 0) \in Entries /\ Entry(c, 0).used = TRUE
  <2>1. 0 \in 0 .. MaxAge
    BY SlotFacts
  <2> QED BY <2>1, EntryType
<1>5. /\ table' \in [Slots -> Entries] /\ table'[i] = Entry(c, 0)
      /\ \A j \in Slots \ {i} : table'[j] = table[j]
  BY <1>2, <1>3, <1>4 DEF TableTypeOK
<1>6. i \in Used <=> table[i].used
  BY <1>3 DEF Used
<1>7. Used' = Used \cup {i}
  BY <1>3, <1>4, <1>5 DEF Used, Slots
<1> QED BY <1>1, <1>2, <1>3, <1>5, <1>6, <1>7 DEF i

(* hashtable_cleanup empties the old slots and ages the others.            *)
LEMMA CleanupEffect ==
  ASSUME TableTypeOK, Cleanup
  PROVE  /\ table' \in [Slots -> Entries]
         /\ Old \subseteq Used /\ Used' = Used \ Old
         /\ \A i \in Used \ Old : /\ table'[i].call = table[i].call
                                  /\ table'[i].age = table[i].age + 1
                                  /\ table[i].age < MaxAge
<1>1. \A i \in Slots : table'[i] = Aged(table[i]) /\ table[i] \in Entries
  BY DEF Cleanup, Age, TableTypeOK
<1>2. ASSUME NEW i \in Slots
      PROVE  /\ table'[i] \in Entries
             /\ i \in Used' <=> i \in Used \ Old
             /\ i \in Used \ Old => /\ table'[i].call = table[i].call
                                    /\ table'[i].age = table[i].age + 1
                                    /\ table[i].age < MaxAge
  <2> DEFINE e == table[i]
  <2>1. \/ e.used = FALSE /\ e = Empty
        \/ e.used = TRUE /\ e.call \in Calls /\ e.age \in 0 .. MaxAge
    BY <1>1, EntryIs
  <2>2. CASE ~e.used \/ e.age >= MaxAge
    <3>1. table'[i] = Empty
      BY <1>1, <2>2 DEF Aged
    <3>2. i \notin Used \ Old
      BY <2>2 DEF Used, Old
    <3> QED BY <3>1, <3>2, EmptyType DEF Used, Slots
  <2>3. CASE e.used /\ ~(e.age >= MaxAge)
    <3>1. table'[i] = Entry(e.call, e.age + 1)
      BY <1>1, <2>3 DEF Aged
    <3>2. e.age + 1 \in 0 .. MaxAge /\ e.call \in Calls /\ e.age < MaxAge
      BY <2>1, <2>3, SlotFacts
    <3>3. /\ table'[i] \in Entries /\ table'[i].used = TRUE
          /\ table'[i].call = e.call /\ table'[i].age = e.age + 1
      <4>1. Entry(e.call, e.age + 1) \in Entries
        BY <3>2, EntryType
      <4> QED BY <3>1, <4>1 DEF Entry
    <3>4. i \in Used \ Old
      BY <2>3 DEF Used, Old
    <3> QED BY <3>2, <3>3, <3>4 DEF Used, Slots
  <2> QED BY <2>1, <2>2, <2>3
<1>3. table' \in [Slots -> Entries]
  <2>1. table' = [i \in Slots |-> Aged(table[i])]
    BY DEF Cleanup, Age
  <2> QED BY <1>2, <2>1
<1>4. Old \subseteq Used
  BY DEF Old, Used
<1>5. Used' \subseteq Slots /\ Used \subseteq Slots
  BY DEF Used, Slots
<1> QED BY <1>2, <1>3, <1>4, <1>5

-----------------------------------------------------------------------------
(* The strengthening is inductive.                                         *)

LEMMA UsedFacts == IsFiniteSet(Used) /\ Cardinality(Used) \in Nat /\ Cardinality(Used) <= Size
<1>1. Used \in SUBSET Slots
  BY DEF Used
<1>2. IsFiniteSet(Used) /\ Cardinality(Used) <= Size
  BY <1>1, SlotFacts, FS_Subset
<1> QED BY <1>2, FS_CardinalityType

LEMMA TableStart == TableInit => TableInv
<1> SUFFICES ASSUME TableInit PROVE TableInv
  OBVIOUS
<1>1. TableTypeOK
  <2>1. table \in [Slots -> Entries]
    BY EmptyType DEF TableInit
  <2>2. size \in 0 .. Size /\ since \in [Calls -> 0 .. Never]
    BY SlotFacts DEF TableInit, Never
  <2> QED BY <2>1, <2>2 DEF TableInit, TableTypeOK
<1>2. Used = {}
  BY EmptyType DEF Used, TableInit
<1>3. SizeCounts
  BY <1>2, FS_EmptySet DEF SizeCounts, Used, TableInit
<1>4. FreshInv
  BY SlotFacts DEF FreshInv, TableInit, Never
<1>5. ChainInv
  BY <1>2 DEF ChainInv
<1> QED BY <1>1, <1>3, <1>4, <1>5 DEF TableInv

(* Storing or refreshing a callsign.                                       *)
LEMMA AddKeeps ==
  ASSUME TableInv, NEW c \in Calls, Add(c)
  PROVE  TableInv'
<1> USE DEF TableInv
<1>1. PICK d \in Slots : LET i == ProbeSlot(Home(c), d) IN
           /\ i \in Slots
           /\ i \in Used => table[i].call = c
           /\ \A m \in 0 .. d - 1 : ProbeSlot(Home(c), m) \in Used
           /\ table'[i] = Entry(c, 0)
           /\ \A j \in Slots \ {i} : table'[j] = table[j]
           /\ table' \in [Slots -> Entries]
           /\ Used' = Used \cup {i}
           /\ size' = IF i \in Used THEN size ELSE size + 1
  BY AddEffect
<1> DEFINE i == ProbeSlot(Home(c), d)
<1>2. since' = [since EXCEPT ![c] = 0] /\ UNCHANGED removed
  BY DEF Add, Store
<1>3. Entry(c, 0).used = TRUE /\ Entry(c, 0).call = c /\ Entry(c, 0).age = 0
  BY DEF Entry
<1>4. SizeCounts' /\ size' \in 0 .. Size
  <2>1. size = Cardinality(Used)
    BY DEF SizeCounts, Used
  <2>2. Cardinality(Used') = size'
    BY <1>1, <2>1, UsedFacts, FS_AddElement
  <2>3. Used' \in SUBSET Slots /\ (SizeCounts' <=> size' = Cardinality(Used'))
    BY DEF SizeCounts, Used, Slots
  <2>4. IsFiniteSet(Used') /\ Cardinality(Used') <= Size /\ Cardinality(Used') \in Nat
    BY <2>3, SlotFacts, FS_Subset, FS_CardinalityType
  <2> QED BY <2>2, <2>3, <2>4, SlotFacts
<1>5. TableTypeOK'
  <2>1. since' \in [Calls -> 0 .. Never]
    BY <1>2, SlotFacts DEF TableTypeOK, Never
  <2> QED BY <1>1, <1>2, <1>4, <2>1 DEF TableTypeOK, Slots, Entries, Never, Empty, Entry
<1>6. FreshInv'
  <2> SUFFICES ASSUME NEW k \in Calls, since'[k] <= MaxAge
               PROVE  \E j \in Slots :
                        table'[j].used /\ table'[j].call = k /\ table'[j].age <= since'[k]
    BY DEF FreshInv, Slots
  <2>1. CASE k = c
    <3>1. since'[k] = 0
      BY <1>2, <2>1 DEF TableTypeOK
    <3> QED BY <1>1, <1>3, <2>1, <3>1
  <2>2. CASE k # c
    <3>1. since'[k] = since[k]
      BY <1>2, <2>2 DEF TableTypeOK
    <3>2. PICK j \in Slots : table[j].used /\ table[j].call = k /\ table[j].age <= since[k]
      BY <3>1 DEF FreshInv
    <3>3. j # i
      BY <1>1, <2>2, <3>2 DEF Used
    <3>4. table'[j] = table[j]
      BY <1>1, <3>3
    <3> QED BY <3>1, <3>2, <3>4
  <2> QED BY <2>1, <2>2
<1>7. ChainInv'
  <2> DEFINE Chained(h, j) == \E k \in Slots :
               ProbeSlot(h, k) = j /\ \A m \in 0 .. k - 1 : ProbeSlot(h, m) \in Used'
  <2> SUFFICES ASSUME ~removed, NEW j \in Used' PROVE Chained(Home(table'[j].call), j)
    BY <1>2 DEF ChainInv, ProbeSlot, Home, Slots
  <2>1. CASE j = i
    <3>1. table'[j].call = c
      BY <1>1, <1>3, <2>1
    <3>2. \A m \in 0 .. d - 1 : ProbeSlot(Home(c), m) \in Used'
      BY <1>1
    <3> QED BY <2>1, <3>1, <3>2
  <2>2. CASE j # i
    <3>1. j \in Used /\ j \in Slots /\ table'[j] = table[j]
      BY <1>1, <2>2 DEF Used
    <3>2. PICK k \in Slots : /\ ProbeSlot(Home(table[j].call), k) = j
                             /\ \A m \in 0 .. k - 1 : ProbeSlot(Home(table[j].call), m) \in Used
      BY <3>1 DEF ChainInv
    <3>3. \A m \in 0 .. k - 1 : ProbeSlot(Home(table[j].call), m) \in Used'
      BY <1>1, <3>2
    <3> QED BY <3>1, <3>2, <3>3
  <2> QED BY <2>1, <2>2
<1> QED BY <1>4, <1>5, <1>6, <1>7

(* Ageing.                                                                 *)
LEMMA CleanupKeeps ==
  ASSUME TableInv, Cleanup
  PROVE  TableInv'
<1> USE DEF TableInv
<1>1. /\ table' \in [Slots -> Entries]
      /\ Old \subseteq Used /\ Used' = Used \ Old
      /\ \A i \in Used \ Old : /\ table'[i].call = table[i].call
                               /\ table'[i].age = table[i].age + 1
                               /\ table[i].age < MaxAge
  BY CleanupEffect
<1>2. /\ size' = size - Cardinality(Old)
      /\ since' = [c \in Calls |-> IF since[c] < Never THEN since[c] + 1 ELSE Never]
      /\ removed' = (removed \/ Old # {})
  BY DEF Cleanup, Age
<1>3. SizeCounts' /\ size' \in 0 .. Size
  <2>1. size = Cardinality(Used)
    BY DEF SizeCounts, Used
  <2>2. IsFiniteSet(Old) /\ Used \cap Old = Old
    BY <1>1, UsedFacts, FS_Subset
  <2>3. Cardinality(Used') = size' /\ IsFiniteSet(Used')
    <3>1. /\ IsFiniteSet(Used \ Old)
          /\ Cardinality(Used \ Old) = Cardinality(Used) - Cardinality(Old)
      BY <2>2, UsedFacts, FS_Difference
    <3> QED BY <1>1, <1>2, <2>1, <3>1
  <2>4. Used' \in SUBSET Slots /\ (SizeCounts' <=> size' = Cardinality(Used'))
    BY DEF SizeCounts, Used, Slots
  <2>5. Cardinality(Used') <= Size /\ Cardinality(Used') \in Nat
    BY <2>3, <2>4, SlotFacts, FS_Subset, FS_CardinalityType
  <2> QED BY <2>3, <2>4, <2>5, SlotFacts
<1>4. TableTypeOK'
  <2>1. since' \in [Calls -> 0 .. Never]
    BY <1>2, SlotFacts DEF TableTypeOK, Never
  <2>2. removed' \in BOOLEAN
    BY <1>2
  <2> QED BY <1>1, <1>3, <2>1, <2>2 DEF TableTypeOK, Slots, Entries, Never, Empty, Entry
<1>5. FreshInv'
  <2> SUFFICES ASSUME NEW k \in Calls, since'[k] <= MaxAge
               PROVE  \E j \in Slots :
                        table'[j].used /\ table'[j].call = k /\ table'[j].age <= since'[k]
    BY DEF FreshInv, Slots
  <2>1. since[k] \in Nat /\ since'[k] = since[k] + 1 /\ since[k] < MaxAge
    BY <1>2, SlotFacts DEF TableTypeOK, Never
  <2>2. PICK j \in Slots : table[j].used /\ table[j].call = k /\ table[j].age <= since[k]
    BY <2>1, SlotFacts DEF FreshInv
  <2>3. table[j].age \in 0 .. MaxAge
    BY <2>2, EntryIs DEF TableTypeOK
  <2>4. j \in Used \ Old
    BY <2>1, <2>2, <2>3, SlotFacts DEF Used, Old
  <2>5. j \in Used' /\ table'[j].call = k /\ table'[j].age = table[j].age + 1
    BY <1>1, <2>2, <2>4
  <2> QED BY <2>1, <2>2, <2>3, <2>5 DEF Used
<1>6. ChainInv'
  <2> DEFINE Chained(h, j) == \E k \in Slots :
               ProbeSlot(h, k) = j /\ \A m \in 0 .. k - 1 : ProbeSlot(h, m) \in Used'
  <2> SUFFICES ASSUME ~removed, Old = {}, NEW j \in Used' PROVE Chained(Home(table'[j].call), j)
    BY <1>2 DEF ChainInv, ProbeSlot, Home, Slots
  <2>1. Used' = Used /\ table'[j].call = table[j].call
    BY <1>1
  <2> QED BY <2>1 DEF ChainInv
<1> QED BY <1>3, <1>4, <1>5, <1>6

LEMMA TableStep == TableInv /\ [TableNext]_tableVars => TableInv'
<1> SUFFICES ASSUME TableInv, [TableNext]_tableVars PROVE TableInv'
  OBVIOUS
<1>1. CASE UNCHANGED tableVars
  <2>1. UNCHANGED <<table, size, since, removed>>
    BY <1>1 DEF tableVars
  <2>2. TableTypeOK' /\ SizeCounts'
    BY <2>1 DEF TableInv, TableTypeOK, SizeCounts
  <2>3. FreshInv'
    BY <2>1 DEF TableInv, FreshInv
  <2>4. Used' = Used
    BY <2>1 DEF Used
  <2>5. ChainInv'
    BY <2>1, <2>4 DEF TableInv, ChainInv, ProbeSlot, Home
  <2> QED BY <2>2, <2>3, <2>5 DEF TableInv
<1>2. ASSUME NEW c \in Calls, AddFull(c) PROVE TableInv'
  BY <1>1, <1>2 DEF AddFull
<1> QED BY <1>1, <1>2, AddKeeps, CleanupKeeps DEF TableNext

(* The count, the ages and what is stored: hashtable_add and               *)
(* hashtable_cleanup in any order, for a table of any size.                *)
THEOREM TableStaysRight == TableSpec => []TableRight
<1>1. TableInv => TableRight
  <2> SUFFICES ASSUME TableInv PROVE RecentIsStored
    BY DEF TableInv, TableRight
  <2> QED BY DEF TableInv, FreshInv, RecentIsStored, Stored
<1> QED BY <1>1, TableStart, TableStep, PTL DEF TableSpec

-----------------------------------------------------------------------------
(* Looking up.                                                             *)

(* The probe of a 22 bit look-up ends at a callsign with that hash: it     *)
(* starts at the callsign's home slot, and the slots it passes are used.   *)
LEMMA LookupFinds ==
  ASSUME TableInv, ~removed, NEW c \in Stored
  PROVE  \E b \in Lookup(c, 1) : Hash22[b] = Hash22[c]
<1> USE DEF TableInv
<1>1. PICK i \in Used : table[i].call = c
  BY DEF Stored, Used
<1>2. i \in Slots /\ c \in Calls
  BY <1>1, EntryIs DEF Used, TableTypeOK
<1> DEFINE h == Hash22[c]
           s == Home(c)
           stops == {k \in Slots : \/ ~table[ProbeSlot(s, k)].used
                                   \/ Hash22[table[ProbeSlot(s, k)].call] \div 1 = h}
<1>3. h \in Nat /\ s \in Nat /\ h \div 1 = h /\ h * 1 = h
  <2>1. h \in Nat /\ s \in Slots
    BY <1>2, SlotFacts
  <2>2. \A n \in Nat : n \div 1 = n /\ n * 1 = n
    OBVIOUS
  <2>3. s \in Nat
    BY <2>1, SlotFacts DEF Slots
  <2> HIDE DEF h, s
  <2> QED BY <2>1, <2>2, <2>3
<1>4. Lookup(c, 1) = Probe(s, stops)
  <2>1. Lookup(c, 1) = Probe((h * 1) % Size,
          {k \in Slots : \/ ~table[ProbeSlot((h * 1) % Size, k)].used
                         \/ Hash22[table[ProbeSlot((h * 1) % Size, k)].call] \div 1 = h})
    BY <1>3 DEF Lookup, Found, Stops
  <2> QED BY <1>3, <2>1 DEF Home
<1>5. PICK d \in Slots : /\ ProbeSlot(s, d) = i
                         /\ \A m \in 0 .. d - 1 : ProbeSlot(s, m) \in Used
  BY <1>1 DEF ChainInv
<1>6. d \in stops
  BY <1>1, <1>3, <1>5
<1> DEFINE m == Min(stops)
<1>7. m \in stops /\ \A k \in stops : m <= k
  BY <1>6, LeastExists
<1> HIDE DEF m
<1>8. ProbeSlot(s, m) \in Used
  <2>1. m \in Slots /\ m <= d
    BY <1>6, <1>7
  <2>2. CASE m = d
    BY <1>1, <1>5, <2>2
  <2>3. CASE m # d
    <3>1. m \in 0 .. d - 1
      BY <2>1, <2>3, SlotFacts DEF Slots
    <3> QED BY <1>5, <3>1
  <2> QED BY <2>2, <2>3
<1> DEFINE b == table[ProbeSlot(s, m)].call
<1>9. b \in Calls /\ Hash22[b] \in Nat /\ table[ProbeSlot(s, m)].used
  BY <1>8, EntryIs, SlotFacts DEF Used, TableTypeOK
<1>10. Hash22[b] = h
  <2>1. Hash22[b] \div 1 = h
    BY <1>7, <1>9
  <2> QED BY <1>9, <2>1
<1>11. b \in Probe(s, stops)
  BY <1>7, <1>9 DEF Probe
<1> QED BY <1>4, <1>10, <1>11

(* hashtable_lookup by the full hash finds every stored callsign, or one   *)
(* of the same hash, until hashtable_cleanup removes an entry, in a full   *)
(* table too and wherever the probing had to put it.                       *)
THEOREM FoundWhileKept == TableSpec => []FoundUntilRemoval
<1>1. TableInv => FoundUntilRemoval
  BY LookupFinds DEF FoundUntilRemoval
<1> QED BY <1>1, TableStart, TableStep, PTL DEF TableSpec

=============================================================================
