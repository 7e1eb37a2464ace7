-------------------------- MODULE UploadersProofs --------------------------
(***************************************************************************)
(* Proofs about Uploaders for every set of stations, every packet size and *)
(* interval: the PSKReporter batches hold what is owed, through any number *)
(* of failures, and the logger's lines of a station are a window apart     *)
(* although its cache forgets.                                             *)
(***************************************************************************)
EXTENDS Uploaders, FiniteSetTheorems, SequenceTheorems, TLAPS

Report == [call : Stations, snr : Snrs]

LEMMA ConstFacts ==
  /\ Stations # {} /\ Snrs \subseteq Int /\ Never \in Int /\ Never < 0
  /\ \A n \in Snrs : n \in Int /\ n > Never /\ n # Never
  /\ Interval \in Nat /\ Retry \in Nat /\ Retry <= Interval
  /\ Hour \in Nat /\ First \in Nat /\ Dedup \in Nat
  /\ Window \in Nat /\ Disorder \in Nat /\ Disorder > 0
  /\ RecLen \in Nat /\ RecLen > 0 /\ Overhead \in Nat /\ TmplLen \in Nat
  /\ LenMax \in Nat /\ UdpMax \in Nat /\ UdpMax <= LenMax /\ RecLen + 7 <= Overhead
  /\ MaxReports \in Nat /\ MaxClock \in Nat
<1>1. Never \in Int /\ Never < 0
  BY DEF Never
<1>2. \A n \in Snrs : n \in Int /\ n > Never
  BY UploadAssumption
<1>3. \A n \in Snrs : n # Never
  BY <1>1, <1>2
<1> QED BY UploadAssumption, <1>1, <1>2, <1>3

-----------------------------------------------------------------------------
(***************************************************************************)
(* The pending reports of a station: v is the best SNR among them, Never   *)
(* if there is none.                                                       *)
(***************************************************************************)
IsBest(q, s, v) ==
  \/ v = Never /\ \A i \in DOMAIN q : q[i].call # s
  \/ \E i \in DOMAIN q :
       /\ q[i].call = s /\ q[i].snr = v
       /\ \A j \in DOMAIN q : q[j].call = s => q[j].snr <= v

(* A report appended raises the best of its own station only.              *)
LEMMA BestAppend ==
  ASSUME NEW q \in Seq(Report), NEW r \in Report, NEW s \in Stations,
         NEW v \in Snrs \union {Never}, IsBest(q, s, v)
  PROVE  /\ r.call = s => IsBest(Append(q, r), s, IF r.snr > v THEN r.snr ELSE v)
         /\ r.call # s => IsBest(Append(q, r), s, v)
<1> DEFINE p == Append(q, r)
           n == Len(q)
<1>1. /\ n \in Nat /\ DOMAIN q = 1 .. n /\ DOMAIN p = 1 .. n + 1 /\ p[n + 1] = r
      /\ \A i \in 1 .. n : p[i] = q[i]
  BY DEF Report
<1>2. r.snr \in Int /\ v \in Int /\ r.snr > Never
  BY ConstFacts DEF Report
<1>3. \A i \in 1 .. n : q[i].snr \in Int
  <2> SUFFICES ASSUME NEW i \in 1 .. n PROVE q[i].snr \in Int
    OBVIOUS
  <2>1. q[i] \in Report
    BY <1>1
  <2> QED BY <2>1, ConstFacts DEF Report
<1> HIDE DEF p, n
<1>4. \A i \in 1 .. n + 1 : i \in 1 .. n \/ i = n + 1
  BY <1>1
<1>5. n + 1 \in 1 .. n + 1 /\ \A i \in 1 .. n : i \in 1 .. n + 1
  BY <1>1
<1>6. CASE v = Never /\ \A i \in DOMAIN q : q[i].call # s
  <2>1. ASSUME r.call # s PROVE IsBest(p, s, v)
    BY <1>1, <1>4, <1>6, <2>1 DEF IsBest
  <2>2. ASSUME r.call = s PROVE IsBest(p, s, r.snr)
    <3>1. \A j \in 1 .. n + 1 : p[j].call = s => p[j].snr <= r.snr
      BY <1>1, <1>2, <1>4, <1>6
    <3> QED BY <1>1, <1>5, <2>2, <3>1 DEF IsBest
  <2> QED BY <1>2, <1>6, <2>1, <2>2 DEF p
<1>7. CASE \E i \in DOMAIN q :
             /\ q[i].call = s /\ q[i].snr = v
             /\ \A j \in DOMAIN q : q[j].call = s => q[j].snr <= v
  <2>1. PICK i \in 1 .. n : q[i].call = s /\ q[i].snr = v
                            /\ \A j \in 1 .. n : q[j].call = s => q[j].snr <= v
    BY <1>1, <1>7
  <2>2. i \in 1 .. n + 1 /\ p[i].call = s /\ p[i].snr = v
    BY <1>1, <1>5, <2>1
  <2>3. ASSUME r.call # s \/ ~ (r.snr > v) PROVE IsBest(p, s, v)
    <3>1. \A j \in 1 .. n + 1 : p[j].call = s => p[j].snr <= v
      BY <1>1, <1>2, <1>4, <2>1, <2>3
    <3> QED BY <1>1, <2>2, <3>1 DEF IsBest
  <2>4. ASSUME r.call = s, r.snr > v PROVE IsBest(p, s, r.snr)
    <3>1. \A j \in 1 .. n + 1 : p[j].call = s => p[j].snr <= r.snr
      <4> SUFFICES ASSUME NEW j \in 1 .. n + 1, p[j].call = s PROVE p[j].snr <= r.snr
        OBVIOUS
      <4>1. CASE j = n + 1
        BY <4>1, <1>1, <1>2
      <4>2. CASE j \in 1 .. n
        <5>1. q[j].snr <= v /\ p[j].snr = q[j].snr
          BY <4>2, <1>1, <2>1
        <5> QED BY <5>1, <1>2, <1>3, <4>2, <2>4
      <4> QED BY <1>4, <4>1, <4>2
    <3> QED BY <1>1, <1>5, <2>4, <3>1 DEF IsBest
  <2> QED BY <2>3, <2>4 DEF p
<1> QED BY <1>6, <1>7 DEF IsBest

(* The best report is the maximum UnsentIsPending speaks of.               *)
LEMMA BestIsMax ==
  ASSUME NEW q \in Seq(Report), NEW s \in Stations,
         NEW v \in Snrs \union {Never}, IsBest(q, s, v)
  PROVE  v = IF \E i \in DOMAIN q : q[i].call = s
             THEN Max({r.snr : r \in {c \in ToSet(q) : c.call = s}})
             ELSE Never
<1> DEFINE S == {r.snr : r \in {c \in ToSet(q) : c.call = s}}
<1>1. CASE ~ \E i \in DOMAIN q : q[i].call = s
  BY <1>1 DEF IsBest
<1>2. CASE \E i \in DOMAIN q : q[i].call = s
  <2>1. PICK i \in DOMAIN q : q[i].call = s /\ q[i].snr = v
                              /\ \A j \in DOMAIN q : q[j].call = s => q[j].snr <= v
    BY <1>2 DEF IsBest
  <2>2. v \in S
    BY <2>1 DEF ToSet
  <2>3. \A y \in S : y \in Int /\ y <= v
    <3> SUFFICES ASSUME NEW y \in S PROVE y \in Int /\ y <= v
      OBVIOUS
    <3>1. PICK j \in DOMAIN q : q[j].call = s /\ y = q[j].snr
      BY DEF ToSet
    <3>2. q[j] \in Report
      BY <3>1
    <3> QED BY <2>1, <3>1, <3>2, ConstFacts DEF Report
  <2>4. v \in Int
    BY ConstFacts
  <2> HIDE DEF S
  <2>5. \A y \in S : v >= y
    BY <2>3, <2>4
  <2>6. \A x \in S : (\A y \in S : x >= y) => x = v
    BY <2>2, <2>3, <2>4
  <2>7. Max(S) = v
    BY <2>2, <2>5, <2>6 DEF Max
  <2> QED BY <1>2, <2>7 DEF S
<1> QED BY <1>1, <1>2

(* _dedup_reports of the pending reports is what is owed.                  *)
LEMMA DedupIsBest ==
  ASSUME NEW q \in Seq(Report), NEW u \in [Stations -> Snrs \union {Never}],
         \A s \in Stations : IsBest(q, s, u[s])
  PROVE  DedupReports(q)
           = {[call |-> s, snr |-> u[s]] : s \in {t \in Stations : u[t] # Never}}
<1> DEFINE O == {[call |-> s, snr |-> u[s]] : s \in {t \in Stations : u[t] # Never}}
<1>1. ASSUME NEW r \in DedupReports(q) PROVE r \in O
  <2>1. PICK i \in DOMAIN q : r = q[i]
    BY DEF DedupReports, ToSet
  <2>2. r \in Report
    BY <2>1
  <2>3. r.call \in Stations /\ r.snr \in Int /\ r.snr # Never
    BY <2>2, ConstFacts DEF Report
  <2>4. PICK j \in DOMAIN q : q[j].call = r.call /\ q[j].snr = u[r.call]
                              /\ \A k \in DOMAIN q : q[k].call = r.call => q[k].snr <= u[r.call]
    BY <2>1, <2>3 DEF IsBest
  <2>5. q[j].snr <= r.snr
    BY <2>4 DEF DedupReports, ToSet
  <2>6. r.snr <= u[r.call] /\ u[r.call] \in Int
    BY <2>1, <2>3, <2>4, ConstFacts
  <2>7. u[r.call] = r.snr
    BY <2>3, <2>4, <2>5, <2>6
  <2>8. r = [call |-> r.call, snr |-> r.snr]
    BY <2>2 DEF Report
  <2> QED BY <2>3, <2>7, <2>8
<1>2. ASSUME NEW r \in O PROVE r \in DedupReports(q)
  <2>1. PICK s \in Stations : u[s] # Never /\ r = [call |-> s, snr |-> u[s]]
    OBVIOUS
  <2>2. PICK j \in DOMAIN q : q[j].call = s /\ q[j].snr = u[s]
                              /\ \A k \in DOMAIN q : q[k].call = s => q[k].snr <= u[s]
    BY <2>1 DEF IsBest
  <2>3. q[j] \in Report
    BY <2>2
  <2>4. q[j] = r
    BY <2>1, <2>2, <2>3 DEF Report
  <2>5. \A c \in ToSet(q) : c.call = r.call => c.snr <= r.snr
    BY <2>1, <2>2 DEF ToSet
  <2> QED BY <2>2, <2>4, <2>5 DEF DedupReports, ToSet
<1> QED BY <1>1, <1>2

(* It is finite, and a part of it of its own size is all of it.            *)
LEMMA DedupFinite ==
  ASSUME NEW q \in Seq(Report)
  PROVE  /\ IsFiniteSet(DedupReports(q)) /\ Cardinality(DedupReports(q)) \in Nat
         /\ \A sub \in kSubset(Cardinality(DedupReports(q)), DedupReports(q)) :
              sub = DedupReports(q)
<1> DEFINE D == DedupReports(q)
<1>1. Len(q) \in Nat /\ DOMAIN q = 1 .. Len(q)
  OBVIOUS
<1>2. IsFiniteSet(DOMAIN q)
  BY <1>1, FS_Interval
<1>3. q \in Surjection(DOMAIN q, ToSet(q))
  BY <1>1 DEF Surjection, ToSet
<1>4. IsFiniteSet(ToSet(q))
  BY <1>2, <1>3, FS_Surjection
<1>5. D \in SUBSET ToSet(q)
  BY DEF DedupReports
<1>6. IsFiniteSet(D)
  BY <1>4, <1>5, FS_Subset
<1> HIDE DEF D
<1>7. Cardinality(D) \in Nat
  BY <1>6, FS_CardinalityType
<1>8. ASSUME NEW sub \in kSubset(Cardinality(D), D) PROVE sub = D
  <2>1. sub \in SUBSET D /\ Cardinality(sub) = Cardinality(D)
    BY DEF kSubset
  <2> QED BY <1>6, <2>1, FS_Subset
<1> QED BY <1>6, <1>7, <1>8 DEF D

(* A batch cut short by _sender_block makes a packet no datagram takes.    *)
LEMMA NoneCutShort ==
  ASSUME NEW n \in Nat, NEW tmpl \in BOOLEAN, PacketLen(ReportsInBlock(n), tmpl) <= UdpMax
  PROVE  ReportsInBlock(n) = n
<1> DEFINE fit == (LenMax - 4 - 3) \div RecLen
           x == LenMax - 7
           t == IF tmpl THEN TmplLen ELSE 0
<1>1. /\ x \in Int /\ fit = x \div RecLen /\ RecLen \in Nat /\ RecLen > 0 /\ t \in Nat
      /\ x = LenMax - 7 /\ LenMax \in Nat /\ UdpMax \in Nat
  BY ConstFacts
<1>2. fit \in Int /\ x < (fit + 1) * RecLen
  BY <1>1
<1>3. PacketLen(fit, tmpl) = Overhead + t + fit * RecLen
  BY DEF PacketLen
<1>4. ReportsInBlock(n) = IF n < fit THEN n ELSE fit
  BY DEF ReportsInBlock
<1> HIDE DEF fit, x, t
<1>5. ASSUME ~ (n < fit) PROVE FALSE
  <2>1. Overhead + t + fit * RecLen <= UdpMax
    BY <1>3, <1>4, <1>5
  <2>2. (fit + 1) * RecLen = fit * RecLen + RecLen /\ fit * RecLen \in Int
    BY <1>1, <1>2
  <2> QED BY <1>1, <1>2, <2>1, <2>2, ConstFacts
<1> QED BY <1>4, <1>5
-----------------------------------------------------------------------------
(***************************************************************************)
(* The inductive invariant.  While the process lives, unsent is the best   *)
(* of what is pending.  The logger's cache holds a station's last line, or *)
(* has forgotten one that is more than a window older than any decode of   *)
(* the newest timestamp.                                                   *)
(***************************************************************************)
BestPending == alive => \A s \in Stations : IsBest(pending, s, unsent[s])

LastLine(s) ==
  \/ cache[s] = logged[s]
  \/ cache[s] = Never /\ logged[s] # Never /\ logged[s] + Window < clock

CacheRight == \A s \in Stations : LastLine(s)

PskInv == PacketIsBest /\ BestPending /\ SeqIsReports

UpInv == UploadTypeOK /\ PskInv /\ CacheRight

(* Parts of UploadTypeOK.                                                        *)
PskTypes ==
  /\ pending \in Seq(Report)
  /\ due \in 0 .. Interval /\ tmplAge \in 0 .. Hour /\ packets \in 0 .. First
  /\ seqNo \in Nat /\ total \in Nat
  /\ unsent \in [Stations -> Snrs \union {Never}]

AprsTypes ==
  /\ age \in [Stations -> 0 .. Dedup]
  /\ conn \in {"none", "up", "broken"}
  /\ apc \in {"idle", "spot", "send", "drain", "connect", "resend"}
  /\ heard \in Stations
  /\ line \in Stations \union {Keepalive, Relay} /\ arrived \in BOOLEAN

Stamp == 0 .. MaxClock \union {Never}

LogTypes ==
  /\ clock \in 0 .. MaxClock
  /\ cache \in [Stations -> Stamp] /\ logged \in [Stations -> Stamp]

ProcTypes == program \in Programs /\ alive \in BOOLEAN /\ received \in 0 .. MaxReports

LEMMA TypeParts == UploadTypeOK <=> ProcTypes /\ PskTypes /\ AprsTypes /\ LogTypes
<1>1. {cache, logged} \subseteq [Stations -> Stamp]
        <=> cache \in [Stations -> Stamp] /\ logged \in [Stations -> Stamp]
  OBVIOUS
<1> HIDE DEF Stamp
<1> QED BY <1>1 DEF UploadTypeOK, ProcTypes, PskTypes, AprsTypes, LogTypes, Report, Stamp

LEMMA UpJoin ==
  ASSUME ProcTypes', PskTypes', AprsTypes', LogTypes', PskInv', CacheRight' PROVE UpInv'
<1>1. {cache', logged'} \subseteq [Stations -> Stamp]
  BY DEF LogTypes
<1> HIDE DEF Stamp
<1> QED BY <1>1 DEF UpInv, UploadTypeOK, ProcTypes, PskTypes, AprsTypes, LogTypes, Report, Stamp

LEMMA UpInit == UploadInit => UpInv
<1> SUFFICES ASSUME UploadInit PROVE UpInv
  OBVIOUS
<1>1. ProcTypes
  BY ConstFacts DEF UploadInit, ProcTypes
<1>2. PskTypes
  BY ConstFacts DEF UploadInit, PskTypes
<1>3. AprsTypes
  <2>1. heard \in Stations
    BY ConstFacts DEF UploadInit
  <2> QED BY <2>1, ConstFacts DEF UploadInit, AprsTypes
<1>4. LogTypes
  BY ConstFacts DEF UploadInit, LogTypes, Stamp
<1>5. PskInv
  BY DEF UploadInit, PskInv, PacketIsBest, BestPending, SeqIsReports, IsBest
<1>6. CacheRight
  BY DEF UploadInit, CacheRight, LastLine
<1> QED BY <1>1, <1>2, <1>3, <1>4, <1>5, <1>6, TypeParts DEF UpInv

(* Steps that leave parts of the state alone.                              *)
LEMMA PskSame ==
  ASSUME PskTypes, PskInv, UNCHANGED <<alive, pending, unsent, seqNo, total, packet>>
  PROVE  PskInv'
  BY DEF PskInv, PacketIsBest, BestPending, SeqIsReports, IsBest

LEMMA AprsSame == ASSUME AprsTypes, UNCHANGED aprsVars PROVE AprsTypes'
  BY DEF AprsTypes, aprsVars

LEMMA LogSame ==
  ASSUME LogTypes, CacheRight, UNCHANGED logVars PROVE LogTypes' /\ CacheRight'
  BY DEF LogTypes, CacheRight, LastLine, logVars

-----------------------------------------------------------------------------
(* psk_uploader.py                                                         *)
LEMMA ReceiveKeeps ==
  ASSUME UpInv, PskReceive PROVE UpInv'
<1>1. ProcTypes /\ PskTypes /\ AprsTypes /\ LogTypes /\ PskInv /\ CacheRight
  BY TypeParts DEF UpInv
<1>2. PICK s \in Stations, snr \in Snrs :
        /\ pending' = Append(pending, [call |-> s, snr |-> snr])
        /\ unsent' = [unsent EXCEPT ![s] = IF snr > @ THEN snr ELSE @]
  BY DEF PskReceive
<1>3. ProcTypes'
  BY <1>1, ConstFacts DEF PskReceive, ProcTypes
<1>4. AprsTypes' /\ LogTypes' /\ CacheRight'
  BY <1>1, AprsSame, LogSame DEF PskReceive
<1> DEFINE r == [call |-> s, snr |-> snr]
<1>5. r \in Report /\ r.call = s /\ r.snr = snr
  BY DEF Report
<1>6. pending \in Seq(Report) /\ unsent \in [Stations -> Snrs \union {Never}]
  BY <1>1 DEF PskTypes
<1> HIDE DEF r
<1>7. pending' \in Seq(Report)
  BY <1>2, <1>5, <1>6 DEF r
<1>8. unsent' \in [Stations -> Snrs \union {Never}]
  BY <1>2, <1>6
<1>9. PskTypes'
  BY <1>1, <1>7, <1>8 DEF PskTypes, PskReceive
<1>10. \A t \in Stations : IsBest(pending, t, unsent[t])
  BY <1>1 DEF PskInv, BestPending, PskReceive, Runs
<1>11. ASSUME NEW t \in Stations PROVE IsBest(pending', t, unsent'[t])
  <2>1. IsBest(pending, t, unsent[t]) /\ unsent[t] \in Snrs \union {Never}
    BY <1>6, <1>10
  <2>2. pending' = Append(pending, r)
    BY <1>2 DEF r
  <2>3. unsent'[t] = IF t = s THEN (IF r.snr > unsent[t] THEN r.snr ELSE unsent[t]) ELSE unsent[t]
    BY <1>2, <1>5, <1>6
  <2> QED BY <1>5, <1>6, <2>1, <2>2, <2>3, BestAppend
<1>12. BestPending'
  BY <1>11 DEF BestPending, IsBest
<1>13. PskInv'
  BY <1>1, <1>12 DEF PskInv, PacketIsBest, SeqIsReports, PskReceive
<1> QED BY <1>3, <1>4, <1>9, <1>13, UpJoin

LEMMA UploadKeeps ==
  ASSUME NEW sent \in BOOLEAN, UpInv, PskUpload(sent) PROVE UpInv'
<1>1. ProcTypes /\ PskTypes /\ AprsTypes /\ LogTypes /\ PskInv /\ CacheRight
  BY TypeParts DEF UpInv
<1>2. AprsTypes' /\ LogTypes' /\ CacheRight'
  BY <1>1, AprsSame, LogSame DEF PskUpload
<1> DEFINE toSend == DedupReports(pending)
           k      == ReportsInBlock(Cardinality(toSend))
           tmpl   == packets < First \/ tmplAge >= Hour
           len    == PacketLen(k, tmpl)
<1>3. ProcTypes'
  BY <1>1 DEF PskUpload, ProcTypes
<1>4. tmplAge' \in 0 .. Hour
  BY <1>1, ConstFacts DEF PskUpload, PskTypes
<1>5. alive /\ pending \in Seq(Report) /\ unsent \in [Stations -> Snrs \union {Never}]
  BY <1>1 DEF PskUpload, Runs, PskTypes
<1>6. \A t \in Stations : IsBest(pending, t, unsent[t])
  BY <1>1, <1>5 DEF PskInv, BestPending
<1>7. toSend = Owed
  BY <1>5, <1>6, DedupIsBest DEF Owed
<1>8. IsFiniteSet(toSend) /\ Cardinality(toSend) \in Nat
  BY <1>5, DedupFinite
<1>9. CASE sent
  <2>1. /\ len <= UdpMax /\ total' = total + k /\ seqNo' = seqNo + Count(toSend)
        /\ packets' = (IF packets < First THEN packets + 1 ELSE First)
        /\ pending' = << >> /\ unsent' = [s \in Stations |-> Never] /\ due' = Interval
        /\ \E sub \in kSubset(k, toSend) : packet' = [reports |-> sub, owed |-> Owed]
    BY <1>9 DEF PskUpload
  <2>2. k = Cardinality(toSend)
    BY <1>8, <2>1, NoneCutShort
  <2>3. packet' = [reports |-> toSend, owed |-> toSend]
    BY <1>5, <1>7, <2>1, <2>2, DedupFinite
  <2> HIDE DEF toSend, k, tmpl, len
  <2>4. PacketIsBest'
    BY <2>3 DEF PacketIsBest
  <2>5. SeqIsReports' /\ seqNo' \in Nat /\ total' \in Nat
    BY <1>1, <1>8, <2>1, <2>2 DEF SeqIsReports, PskInv, PskTypes, Count
  <2>6. BestPending'
    BY <2>1 DEF BestPending, IsBest
  <2>7. packets' \in 0 .. First
    BY <1>1, <2>1, ConstFacts DEF PskTypes
  <2>8. PskTypes'
    BY <1>4, <2>1, <2>5, <2>7, ConstFacts DEF PskTypes
  <2> QED BY <1>2, <1>3, <2>4, <2>5, <2>6, <2>8, UpJoin DEF PskInv
<1>10. CASE ~ sent
  <2>1. due' = Retry /\ UNCHANGED <<packet, total, seqNo, packets, pending, unsent>>
    BY <1>10 DEF PskUpload, RetryDue
  <2>2. PskTypes'
    BY <1>1, <1>4, <2>1, ConstFacts DEF PskTypes
  <2>3. PskInv'
    BY <1>1, <1>6, <2>1 DEF PskInv, PacketIsBest, BestPending, SeqIsReports, IsBest
  <2> QED BY <1>2, <1>3, <2>2, <2>3, UpJoin
<1> QED BY <1>9, <1>10

-----------------------------------------------------------------------------
(* aprs_uploader.py and the passing of time.                               *)
LEMMA AprsKeeps ==
  ASSUME UpInv, Aprs PROVE UpInv'
<1>1. ProcTypes /\ PskTypes /\ AprsTypes /\ LogTypes /\ PskInv /\ CacheRight
  BY TypeParts DEF UpInv
<1>2. UNCHANGED <<pskVars, logVars, program>>
  BY DEF Aprs, AprsReceive, AprsSpot, AprsKeepalive, ConnBreak, AprsSendFails, AprsSending,
         AprsSend, AprsDrained, Connect, Resend
<1>3. LogTypes' /\ CacheRight' /\ PskTypes'
  BY <1>1, <1>2, LogSame DEF PskTypes, pskVars
<1>4. ProcTypes' /\ (alive' => alive)
  <2>1. ASSUME NEW relay \in BOOLEAN, AprsReceive(relay) PROVE ProcTypes' /\ (alive' => alive)
    BY <1>1, <2>1, ConstFacts DEF ProcTypes, AprsReceive
  <2>2. ASSUME NEW r \in BOOLEAN, Resend(r) PROVE ProcTypes' /\ (alive' => alive)
    BY <1>1, <2>2 DEF ProcTypes, Resend, Runs
  <2>3. CASE AprsSpot \/ AprsKeepalive \/ ConnBreak \/ AprsSendFails \/ AprsSend \/ AprsDrained
             \/ Connect
    <3>1. UNCHANGED <<program, alive, received>>
      BY <2>3 DEF AprsSpot, AprsKeepalive, ConnBreak, AprsSendFails, AprsSend, AprsDrained, Connect
    <3> QED BY <1>1, <3>1 DEF ProcTypes
  <2> QED BY <2>1, <2>2, <2>3 DEF Aprs, AprsSending
<1>5. PskInv'
  BY <1>1, <1>2, <1>4 DEF PskInv, PacketIsBest, BestPending, SeqIsReports, IsBest, pskVars
<1>6. AprsTypes'
  <2>1. Returned \in {"spot", "idle"}
    BY DEF Returned
  <2>2. ASSUME NEW relay \in BOOLEAN, AprsReceive(relay) PROVE AprsTypes'
    BY <1>1, <2>2 DEF AprsReceive, AprsTypes
  <2>3. CASE AprsSpot
    <3>1. age' \in [Stations -> 0 .. Dedup]
      <4>1. 0 \in 0 .. Dedup /\ age \in [Stations -> 0 .. Dedup]
        BY <1>1, ConstFacts DEF AprsTypes
      <4>2. age' = age \/ age' = [age EXCEPT ![heard] = 0]
        BY <2>3 DEF AprsSpot
      <4> QED BY <4>1, <4>2
    <3>2. apc' \in {"idle", "send"} /\ line' \in {line, heard} /\ arrived' \in {arrived, FALSE}
          /\ UNCHANGED <<conn, heard>>
      BY <2>3 DEF AprsSpot
    <3> QED BY <1>1, <3>1, <3>2 DEF AprsTypes
  <2>4. CASE AprsKeepalive \/ ConnBreak \/ AprsSendFails
    BY <1>1, <2>4 DEF AprsKeepalive, ConnBreak, AprsSendFails, AprsTypes
  <2>5. CASE AprsSend \/ AprsDrained \/ Connect
    BY <1>1, <2>1, <2>5 DEF AprsSend, AprsDrained, Connect, AprsTypes
  <2>6. ASSUME NEW r \in BOOLEAN, Resend(r) PROVE AprsTypes'
    BY <1>1, <2>1, <2>6 DEF Resend, AprsTypes
  <2> QED BY <2>2, <2>3, <2>4, <2>5, <2>6 DEF Aprs, AprsSending
<1> QED BY <1>3, <1>4, <1>5, <1>6, UpJoin

LEMMA TickKeeps ==
  ASSUME UpInv, Tick PROVE UpInv'
<1>1. ProcTypes /\ PskTypes /\ AprsTypes /\ LogTypes /\ PskInv /\ CacheRight
  BY TypeParts DEF UpInv
<1>2. ProcTypes' /\ LogTypes' /\ CacheRight' /\ PskInv'
  BY <1>1, LogSame, PskSame DEF Tick, ProcTypes
<1>3. PskTypes'
  BY <1>1, ConstFacts DEF Tick, PskTypes
<1>4. AprsTypes'
  <2>1. age' \in [Stations -> 0 .. Dedup]
    <3>1. \A s \in Stations : age[s] \in 0 .. Dedup
      BY <1>1 DEF AprsTypes
    <3> QED BY <3>1, ConstFacts DEF Tick
  <2> QED BY <1>1, <2>1 DEF Tick, AprsTypes
<1> QED BY <1>2, <1>3, <1>4, UpJoin

-----------------------------------------------------------------------------
(***************************************************************************)
(* js8_logger.py                                                           *)
(***************************************************************************)
(* Evict keeps an entry or forgets one more than a window older.           *)
LEMMA EvictForgets ==
  ASSUME NEW c \in [Stations -> Stamp], NEW unix \in 0 .. MaxClock, NEW s \in Stations
  PROVE  /\ Evict(c, unix) \in [Stations -> Stamp]
         /\ \/ Evict(c, unix)[s] = c[s]
            \/ Evict(c, unix)[s] = Never /\ c[s] + Window < unix
<1>1. \A t \in Stations : c[t] \in Int /\ c[t] \in Stamp
  BY ConstFacts DEF Stamp
<1>2. Never \in Stamp /\ unix \in Int /\ Window \in Nat
  BY ConstFacts DEF Stamp
<1> HIDE DEF Stamp
<1>3. CASE Evict(c, unix) = c
  BY <1>3
<1>4. CASE Evict(c, unix) = [t \in Stations |-> IF c[t] >= unix - Window THEN c[t] ELSE Never]
  BY <1>1, <1>2, <1>4
<1> QED BY <1>3, <1>4 DEF Evict

(* A line logged: the station's entry is the new line's, and its timestamp *)
(* is more than a window, less the disorder, after the line before.        *)
LEMMA LogStep ==
  ASSUME LogTypes, CacheRight, LogReceive
  PROVE  /\ LogTypes' /\ CacheRight'
         /\ \A s \in Stations : logged'[s] # logged[s] /\ logged[s] # Never
                                  => logged'[s] - logged[s] > Window - Disorder
<1>1. PICK s \in Stations, unix \in clock - Disorder .. clock :
        /\ unix >= 0
        /\ cache[s] # Never => unix - cache[s] >= Window
        /\ cache' = Evict([cache EXCEPT ![s] = unix], unix)
        /\ logged' = [logged EXCEPT ![s] = unix]
  BY DEF LogReceive
<1>2. /\ clock \in 0 .. MaxClock /\ clock' = clock
      /\ cache \in [Stations -> Stamp] /\ logged \in [Stations -> Stamp]
  BY DEF LogTypes, LogReceive
<1>3. unix \in 0 .. MaxClock /\ unix <= clock /\ clock <= unix + Disorder
  BY <1>1, <1>2, ConstFacts
<1>4. unix \in Stamp /\ unix # Never
  BY <1>3, ConstFacts DEF Stamp
<1>5. \A t \in Stations : cache[t] \in Int /\ logged[t] \in Int
  BY <1>2, ConstFacts DEF Stamp
<1> HIDE DEF Stamp
<1> DEFINE c == [cache EXCEPT ![s] = unix]
<1>6. c \in [Stations -> Stamp] /\ c[s] = unix /\ \A t \in Stations : t # s => c[t] = cache[t]
  BY <1>2, <1>4
<1> HIDE DEF c
<1>7. /\ cache' \in [Stations -> Stamp]
      /\ \A t \in Stations : cache'[t] = c[t] \/ (cache'[t] = Never /\ c[t] + Window < unix)
  BY <1>1, <1>3, <1>6, EvictForgets DEF c
<1>8. /\ logged' \in [Stations -> Stamp] /\ logged'[s] = unix
      /\ \A t \in Stations : t # s => logged'[t] = logged[t]
  BY <1>1, <1>2, <1>4
<1>9. LogTypes'
  BY <1>2, <1>7, <1>8 DEF LogTypes
<1>10. cache'[s] = unix
  BY <1>3, <1>6, <1>7, ConstFacts
<1>11. ASSUME NEW t \in Stations PROVE LastLine(t)'
  <2>1. CASE t = s
    BY <2>1, <1>8, <1>10 DEF LastLine
  <2>2. CASE t # s
    <3>1. LastLine(t) /\ c[t] = cache[t] /\ logged'[t] = logged[t]
      BY <2>2, <1>6, <1>8 DEF CacheRight
    <3>2. CASE cache'[t] = cache[t]
      BY <3>1, <3>2, <1>2 DEF LastLine
    <3>3. CASE cache'[t] = Never /\ cache[t] + Window < unix
      <4>1. CASE cache[t] = logged[t]
        <5>1. CASE logged[t] = Never
          BY <3>1, <3>3, <5>1 DEF LastLine
        <5>2. CASE logged[t] # Never
          <6>1. logged[t] + Window < clock'
            BY <3>3, <4>1, <1>2, <1>3, <1>5, ConstFacts
          <6> QED BY <3>1, <3>3, <5>2, <6>1 DEF LastLine
        <5> QED BY <5>1, <5>2
      <4>2. CASE cache[t] = Never /\ logged[t] # Never /\ logged[t] + Window < clock
        BY <3>1, <3>3, <4>2, <1>2 DEF LastLine
      <4> QED BY <3>1, <4>1, <4>2 DEF LastLine
    <3> QED BY <3>1, <3>2, <3>3, <1>7
  <2> QED BY <2>1, <2>2
<1>12. CacheRight'
  BY <1>11 DEF CacheRight, LastLine
<1>13. ASSUME NEW t \in Stations, logged'[t] # logged[t], logged[t] # Never
       PROVE  logged'[t] - logged[t] > Window - Disorder
  <2>1. t = s /\ logged'[t] = unix
    BY <1>13, <1>8
  <2>2. LastLine(s)
    BY DEF CacheRight
  <2>3. CASE cache[s] = logged[s]
    <3>1. unix - logged[s] >= Window
      BY <2>1, <2>3, <1>1, <1>13
    <3> QED BY <2>1, <3>1, <1>3, <1>5, ConstFacts
  <2>4. CASE logged[s] + Window < clock
    BY <2>1, <2>4, <1>2, <1>3, <1>5, ConstFacts
  <2> QED BY <2>2, <2>3, <2>4 DEF LastLine
<1> QED BY <1>9, <1>12, <1>13

LEMMA LoggerKeeps ==
  ASSUME UpInv, Logger PROVE UpInv'
<1>1. ProcTypes /\ PskTypes /\ AprsTypes /\ LogTypes /\ PskInv /\ CacheRight
  BY TypeParts DEF UpInv
<1>2. UNCHANGED <<program, alive, received, pskVars, aprsVars>>
  BY DEF Logger, LogReceive, LogClock
<1>3. ProcTypes' /\ AprsTypes' /\ PskTypes' /\ PskInv'
  BY <1>1, <1>2, AprsSame, PskSame DEF ProcTypes, PskTypes, pskVars
<1>4. LogTypes' /\ CacheRight'
  <2>1. CASE LogReceive
    BY <1>1, <2>1, LogStep
  <2>2. CASE LogClock
    <3>1. clock' = clock + 1 /\ clock' \in 0 .. MaxClock /\ UNCHANGED <<cache, logged>>
      BY <1>1, <2>2, ConstFacts DEF LogClock, LogTypes
    <3>2. \A s \in Stations : logged[s] \in Int
      BY <1>1, ConstFacts DEF LogTypes, Stamp
    <3>3. ASSUME NEW s \in Stations PROVE LastLine(s)'
      <4>1. LastLine(s)
        BY <1>1 DEF CacheRight
      <4>2. logged[s] + Window < clock => logged[s] + Window < clock'
        BY <1>1, <3>1, <3>2, ConstFacts DEF LogTypes
      <4> QED BY <3>1, <4>1, <4>2 DEF LastLine
    <3>4. CacheRight'
      BY <3>3 DEF CacheRight, LastLine
    <3> QED BY <1>1, <3>1, <3>4 DEF LogTypes
  <2> QED BY <2>1, <2>2 DEF Logger
<1> QED BY <1>3, <1>4, UpJoin

-----------------------------------------------------------------------------
LEMMA UpStutter ==
  ASSUME UpInv, UNCHANGED uploadVars PROVE UpInv'
<1>1. ProcTypes /\ PskTypes /\ AprsTypes /\ LogTypes /\ PskInv /\ CacheRight
  BY TypeParts DEF UpInv
<1>2. ProcTypes' /\ AprsTypes' /\ PskTypes' /\ PskInv' /\ LogTypes' /\ CacheRight'
  BY <1>1, AprsSame, PskSame, LogSame DEF ProcTypes, PskTypes, pskVars, uploadVars
<1> QED BY <1>2, UpJoin

LEMMA UpNext == UpInv /\ [UploadNext]_uploadVars => UpInv'
<1> SUFFICES ASSUME UpInv, [UploadNext]_uploadVars PROVE UpInv'
  OBVIOUS
<1>1. CASE Psk
  BY <1>1, ReceiveKeeps, UploadKeeps DEF Psk
<1>2. CASE Aprs
  BY <1>2, AprsKeeps
<1>3. CASE Logger
  BY <1>3, LoggerKeeps
<1>4. CASE Tick
  BY <1>4, TickKeeps
<1>5. CASE UNCHANGED uploadVars
  BY <1>5, UpStutter
<1> QED BY <1>1, <1>2, <1>3, <1>4, <1>5 DEF UploadNext

LEMMA UpSafe == UploadSpec => []UpInv
<1> QED BY UpInit, UpNext, PTL DEF UploadSpec

(* ReportsRight: in every packet psk_uploader.py sends there is exactly    *)
(* one report, with the best SNR, of each station heard since it was last  *)
(* sent, whatever uploads failed before; what was not sent is pending; and *)
(* seq counts the reports sent.                                            *)
THEOREM ReportsStayRight == UploadSpec => []ReportsRight
<1>1. UpInv => ReportsRight
  <2> SUFFICES ASSUME UpInv PROVE ReportsRight
    OBVIOUS
  <2>1. pending \in Seq(Report) /\ unsent \in [Stations -> Snrs \union {Never}]
    BY TypeParts DEF UpInv, PskTypes
  <2>2. ASSUME alive, NEW s \in Stations
        PROVE  unsent[s] = IF \E i \in DOMAIN pending : pending[i].call = s
                           THEN Max({r.snr : r \in {q \in ToSet(pending) : q.call = s}})
                           ELSE Never
    <3>1. IsBest(pending, s, unsent[s]) /\ unsent[s] \in Snrs \union {Never}
      BY <2>1, <2>2 DEF UpInv, PskInv, BestPending
    <3> QED BY <2>1, <3>1, BestIsMax
  <2>3. UnsentIsPending
    BY <2>2 DEF UnsentIsPending
  <2> QED BY <2>3 DEF ReportsRight, UpInv, PskInv
<1> QED BY <1>1, UpSafe, PTL

(* LinesApart: js8_logger.py writes no two lines of a station closer than  *)
(* a window less the disorder of the decodes, although a full cache        *)
(* forgets entries.                                                        *)
THEOREM LinesStayApart == UploadSpec => LinesApart
<1> DEFINE Apart == \A s \in Stations : logged'[s] # logged[s] /\ logged[s] # Never
                                          => logged'[s] - logged[s] > Window - Disorder
<1>1. UpInv /\ [UploadNext]_uploadVars => [Apart]_uploadVars
  <2> SUFFICES ASSUME UpInv, UploadNext PROVE Apart
    OBVIOUS
  <2>1. LogTypes /\ CacheRight
    BY TypeParts DEF UpInv
  <2>2. CASE LogReceive
    BY <2>1, <2>2, LogStep
  <2>3. CASE UNCHANGED logged
    BY <2>3
  <2>4. LogReceive \/ UNCHANGED logged
    BY DEF UploadNext, Psk, PskReceive, PskUpload, Logger, LogClock, Tick, Aprs, AprsReceive, AprsSpot,
           AprsKeepalive, ConnBreak, AprsSendFails, AprsSending, AprsSend, AprsDrained, Connect,
           Resend, logVars
  <2> QED BY <2>2, <2>3, <2>4
<1>2. UploadSpec => []UpInv
  BY UpSafe
<1>3. UploadSpec => [][UploadNext]_uploadVars
  BY DEF UploadSpec
<1>4. UploadSpec => [][Apart]_uploadVars
  BY <1>1, <1>2, <1>3, PTL
<1> QED BY <1>4 DEF LinesApart

=============================================================================
