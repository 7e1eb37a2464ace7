------------------------------ MODULE FT8Decode ------------------------------
(***************************************************************************)
(* gm::hf::FT8: the decode callback that FT8Cuda's worker runs on every    *)
(* scan result, the window in which it keeps the strongest spot of each    *)
(* message, and the refine worker that retries failed candidates on a      *)
(* thread of its own and reports into the same window.                     *)
(*                                                                         *)
(* What the decoders would make of a candidate is part of the candidate:   *)
(* bp is a message, "bad" (the codeword is no message) or "fail" (go on to *)
(* OSD); osd and ref are a message or "bad".  Times are scan timestamps in *)
(* units small enough to tell windows apart.  The load readout, the timing *)
(* log and the LLR capture files are left out.                             *)
(***************************************************************************)
EXTENDS Integers, Sequences, FiniteSets, FiniteSetsExt

CONSTANTS
  Texts,       \* messages
  Candidates,  \* what a scan may report
  TopK,        \* kContTopKCandidates: candidates decoded per scan
  Osd,         \* osd_enable_
  OsdFloor,    \* osd_score_floor_
  OsdMax,      \* osd_max_per_cycle_
  Refine,      \* refine_enable_
  RefineMax,   \* kRefineMaxPerCycle: jobs per scan
  QueueMax,    \* kRefineQueueMax
  Window,      \* 15 seconds
  Once,        \* hf_rx was started with --playback-once
  MaxTime,     \* bound: the last timestamp
  MaxScans     \* bound: scans with candidates

Message == Texts \cup {"bad"}

ASSUME FT8Assumption ==
  /\ Candidates \subseteq [bin : Nat, score : Nat, bp : Message \cup {"fail"},
                           osd : Message, ref : Message]
  /\ {TopK, OsdMax, QueueMax, Window} \subseteq Nat \ {0}
  /\ {OsdFloor, RefineMax, MaxTime, MaxScans} \subseteq Nat
  /\ Texts \cap {"bad", "fail"} = {}
  /\ {Osd, Refine, Once} \subseteq BOOLEAN

VARIABLES
  clock,       \* timestamp of the newest scan
  scans,       \* history: scans with candidates
  spc,         \* where the callback is
  now,         \* r.timestamp
  todo,        \* candidates pass 1 has still to look at
  failed,      \* osd_fail, and after the gate the candidates of pass 2
  used,        \* refine_used
  window,      \* window_buf_: a set of spots, at most one per text
  windowStart, \* window_start_, 0 before the first scan with candidates
  flushing,    \* flushWindow's buf, what is not yet published
  ws,          \* ws_client_ is connected
  queue,       \* refine_q_
  job,         \* the refine worker's job, << >> when it has none
  gen,         \* history: windows flushed
  starts,      \* history: when each window began
  published,   \* history: the spots published
  decoded,     \* history: the spots decoded
  exited       \* the process has ended

scanVars == <<clock, scans, spc, now, todo, failed, used>>
winVars  == <<window, windowStart, gen, starts>>
outVars  == <<flushing, ws, published>>
refVars  == <<queue, job>>
vars == <<scanVars, winVars, outVars, refVars, decoded, exited>>

Init ==
  /\ clock = 1 /\ scans = 0 /\ spc = "idle" /\ now = 0
  /\ todo = {} /\ failed = {} /\ used = 0
  /\ window = {} /\ windowStart = 0 /\ gen = 0 /\ starts = << >>
  /\ flushing = {} /\ ws \in BOOLEAN /\ published = {}
  /\ queue = << >> /\ job = << >>
  /\ decoded = {} /\ exited = FALSE

-----------------------------------------------------------------------------
(* publishSpot: a message's spot is replaced by a stronger one.  A spot    *)
(* remembers the window it was put in and who decoded it.                  *)

Spot(text, c, time, who) ==
  [text |-> text, snr |-> c.score, bin |-> c.bin, time |-> time, gen |-> gen, who |-> who]

(* Mutants of Keep: the newest spot is kept, and a map keyed by the        *)
(* message and its bin.                                                    *)
KeepNewest(s) == {o \in window : o.text # s.text} \cup {s}

KeepPerBin(s) ==
  LET same == {o \in window : o.text = s.text /\ o.bin = s.bin} IN
  IF \E o \in same : o.snr >= s.snr THEN window ELSE (window \ same) \cup {s}

Keep(s) ==
  IF \E o \in window : o.text = s.text /\ o.snr >= s.snr
  THEN window
  ELSE {o \in window : o.text # s.text} \cup {s}

PublishSpot(text, c, time, who) ==
  /\ window' = Keep(Spot(text, c, time, who))
  /\ decoded' = decoded \cup {Spot(text, c, time, who)}
  /\ UNCHANGED <<windowStart, gen, starts>>

NoSpot == UNCHANGED <<winVars, decoded>>

-----------------------------------------------------------------------------
(* decodeAndPublishContinuous, entered with the candidates cands of a scan *)
(* at time t.                                                              *)

(* The candidates that are decoded: TopK of the highest score.             *)
Selections(cands) ==
  {s \in SUBSET cands :
     /\ Cardinality(s) = IF Cardinality(cands) > TopK THEN TopK ELSE Cardinality(cands)
     /\ \A c \in s, d \in cands \ s : c.score >= d.score}

ScanEmpty(t) ==
  /\ spc = "idle" /\ t >= clock
  /\ clock' = t /\ now' = t
  /\ UNCHANGED <<scans, spc, todo, failed, used, winVars, outVars, refVars, decoded, exited>>

(* The first window starts with the first candidates.                      *)
Start(t) == IF windowStart = 0 THEN t ELSE windowStart
Starts(t) == IF windowStart = 0 THEN <<t>> ELSE starts

Begin(cands, t) ==
  /\ spc = "idle" /\ t >= clock /\ cands # {} /\ scans < MaxScans
  /\ clock' = t /\ now' = t /\ scans' = scans + 1
  /\ todo' \in Selections(cands)
  /\ failed' = {} /\ used' = 0
  /\ UNCHANGED <<refVars, decoded, exited, ws, published>>

(* Mutant of ScanBegin: an expired window goes on.                         *)
ScanBeginExpired(cands, t) ==
  /\ Begin(cands, t)
  /\ windowStart' = Start(t) /\ starts' = Starts(t)
  /\ spc' = "pass1"
  /\ UNCHANGED <<window, gen, flushing>>

ScanBegin(cands, t) ==
  /\ Begin(cands, t)
  /\ t - Start(t) < Window
  /\ windowStart' = Start(t) /\ starts' = Starts(t)
  /\ spc' = "pass1"
  /\ UNCHANGED <<window, gen, flushing>>

(* flushWindow: the window is taken out under its lock, and published one  *)
(* spot after the other while the refine worker may fill the next one.     *)
ScanFlush(cands, t) ==
  /\ Begin(cands, t)
  /\ t - Start(t) >= Window
  /\ flushing' = window /\ window' = {}
  /\ windowStart' = t /\ gen' = gen + 1 /\ starts' = Append(starts, t)
  /\ spc' = "flush"

(* publishDecoded: to ZMQ, and to wsdict unless a send has failed before;  *)
(* a failing one ends the connection for good.                             *)
Flush ==
  /\ spc = "flush"
  /\ \E s \in flushing :
       /\ published' = published \cup {s}
       /\ flushing' = flushing \ {s}
  /\ ws' \in IF ws THEN BOOLEAN ELSE {FALSE}
  /\ UNCHANGED <<scanVars, winVars, refVars, decoded, exited>>

Flushed ==
  /\ spc = "flush" /\ flushing = {}
  /\ spc' = "pass1"
  /\ UNCHANGED <<clock, scans, now, todo, failed, used, winVars, outVars, refVars, decoded,
                 exited>>

(* Pass 1: BP on each candidate.                                           *)
PassOne(c) ==
  /\ spc = "pass1"
  /\ todo' = todo \ {c}
  /\ IF c.bp \in Texts THEN PublishSpot(c.bp, c, now, "scan") ELSE NoSpot
  /\ failed' = IF c.bp = "fail" /\ Osd /\ c.score >= OsdFloor
               THEN failed \cup {c} ELSE failed
  /\ UNCHANGED <<clock, scans, spc, now, used, outVars, refVars, exited>>

(* The gate of pass 2: the best failure of each bin, the OsdMax strongest  *)
(* of these.                                                               *)
Gated(fails) ==
  {s \in SUBSET fails :
     LET bins == {c.bin : c \in fails} IN
     /\ Cardinality(s) = Min({OsdMax, Cardinality(bins)})
     /\ \A c, d \in s : c.bin = d.bin => c = d
     /\ \A c \in s, d \in fails : d.bin = c.bin => c.score >= d.score
     /\ \A c \in s, d \in fails : d.bin \notin {e.bin : e \in s} => c.score >= d.score}

PassTwoStart ==
  /\ spc = "pass1" /\ todo = {}
  /\ failed' \in Gated(failed)
  /\ spc' = "pass2"
  /\ UNCHANGED <<clock, scans, now, todo, used, winVars, outVars, refVars, decoded, exited>>

(* Pass 2: OSD, the strongest first; what it cannot decode is queued for   *)
(* the refine worker, which drops the oldest job when the queue is full.   *)

(* Mutant of Push: no limit.                                               *)
PushUnbounded(q, j) == Append(q, j)

Push(q, j) == Append(IF Len(q) >= QueueMax THEN Tail(q) ELSE q, j)

PassTwo(c) ==
  /\ spc = "pass2"
  /\ \A d \in failed : c.score >= d.score
  /\ failed' = failed \ {c}
  /\ IF c.osd \in Texts
     THEN /\ PublishSpot(c.osd, c, now, "scan")
          /\ UNCHANGED <<used, queue>>
     ELSE /\ IF Refine /\ used < RefineMax
             THEN used' = used + 1 /\ queue' = Push(queue, [cand |-> c, time |-> now])
             ELSE UNCHANGED <<used, queue>>
          /\ NoSpot
  /\ UNCHANGED <<clock, scans, spc, now, todo, outVars, job, exited>>

Return ==
  /\ spc = "pass2" /\ failed = {}
  /\ spc' = "idle"
  /\ UNCHANGED <<clock, scans, now, todo, failed, used, winVars, outVars, refVars, decoded,
                 exited>>

-----------------------------------------------------------------------------
(* refineWorker.                                                           *)

RefineTake ==
  /\ job = << >> /\ queue # << >>
  /\ job' = <<Head(queue)>> /\ queue' = Tail(queue)
  /\ UNCHANGED <<scanVars, winVars, outVars, decoded, exited>>

RefineDone ==
  /\ job # << >>
  /\ IF job[1].cand.ref \in Texts
     THEN PublishSpot(job[1].cand.ref, job[1].cand, job[1].time, "refine")
     ELSE NoSpot
  /\ job' = << >>
  /\ UNCHANGED <<scanVars, outVars, queue, exited>>

(* --playback-once: three seconds after the file has been fed the process  *)
(* exits, whatever the two threads are doing by then.                      *)
Exit ==
  /\ Once
  /\ exited' = TRUE
  /\ UNCHANGED <<scanVars, winVars, outVars, refVars, decoded>>

Scan ==
  \/ \E t \in 1 .. MaxTime :
       \/ ScanEmpty(t)
       \/ \E cands \in SUBSET Candidates : ScanBegin(cands, t) \/ ScanFlush(cands, t)
  \/ Flush \/ Flushed
  \/ \E c \in todo : PassOne(c)
  \/ PassTwoStart
  \/ \E c \in failed : PassTwo(c)
  \/ Return

Next == ~exited /\ (Scan \/ RefineTake \/ RefineDone \/ Exit)

Spec == Init /\ [][Next]_vars

-----------------------------------------------------------------------------
Spots == [text : Texts, snr : Nat, bin : Nat, time : Nat, gen : Nat, who : {"scan", "refine"}]
Jobs == [cand : Candidates, time : Nat]

(* Types, and the refine queue and the jobs of a scan stay within the      *)
(* limits that FT8::decodeAndPublishContinuous sets them.                  *)
TypeOK ==
  /\ clock \in Nat /\ scans \in Nat /\ now \in Nat /\ used \in 0 .. RefineMax
  /\ spc \in {"idle", "flush", "pass1", "pass2"}
  /\ todo \subseteq Candidates /\ failed \subseteq Candidates
  /\ window \subseteq Spots /\ flushing \subseteq Spots
  /\ published \subseteq Spots /\ decoded \subseteq Spots
  /\ windowStart \in Nat /\ gen \in Nat /\ starts \in Seq(Nat)
  /\ ws \in BOOLEAN /\ exited \in BOOLEAN
  /\ queue \in Seq(Jobs) /\ Len(queue) <= QueueMax
  /\ job \in Seq(Jobs) /\ Len(job) <= 1

(* No spot is lost and the strongest wins: of the spots decoded in a       *)
(* window, by either thread, each one's message is in the window, or about *)
(* to be published from it, or published, with at least its strength.      *)
BestOfWindow ==
  \A d \in decoded : \E s \in window \cup flushing \cup published :
    s.text = d.text /\ s.gen = d.gen /\ s.snr >= d.snr

(* A message is published once per window, also when both threads decode   *)
(* it.                                                                     *)
OncePerWindow ==
  \A s, o \in window \cup flushing \cup published :
    s.text = o.text /\ s.gen = o.gen => s = o

(* A spot that the scan puts in a window was received in it: a window is   *)
(* flushed before the scan that ends it adds to the next one.              *)
SpotsInWindow ==
  \A d \in decoded : d.who = "scan" =>
    starts[d.gen + 1] <= d.time /\ d.time < starts[d.gen + 1] + Window

(* Both threads have finished with everything that was handed to them.     *)
Drained == spc = "idle" /\ queue = << >> /\ job = << >>

(* What runPipeline's comment promises of --playback-once: it lets the     *)
(* pipeline drain and exits cleanly.  Even when the three seconds were     *)
(* enough for both threads to finish, every message decoded should have    *)
(* been published, with the best strength either thread gave it.           *)
DrainedAtExit ==
  exited /\ Drained => \A d \in decoded :
    \E s \in published : s.text = d.text /\ s.gen = d.gen /\ s.snr >= d.snr

=============================================================================
