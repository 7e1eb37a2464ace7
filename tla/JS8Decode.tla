------------------------------ MODULE JS8Decode ------------------------------
(***************************************************************************)
(* gm::hf::JS8: the decode callback that JS8Cuda's worker runs on every    *)
(* scan result, the refine worker that retries failed candidates, and the  *)
(* per-epoch set of published messages that both share under pub_mu_.      *)
(*                                                                         *)
(* What the decoders would make of a candidate is part of the candidate:   *)
(* sp is a message, "bad" (converged, but the CRC fails or the message is  *)
(* empty) or "fail" (go on to OSD); osd and ref are a message or "bad".    *)
(* The LLR capture file is left out.                                       *)
(***************************************************************************)
EXTENDS Integers, Sequences, FiniteSets, FiniteSetsExt

CONSTANTS
  Texts,       \* messages
  WithCall,    \* those that name their sender
  Candidates,  \* what a scan may report
  Osd,         \* osd_enable_
  OsdFloor,    \* osd_score_floor_
  OsdMax,      \* osd_max_per_cycle_
  RefineMax,   \* kRefineMaxPerCycle: jobs per scan
  QueueMax,    \* kRefineQueueMax
  Cycle,       \* cycle_secs_: the length of an epoch
  MaxTime,     \* bound: the last time
  MaxScans     \* bound: scans with candidates

Message == Texts \cup {"bad"}

ASSUME JS8Assumption ==
  /\ Candidates \subseteq [bin : Nat, score : Nat, sp : Message \cup {"fail"},
                           osd : Message, ref : Message]
  /\ {OsdMax, QueueMax, Cycle} \subseteq Nat \ {0}
  /\ {OsdFloor, RefineMax, MaxTime, MaxScans} \subseteq Nat
  /\ Texts \cap {"bad", "fail"} = {} /\ WithCall \subseteq Texts
  /\ Osd \in BOOLEAN

Threads == {"scan", "refine"}

VARIABLES
  refine,    \* refine_enable_, set once at start-up
  clock,     \* the wall clock
  scans,     \* history: scans with candidates
  spc,       \* where the callback is
  now,       \* its unix_now
  todo,      \* candidates pass 1 has still to look at
  failed,    \* the candidates of pass 2
  used,      \* refine_used
  lastEpoch, \* last_epoch_
  seen,      \* seen_this_epoch_
  out,       \* per thread: the message it is publishing, if any
  opc,       \* per thread: where publishDecoded is
  ws,        \* ws_client_ is not null
  crashed,   \* a null ws_client_ has been dereferenced
  queue,     \* refine_q_
  job,       \* the refine worker's job, if any
  published, \* history: what was published
  decoded    \* history: what the scan decoded

scanVars == <<scans, spc, now, todo, failed, used>>
pubVars  == <<opc, ws, crashed, published>>
refVars  == <<refine, queue, job>>
vars == <<clock, scanVars, lastEpoch, seen, out, pubVars, refVars, decoded>>

Init ==
  /\ clock = Cycle /\ scans = 0 /\ spc = "idle" /\ now = 0
  /\ todo = {} /\ failed = {} /\ used = 0
  /\ lastEpoch = 0 /\ seen = {}
  /\ out = [t \in Threads |-> << >>] /\ opc = [t \in Threads |-> "zmq"]
  /\ ws \in BOOLEAN /\ crashed = FALSE
  /\ refine \in BOOLEAN /\ queue = << >> /\ job = << >>
  /\ published = << >> /\ decoded = {}

EpochOf(time) == time \div Cycle

Tick ==
  /\ clock < MaxTime
  /\ clock' = clock + 1
  /\ UNCHANGED <<scanVars, lastEpoch, seen, out, pubVars, refVars, decoded>>

-----------------------------------------------------------------------------
(* publishCandidateCore of a message that passed its checks: the first of  *)
(* its key in the set goes on to publishDecoded.                           *)

Key(text, bin) == <<text, bin>>
Rec(t, text, bin, time) ==
  [by |-> t, text |-> text, bin |-> bin, time |-> time, gen |-> lastEpoch]

(* Mutant of PublishCandidate: what the refine worker finds is not put in. *)
PublishCandidateUnseen(t, text, bin, time) ==
  /\ seen' = IF t = "refine" THEN seen ELSE seen \cup {Key(text, bin)}
  /\ out' = [out EXCEPT ![t] = IF Key(text, bin) \in seen THEN << >>
                               ELSE <<Rec(t, text, bin, time)>>]

PublishCandidate(t, text, bin, time) ==
  /\ seen' = seen \cup {Key(text, bin)}
  /\ out' = [out EXCEPT ![t] = IF Key(text, bin) \in seen THEN << >>
                               ELSE <<Rec(t, text, bin, time)>>]

(* publishDecoded, outside the lock: to ZMQ, then to wsdict if there is a  *)
(* client, which is looked at before ws_mutex_ is taken.                   *)
SendZmq(t) ==
  /\ opc[t] = "zmq" /\ out[t] # << >>
  /\ published' = published \o out[t]
  /\ opc' = [opc EXCEPT ![t] = IF ws /\ out[t][1].text \in WithCall THEN "ws" ELSE "zmq"]
  /\ out' = [out EXCEPT ![t] = << >>]
  /\ UNCHANGED <<clock, scanVars, lastEpoch, seen, ws, crashed, refVars, decoded>>

(* set_with_ttl under ws_mutex_; when it fails the client is reset.        *)
SendWs(t) ==
  /\ opc[t] = "ws"
  /\ crashed' = (crashed \/ ~ws)
  /\ ws' \in IF ws THEN BOOLEAN ELSE {FALSE}
  /\ opc' = [opc EXCEPT ![t] = "zmq"]
  /\ UNCHANGED <<clock, scanVars, lastEpoch, seen, out, published, refVars, decoded>>

Publishing(t) == out[t] # << >> \/ opc[t] = "ws"

-----------------------------------------------------------------------------
(* decodeAndPublishContinuous.                                             *)

(* Mutant of NewEpoch: only the first epoch is noticed.                    *)
NewEpochOnce ==
  IF lastEpoch = 0
  THEN lastEpoch' = EpochOf(clock) /\ seen' = {}
  ELSE UNCHANGED <<lastEpoch, seen>>

NewEpoch ==
  /\ lastEpoch' = EpochOf(clock)
  /\ seen' = IF EpochOf(clock) # lastEpoch THEN {} ELSE seen

ScanBegin(cands) ==
  /\ spc = "idle" /\ cands # {} /\ scans < MaxScans
  /\ now' = clock /\ scans' = scans + 1
  /\ NewEpoch
  /\ todo' = {c \in cands : c.sp # "fail"}
  /\ failed' = {c \in cands : c.sp = "fail" /\ c.score >= OsdFloor}
  /\ used' = 0
  /\ spc' = "pass1"
  /\ UNCHANGED <<clock, out, pubVars, refVars, decoded>>

(* Pass 1: the candidates the GPU decoder converged on.                    *)
PassOne(c) ==
  /\ spc = "pass1" /\ ~Publishing("scan")
  /\ todo' = todo \ {c}
  /\ IF c.sp \in Texts
     THEN /\ PublishCandidate("scan", c.sp, c.bin, now)
          /\ decoded' = decoded \cup {<<c.sp, c.bin, EpochOf(now)>>}
     ELSE UNCHANGED <<seen, out, decoded>>
  /\ UNCHANGED <<clock, scans, spc, now, failed, used, lastEpoch, pubVars, refVars>>

(* The gate of pass 2: the best failure of each bin, the OsdMax strongest  *)
(* of these.                                                               *)
Gated(fails) ==
  {s \in SUBSET fails :
     LET bins == {c.bin : c \in fails} IN
     /\ Cardinality(s) = Min({OsdMax, Cardinality(bins)})
     /\ \A c, d \in s : c.bin = d.bin => c = d
     /\ \A c \in s, d \in fails :
          d.bin = c.bin \/ d.bin \notin {e.bin : e \in s} => c.score >= d.score}

PassTwoStart ==
  /\ spc = "pass1" /\ todo = {} /\ ~Publishing("scan")
  /\ IF Osd THEN failed' \in Gated(failed) ELSE failed' = {}
  /\ spc' = "pass2"
  /\ UNCHANGED <<clock, scans, now, todo, used, lastEpoch, seen, out, pubVars, refVars, decoded>>

(* Pass 2: OSD, the strongest first; what it cannot decode is queued for   *)
(* the refine worker, and a full queue drops its oldest job.               *)
Push(q, j) == Append(IF Len(q) >= QueueMax THEN Tail(q) ELSE q, j)

PassTwo(c) ==
  /\ spc = "pass2" /\ ~Publishing("scan")
  /\ \A d \in failed : c.score >= d.score
  /\ failed' = failed \ {c}
  /\ IF c.osd \in Texts
     THEN /\ PublishCandidate("scan", c.osd, c.bin, now)
          /\ decoded' = decoded \cup {<<c.osd, c.bin, EpochOf(now)>>}
          /\ UNCHANGED <<used, queue>>
     ELSE /\ IF refine /\ used < RefineMax
             THEN used' = used + 1 /\ queue' = Push(queue, [cand |-> c, time |-> now])
             ELSE UNCHANGED <<used, queue>>
          /\ UNCHANGED <<seen, out, decoded>>
  /\ UNCHANGED <<clock, scans, spc, now, todo, lastEpoch, pubVars, refine, job>>

Return ==
  /\ spc = "pass2" /\ failed = {} /\ ~Publishing("scan")
  /\ spc' = "idle"
  /\ UNCHANGED <<clock, scans, now, todo, failed, used, lastEpoch, seen, out, pubVars, refVars,
                 decoded>>

-----------------------------------------------------------------------------
(* refineWorker.                                                           *)

RefineTake ==
  /\ job = << >> /\ queue # << >> /\ ~Publishing("refine")
  /\ job' = <<Head(queue)>> /\ queue' = Tail(queue)
  /\ UNCHANGED <<refine, clock, scanVars, lastEpoch, seen, out, pubVars, decoded>>

RefineDone ==
  /\ job # << >>
  /\ LET c == job[1].cand IN
       IF c.ref \in Texts
       THEN PublishCandidate("refine", c.ref, c.bin, job[1].time)
       ELSE UNCHANGED <<seen, out>>
  /\ job' = << >>
  /\ UNCHANGED <<clock, scanVars, lastEpoch, pubVars, refine, queue, decoded>>

Scan ==
  \/ \E cands \in SUBSET Candidates : ScanBegin(cands)
  \/ \E c \in todo : PassOne(c)
  \/ PassTwoStart
  \/ \E c \in failed : PassTwo(c)
  \/ Return

Next ==
  /\ ~crashed
  /\ \/ Tick
     \/ Scan
     \/ RefineTake \/ RefineDone
     \/ \E t \in Threads : SendZmq(t) \/ SendWs(t)

Spec == Init /\ [][Next]_vars

-----------------------------------------------------------------------------
Recs == [by : Threads, text : Texts, bin : Nat, time : Nat, gen : Nat]
Jobs == [cand : Candidates, time : Nat]

(* Types, and the refine queue and the jobs of a scan stay within the      *)
(* limits that JS8's decode callback sets them.                            *)
TypeOK ==
  /\ clock \in Nat /\ scans \in Nat /\ now \in Nat /\ used \in 0 .. RefineMax
  /\ spc \in {"idle", "pass1", "pass2"}
  /\ todo \subseteq Candidates /\ failed \subseteq Candidates
  /\ lastEpoch \in Nat /\ seen \subseteq Texts \X Nat
  /\ out \in [Threads -> Seq(Recs)] /\ opc \in [Threads -> {"zmq", "ws"}]
  /\ ws \in BOOLEAN /\ crashed \in BOOLEAN /\ refine \in BOOLEAN
  /\ queue \in Seq(Jobs) /\ Len(queue) <= QueueMax
  /\ job \in Seq(Jobs) /\ Len(job) <= 1
  /\ published \in Seq(Recs) /\ decoded \subseteq Texts \X Nat \X Nat

(* All that was published, or is being published by some thread.           *)
Outgoing == published \o out["scan"] \o out["refine"]

Same(r, s) == r.text = s.text /\ r.bin = s.bin

(* Between two clearings of the set, whichever threads decode a message,   *)
(* one of them publishes it: not two ...                                   *)
OncePerClearing ==
  \A i, j \in DOMAIN Outgoing :
    i # j /\ Same(Outgoing[i], Outgoing[j]) => Outgoing[i].gen # Outgoing[j].gen

(* ... and not none.                                                       *)
SeenIsPublished ==
  \A k \in seen : \E i \in DOMAIN Outgoing :
    k = Key(Outgoing[i].text, Outgoing[i].bin) /\ Outgoing[i].gen = lastEpoch

(* Between two clearings of seen_this_epoch_ exactly one of the threads    *)
(* that decode a message publishes it, and the refine queue keeps its      *)
(* limit.                                                                  *)
OnePublishes == TypeOK /\ OncePerClearing /\ SeenIsPublished

(* What a scan decodes was published, or is about to be, since the set was *)
(* cleared for that scan's own epoch: decodeAndPublishContinuous never     *)
(* suppresses a message for an earlier epoch's sake ...                    *)
HeardInEpoch ==
  \A d \in decoded : \E i \in DOMAIN Outgoing :
    Outgoing[i].text = d[1] /\ Outgoing[i].bin = d[2] /\ Outgoing[i].gen = d[3]

(* ... and a message goes out a second time with a time of the same epoch  *)
(* only when the refine worker finished a job of an epoch that was over.   *)
RepeatsAreLate ==
  \A i, j \in DOMAIN Outgoing :
    /\ i # j /\ Same(Outgoing[i], Outgoing[j])
    /\ EpochOf(Outgoing[i].time) = EpochOf(Outgoing[j].time)
    => \E k \in {i, j} :
         Outgoing[k].by = "refine" /\ EpochOf(Outgoing[k].time) < Outgoing[k].gen

(* With the refine worker or without it, every message that a scan decodes *)
(* is published for its epoch, and repeats within an epoch are the refine  *)
(* worker's late ones.                                                     *)
EpochRight == HeardInEpoch /\ RepeatsAreLate

(* What publishCandidateCore's comment says of the set: the same message   *)
(* and frequency is not published twice within one epoch.  The code does   *)
(* not keep it: a job that the refine worker finishes after the set was    *)
(* cleared for the next epoch is published again with its old time.        *)
OncePerEpoch ==
  \A i, j \in DOMAIN Outgoing :
    i # j /\ Same(Outgoing[i], Outgoing[j])
    => EpochOf(Outgoing[i].time) # EpochOf(Outgoing[j].time)

=============================================================================
