-------------------------------- MODULE Tci ---------------------------------
(***************************************************************************)
(* The TCI server (wsserver/src/tci.rs) with the threads of HFChannelizer  *)
(* it serves.  Per connection a handler task executes commands and a       *)
(* writer task drains a bounded channel into the socket.  Audio frames and *)
(* S-meter texts are offered to the channel and dropped when it is full;   *)
(* the echo of a command is sent by a task of its own that waits for room. *)
(* VFO commands go through a queue to tciVfoWorker, which tunes a sink;    *)
(* cmdWorker tunes the same sinks for the browser and publishes what it    *)
(* tuned.                                                                  *)
(*                                                                         *)
(* An echo is its command's number on the connection, an audio frame the   *)
(* number of its last block.  Gains, headers and texts are left out.       *)
(***************************************************************************)
EXTENDS Integers, Sequences, FiniteSets

CONSTANTS
  Conns,      \* connections, each used once (NEXT_CONN_ID)
  Sinks,      \* receivers, 0 .. NUM_SINKS - 1
  BadTrx,     \* receiver numbers out of range that a client may name
  Depth,      \* CHAN_DEPTH
  Raw,        \* frequencies a client may ask for, in Hz
  Step,       \* Hz per bin (100)
  FftBins,    \* bins of the front FFT
  AudioBins,  \* AUDIO_BINS: bins a sink reads from its start bin
  MinHz,      \* 1 MHz
  Default,    \* DEFAULT_VFO_HZ and the constructor's sink_bins, in Hz
  MaxCmds,    \* bound: commands with an echo per connection
  MaxBlocks   \* bound: audio blocks per sink

MaxHz == (FftBins - AudioBins) * Step   \* 69 952 000

ASSUME TciAssumption ==
  /\ Depth \in Nat \ {0} /\ Step \in Nat \ {0} /\ {FftBins, AudioBins} \subseteq Nat
  /\ MinHz \in Nat /\ MinHz <= MaxHz /\ Default \in MinHz .. MaxHz
  /\ Raw \cup Sinks \subseteq Nat /\ Sinks \cap BadTrx = {}

VARIABLES
  stage,      \* life of a connection
  writer,     \* its writer task
  chan,       \* its channel
  spawned,    \* reliable_send tasks that have not run
  waitq,      \* those waiting for room, the channel's own order
  granted,    \* those given room that have not run again
  allSubs, audioSubs,
  sent, got,  \* commands with an echo, and the echoes the client has
  wants,      \* sinks whose audio the client started last
  lastFrame,  \* newest audio frame the client has, per sink
  blocks,     \* blocks pushed per sink
  accum,      \* blocks in audio_accum
  busy,       \* a VFO command between its store and its push, per connection
  vfoFreqs, vfoQueue,
  bins,       \* sink_bins
  cmdPc,      \* cmdWorker: starting, in its loop, or ended
  cmdJob,     \* a tune it has stored and not yet published
  status,     \* granolasdr:audio:status:N
  tuner,      \* who stored bins last
  overlap     \* the newest store to vfo_freqs overlapped another command

chanVars == <<chan, spawned, waitq, granted>>
subVars == <<allSubs, audioSubs>>
clientVars == <<sent, got, wants, lastFrame>>
connVars == <<stage, writer>>
audioVars == <<blocks, accum>>
vfoVars == <<busy, vfoFreqs, vfoQueue, overlap>>
sinkVars == <<bins, tuner>>
cmdVars == <<cmdPc, cmdJob, status>>
vars == <<chanVars, subVars, clientVars, connVars, audioVars, vfoVars, sinkVars, cmdVars>>

Idle == << >>   \* no command under way; one that is is <<tune>>

Init ==
  /\ stage = [c \in Conns |-> "none"] /\ writer = [c \in Conns |-> "none"]
  /\ chan = [c \in Conns |-> << >>] /\ waitq = [c \in Conns |-> << >>]
  /\ spawned = [c \in Conns |-> {}] /\ granted = [c \in Conns |-> {}]
  /\ allSubs = {} /\ audioSubs = [t \in Sinks |-> {}]
  /\ sent = [c \in Conns |-> 0] /\ got = [c \in Conns |-> {}]
  /\ wants = [c \in Conns |-> {}]
  /\ lastFrame = [c \in Conns |-> [t \in Sinks |-> 0]]
  /\ blocks = [t \in Sinks |-> 0] /\ accum = [t \in Sinks |-> 0]
  /\ busy = [c \in Conns |-> Idle]
  /\ vfoFreqs = [t \in Sinks |-> Default] /\ vfoQueue = << >>
  /\ overlap = [t \in Sinks |-> FALSE]
  /\ bins = [t \in Sinks |-> Default \div Step]
  /\ tuner = [t \in Sinks |-> "init"]
  /\ cmdPc = "start" /\ cmdJob = Idle /\ status = [t \in Sinks |-> 0]

-----------------------------------------------------------------------------
(* The channel (tokio's bounded mpsc).  Room freed goes to the sender that *)
(* has waited longest; a message offered with try_send finds room only if  *)
(* no sender waits.                                                        *)

Room(c) == Depth - Len(chan[c]) - Cardinality(granted[c])
HasRoom(c) == Room(c) > 0 /\ waitq[c] = << >>
Echo(n) == [kind |-> "echo", id |-> n, sink |-> 0]

(* Offer msg to the channels of the connections in to.                     *)
TrySend(to, msg) ==
  chan' = [c \in Conns |-> IF c \in to /\ writer[c] # "dead" /\ HasRoom(c)
                           THEN Append(chan[c], msg) ELSE chan[c]]

(* A command with an echo: reliable_send spawns the task that sends it.    *)
Spawn(c) ==
  /\ sent' = [sent EXCEPT ![c] = @ + 1]
  /\ spawned' = IF writer[c] = "dead" THEN spawned
                ELSE [spawned EXCEPT ![c] = @ \cup {sent[c] + 1}]
  /\ UNCHANGED chan

(* Mutant of ReliableSend: the echo is offered like an audio frame.        *)
ReliableSendOffered(c) ==
  /\ sent' = [sent EXCEPT ![c] = @ + 1]
  /\ TrySend({c}, Echo(sent[c] + 1))
  /\ UNCHANGED spawned

ReliableSend(c) == Spawn(c)

SenderRun(c, n) ==
  /\ n \in spawned[c]
  /\ spawned' = [spawned EXCEPT ![c] = @ \ {n}]
  /\ IF HasRoom(c)
     THEN chan' = [chan EXCEPT ![c] = Append(@, Echo(n))] /\ UNCHANGED waitq
     ELSE waitq' = [waitq EXCEPT ![c] = Append(@, n)] /\ UNCHANGED chan
  /\ UNCHANGED <<granted, subVars, clientVars, connVars, audioVars, vfoVars, sinkVars, cmdVars>>

SenderResume(c, n) ==
  /\ n \in granted[c]
  /\ granted' = [granted EXCEPT ![c] = @ \ {n}]
  /\ chan' = [chan EXCEPT ![c] = Append(@, Echo(n))]
  /\ UNCHANGED <<spawned, waitq, subVars, clientVars, connVars, audioVars, vfoVars, sinkVars, cmdVars>>

(* The writer takes a message and the socket carries it to the client.     *)
WriterSend(c) ==
  LET m == Head(chan[c]) IN
  /\ writer[c] = "up" /\ chan[c] # << >>
  /\ chan' = [chan EXCEPT ![c] = Tail(@)]
  /\ waitq' = [waitq EXCEPT ![c] = IF @ = << >> THEN @ ELSE Tail(@)]
  /\ granted' = [granted EXCEPT ![c] = @ \cup {waitq[c][i] : i \in DOMAIN waitq[c] \cap {1}}]
  /\ got' = IF m.kind = "echo" THEN [got EXCEPT ![c] = @ \cup {m.id}] ELSE got
  /\ lastFrame' = IF m.kind = "audio" THEN [lastFrame EXCEPT ![c][m.sink] = m.id] ELSE lastFrame
  /\ UNCHANGED <<spawned, sent, wants, subVars, connVars, audioVars, vfoVars, sinkVars, cmdVars>>

(* The receiving end is dropped: senders fail and what was queued is gone. *)
CloseChan(c) ==
  /\ chan' = [chan EXCEPT ![c] = << >>] /\ waitq' = [waitq EXCEPT ![c] = << >>]
  /\ spawned' = [spawned EXCEPT ![c] = {}] /\ granted' = [granted EXCEPT ![c] = {}]

WriterFail(c) ==
  /\ writer[c] = "up" /\ chan[c] # << >>
  /\ writer' = [writer EXCEPT ![c] = "dead"]
  /\ CloseChan(c)
  /\ UNCHANGED <<stage, subVars, clientVars, audioVars, vfoVars, sinkVars, cmdVars>>

-----------------------------------------------------------------------------
(* handle_connection.                                                      *)

Accept(c) ==
  /\ stage[c] = "none"
  /\ stage' = [stage EXCEPT ![c] = "init"]
  /\ allSubs' = allSubs \cup {c}
  /\ UNCHANGED <<writer, audioSubs, chanVars, clientVars, audioVars, vfoVars, sinkVars, cmdVars>>

InitSent(c) ==
  /\ stage[c] = "init"
  /\ stage' = [stage EXCEPT ![c] = "open"]
  /\ writer' = [writer EXCEPT ![c] = "up"]
  /\ UNCHANGED <<subVars, chanVars, clientVars, audioVars, vfoVars, sinkVars, cmdVars>>

CleanupConn(c) ==
  /\ allSubs' = allSubs \ {c}
  /\ audioSubs' = [t \in Sinks |-> audioSubs[t] \ {c}]

(* The init text cannot be sent, the client closes, the read fails, or the *)
(* writer task has ended.                                                  *)
HandlerEnd(c) ==
  /\ stage[c] \in {"init", "open"} /\ busy[c] = Idle
  /\ stage' = [stage EXCEPT ![c] = "gone"]
  /\ writer' = [writer EXCEPT ![c] = "dead"]
  /\ CleanupConn(c)
  /\ CloseChan(c)
  /\ UNCHANGED <<clientVars, audioVars, vfoVars, sinkVars, cmdVars>>

Ready(c) == stage[c] = "open" /\ busy[c] = Idle

AudioStart(c, t) ==
  /\ Ready(c) /\ sent[c] < MaxCmds
  /\ audioSubs' = [u \in Sinks |-> IF u = t THEN audioSubs[u] \cup {c} ELSE audioSubs[u]]
  /\ wants' = [wants EXCEPT ![c] = @ \cup ({t} \cap Sinks)]
  /\ ReliableSend(c)
  /\ UNCHANGED <<allSubs, waitq, granted, got, lastFrame, connVars, audioVars, vfoVars, sinkVars, cmdVars>>

AudioStop(c, t) ==
  /\ Ready(c)
  /\ audioSubs' = [audioSubs EXCEPT ![t] = @ \ {c}]
  /\ wants' = [wants EXCEPT ![c] = @ \ {t}]
  /\ UNCHANGED <<allSubs, chanVars, sent, got, lastFrame, connVars, audioVars, vfoVars, sinkVars, cmdVars>>

(* split_enable, modulation, and a vfo command with a receiver or a        *)
(* frequency that does not parse: nothing but the echo.                    *)
EchoOnly(c) ==
  /\ Ready(c) /\ sent[c] < MaxCmds
  /\ ReliableSend(c)
  /\ UNCHANGED <<waitq, granted, subVars, got, wants, lastFrame, connVars, audioVars, vfoVars, sinkVars, cmdVars>>

(* Mutant of Clamp: to the advertised vfo_limits, 70 MHz.                  *)
ClampAdvertised(f) == IF f < MinHz THEN MinHz ELSE IF f > FftBins * Step THEN FftBins * Step ELSE f

Clamp(f) == IF f < MinHz THEN MinHz ELSE IF f > MaxHz THEN MaxHz ELSE f

Midway(t) == {c \in Conns : busy[c] # Idle /\ busy[c][1].sink = t}

VfoStore(c, t, raw) ==
  /\ Ready(c) /\ sent[c] < MaxCmds
  /\ vfoFreqs' = [vfoFreqs EXCEPT ![t] = Clamp(raw)]
  /\ busy' = [busy EXCEPT ![c] = <<[sink |-> t, hz |-> Clamp(raw)]>>]
  /\ overlap' = [overlap EXCEPT ![t] = Midway(t) # {}]
  /\ UNCHANGED <<vfoQueue, chanVars, subVars, clientVars, connVars, audioVars, sinkVars, cmdVars>>

(* Mutant of VfoPush: the newest command overtakes the ones not applied.   *)
VfoPushFront(c) ==
  /\ busy[c] # Idle
  /\ vfoQueue' = busy[c] \o vfoQueue
  /\ busy' = [busy EXCEPT ![c] = Idle]
  /\ ReliableSend(c)
  /\ UNCHANGED <<vfoFreqs, overlap, waitq, granted, subVars, got, wants, lastFrame,
                 connVars, audioVars, sinkVars, cmdVars>>

VfoPush(c) ==
  /\ busy[c] # Idle
  /\ vfoQueue' = vfoQueue \o busy[c]
  /\ busy' = [busy EXCEPT ![c] = Idle]
  /\ ReliableSend(c)
  /\ UNCHANGED <<vfoFreqs, overlap, waitq, granted, subVars, got, wants, lastFrame,
                 connVars, audioVars, sinkVars, cmdVars>>

-----------------------------------------------------------------------------
(* audioWorker: push_audio flushes a frame of two blocks; push_smeter.     *)

Closed(S) == {c \in S : writer[c] = "dead"}

(* Mutant of Retained: a slow subscriber is removed like a closed one.     *)
RetainedFast(S) == {c \in S : writer[c] # "dead" /\ HasRoom(c)}

Retained(S) == S \ Closed(S)

PushFrame(t, n) ==
  /\ audioSubs' = [audioSubs EXCEPT ![t] = Retained(@)]
  /\ TrySend(audioSubs[t], [kind |-> "audio", id |-> n, sink |-> t])

PushAudio(t) ==
  /\ blocks[t] < MaxBlocks
  /\ blocks' = [blocks EXCEPT ![t] = @ + 1]
  /\ accum' = [accum EXCEPT ![t] = (@ + 1) % 2]
  /\ IF accum[t] = 1 THEN PushFrame(t, blocks[t] + 1) ELSE UNCHANGED <<audioSubs, chan>>
  /\ UNCHANGED <<allSubs, spawned, waitq, granted, clientVars, connVars, vfoVars, sinkVars, cmdVars>>

PushSmeter(t) ==
  /\ TrySend(allSubs, [kind |-> "smeter", id |-> 0, sink |-> t])
  /\ allSubs' = Retained(allSubs)
  /\ UNCHANGED <<audioSubs, spawned, waitq, granted, clientVars, connVars, audioVars, vfoVars, sinkVars, cmdVars>>

-----------------------------------------------------------------------------
(* tciVfoWorker and cmdWorker.                                             *)

VfoApply ==
  LET v == Head(vfoQueue) IN
  /\ vfoQueue # << >>
  /\ vfoQueue' = Tail(vfoQueue)
  /\ bins' = [bins EXCEPT ![v.sink] = v.hz \div Step]
  /\ tuner' = [tuner EXCEPT ![v.sink] = "tci"]
  /\ UNCHANGED <<busy, vfoFreqs, overlap, chanVars, subVars, clientVars, connVars, audioVars, cmdVars>>

CmdStart ==
  /\ cmdPc = "start"
  /\ cmdPc' = "run"
  /\ status' = [t \in Sinks |-> bins[t] * Step]
  /\ UNCHANGED <<cmdJob, sinkVars, chanVars, subVars, clientVars, connVars, audioVars, vfoVars>>

CmdTune(t, f) ==
  /\ cmdPc = "run" /\ cmdJob = Idle
  /\ f <= MaxHz
  /\ bins' = [bins EXCEPT ![t] = f \div Step]
  /\ tuner' = [tuner EXCEPT ![t] = "browser"]
  /\ cmdJob' = <<[sink |-> t, hz |-> f]>>
  /\ UNCHANGED <<cmdPc, status, chanVars, subVars, clientVars, connVars, audioVars, vfoVars>>

CmdPublish ==
  /\ cmdPc = "run" /\ cmdJob # Idle
  /\ status' = [status EXCEPT ![cmdJob[1].sink] = cmdJob[1].hz]
  /\ cmdJob' = Idle
  /\ UNCHANGED <<cmdPc, sinkVars, chanVars, subVars, clientVars, connVars, audioVars, vfoVars>>

(* Any exception in the loop ends the thread: of the receive, or of the    *)
(* set.  (One before the loop ends the process.)                           *)
CmdFail ==
  /\ cmdPc = "run"
  /\ cmdPc' = "dead"
  /\ UNCHANGED <<cmdJob, status, sinkVars, chanVars, subVars, clientVars, connVars, audioVars, vfoVars>>

Senders(c) == \E n \in 1 .. MaxCmds : SenderRun(c, n) \/ SenderResume(c, n)

Connection(c) == Accept(c) \/ InitSent(c) \/ HandlerEnd(c) \/ WriterFail(c) \/ WriterSend(c) \/ Senders(c)

AudioCommands(c) ==
  \/ \E t \in Sinks \cup BadTrx : AudioStart(c, t)
  \/ \E t \in Sinks : AudioStop(c, t)
  \/ EchoOnly(c)

AudioWorker == \E t \in Sinks : PushAudio(t) \/ PushSmeter(t)

VfoCommands(c) == VfoPush(c) \/ \E t \in Sinks, raw \in Raw : VfoStore(c, t, raw)

CmdWorker == CmdStart \/ CmdPublish \/ CmdFail \/ \E t \in Sinks, f \in Raw : CmdTune(t, f)

Next ==
  \/ \E c \in Conns : Connection(c) \/ AudioCommands(c) \/ VfoCommands(c)
  \/ AudioWorker \/ VfoApply \/ CmdWorker

Spec == Init /\ [][Next]_vars

(***************************************************************************)
(* Fairness: the runtime keeps polling its tasks (a handler that has begun *)
(* a command, the senders, the writer, whose client reads its socket) and  *)
(* tciVfoWorker drains its queue every 10 ms.  Nothing is assumed of the   *)
(* clients' commands, of the audio or of the browser.                      *)
(***************************************************************************)
Fairness ==
  /\ \A c \in Conns : WF_vars(VfoPush(c)) /\ WF_vars(Senders(c)) /\ WF_vars(WriterSend(c))
  /\ WF_vars(VfoApply)

FairSpec == Spec /\ Fairness

-----------------------------------------------------------------------------
Tune == [sink : Sinks, hz : Nat]
Msg == [kind : {"echo", "audio", "smeter"}, id : Nat, sink : Nat]

(* Types; a channel never holds more than it was made for.                 *)
TypeOK ==
  /\ stage \in [Conns -> {"none", "init", "open", "gone"}]
  /\ writer \in [Conns -> {"none", "up", "dead"}]
  /\ \A c \in Conns :
       /\ chan[c] \in Seq(Msg) /\ Room(c) >= 0
       /\ waitq[c] \in Seq(Nat)
       /\ spawned[c] \cup granted[c] \cup got[c] \subseteq 1 .. sent[c]
  /\ allSubs \subseteq Conns /\ audioSubs \in [Sinks -> SUBSET Conns]
  /\ sent \in [Conns -> Nat] /\ wants \in [Conns -> SUBSET Sinks]
  /\ lastFrame \in [Conns -> [Sinks -> Nat]]
  /\ blocks \in [Sinks -> Nat] /\ accum \in [Sinks -> 0 .. 1]
  /\ \A c \in Conns : busy[c] \in Seq(Tune)
  /\ vfoFreqs \in [Sinks -> Nat] /\ vfoQueue \in Seq(Tune)
  /\ overlap \in [Sinks -> BOOLEAN]
  /\ bins \in [Sinks -> Nat] /\ status \in [Sinks -> Nat]
  /\ tuner \in [Sinks -> {"init", "browser", "tci"}]
  /\ cmdPc \in {"start", "run", "dead"} /\ cmdJob \in Seq(Tune)

(* Whoever tunes a sink, the bins it reads lie inside the front FFT:       *)
(* doCopy copies AUDIO_BINS bins from sink_bins without looking.           *)
WindowInFft == \A t \in Sinks : bins[t] + AudioBins <= FftBins

(* A client of an open connection is on a sink's audio list exactly when   *)
(* the last it asked for is that audio, however slow it is and whatever it *)
(* missed; no list keeps a connection that has ended.                      *)
ListsAreClients ==
  \A c \in Conns, t \in Sinks :
    /\ stage[c] = "open" /\ writer[c] = "up" => (c \in audioSubs[t] <=> t \in wants[c])
    /\ stage[c] = "gone" => c \notin audioSubs[t] \cup allSubs

(* Once every VFO command has been applied, a sink is tuned where          *)
(* vfo_freqs says (what the next client is told), unless the browser tuned *)
(* it since or two connections' commands overlapped: the store to          *)
(* vfo_freqs and the push to the queue are two steps (parse_vfo_cmd).      *)
TunedAsTold ==
  \A t \in Sinks :
    /\ Midway(t) = {} /\ (\A i \in DOMAIN vfoQueue : vfoQueue[i].sink # t)
    /\ tuner[t] # "browser" /\ ~overlap[t]
    => bins[t] = vfoFreqs[t] \div Step

(* While cmdWorker waits for a command, the published status of a sink is  *)
(* what it is tuned to, unless a TCI client tuned it last: tciVfoWorker    *)
(* publishes nothing.                                                      *)
StatusAgrees ==
  cmdPc = "run" /\ cmdJob = Idle => \A t \in Sinks : tuner[t] # "tci" => status[t] \div Step = bins[t]

(* A client receives the frames of a sink in order and none twice,         *)
(* whatever was dropped and however often it stopped and started.          *)
FramesInOrder ==
  [][\A c \in Conns, t \in Sinks :
       lastFrame'[c][t] # lastFrame[c][t] => lastFrame'[c][t] > lastFrame[c][t]]_vars

(* "The echo is never lost to channel backpressure": the echo of every     *)
(* command reaches the client, behind any amount of audio, unless the      *)
(* connection ends (reliable_send).                                        *)
EchoesArrive ==
  \A c \in Conns : \A n \in 1 .. MaxCmds :
    sent[c] >= n ~> (n \in got[c] \/ writer[c] = "dead")

(* Channels keep their limit, and the subscriber lists are those of the    *)
(* live clients, through slow clients, failed writers and closed           *)
(* connections (push_audio, push_smeter, cleanup_conn).                    *)
ClientsListed == TypeOK /\ ListsAreClients

(* What TCI clients and the browser are told a sink is tuned to is what it *)
(* is tuned to, but for the named overlaps of the three threads.           *)
TuningAgrees == TunedAsTold /\ StatusAgrees

(* Frames arrive in order, echoes arrive for certain, over one bounded     *)
(* channel.                                                                *)
Delivered == FramesInOrder /\ EchoesArrive

=============================================================================
