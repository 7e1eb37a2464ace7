----------------------------- MODULE Uploaders -----------------------------
(***************************************************************************)
(* The programs that carry decodes out of the receiver: psk_uploader.py    *)
(* batches them into datagrams for PSKReporter, aprs_uploader.py sends     *)
(* each over a TCP connection it keeps to APRS-IS, js8_logger.py appends   *)
(* them to a file.  Each is one loop in a process of its own, so a         *)
(* behaviour has one of them, chosen in UploadInit.  A station stands for the    *)
(* key the program tells decodes apart by: callsign, mode and band, or     *)
(* text and frequency bucket for the logger.                               *)
(***************************************************************************)
EXTENDS Integers, Sequences, FiniteSets, SequencesExt

CONSTANTS
  Programs,   \* the programs to look at, or "none" for no program
  Stations,
  Snrs,
  Interval,   \* args.interval
  Retry,      \* 30 s
  Hour,       \* 3600 s
  First,      \* packets sent with templates at first: 3
  RecLen,     \* bytes of a report
  Overhead,   \* header, receiver block and the sender block's own header
  TmplLen,    \* len(TEMPLATES)
  LenMax,     \* 65535, the largest length a packet can state
  UdpMax,     \* 65507, the largest datagram sendto takes
  Dedup,      \* DEDUP_SEC, in ticks
  Window,     \* DEDUP_WINDOW_SEC, in ticks
  CacheMax,   \* 10 000
  Disorder,   \* how far decodes may arrive behind the newest timestamp
  MaxReports, \* bound: decodes received
  MaxBreaks,  \* bound: times the APRS connection breaks
  MaxClock    \* bound: ticks of the logger's clock

Never == -1000           \* no SNR, no timestamp

ASSUME UploadAssumption ==
  /\ Programs \subseteq {"psk", "aprs", "logger", "none"}
  /\ Stations # {}
  /\ Snrs \subseteq Int /\ \A n \in Snrs : n > Never
  /\ {Interval, Retry, Hour, First, RecLen, Dedup, Window, Disorder}
       \subseteq Nat \ {0}
  /\ {Overhead, TmplLen, LenMax, UdpMax, CacheMax} \subseteq Nat
  /\ {MaxReports, MaxBreaks, MaxClock} \subseteq Nat
  /\ Retry <= Interval /\ UdpMax <= LenMax
  /\ RecLen + 7 <= Overhead  \* a callsign's report: under 40; overhead: over 56

VARIABLES
  program, alive,
  received,  \* decodes received so far
  pending,   \* pending
  due,       \* ticks until last_upload + interval
  tmplAge,   \* ticks since last_template_time, Hour at most
  packets,   \* packets_sent, First at most
  seqNo,     \* seq
  unsent,    \* history: the best SNR heard of a station since it was last sent
  packet,    \* history: the reports of the last packet and what was owed
  total,     \* history: reports in all packets sent
  age,       \* ticks since a station's entry in spotted, Dedup at most
  conn,      \* _sock: "none", "up", or "broken" and not known to be
  apc,       \* where AprsConnection.send is
  heard,     \* the station of the decode main's loop is at
  line,      \* what it is sending: that station, a relayed message, keepalive
  arrived,   \* history: the line being sent has reached the server
  breaks,
  clock,     \* newest timestamp of a decode
  cache,     \* dedup_cache
  logged     \* history: timestamp of the last line logged of a station

pskVars  == <<pending, due, tmplAge, packets, seqNo, unsent, packet, total>>
aprsVars == <<age, conn, apc, heard, line, arrived, breaks>>
logVars  == <<clock, cache, logged>>
uploadVars == <<program, alive, received, pskVars, aprsVars, logVars>>

Keepalive == "#keepalive"
Relay == "relay"

UploadInit ==
  /\ program \in Programs /\ alive = TRUE /\ received = 0
  /\ pending = << >> /\ due = Interval /\ tmplAge = Hour /\ packets = 0
  /\ seqNo = 0 /\ total = 0
  /\ unsent = [s \in Stations |-> Never]
  /\ packet = [reports |-> {}, owed |-> {}]
  /\ age = [s \in Stations |-> Dedup]
  /\ conn = (IF program = "aprs" THEN "up" ELSE "none") /\ apc = "idle"
  /\ heard = (CHOOSE s \in Stations : TRUE) /\ line = Keepalive /\ arrived = TRUE /\ breaks = 0
  /\ clock = 0
  /\ cache = [s \in Stations |-> Never] /\ logged = cache

Runs(p) == program = p /\ alive

(***************************************************************************)
(* psk_uploader.py                                                         *)
(***************************************************************************)
PskReceive ==
  /\ Runs("psk") /\ received < MaxReports
  /\ \E s \in Stations, snr \in Snrs :
       /\ pending' = Append(pending, [call |-> s, snr |-> snr])
       /\ unsent' = [unsent EXCEPT ![s] = IF snr > @ THEN snr ELSE @]
  /\ received' = received + 1
  /\ UNCHANGED <<program, alive, due, tmplAge, packets, seqNo, packet, total,
                 aprsVars, logVars>>

(* _dedup_reports: per station the report with the best SNR.  The order,   *)
(* that of first hearing, is left out.                                     *)
DedupReports(reports) ==
  {r \in ToSet(reports) :
     \A q \in ToSet(reports) : q.call = r.call => q.snr <= r.snr}

(* _sender_block stops at the first report that might not fit a block of   *)
(* LenMax bytes, 4 of header and 3 of padding included.                    *)
ReportsInBlock(n) ==
  LET fit == (LenMax - 4 - 3) \div RecLen
  IN  IF n < fit THEN n ELSE fit

(* build_packet: bytes of a packet with k reports.                         *)
PacketLen(k, tmpl) == Overhead + (IF tmpl THEN TmplLen ELSE 0) + k * RecLen

UploadDue == due = 0 /\ pending # << >>

(* last_upload after a failure: time.time() - args.interval + 30.          *)
RetryDue == Retry

(* seq += len(to_send)                                                     *)
Count(toSend) == Cardinality(toSend)

(* Mutant: the reports are cleared whether or not the upload succeeds.     *)
PskUploadCleared(sent) ==
  /\ Runs("psk") /\ UploadDue /\ ~ sent
  /\ pending' = << >> /\ due' = RetryDue
  /\ UNCHANGED <<program, alive, received, tmplAge, packets, seqNo, unsent, packet,
                 total, aprsVars, logVars>>

(* History: what a packet sent now should hold.                            *)
Owed == {[call |-> s, snr |-> unsent[s]] :
         s \in {t \in Stations : unsent[t] # Never}}

(* The upload of main's loop.  A packet too long for its own length field  *)
(* raises struct.error, which nothing catches; one too long for a datagram *)
(* is an OSError like any failure of the network.                          *)
PskUpload(sent) ==
  LET toSend == DedupReports(pending)
      k      == ReportsInBlock(Cardinality(toSend))
      tmpl   == packets < First \/ tmplAge >= Hour
      len    == PacketLen(k, tmpl)
  IN  /\ Runs("psk") /\ UploadDue
      /\ sent => len <= UdpMax
      /\ tmplAge' = IF tmpl THEN 0 ELSE tmplAge
      /\ alive' = (len <= LenMax)
      /\ IF sent
         THEN /\ \E sub \in kSubset(k, toSend) :
                   packet' = [reports |-> sub, owed |-> Owed]
              /\ total' = total + k
              /\ seqNo' = seqNo + Count(toSend)
              /\ packets' = IF packets < First THEN packets + 1 ELSE First
              /\ pending' = << >>
              /\ unsent' = [s \in Stations |-> Never]
              /\ due' = Interval
         ELSE /\ due' = RetryDue
              /\ UNCHANGED <<packet, total, seqNo, packets, pending, unsent>>
      /\ UNCHANGED <<program, received, aprsVars, logVars>>

(***************************************************************************)
(* aprs_uploader.py.  A JS8 message to @APRSIS is relayed first.           *)
(***************************************************************************)
AprsReceive(relay) ==
  /\ Runs("aprs") /\ apc = "idle" /\ received < MaxReports
  /\ heard' \in Stations
  /\ apc' = IF relay THEN "send" ELSE "spot"
  /\ line' = IF relay THEN Relay ELSE line
  /\ arrived' = IF relay THEN FALSE ELSE arrived
  /\ received' = received + 1
  /\ UNCHANGED <<program, alive, pskVars, age, conn, breaks, logVars>>

(* Then the station is spotted, unless it was less than Dedup ago; the     *)
(* entry is made before the line is sent.                                  *)
AprsSpot ==
  /\ Runs("aprs") /\ apc = "spot"
  /\ IF age[heard] < Dedup
     THEN apc' = "idle" /\ UNCHANGED <<age, line, arrived>>
     ELSE /\ age' = [age EXCEPT ![heard] = 0]
          /\ apc' = "send" /\ line' = heard /\ arrived' = FALSE
  /\ UNCHANGED <<program, alive, received, pskVars, conn, heard, breaks, logVars>>

(* send returns to main's loop.                                            *)
Returned == IF line = Relay THEN "spot" ELSE "idle"

(* keepalive, when nothing was sent for KEEPALIVE_SEC.                     *)
AprsKeepalive ==
  /\ Runs("aprs") /\ apc = "idle"
  /\ apc' = "send" /\ line' = Keepalive /\ arrived' = FALSE
  /\ UNCHANGED <<program, alive, received, pskVars, age, conn, heard, breaks, logVars>>

(* The server or the network drops the connection.                         *)
ConnBreak ==
  /\ Runs("aprs") /\ conn = "up" /\ breaks < MaxBreaks
  /\ conn' = "broken" /\ breaks' = breaks + 1
  /\ UNCHANGED <<program, alive, received, pskVars, age, apc, heard, line, arrived, logVars>>

(* sendall: what a broken connection takes is lost.                        *)
AprsSend ==
  /\ Runs("aprs") /\ apc = "send"
  /\ arrived' = (conn = "up") /\ apc' = "drain"
  /\ UNCHANGED <<program, alive, received, pskVars, age, conn, heard, line, breaks, logVars>>

(* The line is out and recv has nothing, something, or the end of file.    *)
AprsDrained ==
  /\ Runs("aprs") /\ apc = "drain"
  /\ apc' = Returned
  /\ UNCHANGED <<program, alive, received, pskVars, age, conn, heard, line, arrived, breaks,
                 logVars>>

(* sendall raises OSError on a broken connection and, after 5 s, on one    *)
(* that takes too little: then the line is not out.  recv raises on a      *)
(* broken connection only.                                                 *)
AprsSendFails ==
  /\ Runs("aprs")
  /\ apc = "send" \/ (apc = "drain" /\ conn = "broken")
  /\ conn' = "none" /\ apc' = "connect"
  /\ UNCHANGED <<program, alive, received, pskVars, age, heard, line, arrived, breaks, logVars>>

(* Mutant: send reconnects and leaves it at that.                          *)
ConnectOnly ==
  /\ Runs("aprs") /\ apc = "connect"
  /\ conn' = "up" /\ apc' = Returned
  /\ UNCHANGED <<program, alive, received, pskVars, age, heard, line, arrived, breaks, logVars>>

(* _connect tries until it succeeds.                                       *)
Connect ==
  /\ Runs("aprs") /\ apc = "connect"
  /\ conn' = "up" /\ apc' = "resend"
  /\ UNCHANGED <<program, alive, received, pskVars, age, heard, line, arrived, breaks, logVars>>

(* The second sendall is outside the try: an OSError ends the process.     *)
Resend(raises) ==
  /\ Runs("aprs") /\ apc = "resend"
  /\ alive' = ~ raises
  /\ arrived' = (arrived \/ (conn = "up" /\ ~ raises)) /\ apc' = Returned
  /\ UNCHANGED <<program, received, pskVars, age, conn, heard, line, breaks, logVars>>

(***************************************************************************)
(* js8_logger.py.  Decodes of different modes may arrive out of the order  *)
(* of their timestamps.                                                    *)
(***************************************************************************)
(* Mutant: a full cache is emptied.                                        *)
EvictAll(c, unix) ==
  IF Cardinality({s \in Stations : c[s] # Never}) > CacheMax
  THEN [s \in Stations |-> IF c[s] = unix THEN unix ELSE Never] ELSE c

(* A cache over its size keeps the entries of the last Window.             *)
Evict(c, unix) ==
  IF Cardinality({s \in Stations : c[s] # Never}) > CacheMax
  THEN [s \in Stations |-> IF c[s] >= unix - Window THEN c[s] ELSE Never] ELSE c

LogReceive ==
  /\ Runs("logger")
  /\ \E s \in Stations, unix \in clock - Disorder .. clock :
       /\ unix >= 0
       /\ cache[s] # Never => unix - cache[s] >= Window
       /\ cache' = Evict([cache EXCEPT ![s] = unix], unix)
       /\ logged' = [logged EXCEPT ![s] = unix]
  /\ UNCHANGED <<program, alive, received, pskVars, aprsVars, clock>>

LogClock ==
  /\ Runs("logger") /\ clock < MaxClock
  /\ clock' = clock + 1
  /\ UNCHANGED <<program, alive, received, pskVars, aprsVars, cache, logged>>

(* Time passes.  The uploader looks at the clock every second, so an       *)
(* upload that is due comes before the next tick.                          *)
Tick ==
  /\ Runs("psk") \/ Runs("aprs")
  /\ ~ (program = "psk" /\ UploadDue)
  /\ due' = IF due > 0 THEN due - 1 ELSE 0
  /\ tmplAge' = IF tmplAge < Hour THEN tmplAge + 1 ELSE Hour
  /\ age' = [s \in Stations |-> IF age[s] < Dedup THEN age[s] + 1 ELSE Dedup]
  /\ UNCHANGED <<program, alive, received, pending, packets, seqNo, unsent, packet,
                 total, conn, apc, heard, line, arrived, breaks, logVars>>

Psk == PskReceive \/ \E sent \in BOOLEAN : PskUpload(sent)
AprsSending == AprsSend \/ AprsDrained \/ Connect \/ \E r \in BOOLEAN : Resend(r)
Aprs == \/ \E relay \in BOOLEAN : AprsReceive(relay)
        \/ AprsSpot \/ AprsKeepalive \/ ConnBreak \/ AprsSendFails
        \/ AprsSending
Logger == LogReceive \/ LogClock

UploadNext == Psk \/ Aprs \/ Logger \/ Tick

(* Time passes, the process runs, and the network is not down for ever: an *)
(* upload tried again and again succeeds, and so does _connect, which      *)
(* tries until it does.                                                    *)
UploadFairness ==
  /\ WF_uploadVars(Tick) /\ WF_uploadVars(AprsSending)
  /\ WF_uploadVars(\E sent \in BOOLEAN : PskUpload(sent))
  /\ SF_uploadVars(PskUpload(TRUE))

UploadSpec == UploadInit /\ [][UploadNext]_uploadVars /\ UploadFairness

-----------------------------------------------------------------------------
(* Types; the timers stay in their ranges.                                 *)
UploadTypeOK ==
  /\ program \in Programs /\ alive \in BOOLEAN
  /\ received \in 0 .. MaxReports
  /\ pending \in Seq([call : Stations, snr : Snrs])
  /\ due \in 0 .. Interval /\ tmplAge \in 0 .. Hour /\ packets \in 0 .. First
  /\ seqNo \in Nat /\ total \in Nat
  /\ unsent \in [Stations -> Snrs \union {Never}]
  /\ age \in [Stations -> 0 .. Dedup]
  /\ conn \in {"none", "up", "broken"}
  /\ apc \in {"idle", "spot", "send", "drain", "connect", "resend"}
  /\ heard \in Stations
  /\ line \in Stations \union {Keepalive, Relay} /\ arrived \in BOOLEAN
  /\ clock \in 0 .. MaxClock
  /\ {cache, logged} \subseteq [Stations -> 0 .. MaxClock \union {Never}]

(* Every packet sent holds one report of each station heard since it was   *)
(* last sent, with its best SNR, also after failed uploads: a failure      *)
(* keeps what was pending, and a batch that does not fit is never sent cut *)
(* short.                                                                  *)
PacketIsBest == packet.reports = packet.owed

(* What was heard and not sent is pending, whatever uploads failed.        *)
UnsentIsPending ==
  alive => \A s \in Stations :
    unsent[s] = IF \E i \in DOMAIN pending : pending[i].call = s
                THEN Max({r.snr : r \in {q \in ToSet(pending) : q.call = s}})
                ELSE Never

(* seq is the number of reports sent, as PSKReporter expects, although the *)
(* loop adds what it meant to send: a truncated block would break this, if *)
(* its packet could be sent.                                               *)
SeqIsReports == seqNo = total

TooLong ==
  \E k \in 1 .. Len(pending) :
    k = Cardinality(DedupReports(pending)) /\ PacketLen(k, TRUE) > UdpMax

(* A batch is sent in the end, after any number of failures, unless it     *)
(* has grown past a datagram.                                              *)
BatchIsSent ==
  program = "psk" /\ pending # << >>
    ~> pending = << >> \/ TooLong \/ ~ alive

(* A line whose sending failed reaches the server over the new connection, *)
(* unless that one breaks too (which may end the process).                 *)
Resent == apc = "connect" ~> arrived \/ conn = "broken" \/ ~ alive

(* Two lines logged of one station are a window apart, less the disorder   *)
(* of the decodes, and in the order of their timestamps: a full cache      *)
(* forgets only entries that no decode still to come is closer to.         *)
LinesApart ==
  [][\A s \in Stations :
       logged'[s] # logged[s] /\ logged[s] # Never
         => logged'[s] - logged[s] > Window - Disorder]_uploadVars

(* Through failed uploads, what is pending is what was heard and not sent, *)
(* packets hold the best of it, and seq counts what was sent.              *)
ReportsRight == UploadTypeOK /\ PacketIsBest /\ UnsentIsPending /\ SeqIsReports

(* What failed is sent in the end: a batch to PSKReporter, a line to       *)
(* APRS-IS.                                                                *)
Retried == BatchIsSent /\ Resent

=============================================================================
