# granolasdr: specifications, model checking and proofs

granolasdr is a software defined radio receiver for the HF bands. `hf_rx`
(`src/gm/HFRx.cc`) takes 140 MS/s from an RX888 over USB, turns them into a
narrow composite of the interesting bands on a GPU, searches that composite
continuously for FT8 and JS8 transmissions, and publishes what it decodes over
ZMQ and to `wsdict`, a small WebSocket dictionary server in Rust
(`src/wsserver`) that the dashboards subscribe to.

This directory holds TLA+ specifications of the parts of it where order,
concurrency and limits matter, the TLC configurations that check them, and
proofs that TLAPS checks.

## 1. Inventory

### The receive pipeline (C++ and CUDA, `src/gm`)

| Part | State | Operations | Talks to |
|---|---|---|---|
| `rx888` | host ring of `BUFFERS` sample blocks, position in samples | USB callback `handle_samples` | position: `HFChannelizer` |
| `BufferPosition` | a counter under a condition variable | `setPosition`, `getPosition(n)` (waits) | every pair of blocks |
| `HFChannelizer` | device FFT buffer with an overlap block, composite rings (HF, CW), audio ring, their counters, noise floors, four audio sinks | `run`, `doCopy`, stream callbacks, `audioWorker`, `cmdWorker`, `tciVfoWorker` | `MagBlock`, TCI, wsdict |
| `MagBlock` | its own lag, a `DeviceRingBuffer` of magnitudes and one of complex frames | `run`, `doCopy` | `FT8Cuda`, `JS8Cuda`, waterfall |
| `FT8Cuda`, `JS8Cuda` | `CONTINUOUS_SLOTS` result slots with events, write and read index, flags | scan loop, worker loop, start, stop, destruction, `refineCandidate` | callback into `FT8`, `JS8` |
| `hf::FT8` | 15 s window of best spots, refine queue and thread, callsign hash table (one per thread) | decode callback, `flushWindow`, `publishSpot`, `refineWorker`, `hashtable_*` | ZMQ, wsdict |
| `hf::JS8` | set of messages published in this epoch, refine queue and thread | decode callback, `publishCandidateCore`, `publishDecoded`, `refineWorker` | ZMQ, wsdict |
| `BufferFile` | file, position | record loop, paced playback loop | any `BufferPosition` |
| `CWSkimmerCuda`, `cw_track`, `cw_morse`, `band_map` | carriers, Morse timing, spots | per-frame update | wsdict |
| `WaterfallCuda` | rows | loop | wsdict |
| `OsdCore`, LDPC and scan kernels, `refine` | none that lasts | pure functions and numerical kernels | called by the above |

### The dictionary and its clients

| Part | State | Operations |
|---|---|---|
| `dict.rs` | key -> value with expiry, one lock | set, get, delete, `sweep_expired` in two phases |
| `subs.rs` | connection -> patterns and channel, another lock | register, merge, `fan_out` (drops when a channel is full) |
| `server.rs` | per connection: a reader task and a writer task | handlers, initial push, TTL sweep |
| `tci.rs` | VFOs, audio clients | TCI commands, audio streaming |
| `wsdict.h` | a socket | set, subscribe, receive |

### The programs around it (Python)

| Part | State | Operations |
|---|---|---|
| `psk_uploader.py` | decodes not yet uploaded, sequence number, template timer | receive, upload every interval, retry |
| `aprs_uploader.py` | a TCP connection, when each station was last spotted | receive, send, reconnect, keepalive |
| `js8_logger.py` | recently logged texts, a file | receive, forget, append |

The rest of the repository is listed in `PROJECT.json`: older programs for other
radios, bridges and analysis scripts, dashboards, generated tables and
vendored libraries.

### What is hard about it

* Blocks hand data over through rings whose writers never look at their
  readers. A reader that is late drops, or is lapped.
* A device does the work: a host thread enqueues operations on a stream and goes
  on, a callback runs when they are done, an event tells another thread. What
  the host read before it enqueued may be old when the operation runs.
* Four threads (scan, worker, stream callback, refine worker) share windows,
  sets, slots and indices with different locks, or with atomics of different
  memory orders.
* The dictionary, the subscriptions and each connection's channel are separate
  steps of separate tasks; subscribers copy the dictionary by its announcements.
* What leaves the machine may be lost, refused or broken off at any step, and is
  tried again with whatever has come since.
* Everything runs for weeks: tables fill, counters wrap around rings, entries age.

`PROJECT.json` lists these as hazards, each at its line, with the properties
that would catch it.

## 2. Modules

| Module | Models | Actions and the code |
|---|---|---|
| `ContScan` | the hand-over between MagBlock, scan thread, device and worker in `FT8Cuda.cc` and `JS8Cuda.cc` | `MagRecord`, `MagPublish`, `MagCopy` (ring), `ScanPoll`, `ScanFull`, `ScanClaim`, `ScanEnqueue`, `StoreDispatched`, `StoreIndex` (`launchContScan`, `scanLoop`), `GpuStart`, `GpuFinish`, `Wedge` (stream), `Work*` (`contWorker`, `workerLoop`), `Start`, `Stop`, `Join` |
| `ScanTiming` | `ContScan` with time in mag blocks | `Tick` is `MagRecord` within deadlines |
| `CompositeRing` | `rx888` to `HFChannelizer` to `MagBlock` and the audio worker | `Rx*`, `Ch*` (`run`, `doCopy` in its two halves), `Dev*` (operations and callbacks on the stream), `Audio*`, `Mag*` |
| `CallsignTable` | the callsign hash table of `ft8.cc` | `Add`, `AddFull`, `Cleanup`, and `Lookup` as an operator |
| `FT8Decode` | the FT8 callback, its window, its refine worker | `ScanEmpty`, `ScanBegin`, `ScanFlush`, `Flush`, `PassOne`, `PassTwoStart`, `PassTwo`, `RefineTake`, `RefineDone`, `Exit` |
| `JS8Decode` | the JS8 callback, the epoch set, its refine worker | as above, and `SendZmq`, `SendWs` (`publishDecoded`) per thread |
| `WsDict` | `dict.rs`, `subs.rs`, `server.rs` and a subscriber's copy | `Set`, `Delete`, `Announce`, `Subscribe`, `Acknowledge`, `PushKeys`, `PushRead`, `PushSend`, `Lose` (the write task ends), `Close` (the handler sees it), `Sweep*`, `Receive` |
| `ScanFifo` | what a scanner promises, abstractly: a bounded queue of windows | `Put`, `Begin`, `End`, `Skip`, `Drop`; `ContScan` implements it (`ImplementsFifo`) |
| `Tci` | `tci.rs` with `audioWorker`, `cmdWorker` and `tciVfoWorker` of `HFChannelizer` | `Accept`, `InitSent`, `HandlerEnd`, the commands (`AudioStart`, `AudioStop`, `EchoOnly`, `VfoStore`, `VfoPush`), `SenderRun`, `SenderResume` (`reliable_send`), `WriterSend`, `WriterFail`, `PushAudio`, `PushSmeter`, `VfoApply`, `Cmd*` |
| `RingReaders` | the readers of the device rings besides the scans: `refineCandidate`, the skimmer's snapshot, `WaterfallCuda`, `BufferFile` | a writer, the device, and the steps of one reader |
| `Uploaders` | `psk_uploader.py`, `aprs_uploader.py`, `js8_logger.py` | the steps of each loop; breaks of the connection, failing sends |
| `CwTrack` | `CwTracker::step` | `Step` is one detection window: peaks, association, expiry, decoding, spotting |
| `CwMorse` | `CwMorse::decode` after its threshold | one action per run or gap: `DropFront`, `Merge3`, `KeepRun`, `DropBack`, `Estimate`, `ReplayMark`, `ReplaySpace`, `Take` |
| `OsdCore` | `osd_decode_n174` for any linear code | `SortColumns`, `ReduceColumn`, `NotFullRank`, `Search` |
| `Js8Text` | CRC-12 and the unpacking of JS8 text and directed frames (`js8.cc`, `jsc.cc`) | operators; `Receive` reads a frame that was sent, with some of its bits wrong |
| `ContScanProofs`, `CompositeRingProofs`, `FT8DecodeProofs`, `JS8DecodeProofs`, `WsDictProofs`, `TciProofs`, `RingReadersProofs`, `UploadersProofs` | theorems about the module each is named after; also about `ScanTiming` (in `ContScanProofs`), `CallsignTable` (in `FT8DecodeProofs`) and `CwTrack` (in `RingReadersProofs`) | |
| `MC*` | instances for TLC | |

`RingReaders` and `Uploaders` hold several readers or programs that do not affect
each other; a behaviour has one of them, chosen in `Init`. Three MC modules put
parts that share nothing into one run in the same way: `MCAlgorithms` the readers
and the four sequential algorithms, `MCFT8Decode` the callback and the callsign
table, `MCTci` the server and the uploaders.

Assumptions on time that no line of the code states are constraints of the models,
not translations: `OnTime` in `CompositeRing`, `ScanTiming` and `RingReaders`, and
`Intact` in `RingReaders`.

Abstractions. A block is its number; a scan result is the number of the first
block of its window; a message, a key and a callsign are model values; what a
decoder would make of a candidate is part of the candidate. Signal processing,
formats, logging and diagnostics are left out. History variables (named so in
the modules) record what the properties talk about and are read by no action.

Memory order: `launchContScan` stores `dispatched` with release order and then
increments the index with a relaxed operation. `ContScan` lets the two stores
become visible in either order (`stores`), so what holds does not rest on x86.

Two-step handlers: a handler is one action where it holds one lock or runs on
one thread's own state, and is split wherever another actor can come between:
before and after each lock, each enqueued operation, each send. `ready_mu` of a
`DeviceRingBuffer` slot is held for one `cudaEventRecord` or one
`cudaStreamWaitEvent`, so each of those two is a step, and the lock needs none.

## 3. Runs

| Run | Checks | Bounds |
|---|---|---|
| `scan` | `TypeOK`, `DecodeCoherent`, `WindowComplete`, `OneMoreAfterStop`, the refinement `ImplementsFifo`, and under fairness `PublishedIsReleased`, `StopReturns` | ring of 6, windows of 2, 2 slots, 5 blocks: every slot is used twice, the slots fill up; start, stop and join at any time, and the stream may get stuck at any time |
| `scan_timing` | `WindowIntact`, `ScansHaveOwnSlots` | ring of 6 exactly at the bound Cap + HostDelay + Slots * ScanTime = 6; 9 blocks lap the ring |
| `composite` | `InputRight` (`TypeOK`, `InputIntact`, `FramesOverlap`), `SignalsNewBlock`, `ReadInOrder` (`MagInOrder`, `AudioInOrder`) | transfers of half a block, input ring 3, both composite rings of 5, audio ring 2, lag limit 1, 9 blocks: every ring is lapped, both readers drop, the audio ring is full |
| `ft8_decode` | the callback's `TypeOK`, `BestOfWindow`, `OncePerWindow`, `SpotsInWindow`; the table's `TableRight` (`TableTypeOK`, `SizeCounts`, `RecentIsStored`) and `FoundUntilRemoval` | three scans of any subset of the candidates over two windows, queue of 2, exit at any moment; a table of 4, five callsigns, three with one home slot, two with one hash |
| `js8_decode` | `OnePublishes` (`TypeOK`, `OncePerClearing`, `SeenIsPublished`), `EpochRight` (`HeardInEpoch`, `RepeatsAreLate`) | three scans over two epochs, with and without the refine worker, which may be late by any time |
| `wsdict` | `MirrorRight` (`TypeOK`, `Converges`), `SweepsOnlyExpired`, and under fairness `ExpiredAreSwept` | two keys, two overlapping patterns (one key; all keys) subscribed to in either order and again, two writers of the same keys with two writes, a channel of 1, a connection lost at any point of a push |
| `tci` | the server's `ClientsListed` (`TypeOK`, `ListsAreClients`), `WindowInFft`, `TuningAgrees` (`TunedAsTold`, `StatusAgrees`), and under fairness `Delivered` (`FramesInOrder`, `EchoesArrive`); the uploaders' `ReportsRight` (`UploadTypeOK`, `PacketIsBest`, `UnsentIsPending`, `SeqIsReports`), `LinesApart`, and under fairness `Retried` (`BatchIsSent`, `Resent`) | two connections, one sink, a channel of 2, two commands of each client, six audio blocks: the channel is full of audio while an echo waits, and the commands overlap. Four decodes of up to four stations, any number of failed uploads; one report fits a datagram with the templates, two fit only without them (with them they are refused), three end the process; two breaks of the connection and a time-out of any send; a cache of one |
| `algorithms` | the readers' `FrameRight` (`TypeOK`, `OwnFrame`, `FrameIntact`), `SnapshotIntact`, `FilesInOrder` (`RecordingInOrder`, `PlaysFileInOrder`), and under fairness `NewestShown`; the CW tracker's `TracksRight` (`TrackTypeOK`, `TracksDistinct`, `OneCarrierPerTrack`) and `SpotsRight` (`ConfirmedAcrossWindows`, `DominantIsSpotted`, `EditDistIsOneEdit`), the Morse decoder's `KeyedIsRead` (`DeGlitched`, `DecodesWhatWasKeyed`), OSD's `MostLikely` (`MostReliableBasis`, `NearestWithinOrder`), JS8's `FramesRead` (`ReadAsSent`, `ErrorsRejected`) | a ring of 16 with the device 2 blocks behind and reads of 3; 32 blocks pass the reuse of a map entry, 24 that of a window's first slot. Two carriers on 10 bins over three to five windows, in four scenes (steady: all heard, more than the merge width apart, drifting by no more than the drift width and nearer to their own last bin than to another's; fading: standing still; free: anywhere; copy: one, decoded as a call, as the first letters of it, or with one letter wrong); one or two letters at two speeds with a glitch anywhere; every word of four values, erased positions included, for four codes of length 5, every sign pattern for one of length 7; frames at every end of their encodings, and every pair and every burst of up to six wrong bits |
| `callsigns_short` | violation of `FoundByShortHash` | the table of `ft8_decode` |
| `ft8_exit` | violation of `DrainedAtExit` | the callback of `ft8_decode` |
| `js8_epoch` | violation of `OncePerEpoch` | those of `js8_decode` |
| `record_all` | violation of `EachBlockRecorded` | the recorder of `algorithms` |

A property that is a conjunction is given with its parts.

No run checks for deadlock: each model stops at its bounds, and the system
itself may be idle for ever when nothing arrives.

### What the passing runs show

*Scanning.* The worker never decodes one window's candidates with another
window's time, although the index may be seen before the slot's flag; a scan
never starts before its blocks are in the ring, although the scan thread never
waits for a copy; windows come out once and in order. Once the flag has dropped at
most one more scan is launched (`OneMoreAfterStop`): the one on its way, which in
FT8's order, where nobody joins the scan thread, may meet slots that are already
freed. `FT8Cuda.cc:262-265` reports that the stream rarely gets stuck; `Wedge` is
that, at any time and for good. Published slots are released and `stop()` returns
unless it happens; then neither need be so, because the worker's waits do not look at
the flag. `ImplementsFifo` says all of the hand-over in one formula: slots,
flags, events and indices are a bounded queue, in which a window is decoded at
most once, at the head, before its slot is used again. What protects a window from
being overwritten is the ring's depth alone, and `ScanTiming` says how deep:
Cap + HostDelay + Slots * ScanTime blocks.

*The composite.* The channelizer picks ring slots from counters that its own
stream's callbacks advance later. That is right only because the copy of the
input block, from memory that `rx888.cc:81` takes from `calloc`, makes the host
wait for the stream: the constant `HostCopyWaits`. ARCHITECTURE.md line 54 calls
that memory "pinned host"; if it were, the copy would not wait, two frames could
be given one slot, and `SignalsNewBlock` fails (set `HostCopyWaits` to FALSE in
`MCCompositeRing.cfg` to see it). `MagInOrder` needs `Buffers` to be at least
2 * (MaxLag + Slack) + 1, and `InputIntact` needs MaxLag + Slack + 1 input blocks.
Both rings have 16 buffers and both lag limits are 4, so a batch of the
channelizer's frames may take 11 blocks without harm, but one of MagBlock's
copies only 3: the composite's count may run ahead by what the channelizer is
behind as well as by what rx888 delivers. One buffer less and TLC finds a repeated
block (Buffers = 6 with MaxLag = 1 and Slack = 2).

*FT8 and JS8.* Of the spots two threads decode in a window none is lost, none is
doubled, and the strongest is kept, wherever the program exits. Every message
published in JS8 comes from exactly one of the threads that decoded it; what a scan
decodes is published for the scan's own epoch, with the refine worker running or
not, and only a refine job that outlived its epoch repeats a message within one.
While nothing has been removed from the callsign table each recent callsign is
found.

*The dictionary.* A subscriber's copy ends right except after one of five
races, which the model names one by one in `raced` (two changes of a key
announced out of order, by writers or by the sweep; a value read for the initial
push and sent after a newer one; a full channel; an update taken for the
acknowledgement). Nothing else spoils a copy: not late or merged subscriptions,
not deletions, not expiry, not a second push of keys that were already covered,
not a connection lost in the middle of a push.

*TCI.* The comment on `reliable_send` holds: an echo is not lost behind audio,
whatever is dropped. The frequency is limited to the highest whose bins lie in
the FFT (the announced limit, `ClampAdvertised`, would not be). What the clients
are told and what a sink is tuned to agree except after commands of two
connections overlapped, and after the browser tuned; the browser's status agrees
except after a TCI client tuned, and until `cmdWorker` has ended by an exception.

*Readers.* `refineCandidate` does not wait for the event its ring's header asks
readers to wait for; it reads whole frames all the same, because the scan that
found the candidate waited for nearly all of the blocks, as long as the frame is
younger than the retained window by the time of the copy, a margin its age test
does not keep. The map it looks the frame up in is smaller than the age a job
may have, and only the test for an incomplete frame stands between a late job and
another candidate's frame (`OwnFrame` says until when). The recorder keeps order
and skips no more than arrives while it is late; the newest waterfall row is shown in the
end however the rate is limited.

*Uploaders.* A report stays pending until the packet with it was sent, is sent
with its best SNR, and the sequence number counts what was sent; a packet that
has grown too long is refused, or ends the process, and is never sent cut. A line
whose send fails, on a broken connection or by the 5 s time-out, is sent over the
new connection; the lines a broken connection
took before without an error are lost. Log lines of one text are a window apart
but for the disorder of the decodes.

*Algorithms.* The tracker never puts two tracks on a bin, keeps each to one
carrier while the carriers keep apart and drift slowly, and spots what was decoded in two windows;
the Morse decoder reads what was keyed if it holds a dit; OSD finds the nearest
codeword among those that differ at up to `order` of the most reliable positions;
JS8 frames are read as they were sent, up to a payload filled to its last bit, and
frames with one, two or a short burst of wrong bits are rejected.

### What the violations show

`callsigns_short`: a short hash is shifted up to find the start of the probe, but
the low bits it then lacks are those that chose the slot, so a look-up by 10 or
12 bits mostly misses callsigns that are in the table (`message.h:67` promises the
look-up by all three).

`ft8_exit`: only a later scan with candidates flushes the FT8 window. When a
recording has been played back there is none, and after its three seconds
`hf_rx --playback-once` exits with the last window's spots unpublished, where
`HFRx.cc:290-291` says that the pipeline drains. `DrainedAtExit` is stated for the
case that the callback and the refine worker were done in time, so it is not the
three seconds that TLC blames. That the program may exit earlier is in the model
(`Exit` has no condition), and loses more.

`js8_epoch`: a refine job is tested against the set of the epoch in which it ends,
so a message may be published twice with times of one epoch; `js8.cc:646` says
that the set suppresses that.

`record_all`: a recorder that is late takes the newest block next and skips those
between; `ARCHITECTURE.md:37-38` says that it writes each block.

### Exceptions the properties name

* A subscriber's copy of a key may stay old after one of the five races (`Converges`,
  `raced`).
* The JS8 client is tested before the lock it is used under (`js8.cc:483`); with the
  refine worker running, `JS8Decode` reaches `crashed`, where one thread has reset
  it under the other. No document says otherwise, so no property states it.
* While nothing is heard, an FT8 window is published late.
* A callsign whose probe chain a clean-up has broken is not found
  (`FoundUntilRemoval`).

### Fairness

* `scan`: weak fairness of each thread's steps, of the joining caller, and of the
  device as long as its stream is not stuck, which the operating system and the CUDA
  runtime provide as long as the program runs; nothing of the input, of `Start` or of
  `Stop`, and not that a stuck stream never happens.
* `wsdict`: weak fairness of the sweep's steps. Its task waits only for two locks
  that no task holds across an await, and is restarted when it fails.
* `tci`: weak fairness of the handler between the two halves of a VFO command, of
  the sender tasks and of the writer task, which tokio's scheduler gives tasks that
  are ready. The writer's includes that the socket takes a message in the end or
  fails; a client that reads nothing for ever holds its own connection only. Of the
  uploaders, weak fairness of time and of each program's loop; strong fairness of a
  successful upload, the assumption that of the uploads tried again and again one
  succeeds. The APRS loop's includes that an attempt to connect succeeds in the end;
  a connection may still break or time out at once.
* `algorithms`: weak fairness of the writer, the device, the waterfall's thread with
  its timer, and the playback loop.

## 4. Proofs

Each theorem is about the specification that its run checks, for every value of
the constants that the module's named assumption admits; the bounds of the runs
(`MaxRx`, `MaxTime`, ...) are constants like the others, so nothing is proved for
small numbers only.

| Module | Theorem | Property |
|---|---|---|
| `ContScanProofs` | `TypeCorrect`, `OwnSlots`, `DecodesCoherently`, `ScansCompleteWindows` | `TypeOK`, `ScansHaveOwnSlots`, `DecodeCoherent`, `WindowComplete` |
| | `StopLaunchesOneMore` | `OneMoreAfterStop` |
| | `RefinesFifo` | `ImplementsFifo`, the refinement of `ScanFifo` |
| | `WindowsStayIntact` | `WindowIntact` of `ScanTiming`, if `RingDeepEnough` |
| `CompositeRingProofs` | `InputStaysRight` | `InputRight` |
| | `SignalsStayNew` | `SignalsNewBlock`, if `HostCopyWaits` |
| | `ReadsStayInOrder` | `ReadInOrder`, if `HostCopyWaits` and `ReaderFits` |
| `FT8DecodeProofs` | `TypeCorrect`, `StrongestIsKept`, `PublishedOnce`, `ScansStayInWindow` | `TypeOK`, `BestOfWindow`, `OncePerWindow`, `SpotsInWindow` |
| | `TableStaysRight`, `FoundWhileKept` | `TableRight`, `FoundUntilRemoval` of `CallsignTable` |
| `JS8DecodeProofs` | `PublishedOnce`, `EpochsKept` | `OnePublishes`, `EpochRight` |
| `WsDictProofs` | `CopiesAgree`, `SweepRemovesExpired` | `MirrorRight`, `SweepsOnlyExpired` |
| `TciProofs` | `WindowStaysIn`, `TunedWhereTold`, `ListsStayRight` | `WindowInFft`, `TuningAgrees`, `ClientsListed` |
| | `FramesStayInOrder` | `FramesInOrder`, the safety half of `Delivered` |
| `RingReadersProofs` | `FramesStayRight`, `SnapshotsStayIntact`, `FilesStayInOrder` | `FrameRight`, `SnapshotIntact`, `FilesInOrder` |
| | `TracksStayRight`, `SpotsStayRight` | `TracksRight`, `SpotsRight` of `CwTrack` |
| | `EditDistIsOneEditAway` | `editDistLE1` against its definition, for all words |
| `UploadersProofs` | `ReportsStayRight`, `LinesStayApart` | `ReportsRight`, `LinesApart` |

### The scan hand-over

For every ring depth, window, stride and number of slots with Cap <= N
(`ScanAssumption`). `ScansHaveOwnSlots`, `DecodeCoherent` and `WindowComplete` are
not inductive. The strengthening `IInv` numbers scans by
the value of the write index they were claimed with and says which numbers are
where: below `ri` released, up to `Finished` completed on the device, up to
`Enqueued` on the stream, the last one possibly still being claimed. `QueueInv`
ties the stream's entries to those numbers and to their slots, `CompletedInv`
says a completed slot holds its own window's result, `DispatchedInv` that a
dispatched flag belongs to exactly one number and is not left over from the last
lap, and `CountersInv` that at most `Slots` numbers are in use. The one fact of
arithmetic is `SlotOfInjective`: numbers less than `Slots` apart have different
slots (`ModInjective`). One lemma per action shows that `IInv` is preserved.

`LifeInv` counts the claims made after the flag has dropped: the scan thread looks at
the flag before each, so it makes the one it was on its way to and no other. The
refinement needs one thing more, that claims are in order: `ClaimInv` says that
`lastScan` is never behind the window that was claimed last and that the poll goes
on to a claim only when the index has passed it. With it every step of the
handshake is shown to be a step of the queue or to leave it alone; the step in
which the two publishing stores become visible in the wrong order leaves it alone.

For `ScanTiming`, if `RingDeepEnough` (Cap + HostDelay + Slots * ScanTime <= N),
`WindowsStayIntact` proves `WindowIntact`: `DeadlineInv` gives entry i of the
stream a deadline of i * ScanTime blocks after the head started, still inside the
ring; a new entry is at most number `Slots` by `OwnSlots`' invariant, which
holds because every step of `ScanTiming` is one of `ContScan`.

### The composite

`RingAssumption` asks for MaxLag + Slack + 1 <= RxBuffers and Slack >= 1; without the
second rx888 could be copying into the next block when the position is read and
already be late. `InputInv` bounds rx888's head by the position from which each
batch and each operation was taken (`BatchInv`, `StreamInv`), keeps the FFTs on the
stream in order (`FftOrder`) and the last block in its place (`FrameInv`): all that
`InputRight` needs, whether the host waits or not.

`SignalsNewBlock` is about slots that the host chooses from a counter before the
callback that advances it has run. `ShapeInv` says that the stream never holds
more than one frame, each put followed by its signal and each slot still the
counter's; that is where `HostCopyWaits` is needed. `RingInv` then says of every
slot that nothing is going to be written into that its block is in order and not
newer than the last FFT's. `AudioInv` says the same of the audio ring, whose writer
looks at its reader.

Nothing keeps the channelizer from lapping MagBlock. `MagInv` counts: from the read
of the position at block `since` of rx888, the composite can grow by the block under
way, by the blocks the channelizer may have been behind, and by one for each block
rx888 has delivered since (`Within`), which the deadline limits. `NotLapped` is the
sum; with `ReaderFits`, 2 * (MaxLag + Slack) + 1 <= Buffers, a block that is still to
be copied is still held. `HfMoves` states what any step does to the ring and is all
that the steps of the other threads need. `HostCopyWaits` is what CUDA does for
pageable memory, which `rx888.cc:81` allocates; that a batch is done within the slack
is the real-time assumption on which the program rests, made explicit.

### FT8, JS8 and the callsign table

For every set of candidates, queue and refine limit and window length
(`FT8Assumption`), `BestOfWindow` and `OncePerWindow` need `GenInv`: a spot in the open
window carries the present window's number, a spot that has been swapped out an
earlier one, and nothing is left to flush when the callback is not in `flushWindow`,
so that the swap overwrites nothing. `SpotsInWindow` needs `TimeInv`: the last
recorded start is the open window's, and the scan that the callback is working
on lies within that window. The refine worker keeps both because it adds to the
window only under the lock under which the window and its number change.

In `JS8Decode`, `OncePerClearing` is split by where the two messages are, sent or with
either thread (`OnceInv`), and `SeenInv` says that the set holds exactly the messages
of the present clearing and that the clearing never goes back. `AInv` adds the times:
the scan's messages are of the epoch of their clearing (`EpochInv`, since nobody else
writes `last_epoch_`), no job is of an epoch to come (`JobsInv`), so a message whose
time is not of its clearing's epoch is a refine job's that came late (`Timely`).

In `CallsignTable` the count is a cardinality (`SizeCounts`), `FreshInv` says the entry of
a callsign is no older than the time since it was stored, and `ChainInv` is the
invariant of linear probing: from a stored callsign's home slot to its own there is
no empty slot. A clean-up that removes an entry breaks it, which is what
`FoundUntilRemoval` says and what `hashtable_lookup` lives with.

### The dictionary

`MirrorRight` speaks of quiet states only. `MirrorInv` says, for each subscriber and
key, what holds in between: nothing comes of a key that is not subscribed to
(`OutsideAt`); while the pair has not raced, everything still to be announced or
pushed is what the dictionary holds (`CurrentAt`); and the present value is on its
way, as an announcement, in the initial push, or as the last news of that key in the
channel, or has arrived (`ToldAt`). A connection whose write task has ended has an
empty copy and an empty channel, and pushes into it change nothing (`LostAt`); only
such a one is taken out of the table by `fan_out`. Each action either keeps the three or records the
pair in `raced`, so the proof also shows that the list of races is complete.
`SweepsOnlyExpired` rests on the test that `sweep_expired` repeats under the write
lock.

### TCI

`TuneInv` follows one sink: the frequency told to the clients is queued last, being
applied, or applied, unless commands overlapped (`GoingAt`), and the status is what
`cmdWorker` stored or is about to publish (`StatusAt`). `ConnInv` bounds each channel
with the room that was granted but not yet used, and keeps the frames of a sink in
the channel in order between the last frame received and the next block (`Ordered`).
`ListInv` ties the subscriber lists to the life of each connection.

### The readers of the rings

A behaviour has one reader, so `ReadersInv` has a part that all share (`CoreInv`,
`SideTypes`) and one for each reader. What stands between a reader and a writer that
never waits is `WriterNear`: `doCopy` publishes each block before it enqueues the
next, and gets no more than ReadTime blocks past the position a read began at.
`RefineInv` adds `MapRight`, which says that the map entry of a mag slot holds its own
block or that of a slot MapLen or more later; by the time a look-up finds the
later one, the test for an incomplete frame has passed only if the exception that
`OwnFrame` names is true. That all blocks of a frame are made although nothing waits
for them follows from the blocks its scan waited for. `RecInv` bounds what the
recorder can skip by the longest time it was away, `PlayInv` counts the rounds of a
looping file.

`ReaderAssumption` asks for the real-time margins in the form the run has them
(WSlots + ReadTime <= Depth, Lag + 1 <= Depth) and for Sym > 1. The proof needed the last
two: with one block per symbol the block that `MagBlock` may be behind by is a whole
slot, which the bound of `OwnFrame` does not count; and a device further behind than
the ring is deep overwrites what the recorder was told of. The code has 32 blocks
per symbol and rings of 16 and more.

### The uploaders

`UpInv` is `TypeOK` with `BestPending` (while the process lives, what is pending of a
station is the best SNR heard since it was last sent), `PacketIsBest`, `SeqIsReports` and
`CacheRight`. The last one is what makes `LinesApart` true of a cache that evicts:
`LastLine` says that the cache holds the timestamp of a station's last line, or has
forgotten one that is more than a window before the newest decode, so that by the
bound on the disorder no decode still to come is close to it. `NoneCutShort` is the one
fact of arithmetic: a batch that `_sender_block` would have to cut is longer than any
datagram, so no packet that is sent leaves a report out.

### The CW tracker

A window of `CwTracker::step` is a loop over the peaks, one over the tracks and one
over the calls. They are written as recursive functions over 0 .. n, and the
induction they need is made with sets in the place of predicates: `Steps` says that a
subset of 0 .. N with 0 and all successors is the whole of it, `Recursion` that a
recursion over 0 .. N defines a function; both from the least element of a set of
numbers. On these rest `AssociateRuns`, `ExpireRuns` and `EmitAllRuns`.

`FoldInv` holds after each peak: no two tracks are at one bin, a claimed track is at
the bin of a peak already seen, so that no later peak, which is at another bin, is
there. A track that a peak moves leaves no room for a second one at the new bin,
because `Nearest` would have taken that one, unless it was claimed. In the
steady scene `SteadyInv` says more: each track claimed so far is at its own carrier,
each other one is where its carrier was, and that carrier's peak is still to come.
`TrackInv` is what is left of these between windows, with `SpotGood` for each
track: what is counted is the number of windows, and the call decoded most is
spotted or a variant of what was.

The proof attempts corrected the model twice. Two cases of `EditDistLE1` overlapped
where lengths differ by more than one, and the steady scene bounded the drift and the
distance of the carriers only; from a Drift of 3 on, a carrier may then come nearer to
where another one was than to where it was itself, and the tracker does swap the two,
which the run at Drift 2 could not show.

### Only model-checked

* Liveness under fairness (`PublishedIsReleased`, `StopReturns`, `ExpiredAreSwept`,
  `EchoesArrive`, `NewestShown`, `BatchIsSent`, `Resent`), which the installed provers do
  not reach.
* The algorithms of `CwMorse`, `OsdCore` and `Js8Text` (`KeyedIsRead`, `MostLikely`,
  `FramesRead`). What they compute rests on facts about data that no loop
  invariant shortens: the timing of every keyed text, ranks and spans of a matrix
  over GF(2), and the distances of a CRC, which are properties of one polynomial.

## 5. Not modelled

Two generated files, `jsc_list.cc` and `jsc_map.cc`, are 524 450 of the
repository's 545 000 lines of implementation: tables of words, of which the model
keeps the number of a word. What can be modelled is in the other four per cent.

Of those, numerical kernels, belief propagation, the noise-floor fit, the envelope
and threshold of the CW decoder and the refine DSP are floating point arithmetic.
JS8's 50 bit compound callsigns do not fit TLC's integers. Device start-up, option
parsing, WebSocket framing, JSON and MessagePack are input and output without
state of their own. The LLR capture, the statistics and the dashboards only show
things; `ws_bridge.py` and `audio_router.py` pass them on. In `hf_rx` the main loop
never returns, so the destructors of the blocks run only in the test programs; the
destruction of the scanners is modelled, that of the other blocks is not. The
programs for RTL-SDR and bladeRF, the ZMQ helpers and the analysis scripts are
separate from `hf_rx`. `ft8_lib` is third-party code.

## 6. Plan

Modelled: the scan hand-over and its abstract queue, the composite, the readers of
the rings, both decoders, the dictionary, the TCI server, the uploaders, and the
sequential algorithms that integers can express. What is left, in this order:

1. Proofs about the Morse decoder's de-glitching, and that OSD's reduced matrix spans
   the code; both with the induction over intervals that `CwTrack` uses.
2. An abstract specification of a mirrored dictionary that `WsDict` implements up
   to the races it names.
3. Compound callsigns and grids of JS8, with numbers as digit sequences; the band
   map of the CW skimmer.
