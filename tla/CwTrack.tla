------------------------------ MODULE CwTrack ------------------------------
(***************************************************************************)
(* CwTracker::step: the layer that follows CW carriers from one detection  *)
(* window of the skimmer to the next and decides which decoded callsigns   *)
(* to spot.  A window is its number.  The metric of a bin is a small       *)
(* number; a spot's level, speed, frequency and CQ flag are left out.      *)
(* What the decoder makes of a track's bin is any set of callsigns.        *)
(*                                                                         *)
(* The carriers are the environment, in one of four scenes, chosen in Init:*)
(*   steady  all are heard in every window and stay more than Merge bins   *)
(*           apart; each drifts by at most Drift bins, and to where its own *)
(*           last bin is nearer than another's                             *)
(*   fading  they stay where they are, that far apart, and come and go     *)
(*   free    they are anywhere, come and go                                *)
(*   copy    one stays where it is and is decoded; in the other scenes     *)
(*           nothing is                                                    *)
(***************************************************************************)
EXTENDS Integers, Sequences, FiniteSets, SequencesExt

CONSTANTS
  Scenes,
  Carriers,  \* their numbers
  Bins,      \* nbins
  Levels,    \* metric at a carrier's centre; one less for each bin off it
  Gate,      \* gate
  Drift,     \* drift_bins
  Merge,     \* merge_bins
  Confirm,   \* confirm
  Ttl,       \* ttl_slots, in windows
  Recent,    \* ttl_slots / 4, in windows
  Calls,     \* callsigns the decoder may report, as sequences of letters
  MaxWindow  \* bound: windows, in each scene

ASSUME TrackAssumption ==
  /\ Scenes \subseteq {"steady", "fading", "free", "copy"}
  /\ IsFiniteSet(Carriers) /\ Carriers = 1 .. Cardinality(Carriers)
  /\ {Bins, Gate, Drift, Merge, Confirm, Ttl, Recent} \subseteq Nat
  /\ Levels \subseteq Nat /\ Confirm > 0
  /\ Gate > 0        \* above the noise
  /\ Drift <= Merge  \* CW_DRIFT sets both
  /\ IsFiniteSet(Calls) /\ \A c \in Calls : c \in Seq(ToSet(c))
  /\ MaxWindow \in [Scenes -> Nat]

VARIABLES
  scene,
  window,  \* wi
  pos,     \* the bin of each carrier, where the scene needs it
  tracks   \* tracks_; srcs and heard are history: the carriers whose peaks
           \* the track followed, the windows each call was decoded in

trackVars == <<scene, window, pos, tracks>>

Abs(n) == IF n < 0 THEN -n ELSE n
NoCalls == [c \in Calls |-> 0]

InBand == 2 .. Bins - 3  \* the bins a peak may be at

Apart(p) == \A c, d \in Carriers : c # d => Abs(p[c] - p[d]) > Merge

TrackInit ==
  /\ scene \in Scenes /\ window = 0
  /\ pos \in [Carriers -> InBand]
  /\ IF scene \in {"steady", "fading"} THEN Apart(pos)
     ELSE pos = [c \in Carriers |-> 2]
  /\ tracks = << >>

(***************************************************************************)
(* Detection.                                                              *)
(***************************************************************************)
(* The metric over the bins: each carrier and its shoulders.               *)
Metric(p, level, on) ==
  [b \in 0 .. Bins - 1 |->
     LET at == {level[c] - Abs(b - p[c]) : c \in on} \union {0}
     IN  CHOOSE m \in at : \A n \in at : n <= m]

(* Local maxima over two bins to either side, not below the gate.  Equal   *)
(* neighbours are all peaks.                                               *)
Peaks(snr) ==
  {b \in InBand : snr[b] >= Gate /\ \A d \in -2 .. 2 : snr[b] >= snr[b + d]}

(* Strongest first; equal ones in any order.                               *)
Sorted(snr) ==
  {s \in SetToSeqs(Peaks(snr)) :
     \A i \in 1 .. Len(s) - 1 : snr[s[i]] >= snr[s[i + 1]]}

(***************************************************************************)
(* Association of a peak with a track.                                     *)
(***************************************************************************)
NewTrack(bin, src) ==
  [bin |-> bin, last |-> window', count |-> NoCalls, seen |-> NoCalls,
   emitted |-> {}, srcs |-> src, heard |-> NoCalls]

InReach(st, p) ==
  {t \in DOMAIN st.tracks :
     t \notin st.claimed /\ Abs(st.tracks[t].bin - p) <= Drift}

(* Mutant: the first track in reach.                                       *)
FirstInReach(st, p) ==
  CHOOSE t \in InReach(st, p) : \A u \in InReach(st, p) : t <= u

(* The nearest unclaimed track, the oldest of equally near ones.           *)
Nearest(st, p) ==
  LET d(t) == Abs(st.tracks[t].bin - p)
  IN  CHOOSE t \in InReach(st, p) :
        \A u \in InReach(st, p) : d(t) < d(u) \/ (d(t) = d(u) /\ t <= u)

Shadowed(st, p) ==
  \E t \in DOMAIN st.tracks : Abs(st.tracks[t].bin - p) <= Merge

Attach(st, p, src) ==
  CASE InReach(st, p) # {} ->
         LET t == Nearest(st, p)
         IN  [tracks |-> [st.tracks EXCEPT ![t].bin = p, ![t].last = window',
                                           ![t].srcs = @ \union src],
              claimed |-> st.claimed \union {t}]
    [] InReach(st, p) = {} /\ Shadowed(st, p) -> st
    [] OTHER -> [tracks |-> Append(st.tracks, NewTrack(p, src)),
                 claimed |-> st.claimed \union {Len(st.tracks) + 1}]

(* The peaks in their order; a peak's source is the carrier at its bin.    *)
Associate(order, p, on) ==
  LET st[i \in 0 .. Len(order)] ==
        IF i = 0 THEN [tracks |-> tracks, claimed |-> {}]
        ELSE Attach(st[i - 1], order[i], {c \in on : p[c] = order[i]})
  IN  st[Len(order)].tracks

Expire(trs) ==
  LET kept[i \in 0 .. Len(trs)] ==
        IF i = 0 THEN << >>
        ELSE IF window' - trs[i].last <= Ttl THEN Append(kept[i - 1], trs[i])
        ELSE kept[i - 1]
  IN  kept[Len(trs)]

(***************************************************************************)
(* Decoding and spotting.                                                  *)
(***************************************************************************)
(* Mutant: every repeat in a window counts.                                *)
CountRepeats(t, now, repeats) ==
  [t EXCEPT !.count = [c \in Calls |-> IF c \in now THEN @[c] + repeats ELSE @[c]],
            !.seen = [c \in Calls |-> IF c \in now THEN window' ELSE @[c]],
            !.heard = [c \in Calls |-> IF c \in now THEN @[c] + 1 ELSE @[c]]]

(* The calls of this window's decode, however often they are repeated.     *)
CountCalls(t, now, repeats) ==
  [t EXCEPT !.count = [c \in Calls |-> IF c \in now THEN @[c] + 1 ELSE @[c]],
            !.seen = [c \in Calls |-> IF c \in now THEN window' ELSE @[c]],
            !.heard = [c \in Calls |-> IF c \in now THEN @[c] + 1 ELSE @[c]]]

(* The loop that aligns s with t, one letter longer: the letters match     *)
(* until at most one of t is skipped, and after it.                        *)
Aligns(s, t) ==
  LET stop == {i \in DOMAIN s : s[i] # t[i]}
      i0   == IF stop = {} THEN Len(t) ELSE CHOOSE i \in stop : \A j \in stop : i <= j
  IN  \A j \in i0 .. Len(s) : s[j] = t[j + 1]

EditDistLE1(a, b) ==
  CASE Len(a) = Len(b) -> Cardinality({i \in DOMAIN a : a[i] # b[i]}) <= 1
    [] Len(a) + 1 = Len(b) -> Aligns(a, b)
    [] Len(a) = Len(b) + 1 -> Aligns(b, a)
    [] OTHER -> FALSE

(* A fragment of e, or a near miss.                                        *)
Variant(e, c) == IsStrictPrefix(c, e) \/ EditDistLE1(e, c)

Confirmed(t, c) == t.count[c] >= Confirm

(* Decoded at least half as often as the call most decoded of those heard  *)
(* lately.                                                                 *)
Dominant(t, c) ==
  \A d \in Calls : window' - t.seen[d] <= Recent => 2 * t.count[c] >= t.count[d]

Emit(t, c) ==
  IF /\ Confirmed(t, c) /\ c \notin t.emitted
     /\ Dominant(t, c)
     /\ ~ \E e \in t.emitted : Variant(e, c)
  THEN [t EXCEPT !.emitted = @ \union {c}] ELSE t

EmitAll(t, now) ==
  LET e[i \in 0 .. Len(now)] == IF i = 0 THEN t ELSE Emit(e[i - 1], now[i])
  IN  e[Len(now)]

(* seen_now is a hash set: its calls come in any order.                    *)
Decode(t) ==
  {EmitAll(CountCalls(t, ToSet(now), repeats), now) :
     now \in UNION {SetToSeqs(S) : S \in {S \in SUBSET Calls : Cardinality(S) <= 2}},
     repeats \in 1 .. 2}

(***************************************************************************)
(* One window.                                                             *)
(***************************************************************************)
Drifts(p) ==
  \A c \in Carriers :
    /\ Abs(p[c] - pos[c]) <= Drift
    /\ \A d \in Carriers \ {c} : Abs(p[c] - pos[c]) < Abs(p[c] - pos[d])

Scene(p, on, snr) ==
  CASE scene = "steady" -> /\ on = Carriers /\ Apart(p) /\ Drifts(p)
                           /\ \A c \in Carriers : p[c] \in Peaks(snr)
    [] scene = "fading" -> p = pos
    [] scene = "copy"   -> p = pos /\ on \subseteq {1}
    [] OTHER            -> TRUE

Step(p, on, snr) ==
  \E order \in Sorted(snr) :
    LET trs    == Expire(Associate(order, p, on))
        active == {t \in DOMAIN trs : trs[t].last = window'}
    IN  IF scene = "copy" /\ active # {}
        THEN \E t \in active : \E d \in Decode(trs[t]) :
               tracks' = [trs EXCEPT ![t] = d]
        ELSE tracks' = trs

TrackStep ==
  /\ window < MaxWindow[scene]
  /\ window' = window + 1
  /\ \E p \in [Carriers -> InBand], on \in SUBSET Carriers,
        level \in [Carriers -> Levels] :
       LET snr == Metric(p, level, on)
       IN  /\ Scene(p, on, snr)
           /\ pos' = IF scene = "steady" THEN p ELSE pos
           /\ Step(p, on, snr)
  /\ UNCHANGED scene

TrackSpec == TrackInit /\ [][TrackStep]_trackVars

-----------------------------------------------------------------------------
(* Types of the tracks.  A track is dropped once it is idle for longer     *)
(* than Ttl.                                                               *)
TrackTypeOK ==
  /\ scene \in Scenes /\ window \in 0 .. MaxWindow[scene]
  /\ pos \in [Carriers -> InBand]
  /\ \A i \in DOMAIN tracks :
       LET t == tracks[i]
       IN  /\ t.bin \in InBand /\ t.last \in window - Ttl .. window
           /\ t.count \in [Calls -> Nat]
           /\ t.emitted \subseteq Calls

(* No two tracks are ever at one bin, whatever the carriers do: association*)
(* is with the nearest track, and a peak near a claimed track starts none. *)
(* (They may well come closer than Merge.)                                 *)
TracksDistinct ==
  \A i, j \in DOMAIN tracks : tracks[i].bin = tracks[j].bin => i = j

(* A track belongs to one carrier for life, so that sightings of a call on *)
(* different carriers are never added up: when carriers keep apart and     *)
(* drift slowly (steady), or stand still and fade (fading).                *)
OneCarrierPerTrack ==
  scene \in {"steady", "fading"} =>
    \A i \in DOMAIN tracks : Cardinality(tracks[i].srcs) <= 1

(* What is spotted was decoded on that track in Confirm windows: repeats   *)
(* within a window prove nothing.                                          *)
ConfirmedAcrossWindows ==
  \A i \in DOMAIN tracks :
    \A c \in tracks[i].emitted : tracks[i].heard[c] >= Confirm

(* The call decoded most on a track is spotted as soon as it is confirmed, *)
(* unless a call it looks like a variant of was spotted before.            *)
DominantIsSpotted ==
  \A i \in DOMAIN tracks :
    LET t == tracks[i]
    IN  \A c \in Calls :
          (\A d \in Calls : t.heard[c] >= t.heard[d]) /\ t.heard[c] >= Confirm
            => c \in t.emitted \/ \E e \in t.emitted : Variant(e, c)

(* editDistLE1 is true of words at most one substitution, insertion or     *)
(* deletion apart.                                                         *)
OneEdit(a, b) ==
  \/ a = b
  \/ Len(a) = Len(b) /\ \E i \in DOMAIN a : \A j \in DOMAIN a \ {i} : a[j] = b[j]
  \/ \E i \in DOMAIN a : RemoveAt(a, i) = b
  \/ \E i \in DOMAIN b : RemoveAt(b, i) = a

EditDistIsOneEdit ==
  \A i \in DOMAIN tracks : \A c \in tracks[i].emitted, d \in Calls :
    EditDistLE1(c, d) <=> OneEdit(c, d)

(* Tracks never share a bin, and none changes carriers that keep apart     *)
(* (association and expiry in CwTracker::step).                            *)
TracksRight == TrackTypeOK /\ TracksDistinct /\ OneCarrierPerTrack

(* What is spotted was confirmed, and what is confirmed is spotted, but    *)
(* for variants of an earlier spot.                                        *)
SpotsRight == ConfirmedAcrossWindows /\ DominantIsSpotted /\ EditDistIsOneEdit

=============================================================================
