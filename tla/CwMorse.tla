------------------------------ MODULE CwMorse ------------------------------
(***************************************************************************)
(* CwMorse::decode from the list of key-down and key-up runs on: short     *)
(* runs are absorbed, the dit length is taken from the marks, and the runs *)
(* are replayed as dots, dashes and gaps.  Lengths are in samples (hops of *)
(* hop_ms).  The steps before (smoothing, gain control, threshold) are     *)
(* floating point and are left out: a behaviour starts from the runs of a  *)
(* text keyed at Unit samples a dit, which noise may have cut short.       *)
(***************************************************************************)
EXTENDS Integers, Sequences, FiniteSets, SequencesExt

CONSTANTS
  Letters,  \* characters
  Morse,    \* morseTable: the elements of a character, 1 a dit and 3 a dah
  Texts,    \* texts keyed: words, each a sequence of letters
  Units,    \* samples of a dit
  Glitch    \* runs shorter than this many samples are absorbed: 2.5 hops

ASSUME MorseAssumption ==
  /\ Morse \in [Letters -> Seq({1, 3})]
  /\ \A c, d \in Letters : Morse[c] = Morse[d] => c = d
  /\ Texts \subseteq Seq(Seq(Letters))
  /\ Units \subseteq Nat /\ \A u \in Units : u >= Glitch

VARIABLES
  keyed,    \* what was keyed, and whether the noise left its timing alone
  mpc,      \* where decode is
  runs,     \* runs
  mi,       \* i of the loop over the runs
  dit2,     \* twice dit_ms_
  split,    \* the square of mark_split, 0 if the marks are all of one kind
  symbol,   \* symbol_
  text      \* text_

morseVars == <<keyed, mpc, runs, mi, dit2, split, symbol, text>>

Space == " "
Run(key, len) == [key |-> key, len |-> len]

(* The runs of a text: gaps of 1, 3 and 7 units inside and between         *)
(* characters and words.                                                   *)
Join(seqs, gap) ==
  FoldLeft(LAMBDA acc, s : IF acc = << >> THEN s ELSE Append(acc, gap) \o s,
           << >>, seqs)

KeyChar(c, u) ==
  Join([i \in DOMAIN Morse[c] |-> <<Run(TRUE, Morse[c][i] * u)>>], Run(FALSE, u))
KeyWord(w, u) == Join([i \in DOMAIN w |-> KeyChar(w[i], u)], Run(FALSE, 3 * u))
KeyText(t, u) == Join([i \in DOMAIN t |-> KeyWord(t[i], u)], Run(FALSE, 7 * u))

(* Noise of g samples, a samples into run k.                               *)
Cut(rs, k, a, g) ==
  SubSeq(rs, 1, k - 1)
    \o <<Run(rs[k].key, a), Run(~ rs[k].key, g), Run(rs[k].key, rs[k].len - a - g)>>
    \o SubSeq(rs, k + 1, Len(rs))

(* Noise either leaves runs long enough to be put together again, or not:  *)
(* then the timing is lost.  A blip before the signal does no harm.        *)
MorseInit ==
  \E t \in Texts, u \in Units :
    LET clean == KeyText(t, u)
    IN  /\ \/ runs = clean /\ keyed = [text |-> t, exact |-> TRUE]
           \/ \E s \in {1, 4} : /\ runs = <<Run(TRUE, 1), Run(FALSE, s)>> \o clean
                                /\ keyed = [text |-> t, exact |-> TRUE]
           \/ \E k \in DOMAIN clean : \E a \in 1 .. clean[k].len, g \in 1 .. Glitch - 1 :
                /\ a + g < clean[k].len
                /\ runs = Cut(clean, k, a, g)
                /\ keyed = [text |-> t,
                            exact |-> a >= Glitch /\ clean[k].len - a - g >= Glitch]
        /\ mpc = "front" /\ mi = 2 /\ dit2 = 0 /\ split = 0
        /\ symbol = << >> /\ text = << >>

(***************************************************************************)
(* Absorbing the short runs.                                               *)
(***************************************************************************)
DropFront ==
  /\ mpc = "front"
  /\ IF runs # << >> /\ Head(runs).len < Glitch
     THEN runs' = Tail(runs) /\ UNCHANGED mpc
     ELSE mpc' = "merge" /\ UNCHANGED runs
  /\ UNCHANGED <<keyed, mi, dit2, split, symbol, text>>

(* A short run joins its neighbours.                                       *)
Merge3 ==
  /\ mpc = "merge" /\ mi < Len(runs) /\ runs[mi].len < Glitch
  /\ runs' = SubSeq(runs, 1, mi - 2)
               \o <<Run(runs[mi - 1].key,
                        runs[mi - 1].len + runs[mi].len + runs[mi + 1].len)>>
               \o SubSeq(runs, mi + 2, Len(runs))
  /\ UNCHANGED <<keyed, mpc, mi, dit2, split, symbol, text>>

KeepRun ==
  /\ mpc = "merge" /\ mi < Len(runs) /\ runs[mi].len >= Glitch
  /\ mi' = mi + 1
  /\ UNCHANGED <<keyed, mpc, runs, dit2, split, symbol, text>>

DropBack ==
  /\ mpc = "merge" /\ mi >= Len(runs)
  /\ IF runs # << >> /\ Last(runs).len < Glitch
     THEN runs' = Front(runs) /\ UNCHANGED mpc
     ELSE mpc' = "estimate" /\ UNCHANGED runs
  /\ UNCHANGED <<keyed, mi, dit2, split, symbol, text>>

(***************************************************************************)
(* Dit length: the two clusters of the marks.  With marks of two lengths   *)
(* at most the 2-means iteration stays at the shortest and the longest.    *)
(***************************************************************************)
Marks == {runs[i].len : i \in {j \in DOMAIN runs : runs[j].key}}

Clusters(c1, c2) ==
  IF 10 * c2 > 18 * c1 THEN <<2 * c1, c1 * c2>> ELSE <<c1 + c2, 0>>

(* Otherwise the means are fractions; such a behaviour ends here.          *)
Estimate ==
  /\ mpc = "estimate"
  /\ IF Cardinality(Marks) \in {1, 2}
     THEN LET c == Clusters(CHOOSE m \in Marks : \A n \in Marks : m <= n,
                            CHOOSE m \in Marks : \A n \in Marks : m >= n)
          IN  dit2' = c[1] /\ split' = c[2] /\ mpc' = "replay"
     ELSE mpc' = "lost" /\ UNCHANGED <<dit2, split>>
  /\ mi' = 1
  /\ UNCHANGED <<keyed, runs, symbol, text>>

(***************************************************************************)
(* Replay.                                                                 *)
(***************************************************************************)
(* flushSymbol: an unknown symbol is dropped.                              *)
Flushed == SetToSeq({c \in Letters : Morse[c] = symbol})

IsDit(len) == split = 0 \/ len * len < split

ReplayMark ==
  /\ mpc = "replay" /\ mi <= Len(runs) /\ runs[mi].key
  /\ symbol' = Append(symbol, IF IsDit(runs[mi].len) THEN 1 ELSE 3)
  /\ mi' = mi + 1
  /\ UNCHANGED <<keyed, mpc, runs, dit2, split, text>>

(* Mutant: the character boundary where the word boundary belongs.         *)
GapEarly(len) ==
  CASE 200 * len < 173 * dit2 -> "element"
    [] OTHER -> "word"

(* onSpace: 1.73 and 4.58 dits.                                            *)
Gap(len) ==
  CASE 200 * len < 173 * dit2 -> "element"
    [] 200 * len >= 173 * dit2 /\ 200 * len < 458 * dit2 -> "char"
    [] OTHER -> "word"

(* A space before the first mark, or with nothing pending, is skipped.     *)
ReplaySpace ==
  /\ mpc = "replay" /\ mi <= Len(runs) /\ ~ runs[mi].key
  /\ IF symbol = << >> \/ Gap(runs[mi].len) = "element"
     THEN UNCHANGED <<symbol, text>>
     ELSE /\ symbol' = << >>
          /\ text' = text \o Flushed
                       \o (IF Gap(runs[mi].len) = "word" THEN <<Space>> ELSE << >>)
  /\ mi' = mi + 1
  /\ UNCHANGED <<keyed, mpc, runs, dit2, split>>

Take ==
  /\ mpc = "replay" /\ mi > Len(runs)
  /\ text' = text \o Flushed
  /\ symbol' = << >> /\ mpc' = "done"
  /\ UNCHANGED <<keyed, runs, mi, dit2, split>>

MorseStep ==
  \/ DropFront \/ Merge3 \/ KeepRun \/ DropBack
  \/ Estimate \/ ReplayMark \/ ReplaySpace \/ Take

-----------------------------------------------------------------------------
(* After the short runs are absorbed, marks and spaces alternate and every *)
(* one of them is long enough to be keyed.                                 *)
DeGlitched ==
  mpc \in {"estimate", "replay", "done", "lost"} =>
    /\ \A i \in DOMAIN runs : runs[i].len >= Glitch
    /\ \A i \in 1 .. Len(runs) - 1 : runs[i].key # runs[i + 1].key

(* A text with a dit in it is decoded as it was keyed, at any speed and    *)
(* despite noise inside a mark or a gap or before the first mark.  (A text *)
(* of dahs alone is taken for dits.)                                       *)
HasDit(t) == \E i \in DOMAIN t : \E j \in DOMAIN t[i] : 1 \in ToSet(Morse[t[i][j]])

DecodesWhatWasKeyed ==
  mpc = "done" /\ keyed.exact /\ HasDit(keyed.text) =>
    text = Join(keyed.text, Space)

(* Noise is absorbed wherever it falls, and what remains is read as it was *)
(* keyed (CwMorse::decode).                                                *)
KeyedIsRead == DeGlitched /\ DecodesWhatWasKeyed

=============================================================================
