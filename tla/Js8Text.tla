------------------------------ MODULE Js8Text ------------------------------
(***************************************************************************)
(* What publishCandidateCore makes of the 87 bits of a decoded JS8 frame:  *)
(* checkCRC12 and, for the frames that carry text, decodeJs8Message with   *)
(* huffDecode and jsc_decompress; for directed frames the fields and the   *)
(* 28 bit callsigns.  The other frame kinds end as "other".                *)
(*                                                                         *)
(* A frame is sent, some of its bits are wrong when it arrives, and it is  *)
(* read.  A word of the dictionary jsc_map is its index; a character of a  *)
(* callsign is its index in kCallAlpha.  The sender is JS8Call, outside    *)
(* this repository, and is modelled as the inverse its readers expect.     *)
(***************************************************************************)
EXTENDS Integers, Sequences, FiniteSets, SequencesExt

CONSTANTS
  HuffTable,  \* kHuffTable: <<character, code>>
  JscSize,    \* kJscSize
  Sent,       \* frames to send: kind and contents
  Noisy,      \* those of them that may be hit by errors
  ErrorSets   \* sets of bits, from 0, that may be wrong

Payload == 72  \* bits before i3bit
ASSUME TextAssumption ==
  /\ \A i, j \in DOMAIN HuffTable : i # j =>
       ~ IsPrefix(HuffTable[i][2], HuffTable[j][2])
  /\ Noisy \subseteq Sent /\ ErrorSets \subseteq SUBSET (0 .. 86)
  /\ JscSize \in Nat

VARIABLES
  frame,  \* the frame sent
  wrong,  \* its bits that arrive wrong
  read    \* what publishCandidateCore makes of it

textVars == <<frame, wrong, read>>

(* Bits are numbered from 0, as in info[].                                 *)
Bit(bits, i) == bits[i + 1]
Part(bits, from, n) == SubSeq(bits, from + 1, from + n)

(* bits_to_int                                                             *)
BitsToInt(bits) ==
  LET v[i \in 0 .. Len(bits)] == IF i = 0 THEN 0 ELSE 2 * v[i - 1] + bits[i]
  IN  v[Len(bits)]

IntToBits(v, n) == [i \in 1 .. n |-> (v \div 2 ^ (n - i)) % 2]

(***************************************************************************)
(* CRC-12.                                                                 *)
(***************************************************************************)
Poly == IntToBits(12 * 256 + 6, 12)  \* 0xC06

(* crc12_augmented: each bit is shifted in; a bit that falls out of the    *)
(* register subtracts the polynomial.                                      *)
Crc12(bits) ==
  LET crc[i \in 0 .. Len(bits)] ==
        IF i = 0 THEN IntToBits(0, 12)
        ELSE LET c == crc[i - 1]
                 s == Append(Tail(c), bits[i])
             IN  IF c[1] = 1 THEN [b \in 1 .. 12 |-> (s[b] + Poly[b]) % 2] ELSE s
      r == crc[Len(bits)]
      k == IntToBits(42, 12)
  IN  [b \in 1 .. 12 |-> (r[b] + k[b]) % 2]

(* checkCRC12: 75 bits, and 13 zero bits in place of the rest.             *)
CheckCRC12(bits) ==
  Part(bits, 75, 12) = Crc12(Part(bits, 0, 75) \o [i \in 1 .. 13 |-> 0])

(***************************************************************************)
(* huffDecode: the first code of the table that matches.                   *)
(***************************************************************************)
HuffDecode(bits) ==
  LET At(pos) == SelectInSeq(HuffTable,
                   LAMBDA e : IsPrefix(e[2], SubSeq(bits, pos + 1, Len(bits))))
      dec[pos \in 0 .. Len(bits)] ==
        IF pos = Len(bits) \/ At(pos) = 0 THEN << >>
        ELSE <<HuffTable[At(pos)][1]>> \o dec[pos + Len(HuffTable[At(pos)][2])]
  IN  dec[0]

(***************************************************************************)
(* jsc_decompress: groups of four bits; a group below 7 ends a word and is *)
(* followed by a bit that says whether a space follows the word.           *)
(***************************************************************************)
Base[k \in 0 .. 7] == IF k = 0 THEN 0 ELSE Base[k - 1] + 7 * 9 ^ (k - 1)

(* Mutant: the separator is not skipped when it is zero.                   *)
GroupsUnskipped(bits) ==
  LET n == Len(bits)
      from[i \in 0 .. n + 5] ==
        IF i + 4 > n THEN << >>
        ELSE LET g == BitsToInt(Part(bits, i, 4))
                 sep == g < 7 /\ i + 4 < n /\ Bit(bits, i + 4) = 1
             IN  <<[g |-> g, sep |-> sep]>> \o from[IF sep THEN i + 5 ELSE i + 4]
  IN  from[0]

Groups(bits) ==
  LET n == Len(bits)
      from[i \in 0 .. n + 5] ==
        IF i + 4 > n THEN << >>
        ELSE LET g == BitsToInt(Part(bits, i, 4))
                 sep == g < 7 /\ i + 4 < n /\ Bit(bits, i + 4) = 1
             IN  <<[g |-> g, sep |-> sep]>> \o from[IF g < 7 THEN i + 5 ELSE i + 4]
  IN  from[0]

JscDecompress(bits) ==
  LET grps == Groups(bits)
      Value(st, k) ==
        LET v[i \in 0 .. k] ==
              IF i = 0 THEN 0 ELSE 9 * v[i - 1] + grps[st + i - 1].g - 7
        IN  v[k]
      Stops(st, k) ==
        \/ st + k > Len(grps) \/ grps[st + k].g < 7
        \/ k >= 7 \/ (k > 0 /\ Base[k] + 7 * Value(st, k) >= JscSize)
      word[st \in 1 .. Len(grps) + 8] ==
        LET k == CHOOSE k \in 0 .. 7 : Stops(st, k) /\ \A j \in 0 .. k - 1 : ~ Stops(st, j)
            j == 7 * Value(st, k) + grps[st + k].g + Base[k]
        IN  IF st + k > Len(grps) \/ j >= JscSize THEN << >>
            ELSE <<[word |-> j, space |-> grps[st + k].sep]>> \o word[st + k + 1]
  IN  word[1]

(***************************************************************************)
(* unpackCallsign28: mixed radix; trailing blanks (36) are cut off.  The   *)
(* values above are groups, by number; 0 is "<unknown>".                   *)
(***************************************************************************)
NBasecall == 262177560
NumBasecalls == 48

Radices == <<37, 36, 10, 27, 27, 27>>

(* Products of the radices below position i.                               *)
Weight[i \in 1 .. 6] == IF i = 6 THEN 1 ELSE Weight[i + 1] * Radices[i + 1]

UnpackCallsign28(v) ==
  LET w   == [i \in 1 .. 6 |-> ((v \div Weight[i]) % Radices[i]) + (IF i > 3 THEN 10 ELSE 0)]
      n   == CHOOSE n \in 3 .. 6 : w[n] # 36 /\ \A i \in n + 1 .. 6 : w[i] = 36
      idx == v - NBasecall
  IN  IF v >= NBasecall
      THEN [group |-> IF 0 < idx /\ idx < NumBasecalls THEN idx ELSE 0, call |-> << >>]
      ELSE [group |-> 0, call |-> SubSeq(w, 1, n)]

(***************************************************************************)
(* decodeJs8Message.                                                       *)
(***************************************************************************)
(* The padding after the contents is a 0 and then 1s: its place, or lo.    *)
LastZero(bits, lo) ==
  LET z == {j \in lo .. Payload - 1 : Bit(bits, j) = 0}
  IN  IF z = {} THEN lo ELSE CHOOSE j \in z : \A i \in z : i <= j

Reading(as, text) == [as |-> as, text |-> text]

OrData(as, text) == Reading(IF text = << >> THEN "[data]" ELSE as, text)

Directed(bits) ==
  [from |-> UnpackCallsign28(BitsToInt(Part(bits, 3, 28))),
   to |-> UnpackCallsign28(BitsToInt(Part(bits, 31, 28))),
   cmd |-> BitsToInt(Part(bits, 59, 5)),
   portable |-> <<Bit(bits, 64), Bit(bits, 65)>>,
   extra |-> BitsToInt(Part(bits, 66, 6))]

DecodeJs8Message(bits) ==
  LET flag == BitsToInt(Part(bits, 0, 3))
      K    == LastZero(bits, 1)
  IN  CASE Bit(bits, 72) = 1 -> OrData("words", JscDecompress(Part(bits, 0, LastZero(bits, 0))))
        [] Bit(bits, 72) = 0 /\ flag >= 4 ->
             IF K <= 2 THEN Reading("[data]", << >>)
             ELSE IF Bit(bits, 1) = 1 THEN OrData("words", JscDecompress(Part(bits, 2, K - 2)))
             ELSE OrData("letters", HuffDecode(Part(bits, 2, K - 2)))
        [] Bit(bits, 72) = 0 /\ flag = 3 -> Reading("directed", Directed(bits))
        [] OTHER -> Reading("other", << >>)

(* publishCandidateCore up to the text.                                    *)
ReadFrame(bits) ==
  IF CheckCRC12(bits) THEN DecodeJs8Message(bits) ELSE Reading("rejected", << >>)

(***************************************************************************)
(* The sender.                                                             *)
(***************************************************************************)
CodeOf(ch) == HuffTable[SelectInSeq(HuffTable, LAMBDA e : e[1] = ch)][2]

JscCode(w) ==
  LET k == CHOOSE k \in 0 .. 6 : Base[k] <= w.word /\ w.word < Base[k + 1]
      r == w.word - Base[k]
      more == [i \in 1 .. k |-> IntToBits(7 + (((r \div 7) \div 9 ^ (k - i)) % 9), 4)]
  IN  FlattenSeq(more) \o IntToBits(r % 7, 4) \o <<IF w.space THEN 1 ELSE 0>>

PackCallsign(c) ==
  LET Digit(i) == IF i > Len(c.call) THEN 26 ELSE c.call[i] - (IF i > 3 THEN 10 ELSE 0)
      v[i \in 0 .. 6] == IF i = 0 THEN 0 ELSE v[i - 1] + Digit(i) * Weight[i]
  IN  IF c.group # 0 THEN NBasecall + c.group ELSE v[6]

Contents(f) ==
  CASE f.kind = "letters" -> <<1, 0>> \o FlattenSeq([i \in DOMAIN f.text |-> CodeOf(f.text[i])])
    [] f.kind = "words"   -> <<1, 1>> \o FlattenSeq([i \in DOMAIN f.text |-> JscCode(f.text[i])])
    [] f.kind = "fast"    -> FlattenSeq([i \in DOMAIN f.text |-> JscCode(f.text[i])])
    [] f.kind = "directed" ->
         <<0, 1, 1>> \o IntToBits(PackCallsign(f.text.from), 28)
           \o IntToBits(PackCallsign(f.text.to), 28) \o IntToBits(f.text.cmd, 5)
           \o f.text.portable \o IntToBits(f.text.extra, 6)

Padded(bits) ==
  IF Len(bits) = Payload THEN bits
  ELSE bits \o <<0>> \o [i \in 1 .. Payload - 1 - Len(bits) |-> 1]

FrameBits(f) ==
  LET info == Padded(Contents(f)) \o (IF f.kind = "fast" THEN <<1, 0, 0>> ELSE <<0, 0, 0>>)
  IN  info \o Crc12(info \o [i \in 1 .. 13 |-> 0])

Arrived(f, errors) ==
  LET bits == FrameBits(f)
  IN  [i \in DOMAIN bits |-> IF (i - 1) \in errors THEN 1 - bits[i] ELSE bits[i]]

TextInit == frame \in Sent /\ wrong = {} /\ read = Reading("unread", << >>)

Receive ==
  /\ read.as = "unread"
  /\ wrong' \in {{}} \union (IF frame \in Noisy THEN ErrorSets ELSE {})
  /\ read' = ReadFrame(Arrived(frame, wrong'))
  /\ UNCHANGED frame

-----------------------------------------------------------------------------
(* A frame that arrives as it was sent is read as it was sent: no code of  *)
(* the table hides another, a word index at any depth of the dense code    *)
(* and the space after it survive, the padding is told from the contents   *)
(* up to the very last bit, callsigns keep their characters, and the last  *)
(* callsign is told from the first group.                                  *)
ReadAsSent ==
  read.as \notin {"unread", "off"} /\ wrong = {} =>
    /\ read.as = IF frame.kind = "fast" THEN "words" ELSE frame.kind
    /\ read.text = frame.text

(* A frame with one or two wrong bits, or a short burst of them, anywhere, *)
(* the check bits included, is rejected: although 0xC06 has no constant    *)
(* term and so one check bit says nothing.                                 *)
ErrorsRejected == wrong # {} => read.as = "rejected"

(* A frame is read as it was sent, or rejected: publishCandidateCore never *)
(* makes another message of it.                                            *)
FramesRead == ReadAsSent /\ ErrorsRejected

=============================================================================
