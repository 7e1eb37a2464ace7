------------------------------ MODULE OsdCore ------------------------------
(***************************************************************************)
(* osd_decode_n174: ordered statistics decoding of a binary linear code.   *)
(* The positions are sorted by reliability, the generator is reduced so    *)
(* that its pivots are the most reliable independent positions, and of the *)
(* codewords that differ from the hard decisions at up to `order` pivots   *)
(* the nearest one wins.  A log-likelihood ratio is an integer; the code   *)
(* and its length are parameters, so that TLC can try all received words   *)
(* of small codes.                                                         *)
(***************************************************************************)
EXTENDS Integers, Sequences, FiniteSets, SequencesExt

CONSTANT
  Received  \* <<gen, llr>>: a generator matrix, as rows of bits, and a word

ASSUME OsdAssumption ==
  \A i \in Received :
    /\ i[1] \in Seq(Seq({0, 1})) /\ i[1] # << >> /\ i[2] \in Seq(Int)
    /\ \A r \in DOMAIN i[1] : Len(i[1][r]) = Len(i[2])

VARIABLES
  gen, llr,  \* the parameters
  opc,       \* where the function is
  perm,      \* perm: the position of each column
  rows,      \* rows
  col,       \* col of the elimination
  pivots,    \* pivot_col, as long as rank
  best       \* the result: flips allowed and codeword in natural order

osdVars == <<gen, llr, opc, perm, rows, col, pivots, best>>

Mag(x) == IF x < 0 THEN -x ELSE x
Hard(x) == IF x > 0 THEN 1 ELSE 0
Xor(r, s) == [c \in DOMAIN r |-> (r[c] + s[c]) % 2]
Length == Len(gen[1])
Zeros == [c \in 1 .. Length |-> 0]

OsdInit ==
  /\ \E i \in Received : gen = i[1] /\ llr = i[2]
  /\ opc = "sort" /\ perm = << >> /\ rows = << >> /\ col = 1 /\ pivots = << >>
  /\ best = [order |-> 0, word |-> << >>]

(* stable_sort by |llr|, descending.                                       *)
Before(a, b) == Mag(llr[a]) > Mag(llr[b]) \/ (Mag(llr[a]) = Mag(llr[b]) /\ a < b)

SortColumns ==
  /\ opc = "sort" /\ opc' = "reduce"
  /\ perm' = SetToSortSeq(1 .. Length, Before)
  /\ rows' = [r \in DOMAIN gen |-> [c \in 1 .. Length |-> gen[r][perm'[c]]]]
  /\ UNCHANGED <<gen, llr, col, pivots, best>>

(* The row taken for a column: the first below the rank with a 1 in it.    *)
Pivot(rank) ==
  LET sel == {r \in DOMAIN rows : r > rank /\ rows[r][col] = 1}
  IN  CHOOSE r \in sel : \A s \in sel : r <= s

Swap(rs, a, b) == [rs EXCEPT ![a] = rs[b], ![b] = rs[a]]

(* The column is eliminated from every row but p.                          *)
Eliminate(rs, p) ==
  [r \in DOMAIN rs |-> IF r # p /\ rs[r][col] = 1 THEN Xor(rs[r], rs[p]) ELSE rs[r]]

(* One column of the elimination: a dependent one is skipped.              *)
ReduceColumn ==
  /\ opc = "reduce" /\ col <= Length /\ Len(pivots) < Len(rows)
  /\ LET rank == Len(pivots)
     IN  IF \E r \in DOMAIN rows : r > rank /\ rows[r][col] = 1
         THEN /\ rows' = Eliminate(Swap(rows, rank + 1, Pivot(rank)), rank + 1)
              /\ pivots' = Append(pivots, col)
         ELSE UNCHANGED <<rows, pivots>>
  /\ col' = col + 1
  /\ UNCHANGED <<gen, llr, opc, perm, best>>

NotFullRank ==
  /\ opc = "reduce" /\ col > Length /\ Len(pivots) < Len(rows)
  /\ opc' = "failed"
  /\ UNCHANGED <<gen, llr, perm, rows, col, pivots, best>>

(* encode: the rows chosen by y, summed.                                   *)
Encode(y) ==
  LET sum[i \in 0 .. Len(rows)] ==
        IF i = 0 THEN Zeros
        ELSE IF y[i] = 1 THEN Xor(sum[i - 1], rows[i]) ELSE sum[i - 1]
  IN  sum[Len(rows)]

(* softDist, in permuted space.                                            *)
SoftDist(w) ==
  LET sum[c \in 0 .. Length] ==
        IF c = 0 THEN 0
        ELSE sum[c - 1] + (IF w[c] # Hard(llr[perm[c]]) THEN Mag(llr[perm[c]]) ELSE 0)
  IN  sum[Length]

(* Mutant: of the pairs, only neighbours are tried.                        *)
PatternsAdjacent(order) ==
  {{}} \union (IF order >= 1 THEN {{i} : i \in DOMAIN rows} ELSE {})
       \union (IF order >= 2 THEN {{i, i + 1} : i \in 1 .. Len(rows) - 1} ELSE {})

(* Error patterns at the pivots, of weight 0, 1, 2.                        *)
Patterns(order) ==
  {{}} \union (IF order >= 1 THEN {{i} : i \in DOMAIN rows} ELSE {})
       \union (IF order >= 2 THEN {{i, j} : i, j \in DOMAIN rows} ELSE {})

(* The hard decisions at the pivots, flipped where the pattern says.       *)
Tried(flips) ==
  Encode([i \in DOMAIN rows |->
            LET y == Hard(llr[perm[pivots[i]]])
            IN  IF i \in flips THEN 1 - y ELSE y])

(* A smaller distance replaces the best so far; which of equally near      *)
(* codewords is kept is left open.                                         *)
Search(order) ==
  /\ opc = "reduce" /\ Len(pivots) = Len(rows)
  /\ \E flips \in Patterns(order) :
       /\ \A other \in Patterns(order) : SoftDist(Tried(flips)) <= SoftDist(Tried(other))
       /\ LET w == Tried(flips)
          IN  best' = [order |-> order,
                       word |-> [p \in 1 .. Length |->
                                   w[CHOOSE c \in 1 .. Length : perm[c] = p]]]
  /\ opc' = "done"
  /\ UNCHANGED <<gen, llr, perm, rows, col, pivots>>

OsdStep == SortColumns \/ ReduceColumn \/ NotFullRank \/ \E order \in 0 .. 2 : Search(order)

-----------------------------------------------------------------------------
(* Reference: the code, from the generator as it was given.                *)
Sum(S) ==
  [c \in 1 .. Length |-> Cardinality({r \in S : gen[r][c] = 1}) % 2]
Code == {Sum(S) : S \in SUBSET (DOMAIN gen)}
Far(w) == LET wrong == {p \in DOMAIN w : w[p] # Hard(llr[p])}
              sum[n \in 0 .. Length] ==
                IF n = 0 THEN 0
                ELSE sum[n - 1] + (IF n \in wrong THEN Mag(llr[n]) ELSE 0)
          IN  sum[Length]
PivotSet == {perm[pivots[i]] : i \in DOMAIN pivots}

(* The pivots are the most reliable independent positions: however high a  *)
(* bar is set, of the positions above it as many are pivots as the code    *)
(* has dimensions on them.                                                 *)
MostReliableBasis ==
  opc = "done" =>
    \A bar \in {Mag(llr[p]) : p \in DOMAIN llr} :
      LET P == {p \in 1 .. Length : Mag(llr[p]) >= bar}
      IN  Cardinality({[p \in P |-> w[p]] : w \in Code})
            = 2 ^ Cardinality(PivotSet \intersect P)

(* The result is a codeword, it differs from the hard decisions at no more *)
(* than `order` pivots, and none of that kind is nearer: with as many      *)
(* flips as the code has dimensions it is the most likely codeword.        *)
NearestWithinOrder ==
  LET Flips(w) == Cardinality({p \in PivotSet : w[p] # Hard(llr[p])})
  IN  opc = "done" =>
        /\ best.word \in Code /\ Flips(best.word) <= best.order
        /\ \A w \in Code : Flips(w) <= best.order => Far(best.word) <= Far(w)

(* It gives up only on rows that are not independent.                      *)
FailsIfDependent ==
  opc = "failed" => Cardinality(Code) < 2 ^ Len(gen)

(* osd_decode_n174 finds the nearest codeword within `order` flips of the  *)
(* most reliable basis, whatever positions are erased (a ratio of zero).   *)
MostLikely == MostReliableBasis /\ NearestWithinOrder /\ FailsIfDependent

=============================================================================
