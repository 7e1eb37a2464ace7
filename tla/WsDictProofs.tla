---------------------------- MODULE WsDictProofs ----------------------------
(***************************************************************************)
(* Proofs about WsDict for every set of keys, patterns, writers and        *)
(* subscribers and every capacity: when all is quiet a subscriber's copy   *)
(* is the dictionary but for the named races, and the sweep removes only   *)
(* what has expired.                                                       *)
(***************************************************************************)
EXTENDS WsDict, FiniteSetTheorems, SequenceTheorems, TLAPS

(* What the dictionary holds for a key, as a subscriber is to see it.      *)
Val(k) == IF dict[k] = {} THEN None ELSE (CHOOSE e \in dict[k] : TRUE).val

(* Message m is news of key k.                                             *)
Carries(m, k) == m.kind # "subscribed" /\ m.key = k

(* A client that holds x for key k and has the messages of q before it     *)
(* ends with v.                                                            *)
Ends(q, x, k, v) ==
  \/ \E i \in DOMAIN q :
       Carries(q[i], k) /\ q[i].val = v /\ \A j \in DOMAIN q : j > i => ~Carries(q[j], k)
  \/ (\A i \in DOMAIN q : ~Carries(q[i], k)) /\ x = v

(***************************************************************************)
(* The strengthening.                                                      *)
(***************************************************************************)
Changes == [kind : Kinds \ {"subscribed"}, key : Keys, val : Nat]
Notes == Changes \cup [kind : {"subscribed"}, key : {""}, val : Nat]

(* More than TypeOK says of types.                                         *)
ShapeInv ==
  /\ dict \in [Keys -> SUBSET [val : Nat, exp : Nat]] /\ \A k \in Keys : IsFiniteSet(dict[k])
  /\ chan \in [Subscribers -> Seq(Notes)]
  /\ \A w \in Writers : pending[w] = << >> \/ \E m \in Changes : pending[w] = <<m>>
  /\ \A s \in Subscribers : got[s] = << >> \/ \E m \in Changes : got[s] = <<m>>

(* A handler holds a value only while it pushes, fan_out unregisters lost  *)
(* connections only, and the sweep has nothing left to announce when it    *)
(* sleeps.                                                                 *)
PhaseInv ==
  /\ \A s \in Subscribers : got[s] # << >> => hpc[s] = "push"
  /\ \A s \in Subscribers : reg[s] = "gone" => lost[s]
  /\ swpc = "sleep" => removed = {}

(* The handler of s has still to read the value of key k.                  *)
Queued(s, k) ==
  \/ hpc[s] \in {"ack", "keys"} /\ k \in fresh[s]
  \/ hpc[s] = "push" /\ k \in todo[s]

(* Nothing reaches a client of a key that it does not subscribe to.        *)
OutsideAt(s, k) ==
  ~lost[s] /\ k \notin Matched(s) =>
    /\ view[s][k] = None /\ \A i \in DOMAIN chan[s] : ~Carries(chan[s][i], k)
    /\ ~Holds(s, k) /\ ~Queued(s, k)

(* Writer w has still to announce a change of key k.                       *)
Announces(w, k) == pending[w] # << >> /\ pending[w][1].key = k

(* Whatever is still to be announced or pushed is what the dictionary      *)
(* holds: the races are the changes that make it stale.                    *)
CurrentAt(s, k) ==
  <<s, k>> \notin raced =>
    /\ \A w \in Writers : Announces(w, k) => pending[w][1].val = Val(k)
    /\ k \in removed => dict[k] = {}
    /\ Holds(s, k) => got[s][1].val = Val(k)

Coming(k) == k \in removed \/ \E w \in Writers : Announces(w, k)

(* A change is on its way to the client: still to be announced, still to   *)
(* be read or pushed by the handler, or in the channel at the last.        *)
Told(s, k) ==
  \/ Coming(k) \/ (Queued(s, k) /\ dict[k] # {}) \/ Holds(s, k)
  \/ Ends(chan[s], view[s][k], k, Val(k))

Unexpired(k) == \A e \in dict[k] : Live(e)

ToldAt(s, k) ==
  ~lost[s] /\ k \in Matched(s) /\ <<s, k>> \notin raced /\ Unexpired(k) => Told(s, k)

(* Nothing gets through a lost connection.                                 *)
LostAt(s, k) == lost[s] => view[s][k] = None /\ chan[s] = << >>

At(s, k) == OutsideAt(s, k) /\ CurrentAt(s, k) /\ ToldAt(s, k) /\ LostAt(s, k)

MirrorInv == \A s \in Subscribers, k \in Keys : At(s, k)

IInv == TypeOK /\ ShapeInv /\ PhaseInv /\ MirrorInv

-----------------------------------------------------------------------------
(* Channels.                                                               *)

(* A message put at the end is the last.                                   *)
LEMMA EndsAppend ==
  ASSUME NEW M, NEW q \in Seq(M), NEW m \in M, NEW x, NEW k, NEW v,
         Carries(m, k) => m.val = v,
         Carries(m, k) \/ Ends(q, x, k, v)
  PROVE  Ends(Append(q, m), x, k, v)
<1> DEFINE r == Append(q, m)
           n == Len(q)
<1>1. /\ n \in Nat /\ DOMAIN q = 1 .. n /\ DOMAIN r = 1 .. n + 1 /\ r[n + 1] = m
      /\ \A i \in 1 .. n : r[i] = q[i]
  BY LenProperties, AppendProperties
<1> HIDE DEF r, n
<1>2. CASE Carries(m, k)
  <2>1. n + 1 \in DOMAIN r /\ Carries(r[n + 1], k) /\ r[n + 1].val = v
    BY <1>1, <1>2
  <2>2. \A j \in DOMAIN r : ~(j > n + 1)
    BY <1>1
  <2> QED BY <2>1, <2>2 DEF Ends, r
<1>3. CASE ~Carries(m, k)
  <2>1. \A j \in DOMAIN r : j \in DOMAIN q \/ j = n + 1
    BY <1>1
  <2>2. CASE \A i \in DOMAIN q : ~Carries(q[i], k)
    <3>1. x = v
      BY <1>3, <2>2 DEF Ends
    <3>2. \A i \in DOMAIN r : ~Carries(r[i], k)
      BY <1>1, <1>3, <2>1, <2>2
    <3> QED BY <3>1, <3>2 DEF Ends, r
  <2>3. CASE ~(\A i \in DOMAIN q : ~Carries(q[i], k))
    <3>1. PICK i \in DOMAIN q : /\ Carries(q[i], k) /\ q[i].val = v
                                /\ \A j \in DOMAIN q : j > i => ~Carries(q[j], k)
      BY <1>3, <2>3 DEF Ends
    <3>2. i \in DOMAIN r /\ r[i] = q[i]
      BY <1>1
    <3>3. \A j \in DOMAIN r : j > i => ~Carries(r[j], k)
      BY <1>1, <1>3, <2>1, <3>1
    <3> QED BY <3>1, <3>2, <3>3 DEF Ends, r
  <2> QED BY <2>2, <2>3
<1> QED BY <1>2, <1>3

(* The client that applies the first message has the rest before it.       *)
LEMMA EndsTail ==
  ASSUME NEW M, NEW q \in Seq(M), q # << >>, NEW x, NEW k, NEW v, Ends(q, x, k, v)
  PROVE  Ends(Tail(q), IF Carries(Head(q), k) THEN Head(q).val ELSE x, k, v)
<1> DEFINE r == Tail(q)
           n == Len(q)
           y == IF Carries(Head(q), k) THEN Head(q).val ELSE x
<1>1. /\ n \in Nat /\ n >= 1 /\ DOMAIN q = 1 .. n /\ DOMAIN r = 1 .. n - 1 /\ q[1] = Head(q)
      /\ \A i \in 1 .. n - 1 : r[i] = q[i + 1]
  <2>1. n \in Nat /\ DOMAIN q = 1 .. n /\ n # 0
    BY LenProperties, EmptySeq
  <2>2. r \in Seq(M) /\ Len(r) = n - 1 /\ \A i \in 1 .. n - 1 : r[i] = q[i + 1]
    BY HeadTailProperties
  <2>3. Head(q) = q[1]
    OBVIOUS
  <2> QED BY <2>1, <2>2, <2>3, LenProperties
<1> HIDE DEF r, n, y
<1>2. ASSUME NEW i \in DOMAIN q, Carries(q[i], k), q[i].val = v,
             \A j \in DOMAIN q : j > i => ~Carries(q[j], k)
      PROVE  Ends(r, y, k, v)
  <2>1. CASE i = 1
    <3>1. \A j \in DOMAIN r : ~Carries(r[j], k)
      BY <1>1, <1>2, <2>1
    <3>2. y = v
      BY <1>1, <1>2, <2>1 DEF y
    <3> QED BY <3>1, <3>2 DEF Ends
  <2>2. CASE i # 1
    <3> DEFINE p == i - 1
    <3>1. p \in DOMAIN r /\ r[p] = q[i]
      BY <1>1, <2>2
    <3>2. \A j \in DOMAIN r : j > p => j + 1 \in DOMAIN q /\ j + 1 > i /\ r[j] = q[j + 1]
      BY <1>1
    <3>3. \A j \in DOMAIN r : j > p => ~Carries(r[j], k)
      BY <1>2, <3>2
    <3> HIDE DEF p
    <3> QED BY <1>2, <3>1, <3>3 DEF Ends
  <2> QED BY <2>1, <2>2
<1>3. ASSUME \A i \in DOMAIN q : ~Carries(q[i], k), x = v PROVE Ends(r, y, k, v)
  <2>1. \A j \in DOMAIN r : ~Carries(r[j], k)
    BY <1>1, <1>3
  <2>2. y = v
    BY <1>1, <1>3 DEF y
  <2> QED BY <2>1, <2>2 DEF Ends
<1>4. Ends(r, y, k, v)
  BY <1>2, <1>3 DEF Ends
<1> QED BY <1>4 DEF r, y

(* What is in a channel after a message is put in or taken out.            *)
LEMMA NoneAppend ==
  ASSUME NEW M, NEW q \in Seq(M), NEW m \in M, NEW k, ~Carries(m, k),
         \A i \in DOMAIN q : ~Carries(q[i], k)
  PROVE  \A i \in DOMAIN Append(q, m) : ~Carries(Append(q, m)[i], k)
<1> DEFINE r == Append(q, m)
           n == Len(q)
<1>1. /\ n \in Nat /\ DOMAIN q = 1 .. n /\ DOMAIN r = 1 .. n + 1 /\ r[n + 1] = m
      /\ \A i \in 1 .. n : r[i] = q[i]
  BY LenProperties, AppendProperties
<1> HIDE DEF r, n
<1>2. \A i \in DOMAIN r : ~Carries(r[i], k)
  BY <1>1
<1> QED BY <1>2 DEF r

LEMMA NoneTail ==
  ASSUME NEW M, NEW q \in Seq(M), q # << >>, NEW k, \A i \in DOMAIN q : ~Carries(q[i], k)
  PROVE  /\ \A i \in DOMAIN Tail(q) : ~Carries(Tail(q)[i], k)
         /\ ~Carries(Head(q), k)
<1> DEFINE r == Tail(q)
           n == Len(q)
<1>1. /\ n \in Nat /\ n >= 1 /\ DOMAIN q = 1 .. n /\ DOMAIN r = 1 .. n - 1 /\ q[1] = Head(q)
      /\ \A i \in 1 .. n - 1 : r[i] = q[i + 1]
  <2>1. n \in Nat /\ DOMAIN q = 1 .. n /\ n # 0
    BY LenProperties, EmptySeq
  <2>2. r \in Seq(M) /\ Len(r) = n - 1 /\ \A i \in 1 .. n - 1 : r[i] = q[i + 1]
    BY HeadTailProperties
  <2>3. Head(q) = q[1]
    OBVIOUS
  <2> QED BY <2>1, <2>2, <2>3, LenProperties
<1> HIDE DEF r, n
<1>2. ~Carries(Head(q), k)
  BY <1>1
<1>3. \A i \in DOMAIN r : ~Carries(r[i], k)
  BY <1>1
<1> QED BY <1>2, <1>3 DEF r

(* Messages.                                                               *)
LEMMA NoteFacts ==
  /\ Changes \subseteq Notes /\ Notes \subseteq Msgs
  /\ \A m \in Changes : m.key \in Keys /\ m.kind # "subscribed" /\ m.val \in Nat
  /\ \A m \in Notes : m.kind # "subscribed" => m \in Changes
  /\ \A k \in Keys, v \in Nat : /\ Msg("update", k, v) \in Changes
                                /\ Msg("key_deleted", k, v) \in Changes
                                /\ Msg("key_expired", k, v) \in Changes
  /\ Msg("subscribed", "", None) \in Notes /\ Msg("subscribed", "", None).kind = "subscribed"
<1>1. Changes \subseteq Notes /\ Notes \subseteq Msgs
  BY DEF Changes, Notes, Msgs, Kinds
<1>2. \A m \in Changes : m.key \in Keys /\ m.kind # "subscribed" /\ m.val \in Nat
  BY DEF Changes
<1>3. \A m \in Notes : m.kind # "subscribed" => m \in Changes
  BY DEF Notes
<1>4. \A k \in Keys, v \in Nat : /\ Msg("update", k, v) \in Changes
                                 /\ Msg("key_deleted", k, v) \in Changes
                                 /\ Msg("key_expired", k, v) \in Changes
  BY DEF Msg, Changes, Kinds
<1>5. Msg("subscribed", "", None) \in Notes /\ Msg("subscribed", "", None).kind = "subscribed"
  BY DEF Msg, Notes, None
<1> QED BY <1>1, <1>2, <1>3, <1>4, <1>5

LEMMA MsgFields ==
  ASSUME NEW kind, NEW k, NEW v
  PROVE  Msg(kind, k, v).kind = kind /\ Msg(kind, k, v).key = k /\ Msg(kind, k, v).val = v
  BY DEF Msg

(* The keys of several patterns.                                           *)
LEMMA KeysOfFacts ==
  ASSUME NEW ps, ps \subseteq Patterns, NEW qs, qs \subseteq Patterns
  PROVE  /\ KeysOf(ps) \subseteq Keys /\ KeysOf({}) = {}
         /\ KeysOf(ps \cup qs) = KeysOf(ps) \cup KeysOf(qs \ ps)
<1>1. \A p \in Patterns : Matches[p] \subseteq Keys
  BY DictAssumption
<1>2. KeysOf(ps) \subseteq Keys /\ KeysOf({}) = {}
  BY <1>1 DEF KeysOf
<1>3. ASSUME NEW k PROVE k \in KeysOf(ps \cup qs) <=> k \in KeysOf(ps) \cup KeysOf(qs \ ps)
  BY DEF KeysOf
<1> QED BY <1>2, <1>3

(* fan_out appends to a channel that is not full, or notes the loss, and   *)
(* takes only lost connections out of the table.                           *)
LEMMA FanOutFacts ==
  ASSUME TypeOK, ShapeInv, NEW m \in Changes, FanOut(m)
  PROVE  /\ raced \subseteq raced' /\ raced' \subseteq Subscribers \X Keys
         /\ chan' \in [Subscribers -> Seq(Notes)]
         /\ \A s \in Subscribers : Len(chan'[s]) <= Capacity
         /\ \A s \in Subscribers : m.key \notin Matched(s) \/ lost[s] => chan'[s] = chan[s]
         /\ \A s \in Subscribers : m.key \in Matched(s) /\ ~lost[s] /\ <<s, m.key>> \notin raced' =>
              chan'[s] = Append(chan[s], m)
         /\ \A s \in Subscribers : chan'[s] = chan[s] \/ chan'[s] = Append(chan[s], m)
         /\ reg' \in [Subscribers -> {"no", "yes", "gone"}]
         /\ subs' \in [Subscribers -> SUBSET Patterns]
         /\ \A s \in Subscribers : ~lost[s] => subs'[s] = subs[s] /\ reg'[s] = reg[s]
         /\ lost' = lost
<1>1. m \in Notes /\ m.key \in Keys /\ Capacity \in Nat
  BY NoteFacts, DictAssumption
<1> DEFINE D == Dropped(m)
           C == Closed(m)
<1>2. /\ raced' = raced \cup {<<s, m.key>> : s \in D}
      /\ chan' = [s \in Subscribers |-> IF m.key \in Matched(s) /\ s \notin D \cup C
                                        THEN Append(chan[s], m) ELSE chan[s]]
      /\ subs' = [s \in Subscribers |-> IF s \in C THEN {} ELSE subs[s]]
      /\ reg' = [s \in Subscribers |-> IF s \in C THEN "gone" ELSE reg[s]]
      /\ lost' = lost
  BY DEF FanOut
<1>3. /\ D \subseteq Subscribers
      /\ \A s \in D : m.key \in Matched(s) /\ ~lost[s]
      /\ \A s \in Subscribers \ D : m.key \in Matched(s) /\ ~lost[s] => ~(Len(chan[s]) >= Capacity)
      /\ \A s \in Subscribers : s \in C <=> m.key \in Matched(s) /\ lost[s]
  BY DEF Dropped, Closed
<1> HIDE DEF D, C
<1>4. ASSUME NEW s \in Subscribers
      PROVE  /\ chan'[s] \in Seq(Notes) /\ Len(chan'[s]) <= Capacity
             /\ m.key \notin Matched(s) \/ lost[s] => chan'[s] = chan[s]
             /\ m.key \in Matched(s) /\ ~lost[s] /\ <<s, m.key>> \notin raced' =>
                  chan'[s] = Append(chan[s], m)
             /\ chan'[s] = chan[s] \/ chan'[s] = Append(chan[s], m)
  <2>1. chan[s] \in Seq(Notes) /\ Len(chan[s]) <= Capacity /\ Len(chan[s]) \in Nat
    BY LenProperties DEF TypeOK, ShapeInv
  <2>2. Append(chan[s], m) \in Seq(Notes) /\ Len(Append(chan[s], m)) = Len(chan[s]) + 1
    BY <1>1, <2>1, AppendProperties
  <2>3. CASE m.key \in Matched(s) /\ s \notin D \cup C
    <3>1. chan'[s] = Append(chan[s], m)
      BY <1>2, <2>3
    <3>2. ~lost[s] /\ ~(Len(chan[s]) >= Capacity)
      BY <1>3, <2>3
    <3> QED BY <1>1, <2>1, <2>2, <2>3, <3>1, <3>2
  <2>4. CASE ~(m.key \in Matched(s) /\ s \notin D \cup C)
    <3>1. chan'[s] = chan[s]
      BY <1>2, <2>4
    <3>2. m.key \in Matched(s) /\ ~lost[s] => <<s, m.key>> \in raced'
      BY <1>2, <1>3, <2>4
    <3> QED BY <2>1, <3>1, <3>2
  <2> QED BY <2>3, <2>4
<1>5. raced' \subseteq Subscribers \X Keys
  BY <1>1, <1>2, <1>3 DEF TypeOK
<1>6. chan' \in [Subscribers -> Seq(Notes)]
  BY <1>2, <1>4
<1>7. /\ reg' \in [Subscribers -> {"no", "yes", "gone"}] /\ subs' \in [Subscribers -> SUBSET Patterns]
      /\ \A s \in Subscribers : ~lost[s] => subs'[s] = subs[s] /\ reg'[s] = reg[s]
  BY <1>2, <1>3 DEF TypeOK
<1> QED BY <1>2, <1>4, <1>5, <1>6, <1>7

(* Waiting for room and sending (tx.send).                                 *)
LEMMA SendFacts ==
  ASSUME TypeOK, ShapeInv, NEW s \in Subscribers, NEW m \in Notes, Send(s, m)
  PROVE  /\ chan' \in [Subscribers -> Seq(Notes)]
         /\ \A t \in Subscribers : Len(chan'[t]) <= Capacity
         /\ chan'[s] = IF lost[s] THEN chan[s] ELSE Append(chan[s], m)
         /\ \A t \in Subscribers \ {s} : chan'[t] = chan[t]
<1>1. CASE lost[s] /\ UNCHANGED chan
  BY <1>1 DEF TypeOK, ShapeInv
<1>2. CASE ~lost[s] /\ chan' = [chan EXCEPT ![s] = Append(chan[s], m)] /\ Len(chan[s]) < Capacity
  <2>1. chan[s] \in Seq(Notes) /\ Len(chan[s]) \in Nat /\ Capacity \in Nat
    BY LenProperties, DictAssumption DEF ShapeInv
  <2>2. Append(chan[s], m) \in Seq(Notes) /\ Len(Append(chan[s], m)) = Len(chan[s]) + 1
    BY <2>1, AppendProperties
  <2>3. /\ chan' \in [Subscribers -> Seq(Notes)] /\ chan'[s] = Append(chan[s], m)
        /\ \A t \in Subscribers \ {s} : chan'[t] = chan[t]
    BY <1>2, <2>2 DEF ShapeInv
  <2>4. Len(chan'[s]) <= Capacity
    BY <1>2, <2>1, <2>2, <2>3
  <2> QED BY <1>2, <2>3, <2>4 DEF TypeOK
<1> QED BY <1>1, <1>2 DEF Send

-----------------------------------------------------------------------------
(* Types.                                                                  *)

Typed == TypeOK /\ ShapeInv

(* A sequence of notes is one of messages.                                 *)
LEMMA NoteSeq == Seq(Notes) \subseteq Seq(Msgs)
<1>1. ASSUME NEW q \in Seq(Notes) PROVE q \in Seq(Msgs)
  <2>1. PICK n \in Nat : q \in [1 .. n -> Notes]
    BY SeqDef
  <2>2. Notes \subseteq Msgs
    BY NoteFacts
  <2>3. q \in [1 .. n -> Msgs]
    BY <2>1, <2>2
  <2> QED BY <2>3, SeqDef
<1> QED BY <1>1

LEMMA ChangeSeq ==
  ASSUME NEW m \in Changes
  PROVE  <<m>> \in Seq(Changes) /\ <<m>> \in Seq(Msgs) /\ <<m>>[1] = m
<1>1. m \in Notes /\ Notes \subseteq Msgs
  BY NoteFacts
<1>2. m \in Msgs
  BY <1>1
<1> QED BY <1>2

LEMMA ConstFacts ==
  Capacity \in Nat /\ Ttls \subseteq Nat /\ "" \notin Writers /\ Requests \subseteq SUBSET Patterns
  BY DictAssumption

LEMMA RacesType ==
  ASSUME NEW w, NEW k \in Keys
  PROVE  Races(w, k) \subseteq Subscribers \X Keys
  BY DEF Races

(* What a writer has still to announce, and what a handler has read.       *)
LEMMA OneChange ==
  ASSUME NEW q, q = << >> \/ \E m \in Changes : q = <<m>>
  PROVE  /\ q \in Seq(Changes) /\ q \in Seq(Msgs)
         /\ q # << >> => q[1] \in Changes /\ q = <<q[1]>>
<1>1. CASE q = << >>
  BY <1>1
<1>2. ASSUME NEW m \in Changes, q = <<m>>
      PROVE  q \in Seq(Changes) /\ q \in Seq(Msgs) /\ q[1] \in Changes /\ q = <<q[1]>>
  BY <1>2, ChangeSeq
<1> QED BY <1>1, <1>2

(* A write or deletion gives the key one entry or none.                    *)
LEMMA DictFacts ==
  ASSUME Typed, NEW k \in Keys, NEW es, es = {} \/ \E e \in [val : Nat, exp : Nat] : es = {e},
         dict' = [dict EXCEPT ![k] = es]
  PROVE  /\ dict' \in [Keys -> SUBSET [val : Nat, exp : Nat]]
         /\ \A j \in Keys : /\ Cardinality(dict'[j]) <= 1 /\ IsFiniteSet(dict'[j])
                            /\ dict'[j] \subseteq [val : Nat, exp : Nat]
<1>1. es \in SUBSET [val : Nat, exp : Nat] /\ Cardinality(es) <= 1 /\ IsFiniteSet(es)
  <2>1. CASE es = {}
    BY <2>1, FS_EmptySet
  <2>2. ASSUME NEW e \in [val : Nat, exp : Nat], es = {e}
        PROVE  es \in SUBSET [val : Nat, exp : Nat] /\ Cardinality(es) <= 1 /\ IsFiniteSet(es)
    <3>1. Cardinality({e}) = 1 /\ IsFiniteSet({e})
      BY FS_Singleton
    <3> QED BY <2>2, <3>1
  <2> QED BY <2>1, <2>2
<1>2. /\ dict' \in [Keys -> SUBSET [val : Nat, exp : Nat]] /\ dict'[k] = es
      /\ \A j \in Keys \ {k} : dict'[j] = dict[j]
  BY <1>1 DEF Typed, ShapeInv
<1> QED BY <1>1, <1>2 DEF Typed, TypeOK, ShapeInv

LEMMA TypedInit == Init => Typed
<1> SUFFICES ASSUME Init PROVE Typed
  OBVIOUS
<1>1. << >> \in Seq(Msgs) /\ << >> \in Seq(Notes) /\ Len(<< >>) = 0 /\ Capacity \in Nat
  <2>1. Capacity \in Nat
    BY ConstFacts
  <2> QED BY <2>1
<1>2. /\ chan \in [Subscribers -> Seq(Msgs)] /\ chan \in [Subscribers -> Seq(Notes)]
      /\ pending \in [Writers -> Seq(Msgs)] /\ got \in [Subscribers -> Seq(Msgs)]
      /\ \A s \in Subscribers : Len(chan[s]) <= Capacity
  BY <1>1 DEF Init
<1>3. /\ dict \in [Keys -> SUBSET [val : Nat, exp : Nat]]
      /\ \A k \in Keys : Cardinality(dict[k]) <= 1 /\ IsFiniteSet(dict[k])
  BY FS_EmptySet DEF Init
<1>4. ShapeInv
  BY <1>2, <1>3 DEF Init, ShapeInv
<1> QED BY <1>2, <1>3, <1>4 DEF Init, TypeOK, Typed, None

(* The writers' steps.                                                     *)
LEMMA WriteTyped ==
  ASSUME Typed, NEW w \in Writers, NEW k \in Keys,
         (\E ttl \in Ttls : Set(w, k, ttl)) \/ Delete(w, k)
  PROVE  Typed'
<1> USE DEF Typed
<1>1. /\ UNCHANGED <<clock, closes, reg, subs, lost, chan, handVars, sweepVars, cliVars>>
      /\ sets' = sets + 1 /\ raced' = raced \cup Races(w, k)
  BY DEF Set, Delete, MayChange, connVars
<1>2. raced' \subseteq Subscribers \X Keys
  BY <1>1 DEF Races, TypeOK
<1>3. \E es : /\ es = {} \/ \E e \in [val : Nat, exp : Nat] : es = {e}
              /\ dict' = [dict EXCEPT ![k] = es]
  <2>1. ASSUME NEW ttl \in Ttls PROVE Entry(sets + 1, ttl) \in [val : Nat, exp : Nat]
    <3>1. ttl \in Nat /\ clock \in Nat /\ sets \in Nat
      BY ConstFacts DEF TypeOK
    <3> QED BY <3>1 DEF Entry
  <2> QED BY <2>1 DEF Set, Delete
<1>4. /\ dict' \in [Keys -> SUBSET [val : Nat, exp : Nat]]
      /\ \A j \in Keys : /\ Cardinality(dict'[j]) <= 1 /\ IsFiniteSet(dict'[j])
                         /\ dict'[j] \subseteq [val : Nat, exp : Nat]
  BY <1>3, DictFacts
<1>5. \E m \in Changes : pending' = [pending EXCEPT ![w] = <<m>>]
  <2>1. sets + 1 \in Nat /\ None \in Nat
    BY DEF TypeOK, None
  <2> QED BY <2>1, NoteFacts DEF Set, Delete
<1>6. /\ pending' \in [Writers -> Seq(Msgs)]
      /\ \A v \in Writers : pending'[v] = << >> \/ \E m \in Changes : pending'[v] = <<m>>
  <2>1. PICK m \in Changes : pending' = [pending EXCEPT ![w] = <<m>>]
    BY <1>5
  <2>2. <<m>> \in Seq(Msgs)
    BY ChangeSeq
  <2> QED BY <2>1, <2>2 DEF TypeOK, ShapeInv
<1>7. ShapeInv'
  BY <1>1, <1>4, <1>6 DEF ShapeInv, handVars, connVars
<1>8. sets' \in Nat
  BY <1>1 DEF TypeOK
<1> QED BY <1>1, <1>2, <1>4, <1>6, <1>7, <1>8 DEF TypeOK, handVars, connVars, sweepVars, cliVars

(* An announcement, of a writer or of the sweep.                           *)
LEMMA AnnounceTyped ==
  ASSUME Typed, NEW m \in Changes, FanOut(m),
         UNCHANGED <<clock, histVars, dict, handVars, swpc, cands, cliVars>>,
         \/ \E w \in Writers : pending' = [pending EXCEPT ![w] = << >>] /\ UNCHANGED removed
         \/ \E k \in Keys : removed' = removed \ {k} /\ UNCHANGED pending
  PROVE  Typed'
<1> USE DEF Typed
<1>1. /\ raced' \subseteq Subscribers \X Keys /\ chan' \in [Subscribers -> Seq(Notes)]
      /\ \A s \in Subscribers : Len(chan'[s]) <= Capacity
      /\ reg' \in [Subscribers -> {"no", "yes", "gone"}] /\ subs' \in [Subscribers -> SUBSET Patterns]
      /\ lost' = lost
  BY FanOutFacts
<1>2. chan' \in [Subscribers -> Seq(Msgs)]
  <2>1. Seq(Notes) \subseteq Seq(Msgs)
    BY NoteSeq
  <2> QED BY <1>1, <2>1
<1>3. /\ pending' \in [Writers -> Seq(Msgs)] /\ removed' \subseteq Keys
      /\ \A v \in Writers : pending'[v] = << >> \/ \E n \in Changes : pending'[v] = <<n>>
  <2>1. << >> \in Seq(Msgs)
    OBVIOUS
  <2> QED BY <2>1 DEF TypeOK, ShapeInv
<1>4. ShapeInv'
  BY <1>1, <1>3 DEF ShapeInv, handVars, connVars
<1> QED BY <1>1, <1>2, <1>3, <1>4 DEF TypeOK, handVars, connVars, histVars, cliVars

(* The handler's steps.                                                    *)
LEMMA HandleTyped ==
  ASSUME Typed, NEW s \in Subscribers,
         \/ \E ps \in Requests : Subscribe(s, ps)
         \/ PushKeys(s) \/ PushDone(s) \/ Lose(s) \/ Close(s)
         \/ \E k \in todo[s] : PushRead(s, k)
  PROVE  Typed'
<1> USE DEF Typed
<1>1. ASSUME NEW ps \in Requests, Subscribe(s, ps) PROVE Typed'
  <2>1. ps \subseteq Patterns /\ ps \ subs[s] \subseteq Patterns
    BY ConstFacts
  <2>2. KeysOf(ps \ subs[s]) \subseteq Keys
    BY <2>1, KeysOfFacts
  <2>3. fresh' \in [Subscribers -> SUBSET Keys]
    BY <1>1, <2>2 DEF Subscribe, TypeOK
  <2>4. reg' \in [Subscribers -> {"no", "yes", "gone"}]
    BY <1>1 DEF Subscribe, TypeOK
  <2>5. subs' \in [Subscribers -> SUBSET Patterns]
    BY <1>1, <2>1 DEF Subscribe, TypeOK
  <2>6. acking' \in [Subscribers -> BOOLEAN] /\ hpc' \in [Subscribers -> {"idle", "ack", "keys", "push"}]
    BY <1>1 DEF Subscribe, TypeOK
  <2>7. UNCHANGED <<clock, sets, closes, raced, dict, lost, chan, pending, todo, got, swpc, cands,
                    removed, view>>
    BY <1>1 DEF Subscribe, histVars, sweepVars
  <2> QED BY <2>3, <2>4, <2>5, <2>6, <2>7 DEF TypeOK, ShapeInv
<1>2. CASE PushKeys(s)
  <2>1. /\ todo' \in [Subscribers -> SUBSET Keys] /\ fresh' \in [Subscribers -> SUBSET Keys]
        /\ hpc' \in [Subscribers -> {"idle", "ack", "keys", "push"}]
    BY <1>2 DEF PushKeys, TypeOK
  <2>2. UNCHANGED <<clock, sets, closes, raced, dict, reg, subs, lost, chan, pending, got, swpc,
                    cands, removed, view, acking>>
    BY <1>2 DEF PushKeys, histVars, connVars, sweepVars, cliVars
  <2> QED BY <2>1, <2>2 DEF TypeOK, ShapeInv
<1>3. CASE PushDone(s)
  <2>1. hpc' \in [Subscribers -> {"idle", "ack", "keys", "push"}]
    BY <1>3 DEF PushDone, TypeOK
  <2>2. UNCHANGED <<clock, sets, closes, raced, dict, reg, subs, lost, chan, pending, fresh, todo, got,
                    swpc, cands, removed, view, acking>>
    BY <1>3 DEF PushDone, histVars, connVars, sweepVars, cliVars
  <2> QED BY <2>1, <2>2 DEF TypeOK, ShapeInv
<1>4. CASE Lose(s)
  <2>1. << >> \in Seq(Notes) /\ << >> \in Seq(Msgs) /\ Len(<< >>) = 0 /\ Capacity \in Nat
    <3>1. Capacity \in Nat
      BY ConstFacts
    <3> QED BY <3>1
  <2>2. [k \in Keys |-> None] \in [Keys -> Nat]
    BY DEF None
  <2>3. /\ chan' \in [Subscribers -> Seq(Notes)] /\ chan' \in [Subscribers -> Seq(Msgs)]
        /\ \A t \in Subscribers : Len(chan'[t]) <= Capacity
    BY <1>4, <2>1 DEF Lose, TypeOK, ShapeInv
  <2>4. /\ closes' \in Nat /\ view' \in [Subscribers -> [Keys -> Nat]]
        /\ acking' \in [Subscribers -> BOOLEAN] /\ lost' \in [Subscribers -> BOOLEAN]
    BY <1>4, <2>2 DEF Lose, TypeOK
  <2>5. UNCHANGED <<clock, sets, raced, dict, reg, subs, pending, hpc, fresh, todo, got, swpc,
                    cands, removed>>
    BY <1>4 DEF Lose, handVars, sweepVars
  <2> QED BY <2>3, <2>4, <2>5 DEF TypeOK, ShapeInv
<1>6. CASE Close(s)
  <2>1. /\ reg' \in [Subscribers -> {"no", "yes", "gone"}] /\ lost' \in [Subscribers -> BOOLEAN]
        /\ subs' \in [Subscribers -> SUBSET Patterns]
    BY <1>6 DEF Close, TypeOK
  <2>2. UNCHANGED <<clock, sets, closes, raced, dict, chan, pending, hpc, fresh, todo, got, swpc,
                    cands, removed, view, acking>>
    BY <1>6 DEF Close, histVars, handVars, sweepVars, cliVars
  <2> QED BY <2>1, <2>2 DEF TypeOK, ShapeInv
<1>5. ASSUME NEW k \in todo[s], PushRead(s, k) PROVE Typed'
  <2>1. k \in Keys
    BY DEF TypeOK
  <2>2. todo' \in [Subscribers -> SUBSET Keys]
    BY <1>5 DEF PushRead, TypeOK
  <2> DEFINE g == IF \E e \in dict[k] : Live(e)
                  THEN <<Msg("update", k, (CHOOSE e \in dict[k] : TRUE).val)>> ELSE << >>
  <2>3. got' = [got EXCEPT ![s] = g]
    BY <1>5 DEF PushRead
  <2>4. g = << >> \/ \E m \in Changes : g = <<m>>
    <3>1. ASSUME \E e \in dict[k] : Live(e)
          PROVE  Msg("update", k, (CHOOSE e \in dict[k] : TRUE).val) \in Changes
      <4>1. (CHOOSE e \in dict[k] : TRUE) \in dict[k]
        BY <3>1
      <4>2. (CHOOSE e \in dict[k] : TRUE).val \in Nat
        BY <2>1, <4>1 DEF TypeOK
      <4> QED BY <2>1, <4>2, NoteFacts
    <3> QED BY <3>1
  <2> HIDE DEF g
  <2>5. g \in Seq(Msgs)
    BY <2>4, OneChange
  <2>6. /\ got' \in [Subscribers -> Seq(Msgs)]
        /\ \A t \in Subscribers : got'[t] = << >> \/ \E m \in Changes : got'[t] = <<m>>
    BY <2>3, <2>4, <2>5 DEF TypeOK, ShapeInv
  <2>7. UNCHANGED <<clock, sets, closes, raced, dict, reg, subs, lost, chan, pending, hpc, fresh, swpc,
                    cands, removed, view, acking>>
    BY <1>5 DEF PushRead, histVars, connVars, sweepVars, cliVars
  <2> QED BY <2>2, <2>6, <2>7 DEF TypeOK, ShapeInv
<1> QED BY <1>1, <1>2, <1>3, <1>4, <1>5, <1>6

(* The handler's sends.                                                    *)
LEMMA SendTyped ==
  ASSUME Typed, NEW s \in Subscribers, Acknowledge(s) \/ PushSend(s)
  PROVE  Typed'
<1> USE DEF Typed
<1>0. Seq(Notes) \subseteq Seq(Msgs)
  BY NoteSeq
<1>1. CASE Acknowledge(s)
  <2>1. /\ chan' \in [Subscribers -> Seq(Notes)]
        /\ \A t \in Subscribers : Len(chan'[t]) <= Capacity
    BY <1>1, SendFacts, NoteFacts DEF Acknowledge
  <2>2. hpc' \in [Subscribers -> {"idle", "ack", "keys", "push"}]
    BY <1>1 DEF Acknowledge, TypeOK
  <2>3. UNCHANGED <<clock, sets, closes, raced, dict, reg, subs, lost, pending, fresh, todo, got, swpc,
                    cands, removed, view, acking>>
    BY <1>1 DEF Acknowledge, histVars, connVars, sweepVars, cliVars
  <2>4. chan' \in [Subscribers -> Seq(Msgs)]
    BY <1>0, <2>1
  <2> QED BY <2>1, <2>2, <2>3, <2>4 DEF TypeOK, ShapeInv
<1>2. CASE PushSend(s)
  <2>1. got[s][1] \in Notes
    BY <1>2, OneChange, NoteFacts DEF PushSend, ShapeInv
  <2>2. /\ chan' \in [Subscribers -> Seq(Notes)]
        /\ \A t \in Subscribers : Len(chan'[t]) <= Capacity
    BY <1>2, <2>1, SendFacts DEF PushSend
  <2>3. << >> \in Seq(Msgs)
    OBVIOUS
  <2>4. /\ got' \in [Subscribers -> Seq(Msgs)]
        /\ \A t \in Subscribers : got'[t] = << >> \/ \E m \in Changes : got'[t] = <<m>>
    BY <1>2, <2>3 DEF PushSend, TypeOK, ShapeInv
  <2>5. UNCHANGED <<clock, sets, closes, raced, dict, reg, subs, lost, pending, hpc, fresh, todo, swpc,
                    cands, removed, view, acking>>
    BY <1>2 DEF PushSend, histVars, connVars, sweepVars, cliVars
  <2>6. chan' \in [Subscribers -> Seq(Msgs)]
    BY <1>0, <2>2
  <2> QED BY <2>2, <2>4, <2>5, <2>6 DEF TypeOK, ShapeInv
<1> QED BY <1>1, <1>2

(* The sweep.                                                              *)
LEMMA SweepTyped ==
  ASSUME Typed, SweepRead \/ SweepDone \/ \E k \in cands : SweepRemove(k)
  PROVE  Typed'
<1> USE DEF Typed
<1>1. CASE SweepRead \/ SweepDone
  <2>1. UNCHANGED <<clock, sets, closes, raced, dict, reg, subs, lost, chan, pending, hpc, fresh, todo, got,
                    removed, view, acking>>
    BY <1>1 DEF SweepRead, SweepDone, histVars, connVars, handVars, cliVars
  <2>2. cands' \subseteq Keys /\ swpc' \in {"sleep", "remove", "announce"}
    BY <1>1 DEF SweepRead, SweepDone, TypeOK
  <2> QED BY <2>1, <2>2 DEF TypeOK, ShapeInv
<1>2. ASSUME NEW k \in cands, SweepRemove(k) PROVE Typed'
  <2>1. k \in Keys
    BY DEF TypeOK
  <2>2. UNCHANGED <<clock, sets, closes, reg, subs, lost, chan, pending, hpc, fresh, todo, got, view, acking>>
    BY <1>2 DEF SweepRemove, histVars, connVars, handVars, cliVars
  <2>3. raced' \subseteq Subscribers \X Keys
    <3>1. Races("", k) \subseteq Subscribers \X Keys
      BY <2>1, RacesType
    <3>2. raced' = raced \/ raced' = raced \cup Races("", k)
      BY <1>2 DEF SweepRemove
    <3> QED BY <3>1, <3>2 DEF TypeOK
  <2>4. cands' \subseteq Keys /\ removed' \subseteq Keys /\ swpc' \in {"sleep", "remove", "announce"}
    BY <1>2, <2>1 DEF SweepRemove, TypeOK
  <2>5. /\ dict' \in [Keys -> SUBSET [val : Nat, exp : Nat]]
        /\ \A j \in Keys : /\ Cardinality(dict'[j]) <= 1 /\ IsFiniteSet(dict'[j])
                         /\ dict'[j] \subseteq [val : Nat, exp : Nat]
    <3>1. CASE Gone(k)
      <4>1. dict' = [dict EXCEPT ![k] = {}]
        BY <1>2, <3>1 DEF SweepRemove
      <4> QED BY <2>1, <4>1, DictFacts
    <3>2. CASE ~Gone(k)
      <4>1. dict' = dict
        BY <1>2, <3>2 DEF SweepRemove, ShapeInv
      <4> QED BY <4>1 DEF TypeOK, ShapeInv
    <3> QED BY <3>1, <3>2
  <2> QED BY <2>2, <2>3, <2>4, <2>5 DEF TypeOK, ShapeInv
<1> QED BY <1>1, <1>2

(* The client.                                                             *)
LEMMA ReceiveTyped ==
  ASSUME Typed, NEW s \in Subscribers, Receive(s)
  PROVE  /\ Typed'
         /\ Head(chan[s]) \in Notes /\ raced \subseteq raced'
<1> USE DEF Typed
<1> DEFINE m == Head(chan[s])
<1>1. chan[s] \in Seq(Notes) /\ chan[s] # << >>
  BY DEF Receive, ShapeInv
<1>2. /\ m \in Notes /\ Tail(chan[s]) \in Seq(Notes) /\ Len(Tail(chan[s])) = Len(chan[s]) - 1
      /\ Len(chan[s]) \in Nat
  BY <1>1, HeadTailProperties, LenProperties
<1>3. chan' = [chan EXCEPT ![s] = Tail(chan[s])]
  BY DEF Receive
<1>4. chan' \in [Subscribers -> Seq(Notes)]
  BY <1>2, <1>3 DEF ShapeInv
<1>5. \A t \in Subscribers : Len(chan'[t]) <= Capacity
  <2>1. chan'[s] = Tail(chan[s]) /\ \A t \in Subscribers \ {s} : chan'[t] = chan[t]
    BY <1>3 DEF ShapeInv
  <2>2. Len(chan[s]) <= Capacity /\ Capacity \in Nat
    BY ConstFacts DEF TypeOK
  <2>3. Len(chan'[s]) <= Capacity
    BY <1>2, <2>1, <2>2
  <2> QED BY <2>1, <2>3 DEF TypeOK
<1>6. chan' \in [Subscribers -> Seq(Msgs)]
  <2>1. Seq(Notes) \subseteq Seq(Msgs)
    BY NoteSeq
  <2> QED BY <1>4, <2>1
<1>7. acking' \in [Subscribers -> BOOLEAN]
  BY DEF Receive, TypeOK
<1>8. m.kind # "subscribed" => m.key \in Keys /\ m.val \in Nat
  BY <1>2, NoteFacts
<1>9. raced' \subseteq Subscribers \X Keys /\ raced \subseteq raced'
  <2>1. raced' = raced \/ (m.kind # "subscribed" /\ raced' = raced \cup {<<s, m.key>>})
    <3>1. CASE acking[s]
      <4>1. raced' = IF m.kind = "subscribed" THEN raced ELSE raced \cup {<<s, m.key>>}
        BY <3>1 DEF Receive
      <4> QED BY <4>1
    <3>2. CASE ~acking[s]
      BY <3>2 DEF Receive
    <3> QED BY <3>1, <3>2
  <2> QED BY <1>8, <2>1 DEF TypeOK
<1>10. view' \in [Subscribers -> [Keys -> Nat]]
  <2>1. CASE acking[s] \/ m.kind = "subscribed"
    BY <2>1 DEF Receive, TypeOK
  <2>2. CASE ~acking[s] /\ m.kind # "subscribed"
    <3>1. view' = [view EXCEPT ![s] = [view[s] EXCEPT ![m.key] = m.val]]
      BY <2>2 DEF Receive
    <3>2. [view[s] EXCEPT ![m.key] = m.val] \in [Keys -> Nat]
      BY <1>8, <2>2 DEF TypeOK
    <3> QED BY <3>1, <3>2 DEF TypeOK
  <2> QED BY <2>1, <2>2
<1>11. UNCHANGED <<clock, sets, closes, dict, reg, subs, lost, pending, hpc, fresh, todo, got, swpc, cands,
                   removed>>
  BY DEF Receive, histVars, connVars, handVars, sweepVars
<1>12. ShapeInv'
  BY <1>4, <1>11 DEF ShapeInv
<1> QED BY <1>2, <1>5, <1>6, <1>7, <1>9, <1>10, <1>11, <1>12 DEF TypeOK

-----------------------------------------------------------------------------
(***************************************************************************)
(* The steps that change or announce the dictionary, seen from a           *)
(* subscriber: a change of key c by writer w, or by the sweep (w = ""),    *)
(* and the announcement of message m.                                      *)
(***************************************************************************)
ChangeOf(w, c) ==
  /\ raced' = raced \cup Races(w, c)
  /\ \A k \in Keys \ {c} : dict'[k] = dict[k]
  /\ UNCHANGED <<clock, reg, subs, lost, chan, handVars, view>>
  /\ \A v \in Writers \ {w} : pending'[v] = pending[v]
  /\ w \in Writers => /\ pending[w] = << >> /\ pending'[w] # << >> /\ pending'[w][1].key = c
                      /\ pending'[w][1].val = Val(c)'
                      /\ UNCHANGED <<removed, swpc>>
  /\ w \notin Writers => removed' = removed \cup {c} /\ dict'[c] = {} /\ swpc' # "sleep"

AnnouncementOf(m) ==
  /\ m \in Changes /\ FanOut(m)
  /\ UNCHANGED <<clock, dict, handVars, view, swpc>>
  /\ \A w \in Writers : \/ pending'[w] = pending[w]
                        \/ pending[w] = <<m>> /\ pending'[w] = << >>
  /\ removed' \subseteq removed /\ \A k \in removed \ removed' : k = m.key
  /\ \/ \E w \in Writers : pending[w] = <<m>>
     \/ m.key \in removed /\ m.val = None

(* The writers' and the sweep's steps are such steps.                      *)
LEMMA WriteIs ==
  ASSUME Typed, NEW w \in Writers, NEW c \in Keys,
         (\E ttl \in Ttls : Set(w, c, ttl)) \/ Delete(w, c)
  PROVE  ChangeOf(w, c)
<1> USE DEF Typed
<1>1. /\ raced' = raced \cup Races(w, c) /\ pending[w] = << >>
      /\ UNCHANGED <<clock, reg, subs, lost, chan, handVars, view, removed, swpc>>
  BY DEF Set, Delete, MayChange, sweepVars, connVars, cliVars
<1>2. ASSUME NEW ttl \in Ttls, Set(w, c, ttl)
      PROVE  /\ \A k \in Keys \ {c} : dict'[k] = dict[k]
             /\ \A v \in Writers \ {w} : pending'[v] = pending[v]
             /\ pending'[w] # << >> /\ pending'[w][1].key = c /\ pending'[w][1].val = Val(c)'
  <2> DEFINE e == Entry(sets + 1, ttl)
             m == Msg("update", c, sets + 1)
  <2>1. dict' = [dict EXCEPT ![c] = {e}] /\ pending' = [pending EXCEPT ![w] = <<m>>]
    BY <1>2 DEF Set
  <2>2. e.val = sets + 1
    BY DEF Entry
  <2>3. m.key = c /\ m.val = sets + 1
    BY MsgFields
  <2> HIDE DEF e, m
  <2>4. /\ dict'[c] = {e} /\ \A k \in Keys \ {c} : dict'[k] = dict[k]
        /\ pending'[w] = <<m>> /\ \A v \in Writers \ {w} : pending'[v] = pending[v]
    BY <2>1 DEF ShapeInv, TypeOK
  <2>5. Val(c)' = sets + 1
    <3>1. (CHOOSE x \in dict'[c] : TRUE) = e
      BY <2>4
    <3> QED BY <2>2, <2>4, <3>1 DEF Val
  <2>6. pending'[w] # << >> /\ pending'[w][1] = m
    BY <2>4
  <2> QED BY <2>3, <2>4, <2>5, <2>6
<1>3. ASSUME Delete(w, c)
      PROVE  /\ \A k \in Keys \ {c} : dict'[k] = dict[k]
             /\ \A v \in Writers \ {w} : pending'[v] = pending[v]
             /\ pending'[w] # << >> /\ pending'[w][1].key = c /\ pending'[w][1].val = Val(c)'
  <2> DEFINE m == Msg("key_deleted", c, None)
  <2>1. dict' = [dict EXCEPT ![c] = {}] /\ pending' = [pending EXCEPT ![w] = <<m>>]
    BY <1>3 DEF Delete
  <2>2. m.key = c /\ m.val = None
    BY MsgFields
  <2> HIDE DEF m
  <2>3. /\ dict'[c] = {} /\ \A k \in Keys \ {c} : dict'[k] = dict[k]
        /\ pending'[w] = <<m>> /\ \A v \in Writers \ {w} : pending'[v] = pending[v]
    BY <2>1 DEF ShapeInv, TypeOK
  <2>4. Val(c)' = None
    BY <2>3 DEF Val, None
  <2>5. pending'[w] # << >> /\ pending'[w][1] = m
    BY <2>3
  <2> QED BY <2>2, <2>3, <2>4, <2>5
<1>4. /\ \A k \in Keys \ {c} : dict'[k] = dict[k]
      /\ \A v \in Writers \ {w} : pending'[v] = pending[v]
      /\ pending'[w] # << >> /\ pending'[w][1].key = c /\ pending'[w][1].val = Val(c)'
  BY <1>2, <1>3
<1> QED BY <1>1, <1>4 DEF ChangeOf

LEMMA RemoveIs ==
  ASSUME Typed, NEW c \in cands, SweepRemove(c), Gone(c)
  PROVE  c \in Keys /\ ChangeOf("", c)
<1>1. c \in Keys /\ "" \notin Writers
  BY ConstFacts DEF Typed, TypeOK
<1>2. /\ dict' = [dict EXCEPT ![c] = {}] /\ removed' = removed \cup {c}
      /\ raced' = raced \cup Races("", c)
      /\ UNCHANGED <<clock, reg, subs, lost, chan, pending, handVars, view>> /\ swpc' # "sleep"
  BY DEF SweepRemove, cliVars, connVars
<1>3. dict'[c] = {} /\ \A k \in Keys \ {c} : dict'[k] = dict[k]
  BY <1>1, <1>2 DEF Typed, ShapeInv
<1> QED BY <1>1, <1>2, <1>3 DEF ChangeOf

LEMMA AnnounceIs ==
  ASSUME Typed, NEW w \in Writers, Announce(w)
  PROVE  AnnouncementOf(pending[w][1])
<1>1. pending[w] # << >> /\ (pending[w] = << >> \/ \E m \in Changes : pending[w] = <<m>>)
  BY DEF Announce, Typed, ShapeInv
<1>2. pending[w][1] \in Changes /\ pending[w] = <<pending[w][1]>>
  BY <1>1, OneChange
<1>3. /\ FanOut(pending[w][1]) /\ pending' = [pending EXCEPT ![w] = << >>]
      /\ UNCHANGED <<clock, dict, handVars, view, swpc, removed>>
  BY DEF Announce, sweepVars, connVars, cliVars
<1>4. pending'[w] = << >> /\ \A v \in Writers \ {w} : pending'[v] = pending[v]
  BY <1>3 DEF Typed, TypeOK
<1> QED BY <1>2, <1>3, <1>4 DEF AnnouncementOf

LEMMA SweepAnnounceIs ==
  ASSUME Typed, NEW k \in removed, SweepAnnounce(k)
  PROVE  AnnouncementOf(Msg("key_expired", k, None))
<1>1. k \in Keys /\ None \in Nat
  BY DEF Typed, TypeOK, None
<1>2. Msg("key_expired", k, None) \in Changes
  BY <1>1, NoteFacts
<1>3. Msg("key_expired", k, None).key = k /\ Msg("key_expired", k, None).val = None
  BY MsgFields
<1>4. /\ FanOut(Msg("key_expired", k, None)) /\ removed' = removed \ {k}
      /\ UNCHANGED <<clock, dict, handVars, view, swpc, pending>>
  BY DEF SweepAnnounce, cliVars, connVars
<1> QED BY <1>2, <1>3, <1>4 DEF AnnouncementOf

(* Every step keeps the types.                                             *)
LEMMA TypedStep == Typed /\ [Next]_vars => Typed'
<1> SUFFICES ASSUME Typed, [Next]_vars PROVE Typed'
  OBVIOUS
<1>1. CASE Tick
  <2>1. clock' \in Nat /\ UNCHANGED <<sets, closes, raced, dict, reg, subs, lost, chan, pending, hpc, fresh,
                                       todo, got, swpc, cands, removed, view, acking>>
    BY <1>1 DEF Tick, Typed, TypeOK, histVars, connVars, handVars, sweepVars, cliVars
  <2> QED BY <2>1 DEF Typed, TypeOK, ShapeInv
<1>2. CASE Write
  BY <1>2, WriteTyped DEF Write
<1>3. ASSUME NEW w \in Writers, Announce(w) PROVE Typed'
  <2>1. AnnouncementOf(pending[w][1])
    BY <1>3, AnnounceIs
  <2>2. UNCHANGED <<clock, histVars, dict, handVars, swpc, cands, cliVars>>
        /\ pending' = [pending EXCEPT ![w] = << >>] /\ UNCHANGED removed
    BY <1>3 DEF Announce, sweepVars, connVars
  <2> QED BY <2>1, <2>2, AnnounceTyped DEF AnnouncementOf
<1>4. CASE Handle
  BY <1>4, HandleTyped, SendTyped DEF Handle
<1>5. ASSUME NEW k \in removed, SweepAnnounce(k) PROVE Typed'
  <2>1. AnnouncementOf(Msg("key_expired", k, None)) /\ k \in Keys
    BY <1>5, SweepAnnounceIs DEF Typed, TypeOK
  <2>2. UNCHANGED <<clock, histVars, dict, handVars, swpc, cands, cliVars>>
        /\ removed' = removed \ {k} /\ UNCHANGED pending
    BY <1>5 DEF SweepAnnounce
  <2> QED BY <2>1, <2>2, AnnounceTyped DEF AnnouncementOf
<1>6. CASE Sweep
  BY <1>5, <1>6, SweepTyped DEF Sweep
<1>7. ASSUME NEW s \in Subscribers, Receive(s) PROVE Typed'
  BY <1>7, ReceiveTyped
<1>8. CASE UNCHANGED vars
  BY <1>8 DEF vars, Typed, TypeOK, ShapeInv, histVars, connVars, handVars, sweepVars, cliVars
<1> QED BY <1>1, <1>2, <1>3, <1>4, <1>6, <1>7, <1>8 DEF Next

-----------------------------------------------------------------------------
(***************************************************************************)
(* A step that makes no difference to the copy that s has of key k: at     *)
(* most it tells s of other keys, or finds that k needs no push.           *)
(***************************************************************************)
Untouched(s, k) ==
  /\ raced \subseteq raced' /\ clock' >= clock /\ dict'[k] = dict[k]
  /\ lost'[s] = lost[s] /\ (~lost[s] => (k \in Matched(s)' <=> k \in Matched(s)))
  /\ view'[s][k] = view[s][k] /\ (lost[s] => chan'[s] = chan[s])
  /\ chan'[s] = chan[s] \/ \E m \in Notes : ~Carries(m, k) /\ chan'[s] = Append(chan[s], m)
  /\ \A w \in Writers : Announces(w, k)' => pending'[w] = pending[w]
  /\ k \in removed' => k \in removed
  /\ Coming(k) => Coming(k)'
  /\ Holds(s, k)' <=> Holds(s, k)
  /\ Holds(s, k)' => got'[s] = got[s]
  /\ Queued(s, k)' => Queued(s, k)
  /\ Queued(s, k) => Queued(s, k)' \/ dict[k] = {} \/ ~Unexpired(k)

LEMMA UntouchedKeeps ==
  ASSUME Typed, Typed', NEW s \in Subscribers, NEW k \in Keys, At(s, k), Untouched(s, k)
  PROVE  At(s, k)'
<1>1. Val(k)' = Val(k) /\ (<<s, k>> \notin raced' => <<s, k>> \notin raced)
  BY DEF Untouched, Val
<1>2. Unexpired(k)' => Unexpired(k)
  <2>1. clock \in Nat /\ clock' \in Nat /\ clock' >= clock /\ dict'[k] = dict[k]
    BY DEF Typed, TypeOK, Untouched
  <2>2. \A e \in dict[k] : e.exp \in Nat
    BY DEF Typed, TypeOK
  <2> QED BY <2>1, <2>2 DEF Unexpired, Live
<1>3. chan[s] \in Seq(Notes)
  BY DEF Typed, ShapeInv
<1>4. OutsideAt(s, k)'
  <2> SUFFICES ASSUME ~lost'[s], k \notin Matched(s)'
               PROVE  /\ view'[s][k] = None /\ \A i \in DOMAIN chan'[s] : ~Carries(chan'[s][i], k)
                      /\ ~Holds(s, k)' /\ ~Queued(s, k)'
    BY DEF OutsideAt
  <2>1. ~lost[s] /\ k \notin Matched(s)
    BY DEF Untouched
  <2>2. /\ view[s][k] = None /\ \A i \in DOMAIN chan[s] : ~Carries(chan[s][i], k)
        /\ ~Holds(s, k) /\ ~Queued(s, k)
    BY <2>1 DEF At, OutsideAt
  <2>3. \A i \in DOMAIN chan'[s] : ~Carries(chan'[s][i], k)
    BY <1>3, <2>2, NoneAppend DEF Untouched
  <2> QED BY <2>2, <2>3 DEF Untouched
<1>5. CurrentAt(s, k)'
  <2> SUFFICES ASSUME <<s, k>> \notin raced'
               PROVE  /\ \A w \in Writers : Announces(w, k)' => pending'[w][1].val = Val(k)'
                      /\ k \in removed' => dict'[k] = {}
                      /\ Holds(s, k)' => got'[s][1].val = Val(k)'
    BY DEF CurrentAt
  <2>1. /\ \A w \in Writers : Announces(w, k) => pending[w][1].val = Val(k)
        /\ k \in removed => dict[k] = {}
        /\ Holds(s, k) => got[s][1].val = Val(k)
    BY <1>1 DEF At, CurrentAt
  <2>2. ASSUME NEW w \in Writers, Announces(w, k)' PROVE pending'[w][1].val = Val(k)'
    <3>1. pending'[w] = pending[w]
      BY <2>2 DEF Untouched
    <3>2. Announces(w, k)
      BY <2>2, <3>1 DEF Announces
    <3> QED BY <1>1, <2>1, <3>1, <3>2
  <2>3. k \in removed' => dict'[k] = {}
    BY <2>1 DEF Untouched
  <2>4. Holds(s, k)' => got'[s][1].val = Val(k)'
    BY <1>1, <2>1 DEF Untouched
  <2> QED BY <2>2, <2>3, <2>4
<1>6. ToldAt(s, k)'
  <2> SUFFICES ASSUME ~lost'[s], k \in Matched(s)', <<s, k>> \notin raced', Unexpired(k)'
               PROVE  Told(s, k)'
    BY DEF ToldAt
  <2>1. ~lost[s] /\ k \in Matched(s)
    BY DEF Untouched
  <2>2. Told(s, k)
    BY <1>1, <1>2, <2>1 DEF At, ToldAt
  <2>3. CASE Coming(k) \/ Holds(s, k)
    BY <2>3 DEF Untouched, Told
  <2>4. CASE Queued(s, k) /\ dict[k] # {}
    BY <1>2, <2>4 DEF Untouched, Told
  <2>5. CASE Ends(chan[s], view[s][k], k, Val(k))
    <3>1. Ends(chan'[s], view[s][k], k, Val(k))
      BY <1>3, <2>5, EndsAppend DEF Untouched
    <3>2. Ends(chan'[s], view'[s][k], k, Val(k)')
      BY <1>1, <3>1 DEF Untouched
    <3> QED BY <3>2 DEF Told
  <2> QED BY <2>2, <2>3, <2>4, <2>5 DEF Told
<1>7. LostAt(s, k)'
  BY DEF At, LostAt, Untouched
<1> QED BY <1>4, <1>5, <1>6, <1>7 DEF At

(* A step that changes nothing of subscriber s but perhaps the time.       *)
LEMMA StillUntouched ==
  ASSUME Typed, NEW s \in Subscribers, NEW k \in Keys, raced \subseteq raced', clock' >= clock,
         UNCHANGED <<dict, pending, removed>>,
         subs'[s] = subs[s], lost'[s] = lost[s], chan'[s] = chan[s], view'[s] = view[s],
         hpc'[s] = hpc[s],
         fresh'[s] = fresh[s], todo'[s] = todo[s], got'[s] = got[s]
  PROVE  Untouched(s, k)
<1>1. /\ Queued(s, k)' <=> Queued(s, k)
      /\ Holds(s, k)' <=> Holds(s, k)
  BY DEF Queued, Holds
<1>2. Coming(k) => Coming(k)'
  BY DEF Coming, Announces
<1>3. Matched(s)' = Matched(s)
  BY DEF Matched, KeysOf
<1> QED BY <1>1, <1>2, <1>3 DEF Untouched

(* A change of the dictionary is news of one key; it hits every handler    *)
(* and every announcement that it makes stale.                             *)
LEMMA ChangeKeeps ==
  ASSUME Typed, Typed', NEW w, NEW c \in Keys, ChangeOf(w, c),
         NEW s \in Subscribers, NEW k \in Keys, At(s, k)
  PROVE  At(s, k)'
<1>1. /\ UNCHANGED <<clock, reg, subs, lost, chan, hpc, fresh, todo, got, view>> /\ clock \in Nat
      /\ raced' = raced \cup Races(w, c) /\ \A j \in Keys \ {c} : dict'[j] = dict[j]
  BY DEF ChangeOf, handVars, connVars, Typed, TypeOK
<1>2. /\ Queued(s, k)' <=> Queued(s, k)
      /\ Holds(s, k)' <=> Holds(s, k)
      /\ Matched(s)' = Matched(s)
  BY <1>1 DEF Queued, Holds, Matched, KeysOf
<1>3. CASE k # c
  <2>1. \A v \in Writers : Announces(v, k)' => pending'[v] = pending[v]
    BY <1>3 DEF ChangeOf, Announces
  <2>2. k \in removed' => k \in removed
    <3>1. CASE w \in Writers
      BY <3>1 DEF ChangeOf
    <3>2. CASE w \notin Writers
      <4>1. removed' = removed \cup {c}
        BY <3>2 DEF ChangeOf
      <4> QED BY <1>3, <4>1
    <3> QED BY <3>1, <3>2
  <2>3. Coming(k) => Coming(k)'
    <3>1. k \in removed => k \in removed'
      BY DEF ChangeOf
    <3>2. \A v \in Writers : Announces(v, k) => Announces(v, k)'
      BY DEF ChangeOf, Announces
    <3> QED BY <3>1, <3>2 DEF Coming
  <2>4. dict'[k] = dict[k] /\ raced \subseteq raced'
    BY <1>1, <1>3
  <2>5. /\ clock' = clock /\ clock \in Nat
        /\ lost'[s] = lost[s] /\ chan'[s] = chan[s] /\ view'[s] = view[s] /\ got'[s] = got[s]
    BY <1>1
  <2>6. clock' >= clock
    BY <2>5
  <2>7. Untouched(s, k)
    BY <1>2, <2>1, <2>2, <2>3, <2>4, <2>5, <2>6 DEF Untouched
  <2> QED BY <2>7, UntouchedKeeps
<1>4. CASE k = c
  <2>1. OutsideAt(s, k)'
    BY <1>1, <1>2 DEF At, OutsideAt
  <2>2. CurrentAt(s, k)'
    <3> SUFFICES ASSUME <<s, k>> \notin raced'
                 PROVE  /\ \A v \in Writers : Announces(v, k)' => pending'[v][1].val = Val(k)'
                        /\ k \in removed' => dict'[k] = {}
                        /\ Holds(s, k)' => got'[s][1].val = Val(k)'
      BY DEF CurrentAt
    <3>1. ~Unannounced(w, c) /\ ~Holds(s, c)
      BY <1>1, <1>4 DEF Races
    <3>2. c \notin removed /\ \A v \in Writers \ {w} : ~Announces(v, c)
      BY <3>1 DEF Unannounced, Announces
    <3>3. ASSUME NEW v \in Writers, Announces(v, k)' PROVE pending'[v][1].val = Val(k)'
      <4>1. v = w
        BY <1>4, <3>2, <3>3 DEF ChangeOf, Announces
      <4> QED BY <1>4, <4>1 DEF ChangeOf
    <3>4. k \in removed' => dict'[k] = {}
      BY <1>4, <3>2 DEF ChangeOf
    <3> QED BY <1>2, <1>4, <3>1, <3>3, <3>4
  <2>3. Coming(c)'
    BY DEF ChangeOf, Coming, Announces
  <2>4. ToldAt(s, k)'
    BY <1>4, <2>3 DEF ToldAt, Told
  <2>5. LostAt(s, k)'
    BY <1>1 DEF At, LostAt
  <2> QED BY <2>1, <2>2, <2>4, <2>5 DEF At
<1> QED BY <1>3, <1>4

(* An announcement that is not lost ends a subscriber's channel, and says  *)
(* what the dictionary holds.                                              *)
LEMMA AnnouncementKeeps ==
  ASSUME Typed, Typed', NEW m, AnnouncementOf(m),
         NEW s \in Subscribers, NEW k \in Keys, At(s, k)
  PROVE  At(s, k)'
<1>1. m \in Changes /\ m \in Notes /\ m.kind # "subscribed"
  BY NoteFacts DEF AnnouncementOf
<1>2. /\ raced \subseteq raced'
      /\ m.key \notin Matched(s) \/ lost[s] => chan'[s] = chan[s]
      /\ m.key \in Matched(s) /\ ~lost[s] /\ <<s, m.key>> \notin raced' =>
           chan'[s] = Append(chan[s], m)
      /\ chan'[s] = chan[s] \/ chan'[s] = Append(chan[s], m)
      /\ lost' = lost /\ (~lost[s] => subs'[s] = subs[s])
  BY <1>1, FanOutFacts DEF AnnouncementOf, Typed
<1>3. UNCHANGED <<clock, dict, hpc, fresh, todo, got, view>> /\ clock \in Nat
  BY DEF AnnouncementOf, handVars, connVars, Typed, TypeOK
<1>4. /\ Queued(s, k)' <=> Queued(s, k)
      /\ Holds(s, k)' <=> Holds(s, k)
      /\ Val(k)' = Val(k)
      /\ ~lost[s] => Matched(s)' = Matched(s)
  BY <1>2, <1>3 DEF Queued, Holds, Val, Matched, KeysOf
<1>5. \A w \in Writers : Announces(w, k)' => pending'[w] = pending[w] /\ Announces(w, k)
  BY DEF AnnouncementOf, Announces
<1>6. k \in removed' => k \in removed
  BY DEF AnnouncementOf
<1>7. CASE k # m.key
  <2>1. Coming(k) => Coming(k)'
    <3>1. k \in removed => k \in removed'
      BY <1>7 DEF AnnouncementOf
    <3>2. \A w \in Writers : Announces(w, k) => pending[w] # <<m>>
      BY <1>7 DEF Announces
    <3>3. \A w \in Writers : Announces(w, k) => Announces(w, k)'
      BY <3>2 DEF AnnouncementOf, Announces
    <3> QED BY <3>1, <3>3 DEF Coming
  <2>2. ~Carries(m, k)
    BY <1>7 DEF Carries
  <2>3. Untouched(s, k)
    BY <1>1, <1>2, <1>3, <1>4, <1>5, <1>6, <2>1, <2>2 DEF Untouched
  <2> QED BY <2>3, UntouchedKeeps
<1>8. CASE k = m.key
  <2>1. OutsideAt(s, k)'
    BY <1>2, <1>3, <1>4, <1>8 DEF At, OutsideAt
  <2>2. CurrentAt(s, k)'
    <3> SUFFICES ASSUME <<s, k>> \notin raced'
                 PROVE  /\ \A w \in Writers : Announces(w, k)' => pending'[w][1].val = Val(k)'
                        /\ k \in removed' => dict'[k] = {}
                        /\ Holds(s, k)' => got'[s][1].val = Val(k)'
      BY DEF CurrentAt
    <3>1. /\ \A w \in Writers : Announces(w, k) => pending[w][1].val = Val(k)
          /\ k \in removed => dict[k] = {}
          /\ Holds(s, k) => got[s][1].val = Val(k)
      BY <1>2 DEF At, CurrentAt
    <3> QED BY <1>3, <1>4, <1>5, <1>6, <3>1
  <2>3. ASSUME ~lost'[s], k \in Matched(s)', <<s, k>> \notin raced' PROVE Told(s, k)'
    <3>1. /\ \A w \in Writers : Announces(w, k) => pending[w][1].val = Val(k)
          /\ k \in removed => dict[k] = {}
      BY <1>2, <2>3 DEF At, CurrentAt
    <3>2. m.val = Val(k)
      <4>1. ASSUME NEW w \in Writers, pending[w] = <<m>> PROVE m.val = Val(k)
        <5>1. Announces(w, k) /\ pending[w][1] = m
          BY <1>8, <4>1 DEF Announces
        <5> QED BY <3>1, <5>1
      <4>2. ASSUME m.key \in removed, m.val = None PROVE m.val = Val(k)
        BY <1>8, <3>1, <4>2 DEF Val
      <4> QED BY <4>1, <4>2 DEF AnnouncementOf
    <3>3. chan'[s] = Append(chan[s], m) /\ chan[s] \in Seq(Notes)
      BY <1>2, <1>4, <1>8, <2>3 DEF Typed, ShapeInv
    <3>4. Carries(m, k)
      BY <1>1, <1>8 DEF Carries
    <3>5. Ends(chan'[s], view[s][k], k, Val(k))
      BY <1>1, <3>2, <3>3, <3>4, EndsAppend
    <3> QED BY <1>3, <1>4, <3>5 DEF Told
  <2>4. ToldAt(s, k)'
    BY <2>3 DEF ToldAt
  <2>5. LostAt(s, k)'
    BY <1>2, <1>3 DEF At, LostAt
  <2> QED BY <2>1, <2>2, <2>4, <2>5 DEF At
<1> QED BY <1>7, <1>8

-----------------------------------------------------------------------------
(* The handler.                                                            *)

(* The keys of new patterns are queued; of those that no older pattern     *)
(* matches nothing has reached the client until then.                      *)
LEMMA SubscribeKeeps ==
  ASSUME Typed, Typed', PhaseInv, NEW s \in Subscribers, NEW ps \in Requests, Subscribe(s, ps),
         NEW t \in Subscribers, NEW k \in Keys, At(t, k)
  PROVE  At(t, k)'
<1> DEFINE F == KeysOf(ps \ subs[s])
           S == IF reg[s] = "gone" THEN subs[s] ELSE subs[s] \cup ps
<1>1. /\ UNCHANGED <<clock, raced, dict, lost, chan, pending, todo, got, removed, view>>
      /\ clock \in Nat /\ hpc[s] = "idle" /\ hpc' = [hpc EXCEPT ![s] = "ack"]
      /\ subs' = [subs EXCEPT ![s] = S] /\ fresh' = [fresh EXCEPT ![s] = F]
  BY DEF Subscribe, sweepVars, Typed, TypeOK
<1>2. clock' >= clock
  BY <1>1
<1>3. /\ hpc'[s] = "ack" /\ subs'[s] = S /\ fresh'[s] = F
      /\ \A u \in Subscribers \ {s} : hpc'[u] = hpc[u] /\ subs'[u] = subs[u] /\ fresh'[u] = fresh[u]
  BY <1>1 DEF Typed, TypeOK
<1>4. CASE t # s
  <2>1. Untouched(t, k)
    BY <1>1, <1>2, <1>3, <1>4, StillUntouched
  <2> QED BY <2>1, UntouchedKeeps
<1>5. /\ Holds(t, k)' <=> Holds(t, k)
      /\ Coming(k) => Coming(k)'
      /\ Val(k)' = Val(k)
  BY <1>1 DEF Holds, Coming, Announces, Val
<1>6. CurrentAt(t, k)'
  BY <1>1, <1>5 DEF At, CurrentAt, Announces
<1>7. LostAt(t, k)'
  BY <1>1 DEF At, LostAt
<1>8. CASE t = s /\ lost[s]
  BY <1>1, <1>6, <1>7, <1>8 DEF At, OutsideAt, ToldAt
<1>9. ~lost[s] => Matched(s)' = Matched(s) \cup F
  <2>1. subs[s] \subseteq Patterns /\ ps \subseteq Patterns
    BY ConstFacts DEF Typed, TypeOK
  <2>2. KeysOf(subs[s] \cup ps) = KeysOf(subs[s]) \cup F
    BY <2>1, KeysOfFacts
  <2>3. ~lost[s] => subs'[s] = subs[s] \cup ps
    BY <1>3 DEF PhaseInv
  <2>4. Matched(s)' = KeysOf(subs'[s])
    BY DEF Matched, KeysOf
  <2> QED BY <2>2, <2>3, <2>4 DEF Matched
<1> HIDE DEF F, S
<1>10. CASE t = s /\ ~lost[s] /\ k \notin F
  <2>1. ~Queued(t, k) /\ ~Queued(t, k)'
    BY <1>1, <1>3, <1>10 DEF Queued
  <2>2. k \in Matched(t)' <=> k \in Matched(t)
    BY <1>9, <1>10
  <2>3. Untouched(t, k)
    BY <1>1, <1>2, <1>5, <2>1, <2>2 DEF Untouched
  <2> QED BY <2>3, UntouchedKeeps
<1>11. CASE t = s /\ ~lost[s] /\ k \in F
  <2>1. k \in Matched(t)' /\ Queued(t, k)' /\ ~Queued(t, k)
    BY <1>1, <1>3, <1>9, <1>11 DEF Queued
  <2>2. OutsideAt(t, k)'
    BY <2>1 DEF OutsideAt
  <2>3. ASSUME <<t, k>> \notin raced', Unexpired(k)' PROVE Told(t, k)'
    <3>1. CASE dict[k] # {}
      BY <1>1, <2>1, <3>1 DEF Told
    <3>2. CASE dict[k] = {} /\ k \in Matched(t)
      <4>1. Unexpired(k)
        BY <3>2 DEF Unexpired
      <4>2. Told(t, k)
        BY <1>1, <1>11, <2>3, <3>2, <4>1 DEF At, ToldAt
      <4>3. Ends(chan[t], view[t][k], k, Val(k)) => Ends(chan'[t], view'[t][k], k, Val(k)')
        BY <1>1, <1>5
      <4> QED BY <1>5, <2>1, <4>2, <4>3 DEF Told
    <3>3. CASE dict[k] = {} /\ k \notin Matched(t)
      <4>1. view[t][k] = None /\ \A i \in DOMAIN chan[t] : ~Carries(chan[t][i], k)
        BY <1>11, <3>3 DEF At, OutsideAt
      <4>2. Val(k)' = None /\ view'[t][k] = None /\ \A i \in DOMAIN chan'[t] : ~Carries(chan'[t][i], k)
        BY <1>1, <3>3, <4>1 DEF Val
      <4>3. Ends(chan'[t], view'[t][k], k, Val(k)')
        BY <4>2 DEF Ends
      <4> QED BY <4>3 DEF Told
    <3> QED BY <3>1, <3>2, <3>3
  <2>4. ToldAt(t, k)'
    BY <2>3 DEF ToldAt
  <2> QED BY <1>6, <1>7, <2>2, <2>4 DEF At
<1> QED BY <1>4, <1>8, <1>10, <1>11

(* The acknowledgement is news of no key; the keys that are not pushed     *)
(* have expired or have no value; a handler that is done has none left.    *)
LEMMA HandlerKeeps ==
  ASSUME Typed, Typed', PhaseInv, NEW s \in Subscribers,
         Acknowledge(s) \/ PushKeys(s) \/ PushDone(s),
         NEW t \in Subscribers, NEW k \in Keys, At(t, k)
  PROVE  At(t, k)'
<1>1. UNCHANGED <<clock, raced, dict, pending, reg, subs, lost, got, removed, view>> /\ clock \in Nat
  BY DEF Acknowledge, PushKeys, PushDone, sweepVars, connVars, cliVars, Typed, TypeOK
<1>2. clock' >= clock
  BY <1>1
<1>3. /\ Holds(t, k)' <=> Holds(t, k)
      /\ Matched(t)' = Matched(t)
  BY <1>1 DEF Holds, Matched, KeysOf
<1>4. Coming(k) => Coming(k)'
  BY <1>1 DEF Coming, Announces
<1>5. ASSUME Acknowledge(s) PROVE Untouched(t, k)
  <2> DEFINE m == Msg("subscribed", "", None)
  <2>1. m \in Notes /\ ~Carries(m, k)
    BY NoteFacts DEF Carries
  <2>2. hpc[s] = "ack" /\ hpc' = [hpc EXCEPT ![s] = "keys"] /\ todo' = todo /\ Send(s, m)
        /\ fresh' = fresh
    BY <1>5 DEF Acknowledge
  <2> HIDE DEF m
  <2>3. /\ chan'[t] = chan[t] \/ chan'[t] = Append(chan[t], m)
        /\ lost[t] => chan'[t] = chan[t]
    BY <2>1, <2>2, SendFacts DEF Typed
  <2>4. hpc'[s] = "keys" /\ \A u \in Subscribers \ {s} : hpc'[u] = hpc[u]
    BY <2>2 DEF Typed, TypeOK
  <2>5. Queued(t, k)' <=> Queued(t, k)
    BY <1>1, <2>2, <2>4 DEF Queued
  <2> QED BY <1>1, <1>2, <1>3, <1>4, <2>1, <2>3, <2>5 DEF Untouched
<1>6. ASSUME PushKeys(s) PROVE Untouched(t, k)
  <2>1. /\ hpc[s] = "keys" /\ hpc' = [hpc EXCEPT ![s] = "push"] /\ chan' = chan
        /\ fresh' = [fresh EXCEPT ![s] = {}]
        /\ todo' = [todo EXCEPT ![s] = {j \in fresh[s] : \E e \in dict[j] : Live(e)}]
    BY <1>6 DEF PushKeys
  <2>2. /\ hpc'[s] = "push" /\ todo'[s] = {j \in fresh[s] : \E e \in dict[j] : Live(e)}
        /\ \A u \in Subscribers \ {s} : hpc'[u] = hpc[u] /\ todo'[u] = todo[u] /\ fresh'[u] = fresh[u]
    BY <2>1 DEF Typed, TypeOK
  <2>3. Queued(t, k)' => Queued(t, k)
    BY <1>1, <2>1, <2>2 DEF Queued
  <2>4. Queued(t, k) => Queued(t, k)' \/ dict[k] = {} \/ ~Unexpired(k)
    BY <1>1, <2>1, <2>2 DEF Queued, Unexpired
  <2> QED BY <1>1, <1>2, <1>3, <1>4, <2>1, <2>3, <2>4 DEF Untouched
<1>7. ASSUME PushDone(s) PROVE Untouched(t, k)
  <2>1. /\ hpc[s] = "push" /\ todo[s] = {} /\ hpc' = [hpc EXCEPT ![s] = "idle"] /\ chan' = chan
        /\ todo' = todo /\ fresh' = fresh
    BY <1>7 DEF PushDone
  <2>2. hpc'[s] = "idle" /\ \A u \in Subscribers \ {s} : hpc'[u] = hpc[u]
    BY <2>1 DEF Typed, TypeOK
  <2>3. Queued(t, k)' <=> Queued(t, k)
    BY <1>1, <2>1, <2>2 DEF Queued
  <2> QED BY <1>1, <1>2, <1>3, <1>4, <2>1, <2>3 DEF Untouched
<1> QED BY <1>5, <1>6, <1>7, UntouchedKeeps

(* What the handler reads is what the dictionary holds.                    *)
LEMMA PushReadKeeps ==
  ASSUME Typed, Typed', PhaseInv, NEW s \in Subscribers, NEW c \in todo[s], PushRead(s, c),
         NEW t \in Subscribers, NEW k \in Keys, At(t, k)
  PROVE  At(t, k)'
<1> DEFINE v == (CHOOSE e \in dict[c] : TRUE).val
           g == IF \E e \in dict[c] : Live(e) THEN <<Msg("update", c, v)>> ELSE << >>
<1>1. /\ UNCHANGED <<clock, raced, dict, pending, reg, subs, lost, chan, hpc, fresh, removed, view>>
      /\ clock \in Nat /\ hpc[s] = "push" /\ got[s] = << >>
      /\ todo' = [todo EXCEPT ![s] = @ \ {c}] /\ got' = [got EXCEPT ![s] = g]
  BY DEF PushRead, sweepVars, connVars, cliVars, Typed, TypeOK
<1> HIDE DEF g, v
<1>2. clock' >= clock
  BY <1>1
<1>3. /\ todo'[s] = todo[s] \ {c} /\ got'[s] = g
      /\ \A u \in Subscribers \ {s} : todo'[u] = todo[u] /\ got'[u] = got[u]
  BY <1>1 DEF Typed, TypeOK
<1>4. CASE t # s
  <2>1. Untouched(t, k)
    BY <1>1, <1>2, <1>3, <1>4, StillUntouched
  <2> QED BY <2>1, UntouchedKeeps
<1>5. ~Holds(s, k)
  BY <1>1 DEF Holds
<1>6. /\ Coming(k) => Coming(k)'
      /\ Matched(t)' = Matched(t)
  BY <1>1 DEF Coming, Announces, Matched, KeysOf
<1>7. Msg("update", c, v).key = c /\ Msg("update", c, v).val = v
  BY MsgFields
<1>8. CASE t = s /\ (k # c \/ ~\E e \in dict[c] : Live(e))
  <2>1. ~Holds(t, k)'
    <3>1. CASE g = << >>
      BY <1>3, <1>8, <3>1 DEF Holds
    <3>2. CASE g # << >>
      <4>1. g = <<Msg("update", c, v)>> /\ k # c
        BY <1>8, <3>2 DEF g
      <4>2. g[1].key = c
        BY <1>7, <4>1
      <4> QED BY <1>3, <1>8, <4>1, <4>2 DEF Holds
    <3> QED BY <3>1, <3>2
  <2>2. Queued(t, k)' => Queued(t, k)
    BY <1>1, <1>3, <1>8 DEF Queued
  <2>3. Queued(t, k) => Queued(t, k)' \/ dict[k] = {} \/ ~Unexpired(k)
    BY <1>1, <1>3, <1>8 DEF Queued, Unexpired
  <2>4. Untouched(t, k)
    BY <1>1, <1>2, <1>5, <1>6, <1>8, <2>1, <2>2, <2>3 DEF Untouched
  <2> QED BY <2>4, UntouchedKeeps
<1>9. CASE t = s /\ k = c /\ \E e \in dict[c] : Live(e)
  <2>1. got'[t] = <<Msg("update", c, v)>>
    BY <1>3, <1>9 DEF g
  <2>2. Holds(t, k)' /\ got'[t][1].val = v
    BY <1>7, <1>9, <2>1 DEF Holds
  <2>3. Val(k)' = v
    BY <1>1, <1>9 DEF Val, v
  <2>4. Queued(t, k)
    BY <1>1, <1>9 DEF Queued
  <2>5. OutsideAt(t, k)'
    BY <1>1, <1>6, <2>4 DEF At, OutsideAt
  <2>6. CurrentAt(t, k)'
    <3>1. Val(k)' = Val(k)
      BY <1>1 DEF Val
    <3> QED BY <1>1, <2>2, <2>3, <3>1 DEF At, CurrentAt, Announces
  <2>7. ToldAt(t, k)'
    BY <2>2 DEF ToldAt, Told
  <2>8. LostAt(t, k)'
    BY <1>1 DEF At, LostAt
  <2> QED BY <2>5, <2>6, <2>7, <2>8 DEF At
<1> QED BY <1>4, <1>8, <1>9

(* What the handler pushes ends the client's channel, and says what the    *)
(* dictionary holds.                                                       *)
LEMMA PushSendKeeps ==
  ASSUME Typed, Typed', NEW s \in Subscribers, PushSend(s),
         NEW t \in Subscribers, NEW k \in Keys, At(t, k)
  PROVE  At(t, k)'
<1> DEFINE m == got[s][1]
<1>1. /\ UNCHANGED <<clock, raced, dict, pending, reg, subs, lost, hpc, fresh, todo, removed, view>>
      /\ clock \in Nat /\ got[s] # << >> /\ Send(s, m) /\ got' = [got EXCEPT ![s] = << >>]
  BY DEF PushSend, sweepVars, connVars, cliVars, Typed, TypeOK
<1>2. m \in Changes /\ m \in Notes /\ m.kind # "subscribed"
  BY <1>1, OneChange, NoteFacts DEF Typed, ShapeInv
<1>3. chan'[s] = (IF lost[s] THEN chan[s] ELSE Append(chan[s], m)) /\ \A u \in Subscribers \ {s} : chan'[u] = chan[u]
  BY <1>1, <1>2, SendFacts DEF Typed
<1>4. got'[s] = << >> /\ \A u \in Subscribers \ {s} : got'[u] = got[u]
  BY <1>1 DEF Typed, TypeOK
<1>5. clock' >= clock
  BY <1>1
<1>6. CASE t # s
  <2>1. Untouched(t, k)
    BY <1>1, <1>3, <1>4, <1>5, <1>6, StillUntouched
  <2> QED BY <2>1, UntouchedKeeps
<1>7. /\ Coming(k) => Coming(k)'
      /\ Matched(t)' = Matched(t)
  BY <1>1 DEF Coming, Announces, Matched, KeysOf
<1>8. Queued(t, k)' <=> Queued(t, k)
  BY <1>1 DEF Queued
<1>9. CASE t = s /\ m.key # k
  <2>1. ~Holds(t, k) /\ ~Holds(t, k)' /\ ~Carries(m, k)
    BY <1>1, <1>4, <1>9 DEF Holds, Carries
  <2>2. Untouched(t, k)
    BY <1>1, <1>2, <1>3, <1>5, <1>7, <1>8, <1>9, <2>1 DEF Untouched
  <2> QED BY <2>2, UntouchedKeeps
<1>10. CASE t = s /\ m.key = k
  <2>1. Holds(t, k) /\ ~Holds(t, k)' /\ Carries(m, k)
    BY <1>1, <1>2, <1>4, <1>10 DEF Holds, Carries
  <2>2. ~lost[t] => k \in Matched(t)
    BY <2>1 DEF At, OutsideAt
  <2>3. OutsideAt(t, k)' /\ LostAt(t, k)'
    BY <1>1, <1>3, <1>7, <1>10, <2>2 DEF At, LostAt, OutsideAt
  <2>4. Val(k)' = Val(k)
    BY <1>1 DEF Val
  <2>5. CurrentAt(t, k)'
    BY <1>1, <2>1, <2>4 DEF At, CurrentAt, Announces
  <2>6. ASSUME ~lost'[t], <<t, k>> \notin raced' PROVE Told(t, k)'
    <3>1. m.val = Val(k)
      BY <1>1, <1>10, <2>1, <2>6 DEF At, CurrentAt
    <3>2. chan[t] \in Seq(Notes) /\ chan'[t] = Append(chan[t], m)
      BY <1>1, <1>3, <1>10, <2>6 DEF Typed, ShapeInv
    <3>3. Ends(chan'[t], view[t][k], k, Val(k))
      BY <1>2, <2>1, <3>1, <3>2, EndsAppend
    <3> QED BY <1>1, <2>4, <3>3 DEF Told
  <2>7. ToldAt(t, k)'
    BY <2>6 DEF ToldAt
  <2> QED BY <2>3, <2>5, <2>7 DEF At
<1> QED BY <1>6, <1>9, <1>10

(* A connection is lost: nothing gets through any more.                    *)
LEMMA LoseKeeps ==
  ASSUME Typed, Typed', NEW s \in Subscribers, Lose(s),
         NEW t \in Subscribers, NEW k \in Keys, At(t, k)
  PROVE  At(t, k)'
<1>1. /\ UNCHANGED <<clock, raced, dict, reg, subs, pending, hpc, fresh, todo, got, removed>>
      /\ clock \in Nat /\ lost' = [lost EXCEPT ![s] = TRUE] /\ chan' = [chan EXCEPT ![s] = << >>]
      /\ view' = [view EXCEPT ![s] = [j \in Keys |-> None]]
  BY DEF Lose, handVars, sweepVars, Typed, TypeOK
<1>2. clock' >= clock
  BY <1>1
<1>3. /\ lost'[s] /\ chan'[s] = << >> /\ view'[s] = [j \in Keys |-> None]
      /\ \A u \in Subscribers \ {s} : lost'[u] = lost[u] /\ chan'[u] = chan[u] /\ view'[u] = view[u]
  BY <1>1 DEF Typed, TypeOK
<1>4. CASE t # s
  <2>1. Untouched(t, k)
    BY <1>1, <1>2, <1>3, <1>4, StillUntouched
  <2> QED BY <2>1, UntouchedKeeps
<1>5. CASE t = s
  <2>1. CurrentAt(t, k)'
    BY <1>1 DEF At, CurrentAt, Announces, Holds, Val
  <2> QED BY <1>3, <1>5, <2>1 DEF At, OutsideAt, ToldAt, LostAt
<1> QED BY <1>4, <1>5

(* It leaves nothing behind for the client's next one.                     *)
LEMMA CloseKeeps ==
  ASSUME Typed, Typed', PhaseInv, NEW s \in Subscribers, Close(s),
         NEW t \in Subscribers, NEW k \in Keys, At(t, k)
  PROVE  At(t, k)'
<1>1. /\ UNCHANGED <<clock, raced, dict, chan, pending, hpc, fresh, todo, got, removed, view>>
      /\ clock \in Nat /\ hpc[s] = "idle" /\ lost[s]
      /\ subs' = [subs EXCEPT ![s] = {}] /\ lost' = [lost EXCEPT ![s] = FALSE]
  BY DEF Close, handVars, sweepVars, cliVars, Typed, TypeOK
<1>2. clock' >= clock
  BY <1>1
<1>3. /\ subs'[s] = {} /\ ~lost'[s]
      /\ \A u \in Subscribers \ {s} : subs'[u] = subs[u] /\ lost'[u] = lost[u]
  BY <1>1 DEF Typed, TypeOK
<1>4. CASE t # s
  <2>1. Untouched(t, k)
    BY <1>1, <1>2, <1>3, <1>4, StillUntouched
  <2> QED BY <2>1, UntouchedKeeps
<1>5. CASE t = s
  <2>1. ~Queued(t, k)' /\ ~Holds(t, k)' /\ ~Holds(t, k)
    BY <1>1, <1>5 DEF Queued, Holds, PhaseInv
  <2>2. view'[t][k] = None /\ \A i \in DOMAIN chan'[t] : ~Carries(chan'[t][i], k)
    BY <1>1, <1>5 DEF At, LostAt
  <2>3. OutsideAt(t, k)' /\ LostAt(t, k)'
    BY <1>3, <1>5, <2>1, <2>2 DEF OutsideAt, LostAt
  <2>4. CurrentAt(t, k)'
    BY <1>1, <2>1 DEF At, CurrentAt, Announces, Val
  <2>5. Matched(t)' = {}
    BY <1>3, <1>5 DEF Matched, KeysOf
  <2>6. ToldAt(t, k)'
    BY <2>5 DEF ToldAt
  <2> QED BY <2>3, <2>4, <2>6 DEF At
<1> QED BY <1>4, <1>5

(* The client applies the first message of its channel.                    *)
LEMMA ReceiveKeeps ==
  ASSUME Typed, Typed', NEW s \in Subscribers, Receive(s),
         NEW t \in Subscribers, NEW k \in Keys, At(t, k)
  PROVE  At(t, k)'
<1> DEFINE m == Head(chan[s])
<1>1. /\ UNCHANGED <<clock, dict, pending, reg, subs, lost, hpc, fresh, todo, got, removed>>
      /\ clock \in Nat /\ chan[s] # << >> /\ chan' = [chan EXCEPT ![s] = Tail(@)]
  BY DEF Receive, handVars, connVars, sweepVars, Typed, TypeOK
<1>2. m \in Notes /\ raced \subseteq raced' /\ chan[s] \in Seq(Notes)
  BY ReceiveTyped DEF Typed, ShapeInv
<1>3. m.kind # "subscribed" => m.key \in Keys
  BY <1>2, NoteFacts
<1>4. chan'[s] = Tail(chan[s]) /\ \A u \in Subscribers \ {s} : chan'[u] = chan[u]
  BY <1>1 DEF Typed, TypeOK
<1>5. /\ t # s => view'[t] = view[t]
      /\ <<s, k>> \notin raced' => view'[s][k] = IF Carries(m, k) THEN m.val ELSE view[s][k]
      /\ ~Carries(m, k) => view'[s][k] = view[s][k]
  <2>1. CASE acking[s]
    <3>1. view' = view /\ raced' = IF m.kind = "subscribed" THEN raced ELSE raced \cup {<<s, m.key>>}
      BY <2>1 DEF Receive
    <3>2. <<s, k>> \notin raced' => ~Carries(m, k)
      BY <3>1 DEF Carries
    <3> QED BY <3>1, <3>2
  <2>2. CASE ~acking[s] /\ m.kind = "subscribed"
    <3>1. view' = view /\ ~Carries(m, k)
      BY <2>2 DEF Receive, Carries
    <3> QED BY <3>1
  <2>3. CASE ~acking[s] /\ m.kind # "subscribed"
    <3>1. view' = [view EXCEPT ![s] = [view[s] EXCEPT ![m.key] = m.val]]
      BY <2>3 DEF Receive
    <3>2. view'[s] = [view[s] EXCEPT ![m.key] = m.val] /\ (t # s => view'[t] = view[t])
      BY <3>1 DEF Typed, TypeOK
    <3>5. view[s] \in [Keys -> Nat]
      BY DEF Typed, TypeOK
    <3>3. view'[s][k] = IF k = m.key THEN m.val ELSE view[s][k]
      BY <3>2, <3>5
    <3>4. Carries(m, k) <=> m.key = k
      BY <2>3 DEF Carries
    <3> QED BY <3>2, <3>3, <3>4
  <2> QED BY <2>1, <2>2, <2>3
<1> HIDE DEF m
<1>6. clock' >= clock
  BY <1>1
<1>7. CASE t # s
  <2>1. Untouched(t, k)
    BY <1>1, <1>2, <1>4, <1>5, <1>6, <1>7, StillUntouched
  <2> QED BY <2>1, UntouchedKeeps
<1>8. CASE t = s
  <2>1. /\ Queued(t, k)' <=> Queued(t, k)
        /\ Holds(t, k)' <=> Holds(t, k)
        /\ Coming(k) => Coming(k)'
        /\ Val(k)' = Val(k)
        /\ Unexpired(k)' => Unexpired(k)
        /\ Matched(s)' = Matched(s)
        /\ ~lost[s] /\ ~lost'[s]
    BY <1>1, <1>8 DEF Queued, Holds, Coming, Announces, Val, Unexpired, Live, Matched, KeysOf, At, LostAt
  <2>2. OutsideAt(t, k)'
    <3> SUFFICES ASSUME k \notin Matched(s)'
                 PROVE  /\ view'[s][k] = None
                        /\ \A i \in DOMAIN chan'[s] : ~Carries(chan'[s][i], k)
                        /\ ~Holds(s, k)' /\ ~Queued(s, k)'
      BY <1>8 DEF OutsideAt
    <3>1. /\ view[s][k] = None /\ \A i \in DOMAIN chan[s] : ~Carries(chan[s][i], k)
          /\ ~Holds(s, k) /\ ~Queued(s, k)
      BY <1>1, <1>8, <2>1 DEF At, OutsideAt
    <3>2. ~Carries(m, k) /\ \A i \in DOMAIN Tail(chan[s]) : ~Carries(Tail(chan[s])[i], k)
      BY <1>1, <1>2, <3>1, NoneTail DEF m
    <3> QED BY <1>4, <1>5, <1>8, <2>1, <3>1, <3>2
  <2>3. CurrentAt(t, k)'
    BY <1>1, <1>2, <2>1 DEF At, CurrentAt, Announces
  <2>5. LostAt(t, k)'
    BY <1>8, <2>1 DEF LostAt
  <2>4. ToldAt(t, k)'
    <3> SUFFICES ASSUME k \in Matched(s)', <<s, k>> \notin raced', Unexpired(k)'
                 PROVE  Told(s, k)'
      BY <1>8 DEF ToldAt
    <3>1. Told(s, k)
      BY <1>1, <1>2, <1>8, <2>1 DEF At, ToldAt
    <3>2. CASE Ends(chan[s], view[s][k], k, Val(k))
      <4>1. Ends(Tail(chan[s]), IF Carries(m, k) THEN m.val ELSE view[s][k], k, Val(k))
        BY <1>1, <1>2, <3>2, EndsTail DEF m
      <4>2. Ends(chan'[s], view'[s][k], k, Val(k)')
        BY <1>4, <1>5, <2>1, <4>1
      <4> QED BY <4>2 DEF Told
    <3>3. CASE ~Ends(chan[s], view[s][k], k, Val(k))
      BY <1>1, <1>8, <2>1, <3>1, <3>3 DEF Told
    <3> QED BY <3>2, <3>3
  <2> QED BY <2>2, <2>3, <2>4, <2>5 DEF At
<1> QED BY <1>7, <1>8

-----------------------------------------------------------------------------
(* The invariant.                                                          *)

(* The steps of the sweep that remove nothing, and time.                   *)
LEMMA StillSteps ==
  ASSUME Typed,
         \/ Tick \/ SweepRead \/ SweepDone \/ UNCHANGED vars
         \/ \E k \in cands : SweepRemove(k) /\ ~Gone(k)
  PROVE  /\ clock' >= clock
         /\ UNCHANGED <<raced, dict, pending, removed, reg, subs, lost, chan, view, hpc, fresh, todo, got>>
         /\ swpc' = "sleep" => swpc = "sleep" \/ removed = {}
<1>0. clock \in Nat
  BY DEF Typed, TypeOK
<1>1. CASE Tick
  BY <1>0, <1>1 DEF Tick, handVars, connVars, sweepVars, cliVars
<1>2. CASE SweepRead
  <2>1. /\ UNCHANGED <<clock, raced, dict, pending, removed, reg, subs, lost, chan, view, hpc, fresh, todo, got>>
        /\ swpc = "sleep"
    BY <1>2 DEF SweepRead, handVars, connVars, cliVars
  <2> QED BY <1>0, <2>1
<1>3. CASE SweepDone
  <2>1. /\ UNCHANGED <<clock, raced, dict, pending, removed, reg, subs, lost, chan, view, hpc, fresh, todo, got>>
        /\ removed = {}
    BY <1>3 DEF SweepDone, handVars, connVars, cliVars
  <2> QED BY <1>0, <2>1
<1>4. CASE UNCHANGED vars
  <2>1. UNCHANGED <<clock, raced, dict, pending, removed, reg, subs, lost, chan, view, hpc, fresh, todo, got, swpc>>
    BY <1>4 DEF vars, handVars, connVars, sweepVars, cliVars
  <2> QED BY <1>0, <2>1
<1>5. ASSUME NEW k \in cands, SweepRemove(k), ~Gone(k)
      PROVE  /\ UNCHANGED <<clock, raced, dict, pending, removed, reg, subs, lost, chan, view, hpc, fresh,
                            todo, got>>
             /\ swpc' # "sleep"
  <2>1. dict' = [dict EXCEPT ![k] = dict[k]]
    BY <1>5 DEF SweepRemove
  <2>2. dict' = dict
    BY <2>1 DEF Typed, ShapeInv
  <2> QED BY <1>5, <2>2 DEF SweepRemove, handVars, connVars, cliVars
<1>6. CASE \E k \in cands : SweepRemove(k) /\ ~Gone(k)
  BY <1>0, <1>5, <1>6
<1> QED BY <1>1, <1>2, <1>3, <1>4, <1>6

(* The kinds of step there are.                                            *)
LEMMA StepKinds ==
  ASSUME Typed, [Next]_vars
  PROVE  \/ \E w, c : c \in Keys /\ ChangeOf(w, c)
         \/ \E m : AnnouncementOf(m)
         \/ Handle
         \/ \E s \in Subscribers : Receive(s)
         \/ /\ clock' >= clock
            /\ UNCHANGED <<raced, dict, pending, removed, reg, subs, lost, chan, view, hpc, fresh, todo, got>>
            /\ swpc' = "sleep" => swpc = "sleep" \/ removed = {}
<1>1. CASE Write
  <2>1. PICK w \in Writers, c \in Keys : (\E ttl \in Ttls : Set(w, c, ttl)) \/ Delete(w, c)
    BY <1>1 DEF Write
  <2>2. ChangeOf(w, c)
    BY <2>1, WriteIs
  <2> QED BY <2>2
<1>2. ASSUME NEW w \in Writers, Announce(w) PROVE \E m : AnnouncementOf(m)
  BY <1>2, AnnounceIs
<1>3. ASSUME NEW k \in removed, SweepAnnounce(k) PROVE \E m : AnnouncementOf(m)
  BY <1>3, SweepAnnounceIs
<1>4. ASSUME NEW k \in cands, SweepRemove(k), Gone(k) PROVE \E w, c : c \in Keys /\ ChangeOf(w, c)
  BY <1>4, RemoveIs
<1>5. CASE \/ Tick \/ SweepRead \/ SweepDone \/ UNCHANGED vars
           \/ \E k \in cands : SweepRemove(k) /\ ~Gone(k)
  BY <1>5, StillSteps
<1>6. CASE Sweep
  BY <1>3, <1>4, <1>5, <1>6 DEF Sweep
<1> QED BY <1>1, <1>2, <1>5, <1>6 DEF Next

LEMMA PhaseStep ==
  ASSUME Typed, PhaseInv, [Next]_vars
  PROVE  PhaseInv'
<1>1. ASSUME NEW w, NEW c, ChangeOf(w, c) PROVE PhaseInv'
  <2>1. UNCHANGED <<hpc, got, reg, lost>>
    BY <1>1 DEF ChangeOf, handVars, connVars
  <2>2. swpc' = "sleep" => removed' = {}
    <3>1. CASE w \in Writers
      <4>1. UNCHANGED <<removed, swpc>>
        BY <1>1, <3>1 DEF ChangeOf
      <4> QED BY <4>1 DEF PhaseInv
    <3>2. CASE w \notin Writers
      BY <1>1, <3>2 DEF ChangeOf
    <3> QED BY <3>1, <3>2
  <2> QED BY <2>1, <2>2 DEF PhaseInv
<1>2. ASSUME NEW m, AnnouncementOf(m) PROVE PhaseInv'
  <2>1. UNCHANGED <<hpc, got, swpc>> /\ removed' \subseteq removed
    BY <1>2 DEF AnnouncementOf, handVars
  <2>2. lost' = lost /\ \A s \in Subscribers : ~lost[s] => reg'[s] = reg[s]
    BY <1>2, FanOutFacts DEF AnnouncementOf, Typed
  <2> QED BY <2>1, <2>2 DEF PhaseInv
<1>3. ASSUME NEW s \in Subscribers,
             \/ \E ps \in Requests : Subscribe(s, ps)
             \/ Acknowledge(s) \/ PushKeys(s)
             \/ \E k \in todo[s] : PushRead(s, k)
             \/ PushSend(s) \/ PushDone(s) \/ Lose(s) \/ Close(s)
      PROVE  PhaseInv'
  <2>1. UNCHANGED <<swpc, removed>>
    BY <1>3 DEF Subscribe, Acknowledge, PushKeys, PushRead, PushSend, PushDone, Lose, Close, sweepVars, connVars
  <2>2. \A t \in Subscribers \ {s} : got'[t] = got[t] /\ hpc'[t] = hpc[t]
    BY <1>3 DEF Subscribe, Acknowledge, PushKeys, PushRead, PushSend, PushDone, Lose, Close, handVars, connVars,
                Typed, TypeOK
  <2>3. got'[s] # << >> => hpc'[s] = "push"
    <3>1. CASE \E ps \in Requests : Subscribe(s, ps)
      BY <3>1 DEF Subscribe, PhaseInv
    <3>2. CASE Acknowledge(s) \/ PushKeys(s)
      BY <3>2 DEF Acknowledge, PushKeys, PhaseInv, Typed, TypeOK
    <3>3. CASE \E k \in todo[s] : PushRead(s, k)
      BY <3>3 DEF PushRead, PhaseInv
    <3>4. CASE PushSend(s)
      BY <3>4 DEF PushSend, Typed, TypeOK
    <3>5. CASE PushDone(s)
      BY <3>5 DEF PushDone
    <3>6. CASE Lose(s) \/ Close(s)
      BY <3>6 DEF Lose, Close, handVars, PhaseInv
    <3> QED BY <1>3, <3>1, <3>2, <3>3, <3>4, <3>5, <3>6
  <2>4. ASSUME NEW t \in Subscribers, reg'[t] = "gone" PROVE lost'[t]
    <3>1. CASE \E ps \in Requests : Subscribe(s, ps)
      BY <2>4, <3>1 DEF Subscribe, PhaseInv, Typed, TypeOK
    <3>2. CASE Lose(s) \/ Close(s)
      BY <2>4, <3>2 DEF Lose, Close, PhaseInv, Typed, TypeOK
    <3>3. CASE \/ Acknowledge(s) \/ PushKeys(s) \/ (\E k \in todo[s] : PushRead(s, k))
               \/ PushSend(s) \/ PushDone(s)
      <4>1. UNCHANGED <<reg, lost>>
        BY <3>3 DEF Acknowledge, PushKeys, PushRead, PushSend, PushDone, connVars
      <4> QED BY <2>4, <4>1 DEF PhaseInv
    <3> QED BY <1>3, <3>1, <3>2, <3>3
  <2> QED BY <2>1, <2>2, <2>3, <2>4 DEF PhaseInv
<1>4. CASE Handle
  BY <1>3, <1>4 DEF Handle
<1>5. ASSUME NEW s \in Subscribers, Receive(s) PROVE PhaseInv'
  <2>1. UNCHANGED <<hpc, got, swpc, removed, reg, lost>>
    BY <1>5 DEF Receive, handVars, connVars, sweepVars
  <2> QED BY <2>1 DEF PhaseInv
<1>6. ASSUME UNCHANGED <<raced, dict, pending, removed, reg, subs, lost, chan, view, hpc, fresh, todo, got>>,
             swpc' = "sleep" => swpc = "sleep" \/ removed = {}
      PROVE  PhaseInv'
  BY <1>6 DEF PhaseInv
<1> QED BY <1>1, <1>2, <1>4, <1>5, <1>6, StepKinds

LEMMA MirrorStep ==
  ASSUME Typed, Typed', PhaseInv, MirrorInv, [Next]_vars
  PROVE  MirrorInv'
<1> SUFFICES ASSUME NEW t \in Subscribers, NEW k \in Keys PROVE At(t, k)'
  BY DEF MirrorInv
<1>0. At(t, k)
  BY DEF MirrorInv
<1>1. ASSUME NEW w, NEW c \in Keys, ChangeOf(w, c) PROVE At(t, k)'
  BY <1>0, <1>1, ChangeKeeps
<1>2. ASSUME NEW m, AnnouncementOf(m) PROVE At(t, k)'
  BY <1>0, <1>2, AnnouncementKeeps
<1>3. CASE Handle
  BY <1>0, <1>3, SubscribeKeeps, HandlerKeeps, PushReadKeeps, PushSendKeeps, LoseKeeps,
     CloseKeeps DEF Handle
<1>4. ASSUME NEW s \in Subscribers, Receive(s) PROVE At(t, k)'
  BY <1>0, <1>4, ReceiveKeeps
<1>5. ASSUME clock' >= clock,
             UNCHANGED <<raced, dict, pending, removed, reg, subs, lost, chan, view, hpc, fresh, todo, got>>
      PROVE  At(t, k)'
  <2>1. Untouched(t, k)
    BY <1>5, StillUntouched
  <2> QED BY <1>0, <2>1, UntouchedKeeps
<1> QED BY <1>1, <1>2, <1>3, <1>4, <1>5, StepKinds

LEMMA InitInv == Init => IInv
<1> SUFFICES ASSUME Init PROVE IInv
  OBVIOUS
<1>1. Typed
  BY TypedInit
<1>2. PhaseInv
  BY DEF Init, PhaseInv
<1>3. ASSUME NEW s \in Subscribers, NEW k \in Keys PROVE At(s, k)
  <2>1. /\ subs[s] = {} /\ ~lost[s] /\ chan[s] = << >> /\ view[s][k] = None /\ got[s] = << >>
        /\ hpc[s] = "idle" /\ removed = {} /\ \A w \in Writers : pending[w] = << >>
    BY DEF Init
  <2>2. ~Holds(s, k) /\ ~Queued(s, k) /\ \A w \in Writers : ~Announces(w, k)
    BY <2>1 DEF Holds, Queued, Announces
  <2>3. Matched(s) = {}
    BY <2>1 DEF Matched, KeysOf
  <2> QED BY <2>1, <2>2, <2>3 DEF At, OutsideAt, CurrentAt, ToldAt, LostAt
<1> QED BY <1>1, <1>2, <1>3 DEF IInv, Typed, MirrorInv

LEMMA StepInv == IInv /\ [Next]_vars => IInv'
<1> SUFFICES ASSUME IInv, [Next]_vars PROVE IInv'
  OBVIOUS
<1>1. Typed
  BY DEF IInv, Typed
<1>2. Typed'
  BY <1>1, TypedStep
<1>3. PhaseInv'
  BY <1>1, PhaseStep DEF IInv
<1>4. MirrorInv'
  BY <1>1, <1>2, MirrorStep DEF IInv
<1> QED BY <1>2, <1>3, <1>4 DEF IInv, Typed

(* Nothing is under way, so a subscriber has been told all.                *)
LEMMA QuietAgrees == IInv => Converges
<1> SUFFICES ASSUME IInv, Quiet, NEW s \in Subscribers, ~lost[s], NEW k \in Matched(s),
                    <<s, k>> \notin raced
             PROVE  Agrees(s, k)
  BY DEF Converges
<1>1. k \in Keys
  BY KeysOfFacts DEF IInv, TypeOK, Matched
<1>2. Unexpired(k)
  BY <1>1 DEF Quiet, Unexpired
<1>3. Told(s, k)
  BY <1>1, <1>2 DEF IInv, MirrorInv, At, ToldAt
<1>4. ~Coming(k)
  BY DEF Coming, Announces, Quiet, IInv, PhaseInv
<1>5. ~Queued(s, k) /\ ~Holds(s, k)
  BY DEF Queued, Holds, Quiet, IInv, PhaseInv
<1>6. Ends(chan[s], view[s][k], k, Val(k)) /\ chan[s] = << >>
  BY <1>3, <1>4, <1>5 DEF Told, Quiet
<1>7. view[s][k] = Val(k)
  BY <1>6 DEF Ends
<1> QED BY <1>7 DEF Agrees, Val

(* A key has no two entries.                                               *)
LEMMA OneEntry ==
  ASSUME NEW S, IsFiniteSet(S), Cardinality(S) <= 1, NEW e \in S, NEW f \in S
  PROVE  e = f
<1>1. Cardinality(S) \in Nat /\ Cardinality(S) # 0
  BY FS_CardinalityType, FS_EmptySet
<1>2. Cardinality(S) = 1
  BY <1>1
<1> QED BY <1>2, FS_Singleton

(* A key has one entry at most, no channel holds more than its capacity,   *)
(* and when all is quiet (nothing announced late, pushed or received, no   *)
(* expired entry) a subscriber's copy is the dictionary but for the races: *)
(* handle_set, handle_delete, handle_subscribe, run_ttl_sweep and the      *)
(* client may interleave in any way.                                       *)
THEOREM CopiesAgree == Spec => []MirrorRight
<1>1. IInv => MirrorRight
  BY QuietAgrees DEF IInv, MirrorRight
<1> QED BY <1>1, InitInv, StepInv, PTL DEF Spec

(* run_ttl_sweep removes a key only if its entry has expired by then, even *)
(* when it was written again after the sweep looked.                       *)
THEOREM SweepRemovesExpired == Spec => SweepsOnlyExpired
<1> DEFINE P == swpc = "remove" /\ dict' # dict /\ sets' = sets =>
                  \A k \in Keys : dict'[k] # dict[k] => \A e \in dict[k] : e.exp # 0 /\ e.exp <= clock
<1>1. ASSUME IInv, [Next]_vars PROVE [P]_vars
  <2>0. Typed /\ sets \in Nat
    BY <1>1 DEF IInv, Typed, TypeOK
  <2>1. ASSUME NEW c \in cands, SweepRemove(c) PROVE P
    <3> SUFFICES ASSUME NEW k \in Keys, dict'[k] # dict[k], NEW e \in dict[k]
                 PROVE  e.exp # 0 /\ e.exp <= clock
      OBVIOUS
    <3>1. dict' = [dict EXCEPT ![c] = IF Gone(c) THEN {} ELSE dict[c]]
      BY <2>1 DEF SweepRemove
    <3>2. dict \in [Keys -> SUBSET [val : Nat, exp : Nat]]
          /\ Cardinality(dict[k]) <= 1 /\ IsFiniteSet(dict[k])
      BY <2>0 DEF Typed, TypeOK, ShapeInv
    <3>3. k = c /\ Gone(c)
      BY <3>1, <3>2
    <3>4. PICK f \in dict[k] : Expired(f)
      BY <3>3 DEF Gone
    <3>5. e = f
      BY <3>2, OneEntry
    <3> QED BY <3>4, <3>5 DEF Expired
  <2>2. CASE Write
    <3>1. sets' = sets + 1
      BY <2>2 DEF Write, Set, Delete
    <3>2. sets' # sets
      BY <2>0, <3>1
    <3> QED BY <3>2
  <2>3. CASE \/ Tick \/ Handle \/ SweepRead \/ SweepDone \/ UNCHANGED vars
             \/ (\E w \in Writers : Announce(w)) \/ (\E k \in removed : SweepAnnounce(k))
             \/ (\E s \in Subscribers : Receive(s))
    <3>1. dict' = dict
      BY <2>3 DEF Tick, Handle, SweepRead, SweepDone, vars, Announce, SweepAnnounce, Receive,
           Subscribe, Acknowledge, PushKeys, PushRead, PushSend, PushDone, Lose, Close
    <3> QED BY <3>1
  <2> QED BY <1>1, <2>1, <2>2, <2>3 DEF Next, Sweep
<1> QED BY <1>1, InitInv, StepInv, PTL DEF Spec, SweepsOnlyExpired

=============================================================================
