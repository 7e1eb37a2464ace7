-------------------------------- MODULE WsDict --------------------------------
(***************************************************************************)
(* The wsdict server (wsserver/src: dict.rs, subs.rs, server.rs): a        *)
(* dictionary that producers write over WebSocket connections and that     *)
(* subscribers mirror, and the client side of a subscription (wsdict.h,    *)
(* the dashboard).  Every connection is a task of its own; the dictionary  *)
(* and the table of subscriptions have separate locks, so a write and the  *)
(* announcement of it are two steps.                                       *)
(*                                                                         *)
(* Matches gives the keys that a pattern matches, a value is the number of *)
(* the write that made it.  Codecs, invalid requests, get and list, which  *)
(* change no state, are left out.                                          *)
(***************************************************************************)
EXTENDS Integers, Sequences, FiniteSets

CONSTANTS
  Keys,        \* keys of the dictionary
  Patterns,    \* patterns that are subscribed to
  Matches,     \* per pattern: the keys it matches
  Requests,    \* sets of patterns that one subscribe names
  Writers,     \* connections that write
  Subscribers, \* connections that subscribe
  Discarding,  \* those of them that are WsDictClients
  Ttls,        \* lifetimes used by set; 0 is a set without ttl_ms
  Capacity,    \* CHANNEL_CAPACITY
  MaxTime,     \* bound: the last time
  MaxSets,     \* bound: writes
  MaxCloses    \* bound: connections lost

ASSUME DictAssumption ==
  /\ Matches \in [Patterns -> SUBSET Keys] /\ Requests \subseteq SUBSET Patterns
  /\ Discarding \subseteq Subscribers
  /\ Ttls \subseteq Nat
  /\ "" \notin Writers   \* stands for the sweep in Unannounced
  /\ Capacity \in Nat \ {0}
  /\ {MaxTime, MaxSets, MaxCloses} \subseteq Nat

VARIABLES
  clock,   \* Instant::now()
  sets,    \* history: writes so far
  closes,  \* history: connections lost so far
  raced,   \* history: subscribers and keys one of the known races has hit
  dict,    \* the dictionary: per key a set of at most one entry
  reg,     \* per subscriber: "no" before its first request, "yes" when it is
           \* registered, "gone" when fan_out has taken the registration away
  subs,    \* the patterns of each registered connection
  lost,    \* per subscriber: the write task has ended, its channel is closed
  chan,    \* per subscriber: messages on the way to it
  pending, \* per writer: what it has still to announce
  hpc,     \* per subscriber: where its handler is
  fresh,   \* per subscriber: keys of the new patterns
  todo,    \* per subscriber: keys whose value is still to be pushed
  got,     \* per subscriber: a value it has read and not yet pushed
  swpc,    \* where the sweep is
  cands,   \* its candidates
  removed, \* keys it has removed and not yet announced
  view,    \* per subscriber: the client's copy of the dictionary
  acking   \* per subscriber: subscribe() waits for the acknowledgement

histVars == <<sets, closes>>
connVars == <<reg, subs, lost>>
handVars == <<hpc, fresh, todo, got>>
sweepVars == <<swpc, cands, removed>>
cliVars  == <<view, acking>>
vars == <<clock, histVars, raced, dict, connVars, chan, pending, handVars, sweepVars, cliVars>>

None == 0

Init ==
  /\ clock = 0 /\ sets = 0 /\ closes = 0 /\ raced = {}
  /\ dict = [k \in Keys |-> {}]
  /\ reg = [s \in Subscribers |-> "no"] /\ subs = [s \in Subscribers |-> {}]
  /\ lost = [s \in Subscribers |-> FALSE]
  /\ chan = [s \in Subscribers |-> << >>]
  /\ pending = [w \in Writers |-> << >>]
  /\ hpc = [s \in Subscribers |-> "idle"] /\ fresh = [s \in Subscribers |-> {}]
  /\ todo = [s \in Subscribers |-> {}] /\ got = [s \in Subscribers |-> << >>]
  /\ swpc = "sleep" /\ cands = {} /\ removed = {}
  /\ view = [s \in Subscribers |-> [k \in Keys |-> None]]
  /\ acking = [s \in Subscribers |-> FALSE]

Entry(v, ttl) == [val |-> v, exp |-> IF ttl = 0 THEN 0 ELSE clock + ttl]
Live(e) == e.exp = 0 \/ e.exp > clock
(* Mutant of Expired: off by one.                                          *)
ExpiredLate(e) == e.exp # 0 /\ e.exp < clock

Expired(e) == e.exp # 0 /\ e.exp <= clock

Msg(kind, k, v) == [kind |-> kind, key |-> k, val |-> v]

(***************************************************************************)
(* The ways in which a subscriber's copy of a key can go wrong, kept in    *)
(* raced: a change of key k by writer w (or by the sweep, w = "") while    *)
(* another change of it is not yet announced, or while a handler holds an  *)
(* older value that it is about to push; an announcement that finds the    *)
(* channel full; and an update taken for the acknowledgement.              *)
(***************************************************************************)
Holds(s, k) == got[s] # << >> /\ got[s][1].key = k
Unannounced(w, k) ==
  \/ \E v \in Writers \ {w} : pending[v] # << >> /\ pending[v][1].key = k
  \/ k \in removed
Races(w, k) == {<<s, k>> : s \in {t \in Subscribers : Unannounced(w, k) \/ Holds(t, k)}}

(* key_matches_any.                                                        *)
KeysOf(ps) == UNION {Matches[p] : p \in ps}
Matched(s) == KeysOf(subs[s])

Dropped(m) == {s \in Subscribers : m.key \in Matched(s) /\ ~lost[s] /\ Len(chan[s]) >= Capacity}
Closed(m) == {s \in Subscribers : m.key \in Matched(s) /\ lost[s]}

(* fan_out: every matching subscriber whose channel is not full gets it,   *)
(* and a matching one whose channel is closed is taken out of the table.   *)
(* That is a second look at the table by connection ids, which are never   *)
(* used twice, so nobody else is taken out.                                *)
FanOut(m) ==
  /\ raced' = raced \cup {<<s, m.key>> : s \in Dropped(m)}
  /\ chan' = [s \in Subscribers |->
                IF m.key \in Matched(s) /\ s \notin Dropped(m) \cup Closed(m)
                THEN Append(chan[s], m) ELSE chan[s]]
  /\ subs' = [s \in Subscribers |-> IF s \in Closed(m) THEN {} ELSE subs[s]]
  /\ reg' = [s \in Subscribers |-> IF s \in Closed(m) THEN "gone" ELSE reg[s]]
  /\ UNCHANGED lost

Tick ==
  /\ clock < MaxTime
  /\ clock' = clock + 1
  /\ UNCHANGED <<histVars, raced, dict, connVars, chan, pending, handVars, sweepVars, cliVars>>

-----------------------------------------------------------------------------
(* handle_set and handle_delete: change the dictionary, then announce it.  *)

MayChange(w, k) ==
  /\ pending[w] = << >> /\ sets < MaxSets
  /\ raced' = raced \cup Races(w, k)

Set(w, k, ttl) ==
  /\ MayChange(w, k)
  /\ sets' = sets + 1
  /\ dict' = [dict EXCEPT ![k] = {Entry(sets + 1, ttl)}]
  /\ pending' = [pending EXCEPT ![w] = <<Msg("update", k, sets + 1)>>]
  /\ UNCHANGED <<clock, closes, connVars, chan, handVars, sweepVars, cliVars>>

Delete(w, k) ==
  /\ MayChange(w, k) /\ dict[k] # {}
  /\ sets' = sets + 1
  /\ dict' = [dict EXCEPT ![k] = {}]
  /\ pending' = [pending EXCEPT ![w] = <<Msg("key_deleted", k, None)>>]
  /\ UNCHANGED <<clock, closes, connVars, chan, handVars, sweepVars, cliVars>>

(* Mutant of Announce: nothing is sent for a deletion.                     *)
AnnounceUpdates(w) ==
  /\ pending[w] # << >>
  /\ IF pending[w][1].kind = "update" THEN FanOut(pending[w][1]) ELSE UNCHANGED <<raced, chan, connVars>>
  /\ pending' = [pending EXCEPT ![w] = << >>]
  /\ UNCHANGED <<clock, histVars, dict, handVars, sweepVars, cliVars>>

Announce(w) ==
  /\ pending[w] # << >>
  /\ FanOut(pending[w][1])
  /\ pending' = [pending EXCEPT ![w] = << >>]
  /\ UNCHANGED <<clock, histVars, dict, handVars, sweepVars, cliVars>>

-----------------------------------------------------------------------------
(* handle_subscribe: register or merge, acknowledge, and push the current  *)
(* values of the patterns that are new to the connection, each value read  *)
(* and sent in two steps.  A pattern that was named before is acknowledged *)
(* and pushes nothing; a new one pushes its keys again if others cover     *)
(* them.  Requests already received are handled on a lost connection too;  *)
(* one whose registration is gone is not registered again.                 *)

Subscribe(s, ps) ==
  /\ hpc[s] = "idle" /\ ~acking[s]
  /\ fresh' = [fresh EXCEPT ![s] = KeysOf(ps \ subs[s])]
  /\ reg' = [reg EXCEPT ![s] = IF @ = "no" THEN "yes" ELSE @]
  /\ subs' = [subs EXCEPT ![s] = IF reg[s] = "gone" THEN @ ELSE @ \cup ps]
  /\ acking' = [acking EXCEPT ![s] = s \in Discarding /\ ~lost[s]]
  /\ hpc' = [hpc EXCEPT ![s] = "ack"]
  /\ UNCHANGED <<clock, histVars, raced, dict, lost, chan, pending, todo, got, sweepVars, view>>

(* tx.send: waits for room, and fails at once on a closed channel, which   *)
(* no caller looks at.                                                     *)
Send(s, m) ==
  \/ lost[s] /\ UNCHANGED chan
  \/ ~lost[s] /\ Len(chan[s]) < Capacity /\ chan' = [chan EXCEPT ![s] = Append(@, m)]

Acknowledge(s) ==
  /\ hpc[s] = "ack"
  /\ Send(s, Msg("subscribed", "", None))
  /\ hpc' = [hpc EXCEPT ![s] = "keys"]
  /\ UNCHANGED <<clock, histVars, raced, dict, connVars, pending, fresh, todo, got, sweepVars,
                 cliVars>>

PushKeys(s) ==
  /\ hpc[s] = "keys"
  /\ todo' = [todo EXCEPT ![s] = {k \in fresh[s] : \E e \in dict[k] : Live(e)}]
  /\ fresh' = [fresh EXCEPT ![s] = {}]
  /\ hpc' = [hpc EXCEPT ![s] = "push"]
  /\ UNCHANGED <<clock, histVars, raced, dict, connVars, chan, pending, got, sweepVars, cliVars>>

PushRead(s, k) ==
  /\ hpc[s] = "push" /\ got[s] = << >>
  /\ todo' = [todo EXCEPT ![s] = @ \ {k}]
  /\ got' = [got EXCEPT ![s] = IF \E e \in dict[k] : Live(e)
                               THEN <<Msg("update", k, (CHOOSE e \in dict[k] : TRUE).val)>>
                               ELSE << >>]
  /\ UNCHANGED <<clock, histVars, raced, dict, connVars, chan, pending, hpc, fresh, sweepVars, cliVars>>

PushSend(s) ==
  /\ got[s] # << >>
  /\ Send(s, got[s][1])
  /\ got' = [got EXCEPT ![s] = << >>]
  /\ UNCHANGED <<clock, histVars, raced, dict, connVars, pending, hpc, fresh, todo, sweepVars, cliVars>>

PushDone(s) ==
  /\ hpc[s] = "push" /\ got[s] = << >> /\ todo[s] = {}
  /\ hpc' = [hpc EXCEPT ![s] = "idle"]
  /\ UNCHANGED <<clock, histVars, raced, dict, connVars, chan, pending, fresh, todo, got, sweepVars,
                 cliVars>>

(* The connection breaks, wherever its handler is: the write task ends,    *)
(* what was in the channel is gone, and the client starts over.            *)
Lose(s) ==
  /\ ~lost[s] /\ closes < MaxCloses
  /\ closes' = closes + 1
  /\ lost' = [lost EXCEPT ![s] = TRUE]
  /\ chan' = [chan EXCEPT ![s] = << >>]
  /\ view' = [view EXCEPT ![s] = [k \in Keys |-> None]]
  /\ acking' = [acking EXCEPT ![s] = FALSE]
  /\ UNCHANGED <<clock, sets, raced, dict, reg, subs, pending, handVars, sweepVars>>

(* handle_connection sees it between two requests and unregisters.  The    *)
(* client's next connection is a new one in its place.                     *)
Close(s) ==
  /\ lost[s] /\ hpc[s] = "idle"
  /\ lost' = [lost EXCEPT ![s] = FALSE]
  /\ reg' = [reg EXCEPT ![s] = "no"]
  /\ subs' = [subs EXCEPT ![s] = {}]
  /\ UNCHANGED <<clock, histVars, raced, dict, chan, pending, handVars, sweepVars, cliVars>>

-----------------------------------------------------------------------------
(* run_ttl_sweep: collect what has expired, remove each after another      *)
(* look, and announce the removals at the end.                             *)

SweepRead ==
  /\ swpc = "sleep"
  /\ cands' = {k \in Keys : \E e \in dict[k] : Expired(e)}
  /\ cands' # {}
  /\ swpc' = "remove"
  /\ UNCHANGED <<clock, histVars, raced, dict, connVars, chan, pending, handVars, removed, cliVars>>

(* Mutant of Gone: no second look.                                         *)
GoneUnchecked(k) == dict[k] # {}

Gone(k) == \E e \in dict[k] : Expired(e)

SweepRemove(k) ==
  /\ swpc = "remove"
  /\ cands' = cands \ {k}
  /\ dict' = [dict EXCEPT ![k] = IF Gone(k) THEN {} ELSE @]
  /\ removed' = IF Gone(k) THEN removed \cup {k} ELSE removed
  /\ raced' = IF Gone(k) THEN raced \cup Races("", k) ELSE raced
  /\ swpc' = IF cands' = {} THEN "announce" ELSE "remove"
  /\ UNCHANGED <<clock, histVars, connVars, chan, pending, handVars, cliVars>>

SweepAnnounce(k) ==
  /\ swpc = "announce"
  /\ FanOut(Msg("key_expired", k, None))
  /\ removed' = removed \ {k}
  /\ UNCHANGED <<clock, histVars, dict, pending, handVars, swpc, cands, cliVars>>

SweepDone ==
  /\ swpc = "announce" /\ removed = {}
  /\ swpc' = "sleep"
  /\ UNCHANGED <<clock, histVars, raced, dict, connVars, chan, pending, handVars, cands, removed,
                 cliVars>>

-----------------------------------------------------------------------------
(* The client applies what it receives to its copy; a WsDictClient takes   *)
(* the first message after a subscribe for the acknowledgement.            *)
Receive(s) ==
  LET m == Head(chan[s]) IN
  /\ chan[s] # << >>
  /\ chan' = [chan EXCEPT ![s] = Tail(@)]
  /\ acking' = [acking EXCEPT ![s] = FALSE]
  /\ IF acking[s]
     THEN /\ raced' = IF m.kind = "subscribed" THEN raced ELSE raced \cup {<<s, m.key>>}
          /\ UNCHANGED view
     ELSE /\ view' = IF m.kind = "subscribed" THEN view
                     ELSE [view EXCEPT ![s][m.key] = m.val]
          /\ UNCHANGED raced
  /\ UNCHANGED <<clock, histVars, dict, connVars, pending, handVars, sweepVars>>

Write == \E w \in Writers, k \in Keys : (\E ttl \in Ttls : Set(w, k, ttl)) \/ Delete(w, k)
Handle == \E s \in Subscribers :
  \/ \E ps \in Requests : Subscribe(s, ps)
  \/ Acknowledge(s) \/ PushKeys(s)
  \/ \E k \in todo[s] : PushRead(s, k)
  \/ PushSend(s) \/ PushDone(s) \/ Lose(s) \/ Close(s)
Sweep == SweepRead \/ (\E k \in cands : SweepRemove(k)) \/ (\E k \in removed : SweepAnnounce(k))
           \/ SweepDone

Next ==
  \/ Tick \/ Write \/ (\E w \in Writers : Announce(w))
  \/ Handle \/ Sweep \/ (\E s \in Subscribers : Receive(s))

Spec == Init /\ [][Next]_vars

(* Every step of run_ttl_sweep is a step of a tokio task that never waits  *)
(* for anything but the two locks, which nobody holds across an await.     *)
FairSpec == Spec /\ WF_vars(Sweep)

-----------------------------------------------------------------------------
Kinds == {"update", "key_deleted", "key_expired", "subscribed"}
Msgs == [kind : Kinds, key : Keys \cup {""}, val : Nat]

(* Types: a key has one entry at most (Dict::set), and no send of the      *)
(* server puts more in a subscriber's channel than it holds.               *)
TypeOK ==
  /\ clock \in Nat /\ sets \in Nat /\ closes \in Nat /\ raced \subseteq Subscribers \X Keys
  /\ \A k \in Keys : Cardinality(dict[k]) <= 1 /\ dict[k] \subseteq [val : Nat, exp : Nat]
  /\ reg \in [Subscribers -> {"no", "yes", "gone"}]
  /\ subs \in [Subscribers -> SUBSET Patterns] /\ lost \in [Subscribers -> BOOLEAN]
  /\ chan \in [Subscribers -> Seq(Msgs)] /\ \A s \in Subscribers : Len(chan[s]) <= Capacity
  /\ pending \in [Writers -> Seq(Msgs)]
  /\ hpc \in [Subscribers -> {"idle", "ack", "keys", "push"}]
  /\ fresh \in [Subscribers -> SUBSET Keys] /\ todo \in [Subscribers -> SUBSET Keys]
  /\ got \in [Subscribers -> Seq(Msgs)]
  /\ swpc \in {"sleep", "remove", "announce"}
  /\ cands \subseteq Keys /\ removed \subseteq Keys
  /\ view \in [Subscribers -> [Keys -> Nat]]
  /\ acking \in [Subscribers -> BOOLEAN]

(* Nothing is under way and nothing in the dictionary has expired.         *)
Quiet ==
  /\ \A w \in Writers : pending[w] = << >>
  /\ \A s \in Subscribers : chan[s] = << >> /\ hpc[s] = "idle"
  /\ swpc = "sleep" /\ \A k \in Keys : \A e \in dict[k] : Live(e)

Agrees(s, k) ==
  view[s][k] = IF dict[k] = {} THEN None ELSE (CHOOSE e \in dict[k] : TRUE).val

(* When all is quiet, the copy that a connected subscriber has of each key *)
(* its patterns match is what the dictionary holds, unless one of the      *)
(* races above has hit it: late and repeated subscriptions, overlapping    *)
(* patterns, deletions, expiry, connections lost at any point and writers  *)
(* taking turns on a key do no harm.                                       *)
Converges ==
  Quiet => \A s \in Subscribers : ~lost[s] =>
             \A k \in Matched(s) : <<s, k>> \in raced \/ Agrees(s, k)

(* The sweep takes a key away only if it has expired, although it may have *)
(* been written again since the sweep looked.                              *)
SweepsOnlyExpired ==
  [][swpc = "remove" /\ dict' # dict /\ sets' = sets =>
       \A k \in Keys : dict'[k] # dict[k] => \A e \in dict[k] : e.exp # 0 /\ e.exp <= clock]_vars

(* An expired entry is removed, or written again.                          *)
ExpiredAreSwept ==
  \A k \in Keys : (\E e \in dict[k] : e.exp # 0 /\ e.exp <= clock)
                    ~> ~(\E e \in dict[k] : e.exp # 0 /\ e.exp <= clock)

(* A key has one entry, channels keep their limit, and when all is quiet   *)
(* every copy is the dictionary but for the named races.                   *)
MirrorRight == TypeOK /\ Converges

=============================================================================
