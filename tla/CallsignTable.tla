---------------------------- MODULE CallsignTable ----------------------------
(***************************************************************************)
(* The callsign hash table of ft8.cc: FT8 messages may carry a 22, 12 or   *)
(* 10 bit hash in place of a callsign, and the decoder resolves it from    *)
(* the callsigns it has seen.  Open addressing with linear probing, aged   *)
(* by hashtable_cleanup.  The table is thread_local; this is the one of a  *)
(* decoding thread (the scan's worker, or the refine worker).              *)
(*                                                                         *)
(* A callsign is a model value; its 22 bit hash is given by Hash22, and    *)
(* the short hash is that without its low Shift bits.                      *)
(***************************************************************************)
EXTENDS Integers, FiniteSets, FiniteSetsExt

CONSTANTS
  Calls,     \* callsigns
  Hash22,    \* the 22 bit hash of each
  Shift,     \* low bits a short hash leaves out (10 or 12)
  Size,      \* CALLSIGN_HASHTABLE_SIZE
  MaxAge     \* hashtable_cleanup's max_age (10)

ASSUME TableAssumption ==
  /\ Hash22 \in [Calls -> Nat]
  /\ Shift \in Nat
  /\ Size \in Nat \ {0}
  /\ MaxAge \in Nat

VARIABLES
  table,  \* callsign_hashtable
  size,   \* callsign_hashtable_size
  since,  \* history: clean-ups since a callsign was last stored
  removed \* history: a clean-up has removed an entry

tableVars == <<table, size, since, removed>>

Empty == [used |-> FALSE]
Entry(c, age) == [used |-> TRUE, call |-> c, age |-> age]
Entries == {Empty} \cup [used : {TRUE}, call : Calls, age : 0 .. MaxAge]
Never == MaxAge + 1

Slots == 0 .. Size - 1

TableInit ==
  /\ table = [i \in Slots |-> Empty]
  /\ size = 0
  /\ since = [c \in Calls |-> Never]
  /\ removed = FALSE

-----------------------------------------------------------------------------
(* The bounded linear probe: slots are visited from start on; it ends at   *)
(* the first one that is empty or that Hit accepts.  Stops is the set of   *)
(* distances at which it would end, empty when the table is full and       *)
(* nothing matches.                                                        *)
ProbeSlot(start, d) == (start + d) % Size

Stops(start, Hit(_)) ==
  {d \in Slots : LET e == table[ProbeSlot(start, d)] IN ~e.used \/ Hit(e)}

(* hashtable_add: refresh the callsign's entry or take an empty slot.  A   *)
(* full table drops the callsign.                                          *)
Home(c) == Hash22[c] % Size
AddStops(c) == Stops(Home(c), LAMBDA e : e.call = c)

Store(c, i, age) ==
  /\ table' = [table EXCEPT ![i] = Entry(c, age)]
  /\ size' = IF table[i].used THEN size ELSE size + 1
  /\ since' = [since EXCEPT ![c] = 0]
  /\ UNCHANGED removed

(* Mutant of Add: a known callsign keeps its age.                          *)
AddUnrefreshed(c) ==
  LET i == ProbeSlot(Home(c), Min(AddStops(c))) IN
  /\ AddStops(c) # {}
  /\ Store(c, i, IF table[i].used THEN table[i].age ELSE 0)

Add(c) ==
  /\ AddStops(c) # {}
  /\ Store(c, ProbeSlot(Home(c), Min(AddStops(c))), 0)

AddFull(c) ==
  /\ AddStops(c) = {}
  /\ UNCHANGED tableVars

(* hashtable_cleanup: an entry of age MaxAge goes, the others get older.   *)
Old == {i \in Slots : table[i].used /\ table[i].age >= MaxAge}

Aged(e) == IF ~e.used \/ e.age >= MaxAge THEN Empty ELSE Entry(e.call, e.age + 1)

Age(gone) ==
  /\ table' = [i \in Slots |-> Aged(table[i])]
  /\ size' = size - gone
  /\ since' = [c \in Calls |-> IF since[c] < Never THEN since[c] + 1 ELSE Never]
  /\ removed' = (removed \/ Old # {})

Cleanup == Age(Cardinality(Old))

(* hashtable_lookup: the callsigns it returns for a hash, at most one.     *)
(* A short hash leaves out the lowest bits, so that low = 2^bits hashes    *)
(* share it (low = 1 for all 22 bits).  The probe starts at the hash       *)
(* shifted back.                                                           *)
Probe(start, stops) ==
  {table[i].call : i \in {ProbeSlot(start, d) : d \in
     {m \in stops : (\A o \in stops : m <= o) /\ table[ProbeSlot(start, m)].used}}}

(* Mutant of Found: only the slot the hash names is looked at.             *)
FoundAtHome(low, hash) ==
  LET start == (hash * low) % Size IN
  Probe(start, {0} \cap Stops(start, LAMBDA e : Hash22[e.call] \div low = hash))

Found(low, hash) ==
  LET start == (hash * low) % Size IN
  Probe(start, Stops(start, LAMBDA e : Hash22[e.call] \div low = hash))

Lookup(c, low) == Found(low, Hash22[c] \div low)

TableNext ==
  \/ \E c \in Calls : Add(c) \/ AddFull(c)
  \/ Cleanup

TableSpec == TableInit /\ [][TableNext]_tableVars

-----------------------------------------------------------------------------
Stored == {table[i].call : i \in {j \in Slots : table[j].used}}

(* Types; an age stays within the byte that holds it (hashtable_cleanup).  *)
TableTypeOK ==
  /\ table \in [Slots -> Entries]
  /\ size \in 0 .. Size
  /\ since \in [Calls -> 0 .. Never]
  /\ removed \in BOOLEAN

(* The size counts the occupied slots, through refreshes and clean-ups.    *)
SizeCounts ==
  size = Cardinality({i \in Slots : table[i].used})

(* A callsign stored at most MaxAge clean-ups ago is in the table, unless  *)
(* the table was full, whatever else was stored or removed since.          *)
RecentIsStored ==
  \A c \in Calls : since[c] <= MaxAge => c \in Stored

(* Until a clean-up removes an entry, a 22 bit look-up resolves the hash   *)
(* of every stored callsign to a callsign with that hash: probing finds    *)
(* what it displaced, in a full table too.                                 *)
FoundUntilRemoval ==
  ~removed =>
    \A c \in Stored : \E d \in Lookup(c, 1) : Hash22[d] = Hash22[c]

(* A stored callsign is found by its short hash, even before the first     *)
(* removal.                                                                *)
FoundByShortHash ==
  ~removed => \A c \in Stored : Lookup(c, 2^Shift) # {}

(* Through any sequence of adds, refreshes and clean-ups the count is that *)
(* of the occupied slots, ages fit their byte, and what was stored lately  *)
(* is still stored (hashtable_add, hashtable_cleanup).                     *)
TableRight == TableTypeOK /\ SizeCounts /\ RecentIsStored

=============================================================================
