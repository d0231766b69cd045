----------------------------- MODULE HashTable -----------------------------
(***************************************************************************)
(* The hash table of a scope: kh_put and kh_get of scope/khash.h as        *)
(* add_to_scope and the searches of scope/symrec.c use them.  Collisions   *)
(* are resolved by probing, and a full table is rehashed in place: an      *)
(* element whose new bucket still holds an old one kicks that one out.     *)
(* One action is one turn of a loop of kh_resize, or what comes before or  *)
(* after it.                                                               *)
(*                                                                         *)
(* Nothing here calls kh_del, so a bucket is marked deleted only while     *)
(* kh_resize empties the old table; malloc does not fail.                  *)
(***************************************************************************)
EXTENDS Integers, FiniteSets

CONSTANTS
  Record,        (* the symrecs: an id, and what else tells them apart *)
  None           (* what an unassigned bucket holds                    *)

Key == {r.id : r \in Record}

ASSUME HashTableAssumption == Key \subseteq Nat /\ None \notin Record \cup Key

VARIABLES
  n_buckets, size, n_occupied, upper_bound,
  flags,         (* the state of each bucket                          *)
  keys, vals,    (* the blocks the buckets are in                     *)
  new_flags,     (* the buckets of the table kh_resize builds         *)
  j,             (* the bucket kh_resize has come to                  *)
  hand,          (* the element it is placing                         *)
  arg,           (* the argument of add_to_scope                      *)
  pc

vars == <<n_buckets, size, n_occupied, upper_bound, flags, keys, vals,
          new_flags, j, hand, arg, pc>>

-----------------------------------------------------------------------------
Buckets(n) == 0 .. n - 1

Room(block) == Cardinality(DOMAIN block)

Empty(n) == [i \in Buckets(n) |-> "empty"]

Full(f) == {i \in DOMAIN f : f[i] = "full"}

Pair(k, v) == [key |-> k, val |-> v]
NoPair     == Pair(None, None)
Element    == [key : Key \cup {None}, val : Record \cup {None}]

(* The bucket at which the probing for k is after t steps of 1, 2, 3, ... *)
Probe_linear(k, t, n) == (k + 2 * t) % n               \* mutant: every other bucket

Probe(k, t, n) == (k + (t * (t + 1)) \div 2) % n

(* The first bucket of S it comes to in a table of n; n when it comes to   *)
(* none before it is back where it began.                                  *)
Reached(k, n, S) ==
  LET first(t) == Probe(k, t, n) \in S /\ \A u \in 0 .. t - 1 : Probe(k, u, n) \notin S
  IN  IF \E t \in 0 .. 2 * n - 1 : first(t)
      THEN Probe(k, CHOOSE t \in 0 .. 2 * n - 1 : first(t), n) ELSE n

(* Where the probing of kh_get and kh_put for k ends. *)
Site(k) == Reached(k, n_buckets,
                   {i \in DOMAIN flags :
                      flags[i] = "empty" \/ (flags[i] = "full" /\ keys[i] = k)})

(* n_buckets is kh_end. *)
kh_get(k) ==
  LET x == Site(k) IN
  IF x \in Full(flags) THEN x ELSE n_buckets

(* kh_put falls back on the bucket it began with. *)
PutSite(k) == IF Site(k) = n_buckets THEN Probe(k, 0, n_buckets) ELSE Site(k)

UpperBound_all(n) == n                                 \* mutant: fill every bucket

(* 0.77 n, rounded: __ac_HASH_UPPER *)
UpperBound(n) == (77 * n + 50) \div 100

(* kroundup32, and at least 4; for a larger table there is no memory. *)
Powers == {2 ^ e : e \in 2 .. 30}

RoundUp(n) == CHOOSE m \in Powers : m >= n /\ \A p \in Powers : p >= n => m <= p

(* The size kh_put asks for: the same for a table with room, to be rid of  *)
(* deleted elements, and else the next.                                    *)
Asked == IF n_buckets > 2 * size THEN n_buckets - 1 ELSE n_buckets + 1

NewBuckets == RoundUp(Asked)

Extend_forgotten(f, n) == f                            \* mutant: not reallocated

(* krealloc, of a block that gets larger *)
Extend(f, n) == [i \in DOMAIN f \cup Buckets(n) |-> IF i \in DOMAIN f THEN f[i] ELSE None]

-----------------------------------------------------------------------------
MustResize == n_occupied >= upper_bound

(* add_to_scope: kh_put begins, and resizes a table that is full.          *)
Begin(r) ==
  /\ pc = "idle"
  /\ MustResize => \E m \in Powers : m >= Asked
  /\ arg' = r
  /\ IF MustResize /\ size < UpperBound(NewBuckets)
     THEN /\ new_flags' = Empty(NewBuckets)
          /\ keys' = Extend(keys, NewBuckets) /\ vals' = Extend(vals, NewBuckets)
          /\ pc' = "scan"
     ELSE /\ pc' = "place"
          /\ UNCHANGED <<new_flags, keys, vals>>
  /\ UNCHANGED <<n_buckets, size, n_occupied, upper_bound, flags, j, hand>>

(* kh_resize comes to a bucket: an element is taken out of it. *)
Scan ==
  /\ pc = "scan" /\ j # n_buckets
  /\ IF j \in Full(flags)
     THEN /\ hand' = Pair(keys[j], vals[j])
          /\ flags' = [flags EXCEPT ![j] = "deleted"]
          /\ pc' = "kick"
          /\ UNCHANGED j
     ELSE /\ j' = j + 1
          /\ UNCHANGED <<flags, hand, pc>>
  /\ UNCHANGED <<n_buckets, size, n_occupied, upper_bound, keys, vals, new_flags, arg>>

(* Where the element in hand goes in the table being built. *)
NewSite == Reached(hand.key, Room(new_flags),
                   DOMAIN new_flags \ Full(new_flags))

Kicks_never(i) == FALSE                                \* mutant: overwrites

(* The bucket holds an element not moved yet. *)
Kicks(i) == i < n_buckets /\ i \in Full(flags)

(* It goes to its new bucket.  An element there is taken in hand. *)
Kick ==
  LET i == NewSite IN
  /\ pc = "kick"
  /\ i \in DOMAIN new_flags
  /\ new_flags' = [new_flags EXCEPT ![i] = "full"]
  /\ keys' = [keys EXCEPT ![i] = hand.key]
  /\ vals' = [vals EXCEPT ![i] = hand.val]
  /\ IF Kicks(i)
     THEN /\ hand' = Pair(keys[i], vals[i])
          /\ flags' = [flags EXCEPT ![i] = "deleted"]
          /\ UNCHANGED <<j, pc>>
     ELSE /\ hand' = NoPair /\ j' = j + 1
          /\ pc' = "scan"
          /\ UNCHANGED flags
  /\ UNCHANGED <<n_buckets, size, n_occupied, upper_bound, arg>>

(* kh_resize ends: the new flags replace the old. *)
Resized ==
  /\ pc = "scan" /\ j = n_buckets
  /\ flags' = new_flags /\ new_flags' = Empty(0)
  /\ n_buckets' = Room(new_flags)
  /\ n_occupied' = size
  /\ upper_bound' = UpperBound(n_buckets')
  /\ j' = 0
  /\ pc' = "place"
  /\ UNCHANGED <<size, keys, vals, hand, arg>>

Occupy_uncounted(x) ==                                 \* mutant: no ++n_occupied
  IF x \in Full(flags) THEN UNCHANGED <<size, n_occupied, keys>>
  ELSE /\ keys' = [keys EXCEPT ![x] = arg.id]
       /\ size' = size + 1 /\ UNCHANGED n_occupied

(* The key of a full bucket is left alone. *)
Occupy(x) ==
  IF x \in Full(flags) THEN UNCHANGED <<size, n_occupied, keys>>
  ELSE /\ keys' = [keys EXCEPT ![x] = arg.id]
       /\ size' = size + 1 /\ n_occupied' = n_occupied + 1

(* kh_put finds the bucket of the key, and add_to_scope stores the record. *)
Place ==
  LET x == PutSite(arg.id) IN
  /\ pc = "place"
  /\ flags' = [flags EXCEPT ![x] = "full"]
  /\ vals' = [vals EXCEPT ![x] = arg]
  /\ Occupy(x)
  /\ arg' = None
  /\ pc' = "idle"
  /\ UNCHANGED <<n_buckets, upper_bound, new_flags, j, hand>>

-----------------------------------------------------------------------------
(* kh_init *)
Init ==
  /\ n_buckets = 0 /\ size = 0 /\ n_occupied = 0 /\ upper_bound = 0
  /\ flags = Empty(0) /\ keys = Empty(0) /\ vals = Empty(0)
  /\ new_flags = Empty(0) /\ j = 0 /\ hand = NoPair
  /\ arg = None
  /\ pc = "idle"

Next == Scan \/ Kick \/ Resized \/ Place \/ \E r \in Record : Begin(r)

Spec == Init /\ [][Next]_vars

-----------------------------------------------------------------------------
(* Properties                                                              *)

(* Every variable has its type; the blocks of keys and of records have a   *)
(* cell for every bucket of both tables.                                   *)
TypeOK ==
  /\ n_buckets \in Nat /\ size \in Nat /\ n_occupied \in Nat /\ upper_bound \in Nat
  /\ flags \in [Buckets(n_buckets) -> {"empty", "full", "deleted"}]
  /\ new_flags \in [Buckets(Room(new_flags)) -> {"empty", "full"}]
  /\ keys \in [Buckets(Room(keys)) -> Key \cup {None}]
  /\ vals \in [Buckets(Room(keys)) -> Record \cup {None}]
  /\ DOMAIN flags \cup DOMAIN new_flags \subseteq DOMAIN keys
  /\ j \in 0 .. n_buckets
  /\ hand \in Element /\ arg \in Record \cup {None}
  /\ pc \in {"idle", "scan", "kick", "place"}

(* The elements the table holds: those not moved yet, those moved, and the *)
(* one in hand.                                                            *)
Held ==
  {Pair(keys[i], vals[i]) : i \in Full(flags) \cup Full(new_flags)}
    \cup IF pc = "kick" THEN {hand} ELSE {}

(* While it is rehashed, the table means what it holds; at every other     *)
(* moment, what kh_get finds.                                              *)
Lookup(k) ==
  IF pc \in {"scan", "kick"}
  THEN IF \E p \in Held : p.key = k
       THEN (CHOOSE p \in Held : p.key = k).val ELSE None
  ELSE IF kh_get(k) # n_buckets THEN vals[kh_get(k)] ELSE None

(* The searches of symrec.c find, under each id, the record added last and *)
(* nothing under the others, however the table was grown in between: a put *)
(* is one step of a map, and no step of a rehash changes the map.          *)
contents == [k \in Key |-> Lookup(k)]

Contents == INSTANCE Map WITH map <- contents

ImplementsMap == Contents!Spec

(* delete_scope frees the record of every full bucket: between puts each   *)
(* id is in one bucket only, so that no record is freed twice.             *)
EachKeyOnce ==
  pc \in {"idle", "place"} =>
    \A a, b \in Full(flags) : keys[a] = keys[b] => a = b

(* The counters tell what is in the buckets, and a bucket is free: the     *)
(* probing for an id that is not there ends.                               *)
RoomForProbing ==
  pc \in {"idle", "place"} =>
    /\ size = Cardinality(Full(flags)) /\ n_occupied = size
    /\ n_buckets > 0 => size < n_buckets
    /\ pc = "place" => \A k \in Key : Site(k) # n_buckets

=============================================================================
