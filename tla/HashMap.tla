------------------------------ MODULE HashMap ------------------------------
(***************************************************************************)
(* The hash map behind scopes and registry (core/data-structures/hashmap): *)
(* a fixed number of buckets, each a chain of nodes with the newest first. *)
(* Hash stands for any hasher, masked to the number of buckets.            *)
(***************************************************************************)
EXTENDS Integers, Sequences

CONSTANTS Names,      (* keys                                                 *)
          Buckets,    (* FIXED_HASH_MAP_BUCKETS                               *)
          Hash        (* _key_to_index                                        *)

ASSUME HashAssumption == Buckets \in Nat /\ Hash \in [Names -> 0..(Buckets - 1)]

Node(k, v) == [key |-> k, value |-> v]

(* _fixed_hashmap_init *)
EmptyMap == [buckets |-> [b \in 0..(Buckets - 1) |-> <<>>], inserted |-> 0]

Chain(map, k) == map.buckets[Hash[k]]

Matching(chain, k) == {i \in DOMAIN chain : chain[i].key = k}

(* Where walking the chain from its head ends for a key that is in it. *)
FirstMatch(chain, k) == CHOOSE i \in Matching(chain, k) : \A j \in Matching(chain, k) : i <= j

Has(map, k) == Matching(Chain(map, k), k) # {}

(* fixed_hashmap_find of a key that the map has *)
Value(map, k) == Chain(map, k)[FirstMatch(Chain(map, k), k)].value

(* fixed_hashmap_insert *)
MapInsert(map, k, v) ==
  LET old == Chain(map, k) IN
  [buckets  |-> [map.buckets EXCEPT ![Hash[k]] =
                   IF Has(map, k) THEN [old EXCEPT ![FirstMatch(old, k)] = Node(k, v)]
                                  ELSE <<Node(k, v)>> \o old],
   inserted |-> IF Has(map, k) THEN map.inserted ELSE map.inserted + 1]

(* Mutant of MapFree: the last node of a chain stays. *)
MapFreeButLast(map) ==
  [map EXCEPT !.buckets = [b \in DOMAIN @ |-> IF @[b] = <<>> THEN <<>> ELSE <<@[b][Len(@[b])]>>]]

(* fixed_hashmap_free, seen through a pointer to the map that is kept: the  *)
(* arena's free does nothing, so that the map is still there, emptied, with *)
(* the count it had.                                                       *)
MapFree(map) == [map EXCEPT !.buckets = [b \in DOMAIN @ |-> <<>>]]
=============================================================================
