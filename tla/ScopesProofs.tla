---------------------------- MODULE ScopesProofs ----------------------------
(***************************************************************************)
(* Proofs about HashMap and Scopes, for every hash function and any number *)
(* of buckets, names, scopes and nodes.                                    *)
(***************************************************************************)
EXTENDS Scopes, SequenceTheorems, WellFoundedInduction, TLAPS

Nodes(V) == [key : Names, value : V]

(* The maps with values in V: no key is twice in a chain. *)
Maps(V) ==
  {map \in [buckets  : [0..(Buckets - 1) -> Seq(Nodes(V))],
            inserted : Nat] :
     \A b \in 0..(Buckets - 1) : \A i, j \in DOMAIN map.buckets[b] :
       map.buckets[b][i].key = map.buckets[b][j].key => i = j}

-----------------------------------------------------------------------------
(* The hash map *)

LEMMA ChainType ==
  ASSUME NEW V, NEW map \in Maps(V), NEW k \in Names
  PROVE  /\ Hash[k] \in 0..(Buckets - 1)
         /\ Chain(map, k) \in Seq(Nodes(V))
  BY HashAssumption DEF Maps, Chain

(* A key has one node, which is the one the walk along its chain ends at. *)
LEMMA OneNode ==
  ASSUME NEW V, NEW map \in Maps(V), NEW k \in Names, NEW i \in Matching(Chain(map, k), k)
  PROVE  /\ i \in DOMAIN Chain(map, k)
         /\ Chain(map, k)[i].key = k
         /\ FirstMatch(Chain(map, k), k) = i
         /\ Has(map, k)
         /\ Value(map, k) = Chain(map, k)[i].value
         /\ Value(map, k) \in V
<1>1. i \in DOMAIN Chain(map, k) /\ Chain(map, k)[i].key = k
  BY DEF Matching
<1>2. \A j \in Matching(Chain(map, k), k) : j = i
  BY <1>1, ChainType DEF Matching, Maps, Chain
<1>3. i \in Nat
  <2>1. i \in 1..Len(Chain(map, k)) /\ Len(Chain(map, k)) \in Nat
    BY <1>1, ChainType
  <2> QED
    BY <2>1
<1>4. FirstMatch(Chain(map, k), k) = i
  <2>1. \A j \in Matching(Chain(map, k), k) : i <= j
    BY <1>2, <1>3
  <2> QED
    BY <1>2, <2>1 DEF FirstMatch
<1>5. Chain(map, k)[i] \in Nodes(V)
  <2>1. \A s \in Seq(Nodes(V)) : \A j \in DOMAIN s : s[j] \in Nodes(V)
    OBVIOUS
  <2> QED
    BY <1>1, <2>1, ChainType
<1>6. Chain(map, k)[i].value \in V
  BY <1>5 DEF Nodes
<1> QED
  BY <1>1, <1>4, <1>6 DEF Has, Value

LEMMA ValueType ==
  ASSUME NEW V, NEW map \in Maps(V), NEW k \in Names, Has(map, k)
  PROVE  Value(map, k) \in V
  BY OneNode DEF Has

LEMMA EmptyMapIsEmpty ==
  ASSUME NEW V
  PROVE  EmptyMap \in Maps(V) /\ \A k \in Names : ~ Has(EmptyMap, k)
<1>0. <<>> \in Seq(Nodes(V)) /\ DOMAIN <<>> = {}
  OBVIOUS
<1>1. EmptyMap \in Maps(V)
  BY <1>0 DEF Maps, EmptyMap
<1>2. ASSUME NEW k \in Names PROVE ~ Has(EmptyMap, k)
  BY HashAssumption DEF Has, Matching, Chain, EmptyMap
<1> QED
  BY <1>1, <1>2

LEMMA MapFreeEmpties ==
  ASSUME NEW V, NEW map \in Maps(V)
  PROVE  MapFree(map) \in Maps(V) /\ \A k \in Names : ~ Has(MapFree(map), k)
<1>0. <<>> \in Seq(Nodes(V)) /\ DOMAIN <<>> = {}
  OBVIOUS
<1>1. /\ MapFree(map).buckets = [b \in 0..(Buckets - 1) |-> <<>>]
      /\ MapFree(map) \in [buckets  : [0..(Buckets - 1) -> Seq(Nodes(V))],
                           inserted : Nat]
  BY <1>0 DEF Maps, MapFree
<1>2. MapFree(map) \in Maps(V)
  BY <1>0, <1>1 DEF Maps
<1>3. ASSUME NEW k \in Names PROVE ~ Has(MapFree(map), k)
  BY <1>1, HashAssumption DEF Has, Matching, Chain
<1> QED
  BY <1>2, <1>3

(* What an insertion does to the other buckets, and so to the keys in them. *)
LEMMA OtherBuckets ==
  ASSUME NEW V, NEW map \in Maps(V), NEW new \in Maps(V), NEW n \in Names,
         Chain(new, n) = Chain(map, n)
  PROVE  /\ Has(new, n) <=> Has(map, n)
         /\ Value(new, n) = Value(map, n)
  BY DEF Has, Value

LEMMA InsertNew ==
  ASSUME NEW V, NEW map \in Maps(V), NEW k \in Names, NEW v \in V, ~ Has(map, k)
  PROVE  /\ MapInsert(map, k, v) \in Maps(V)
         /\ \A n \in Names : Has(MapInsert(map, k, v), n) <=> n = k \/ Has(map, n)
         /\ \A n \in Names : Has(MapInsert(map, k, v), n) =>
              Value(MapInsert(map, k, v), n) = IF n = k THEN v ELSE Value(map, n)
<1> DEFINE new == MapInsert(map, k, v)
           h == Hash[k]
           old == map.buckets[h]
           longer == <<Node(k, v)>> \o old
<1>1. h \in 0..(Buckets - 1) /\ old = Chain(map, k) /\ old \in Seq(Nodes(V))
  BY ChainType DEF Chain
<1>0. Node(k, v) \in Nodes(V)
  BY DEF Node, Nodes
<1>2. /\ longer \in Seq(Nodes(V))
      /\ Len(longer) = Len(old) + 1
      /\ longer[1] = Node(k, v)
      /\ \A i \in 1..Len(old) : longer[i + 1] = old[i]
  <2>1. <<Node(k, v)>> \in Seq(Nodes(V)) /\ Len(<<Node(k, v)>>) = 1
    BY <1>0
  <2>2. /\ longer \in Seq(Nodes(V))
        /\ Len(longer) = 1 + Len(old)
        /\ \A i \in 1..(1 + Len(old)) :
             longer[i] = IF i <= 1 THEN <<Node(k, v)>>[i] ELSE old[i - 1]
    BY <1>1, <2>1, ConcatProperties
  <2> QED
    BY <1>1, <2>2
<1>3. /\ new = [buckets |-> [map.buckets EXCEPT ![h] = longer], inserted |-> map.inserted + 1]
      /\ new.buckets = [map.buckets EXCEPT ![h] = longer]
  BY DEF MapInsert, Chain
<1>4. \A i \in DOMAIN old : old[i].key # k
  BY <1>1 DEF Has, Matching
<1>5. \A i, j \in DOMAIN old : old[i].key = old[j].key => i = j
  BY <1>1 DEF Maps
<1>6. \A i, j \in DOMAIN longer : longer[i].key = longer[j].key => i = j
  <2>1. TAKE i, j \in DOMAIN longer
  <2>2. i \in 1..(Len(old) + 1) /\ j \in 1..(Len(old) + 1) /\ DOMAIN old = 1..Len(old)
    BY <1>1, <1>2
  <2>3. Node(k, v).key = k
    BY DEF Node
  <2>4. \A x \in 1..(Len(old) + 1) : x # 1 => /\ x - 1 \in DOMAIN old
                                               /\ longer[x] = old[x - 1]
    <3>1. TAKE x \in 1..(Len(old) + 1)
    <3>2. HAVE x # 1
    <3>3. x - 1 \in 1..Len(old) /\ (x - 1) + 1 = x
      BY <1>1, <3>2
    <3> QED
      BY <1>2, <2>2, <3>3
  <2> HIDE DEF longer
  <2>5. CASE i = 1
    BY <1>2, <1>4, <2>2, <2>3, <2>4, <2>5
  <2>6. CASE j = 1
    BY <1>2, <1>4, <2>2, <2>3, <2>4, <2>6
  <2>7. CASE i # 1 /\ j # 1
    BY <1>5, <2>2, <2>4, <2>7
  <2> QED
    BY <2>5, <2>6, <2>7
<1>7. new \in Maps(V)
  <2>1. /\ new.buckets \in [0..(Buckets - 1) -> Seq(Nodes(V))]
        /\ new \in [buckets  : [0..(Buckets - 1) -> Seq(Nodes(V))],
                    inserted : Nat]
    BY <1>1, <1>2, <1>3 DEF Maps
  <2>2. \A b \in 0..(Buckets - 1) : new.buckets[b] = IF b = h THEN longer ELSE map.buckets[b]
    BY <1>1, <1>3 DEF Maps
  <2> QED
    BY <1>6, <2>1, <2>2 DEF Maps
<1>8. \A n \in Names : Chain(new, n) = IF Hash[n] = h THEN longer ELSE Chain(map, n)
  BY <1>1, <1>3, HashAssumption DEF Chain, Maps
<1> HIDE DEF new
<1>9. 1 \in Matching(Chain(new, k), k)
  BY <1>1, <1>2, <1>8 DEF Matching, Node
<1>10. Has(new, k) /\ Value(new, k) = v
  <2>1. Has(new, k) /\ Value(new, k) = Chain(new, k)[1].value
    BY <1>7, <1>9, OneNode
  <2> QED
    BY <1>2, <1>8, <2>1 DEF Node
<1>11. ASSUME NEW n \in Names, n # k
       PROVE  /\ Has(new, n) <=> Has(map, n)
              /\ Has(new, n) => Value(new, n) = Value(map, n)
  <2>1. CASE Hash[n] # h
    BY <1>7, <1>8, <2>1, OtherBuckets
  <2>2. CASE Hash[n] = h
    <3>1. Chain(new, n) = longer /\ Chain(map, n) = old
      BY <1>8, <2>2 DEF Chain
    <3>2. \A i \in 1..Len(old) : i \in Matching(old, n) <=> i + 1 \in Matching(longer, n)
      BY <1>1, <1>2 DEF Matching
    <3>3. 1 \notin Matching(longer, n)
      BY <1>2, <1>11 DEF Matching, Node
    <3>4. ASSUME NEW x \in Matching(longer, n)
          PROVE  x - 1 \in 1..Len(old) /\ x - 1 \in Matching(old, n) /\ longer[x] = old[x - 1]
      <4> HIDE DEF longer
      <4>1. x \in 1..(Len(old) + 1) /\ x # 1
        BY <1>1, <1>2, <3>3 DEF Matching
      <4>2. x - 1 \in 1..Len(old) /\ (x - 1) + 1 = x
        BY <1>1, <4>1
      <4> QED
        BY <1>2, <3>2, <3>4, <4>2
    <3>5. ASSUME Has(new, n)
          PROVE  Has(map, n) /\ Value(new, n) = Value(map, n)
      <4>1. PICK x \in Matching(Chain(new, n), n) : TRUE
        BY <3>5 DEF Has
      <4>2. x - 1 \in Matching(Chain(map, n), n) /\ longer[x] = old[x - 1]
        BY <3>1, <3>4, <4>1
      <4> HIDE DEF longer
      <4>3. Value(new, n) = Chain(new, n)[x].value
        BY <1>7, <4>1, OneNode
      <4>4. Has(map, n) /\ Value(map, n) = old[x - 1].value
        BY <3>1, <4>2, OneNode
      <4> QED
        BY <3>1, <4>2, <4>3, <4>4
    <3>6. ASSUME Has(map, n) PROVE Has(new, n)
      <4>1. PICK i \in Matching(old, n) : TRUE
        BY <3>1, <3>6 DEF Has
      <4>2. i \in 1..Len(old)
        BY <1>1, <4>1 DEF Matching
      <4> QED
        BY <3>1, <3>2, <4>1, <4>2 DEF Has
    <3> QED
      BY <3>5, <3>6
  <2> QED
    BY <2>1, <2>2
<1> QED
  BY <1>7, <1>10, <1>11 DEF new

LEMMA InsertAgain ==
  ASSUME NEW V, NEW map \in Maps(V), NEW k \in Names, NEW v \in V, Has(map, k)
  PROVE  /\ MapInsert(map, k, v) \in Maps(V)
         /\ \A n \in Names : Has(MapInsert(map, k, v), n) <=> n = k \/ Has(map, n)
         /\ \A n \in Names : Has(MapInsert(map, k, v), n) =>
              Value(MapInsert(map, k, v), n) = IF n = k THEN v ELSE Value(map, n)
<1> DEFINE new == MapInsert(map, k, v)
           h == Hash[k]
           old == map.buckets[h]
           at == FirstMatch(old, k)
           changed == [old EXCEPT ![at] = Node(k, v)]
<1>0. Node(k, v) \in Nodes(V) /\ Node(k, v).key = k /\ Node(k, v).value = v
  BY DEF Node, Nodes
<1>1. h \in 0..(Buckets - 1) /\ old = Chain(map, k) /\ old \in Seq(Nodes(V))
  BY ChainType DEF Chain
<1>2. at \in DOMAIN old /\ old[at].key = k
  <2>1. PICK i \in Matching(Chain(map, k), k) : TRUE
    BY DEF Has
  <2> QED
    BY <1>1, <2>1, OneNode
<1>3. /\ changed \in Seq(Nodes(V))
      /\ DOMAIN changed = DOMAIN old
      /\ changed[at] = Node(k, v)
      /\ \A i \in DOMAIN old : i # at => changed[i] = old[i]
  BY <1>0, <1>1, <1>2
<1>4. /\ new = [buckets |-> [map.buckets EXCEPT ![h] = changed], inserted |-> map.inserted]
      /\ new.buckets = [map.buckets EXCEPT ![h] = changed]
  BY DEF MapInsert, Chain
<1> HIDE DEF changed
<1>5. \A i \in DOMAIN old : changed[i].key = old[i].key
  BY <1>0, <1>2, <1>3
<1>6. \A i, j \in DOMAIN old : old[i].key = old[j].key => i = j
  BY <1>1 DEF Maps
<1>7. new \in Maps(V)
  <2>1. /\ new.buckets \in [0..(Buckets - 1) -> Seq(Nodes(V))]
        /\ new \in [buckets : [0..(Buckets - 1) -> Seq(Nodes(V))], inserted : Nat]
    BY <1>1, <1>3, <1>4 DEF Maps
  <2>2. \A b \in 0..(Buckets - 1) : new.buckets[b] = IF b = h THEN changed ELSE map.buckets[b]
    BY <1>1, <1>4 DEF Maps
  <2> QED
    BY <1>3, <1>5, <1>6, <2>1, <2>2 DEF Maps
<1>8. \A n \in Names : Chain(new, n) = IF Hash[n] = h THEN changed ELSE Chain(map, n)
  BY <1>1, <1>4, HashAssumption DEF Chain, Maps
<1> HIDE DEF new
<1>9. \A n \in Names : Matching(Chain(new, n), n) = Matching(Chain(map, n), n)
  <2>1. ASSUME NEW n \in Names, Hash[n] = h
        PROVE  Matching(changed, n) = Matching(old, n)
    BY <1>3, <1>5 DEF Matching
  <2>2. \A n \in Names : Hash[n] = h => Chain(new, n) = changed /\ Chain(map, n) = old
    BY <1>8 DEF Chain
  <2> QED
    BY <1>8, <2>1, <2>2
<1>10. Has(new, k) /\ Value(new, k) = v
  <2>1. at \in Matching(Chain(new, k), k)
    BY <1>1, <1>2, <1>9 DEF Matching
  <2>2. Has(new, k) /\ Value(new, k) = Chain(new, k)[at].value
    BY <1>7, <2>1, OneNode
  <2> QED
    BY <1>0, <1>3, <1>8, <2>2
<1>11. ASSUME NEW n \in Names, n # k
       PROVE  /\ Has(new, n) <=> Has(map, n)
              /\ Has(new, n) => Value(new, n) = Value(map, n)
  <2>1. Has(new, n) <=> Has(map, n)
    BY <1>9 DEF Has
  <2>2. ASSUME NEW x \in Matching(Chain(map, n), n)
        PROVE  Value(new, n) = Value(map, n)
    <3>1. Value(new, n) = Chain(new, n)[x].value
      BY <1>7, <1>9, OneNode
    <3>2. /\ Value(map, n) = Chain(map, n)[x].value
          /\ x \in DOMAIN Chain(map, n) /\ Chain(map, n)[x].key = n
      BY OneNode
    <3>3. Chain(new, n)[x] = Chain(map, n)[x]
      BY <1>2, <1>3, <1>8, <1>11, <3>2 DEF Chain
    <3> QED
      BY <3>1, <3>2, <3>3
  <2> QED
    BY <2>1, <2>2 DEF Has
<1> QED
  BY <1>7, <1>10, <1>11 DEF new

(* What a map represents is what a function from names would: the key maps *)
(* to the new value, and every other name to what it had.                  *)
LEMMA MapInsertUpdates ==
  ASSUME NEW V, NEW map \in Maps(V), NEW k \in Names, NEW v \in V, NEW none
  PROVE  /\ MapInsert(map, k, v) \in Maps(V)
         /\ Represents(MapInsert(map, k, v), none) = [Represents(map, none) EXCEPT ![k] = v]
         /\ Has(MapInsert(map, k, v), k)
         /\ \A n \in Names : Has(map, n) => Has(MapInsert(map, k, v), n)
         /\ Value(MapInsert(map, k, v), k) = v
         /\ \A n \in Names : n # k /\ Has(MapInsert(map, k, v), n) =>
              Has(map, n) /\ Value(MapInsert(map, k, v), n) = Value(map, n)
<1> DEFINE new == MapInsert(map, k, v)
<1>1. /\ new \in Maps(V)
      /\ \A n \in Names : Has(new, n) <=> n = k \/ Has(map, n)
      /\ \A n \in Names : Has(new, n) =>
           Value(new, n) = IF n = k THEN v ELSE Value(map, n)
  BY InsertNew, InsertAgain
<1> HIDE DEF new
<1>2. Represents(new, none) = [Represents(map, none) EXCEPT ![k] = v]
  BY <1>1 DEF Represents
<1> QED
  BY <1>1, <1>2 DEF new

LEMMA EmptyMapRepresents ==
  ASSUME NEW none
  PROVE  Represents(EmptyMap, none) = [n \in Names |-> none]
  BY EmptyMapIsEmpty DEF Represents

LEMMA MapFreeRepresents ==
  ASSUME NEW V, NEW map \in Maps(V), NEW none
  PROVE  Represents(MapFree(map), none) = [n \in Names |-> none]
  BY MapFreeEmpties DEF Represents

-----------------------------------------------------------------------------
(* Scopes and registry *)

Tables == [tokens : Maps(Table!Tokens), next : [Table!Kinds -> Nat]]

TypeOK ==
  /\ scopes \in Seq(Tables) /\ Len(scopes) > 0
  /\ registered \in Maps(Nat)
  /\ methods \in Seq(Maps(Signatures))

(* Every class has a map of its own among the methods, and the class that   *)
(* is being filled has the newest.                                         *)
OwnMethods ==
  /\ \A c \in Names : Has(registered, c) => Value(registered, c) \in 1..Len(methods)
  /\ open # None =>
       /\ open \in Names /\ Has(registered, open)
       /\ Value(registered, open) = Len(methods)
       /\ \A c \in Names \ {open} : Has(registered, c) => Value(registered, c) # Len(methods)

IInv == TypeOK /\ OwnMethods

(* The values NameTables' variables get. *)
Chains == [d \in 1..Len(scopes) |-> ScopeOf(scopes[d])]
Classes == [c \in Names |-> IF Has(registered, c) THEN Represents(MethodsOf(c), None) ELSE None]

LEMMA NewTableType == NewTable \in Tables /\ ScopeOf(NewTable) = Promised!NewScope
<1>1. NewTable \in Tables
  BY EmptyMapIsEmpty DEF NewTable, Tables
<1>2. Represents(EmptyMap, Table!Absent) = Promised!NoTokens
  BY EmptyMapRepresents DEF Table!Absent, Promised!NoTokens, Promised!Absent
<1> QED
  BY <1>1, <1>2 DEF NewTable, ScopeOf, Promised!NewScope, Table!Kinds, Promised!Kinds

LEMMA TokenType ==
  ASSUME TypeOK, NEW k \in Table!Kinds
  PROVE  Top \in Tables /\ Token(k) \in Table!Tokens
<1>1. Top \in Tables
  BY DEF TypeOK, Top
<1> QED
  BY <1>1 DEF Tables, Token, Table!Tokens

(* A name is in a scope's map if and only if it has a token there. *)
LEMMA TokenOfName ==
  ASSUME NEW table \in Tables, NEW n \in Names
  PROVE  /\ ScopeOf(table).next = table.next
         /\ Promised!ExistsLocal(ScopeOf(table), n) <=> Has(table.tokens, n)
         /\ Has(table.tokens, n) => ScopeOf(table).tokens[n] = Value(table.tokens, n)
<1>1. table.tokens \in Maps(Table!Tokens)
  BY DEF Tables
<1>2. ScopeOf(table).tokens[n] = IF Has(table.tokens, n) THEN Value(table.tokens, n)
                                                          ELSE Table!Absent
  BY DEF ScopeOf, Represents
<1>3. Has(table.tokens, n) => Value(table.tokens, n) # Table!Absent
  <2>1. Has(table.tokens, n) => Value(table.tokens, n) \in Table!Tokens
    BY <1>1, ValueType
  <2> QED
    BY <2>1 DEF Table!Tokens, Table!Absent, Table!Kinds
<1> QED
  BY <1>2, <1>3 DEF ScopeOf, Promised!ExistsLocal, Promised!Absent, Table!Absent

-----------------------------------------------------------------------------
(* The invariant *)

LEMMA InitInvariant == Init => IInv
<1> SUFFICES ASSUME Init PROVE IInv
  OBVIOUS
<1>1. scopes = <<NewTable>> /\ NewTable \in Tables
  BY NewTableType DEF Init
<1>2. scopes \in Seq(Tables) /\ Len(scopes) > 0
  BY <1>1
<1>3. registered \in Maps(Nat) /\ \A c \in Names : ~ Has(registered, c)
  BY EmptyMapIsEmpty DEF Init
<1>4. methods \in Seq(Maps(Signatures))
  BY DEF Init
<1> QED
  BY <1>2, <1>3, <1>4 DEF Init, IInv, TypeOK, OwnMethods

LEMMA RegistryUntouched ==
  ASSUME IInv, UNCHANGED registryVars, scopes' \in Seq(Tables), Len(scopes') > 0
  PROVE  IInv'
  BY DEF IInv, TypeOK, OwnMethods, registryVars

LEMMA PushKeeps == IInv /\ Push => IInv'
<1> SUFFICES ASSUME IInv, Push PROVE IInv'
  OBVIOUS
<1>1. scopes' \in Seq(Tables) /\ Len(scopes') > 0
  BY NewTableType DEF IInv, TypeOK, Push
<1> QED
  BY <1>1, RegistryUntouched DEF Push

LEMMA PopKeeps == IInv /\ Pop => IInv'
<1> SUFFICES ASSUME IInv, Pop PROVE IInv'
  OBVIOUS
<1>1. scopes' \in Seq(Tables) /\ Len(scopes') > 0
  BY DEF IInv, TypeOK, Pop
<1> QED
  BY <1>1, RegistryUntouched DEF Pop

LEMMA ResetKeeps == IInv /\ Reset => IInv'
<1> SUFFICES ASSUME IInv, Reset PROVE IInv'
  OBVIOUS
<1> DEFINE cleared == [Top.next EXCEPT !["field"] = 0, !["local"] = 0]
           emptied == [tokens |-> MapFree(Top.tokens), next |-> cleared]
<1>1. Top \in Tables
  BY DEF IInv, TypeOK, Top
<1>2. MapFree(Top.tokens) \in Maps(Table!Tokens) /\ cleared \in [Table!Kinds -> Nat]
  BY <1>1, MapFreeEmpties DEF Tables
<1>3. emptied \in Tables
  BY <1>2 DEF Tables
<1>4. scopes' = <<emptied>>
  BY DEF Reset
<1>5. scopes' \in Seq(Tables) /\ Len(scopes') > 0
  BY <1>3, <1>4
<1> QED
  BY <1>5, RegistryUntouched DEF Reset

LEMMA DeclareKeeps == ASSUME IInv, NEW n \in Names, NEW k \in Table!Kinds, Declare(n, k)
                      PROVE  IInv' /\ Extended(n, k) \in Tables
<1>1. Top \in Tables /\ Token(k) \in Table!Tokens
  BY TokenType DEF IInv
<1>2. MapInsert(Top.tokens, n, Token(k)) \in Maps(Table!Tokens)
  BY <1>1, MapInsertUpdates DEF Tables
<1>3. Extended(n, k) \in Tables
  BY <1>1, <1>2 DEF Tables, Extended
<1>4. scopes' = IF Has(Top.tokens, n) THEN scopes ELSE [scopes EXCEPT ![Len(scopes)] = Extended(n, k)]
  BY DEF Declare
<1>5. scopes' \in Seq(Tables) /\ Len(scopes') > 0
  BY <1>3, <1>4 DEF IInv, TypeOK
<1> QED
  BY <1>3, <1>5, RegistryUntouched DEF Declare

LEMMA LookUpKeeps == ASSUME IInv, NEW n \in Names, LookUp(n) PROVE IInv'
  BY RegistryUntouched DEF LookUp, IInv, TypeOK

LEMMA LookUpMethodKeeps == ASSUME IInv, NEW c \in Names, NEW m \in Names, LookUpMethod(c, m)
                           PROVE  IInv'
  BY RegistryUntouched DEF LookUpMethod, IInv, TypeOK

LEMMA RegisterKeeps == ASSUME IInv, NEW c \in Names, Register(c) PROVE IInv'
<1>1. CASE Has(registered, c)
  BY <1>1, RegistryUntouched DEF Register, IInv, TypeOK
<1>2. CASE ~ Has(registered, c)
  <2>1. /\ methods' = Append(methods, EmptyMap)
        /\ registered' = MapInsert(registered, c, Len(methods) + 1)
        /\ open' = c /\ scopes' = scopes
    BY <1>2 DEF Register
  <2>2. methods' \in Seq(Maps(Signatures)) /\ Len(methods') = Len(methods) + 1 /\ Len(methods) \in Nat
    BY <2>1, EmptyMapIsEmpty DEF IInv, TypeOK
  <2>3. /\ registered' \in Maps(Nat) /\ Has(registered', c)
        /\ Value(registered', c) = Len(methods')
        /\ \A d \in Names : d # c /\ Has(registered', d) =>
             Has(registered, d) /\ Value(registered', d) = Value(registered, d)
    BY <2>1, <2>2, MapInsertUpdates DEF IInv, TypeOK
  <2>4. TypeOK'
    BY <2>1, <2>2, <2>3 DEF IInv, TypeOK
  <2>5. \A d \in Names : d # c /\ Has(registered', d) => Value(registered', d) \in 1..Len(methods)
    BY <2>3 DEF IInv, OwnMethods
  <2>6. OwnMethods'
    BY <2>1, <2>2, <2>3, <2>5 DEF OwnMethods
  <2> QED
    BY <2>4, <2>6 DEF IInv
<1> QED
  BY <1>1, <1>2

LEMMA NewestMethods ==
  ASSUME IInv, open # None
  PROVE  Len(methods) \in DOMAIN methods /\ methods[Len(methods)] \in Maps(Signatures)
  BY DEF IInv, TypeOK, OwnMethods

LEMMA AddMethodKeeps == ASSUME IInv, NEW m \in Names, NEW s \in Signatures, AddMethod(m, s)
                        PROVE  IInv'
<1> DEFINE filled == MapInsert(methods[Len(methods)], m, s)
<1>1. filled \in Maps(Signatures)
  BY NewestMethods, MapInsertUpdates DEF AddMethod
<1>2. /\ methods' = [methods EXCEPT ![Len(methods)] = filled]
      /\ scopes' = scopes /\ registered' = registered /\ open' = open
  BY DEF AddMethod
<1> HIDE DEF filled
<1>3. methods' \in Seq(Maps(Signatures)) /\ Len(methods') = Len(methods)
  <2>1. methods \in Seq(Maps(Signatures)) /\ Len(methods) \in 1..Len(methods)
    BY NewestMethods DEF AddMethod, IInv, TypeOK
  <2> QED
    BY <1>1, <1>2, <2>1
<1> QED
  BY <1>2, <1>3 DEF IInv, TypeOK, OwnMethods

LEMMA NextKeeps == IInv /\ [Next]_vars => IInv'
<1> SUFFICES ASSUME IInv, [Next]_vars PROVE IInv'
  OBVIOUS
<1>1. CASE Next
  BY <1>1, PushKeeps, PopKeeps, ResetKeeps, DeclareKeeps, LookUpKeeps, RegisterKeeps,
     AddMethodKeeps, LookUpMethodKeeps DEF Next
<1>2. CASE UNCHANGED vars
  BY <1>2, RegistryUntouched DEF vars, registryVars, IInv, TypeOK
<1> QED
  BY <1>1, <1>2

(* Classes never share the map of their subroutines, so that what is        *)
(* inserted for the class being visited is inserted for no other: the       *)
(* registry's map holds a copy of the class's symbol, whose own map is     *)
(* filled after the copy was made.                                         *)
THEOREM Invariance == Spec => []IInv
<1> QED
  BY InitInvariant, NextKeeps, PTL DEF Spec

-----------------------------------------------------------------------------
(* The refinement *)

LEMMA InitRefines == Init => Promised!Init
<1> SUFFICES ASSUME Init PROVE Promised!Init
  OBVIOUS
<1>1. Chains = <<Promised!NewScope>>
  BY NewTableType DEF Init, Chains
<1>2. Classes = [c \in Names |-> None]
  BY EmptyMapIsEmpty DEF Init, Classes
<1> QED
  BY <1>1, <1>2 DEF Init, Promised!Init, Chains, Classes

LEMMA PushRefines == ASSUME IInv, Push PROVE Promised!Push
<1>1. Chains' = Append(Chains, Promised!NewScope)
  <2>1. /\ scopes' = Append(scopes, NewTable) /\ Len(scopes) \in Nat
        /\ scopes \in Seq(Tables) /\ NewTable \in Tables
    BY NewTableType DEF Push, IInv, TypeOK
  <2>2. /\ Len(scopes') = Len(scopes) + 1
        /\ \A d \in 1..Len(scopes') : scopes'[d] = IF d = Len(scopes') THEN NewTable ELSE scopes[d]
    BY <2>1
  <2>3. Chains' = [d \in 1..(Len(scopes) + 1) |-> IF d = Len(scopes) + 1 THEN ScopeOf(NewTable)
                                                                          ELSE ScopeOf(scopes[d])]
    BY <2>2 DEF Chains, ScopeOf
  <2> QED
    BY <2>1, <2>3, NewTableType DEF Chains
<1>2. UNCHANGED <<Classes, open, answer>>
  BY DEF Push, registryVars, Classes, MethodsOf
<1> QED
  BY <1>1, <1>2 DEF Promised!Push, Promised!PushScope, Chains, Classes

LEMMA PopRefines == ASSUME IInv, Pop PROVE Promised!Pop
<1>1. Len(Chains) > 1 /\ Chains' = SubSeq(Chains, 1, Len(Chains) - 1)
  <2>1. /\ scopes' = SubSeq(scopes, 1, Len(scopes) - 1) /\ Len(scopes) \in Nat /\ Len(scopes) > 1
        /\ scopes \in Seq(Tables)
    BY DEF Pop, IInv, TypeOK
  <2>2. Len(scopes') = Len(scopes) - 1 /\ \A d \in 1..Len(scopes') : scopes'[d] = scopes[d]
    BY <2>1
  <2>3. Chains' = [d \in 1..(Len(scopes) - 1) |-> ScopeOf(scopes[d])]
    BY <2>2 DEF Chains, ScopeOf
  <2>4. Len(Chains) = Len(scopes)
    BY <2>1 DEF Chains
  <2> QED
    BY <2>1, <2>3, <2>4 DEF Chains
<1>2. UNCHANGED <<Classes, open, answer>>
  BY DEF Pop, registryVars, Classes, MethodsOf
<1> QED
  BY <1>1, <1>2 DEF Promised!Pop, Promised!PopScope, Chains, Classes

LEMMA ResetRefines == ASSUME IInv, Reset PROVE Promised!Reset
<1> DEFINE cleared == [Top.next EXCEPT !["field"] = 0, !["local"] = 0]
           emptied == [tokens |-> MapFree(Top.tokens), next |-> cleared]
<1>1. Len(scopes) = 1 /\ scopes' = <<emptied>> /\ answer' = [reset |-> TRUE]
  BY DEF Reset
<1>2. Top \in Tables /\ Top = scopes[1]
  <2>1. scopes \in Seq(Tables) /\ Len(scopes) = 1
    BY DEF Reset, IInv, TypeOK
  <2> QED
    BY <2>1 DEF Top
<1>3. Represents(MapFree(Top.tokens), Table!Absent) = Promised!NoTokens
  BY <1>2, MapFreeRepresents DEF Tables, Table!Absent, Promised!NoTokens, Promised!Absent
<1>4. Chains[1].next = Top.next /\ Len(Chains) = 1
  BY <1>1, <1>2 DEF Chains, ScopeOf
<1>5. ScopeOf(emptied) = Promised!ResetLocalState(Chains[1])
  BY <1>3, <1>4 DEF ScopeOf, Promised!ResetLocalState
<1>6. Len(scopes') = 1 /\ scopes'[1] = emptied
  BY <1>1
<1> HIDE DEF emptied
<1>7. Chains' = <<Promised!ResetLocalState(Chains[1])>>
  BY <1>5, <1>6 DEF Chains, ScopeOf
<1>8. UNCHANGED <<Classes, open>>
  BY DEF Reset, registryVars, Classes, MethodsOf
<1> QED
  BY <1>1, <1>4, <1>7, <1>8 DEF Promised!Reset, Chains, Classes

(* A set of places in the chain has an innermost one. *)
LEMMA LastPlace ==
  ASSUME NEW n \in Nat, NEW S \in SUBSET (1..n), S # {}
  PROVE  \E d \in S : \A e \in S : e <= d
<1> DEFINE T == {n - d : d \in S}
<1>1. T \subseteq Nat /\ T # {}
  <2>1. \A d \in S : d \in 1..n
    OBVIOUS
  <2>2. ASSUME NEW d \in 1..n PROVE n - d \in Nat
    OBVIOUS
  <2>3. PICK d \in S : TRUE
    OBVIOUS
  <2>4. n - d \in T
    BY <2>3
  <2> QED
    BY <2>1, <2>2, <2>4
<1>2. PICK x \in T : \A y \in T : ~ (<<y, x>> \in OpToRel(<, Nat))
  BY <1>1, WFMin, NatLessThanWellFounded
<1>3. \A y \in T : ~ (y < x)
  BY <1>1, <1>2 DEF OpToRel
<1>4. PICK d \in S : x = n - d
  BY <1>2
<1>5. \A e \in S : e <= d
  BY <1>3, <1>4
<1> QED
  BY <1>5

LEMMA LookUpRefines == ASSUME IInv, NEW n \in Names, LookUp(n) PROVE Promised!LookUp(n)
<1>1. scopes \in Seq(Tables) /\ Len(scopes) \in Nat /\ DOMAIN scopes = 1..Len(scopes)
  BY DEF IInv, TypeOK
<1>2. \A d \in 1..Len(scopes) : scopes[d] \in Tables /\ Chains[d] = ScopeOf(scopes[d])
  BY <1>1 DEF Chains
<1>3. Promised!Knowing(Chains, n) = Knowing(n)
  BY <1>1, <1>2, TokenOfName DEF Promised!Knowing, Knowing, Chains
<1>4. Promised!Find(Chains, n) =
        IF Knowing(n) = {} THEN Table!Absent ELSE Value(scopes[Innermost(n)].tokens, n)
  <2>1. CASE Knowing(n) = {}
    BY <1>3, <2>1 DEF Promised!Find, Promised!Absent, Table!Absent
  <2>2. CASE Knowing(n) # {}
    <3>1. \E d \in Knowing(n) : \A e \in Knowing(n) : e <= d
      BY <1>1, <2>2, LastPlace DEF Knowing
    <3>2. Innermost(n) \in Knowing(n)
      BY <3>1 DEF Innermost
    <3>3. Promised!Find(Chains, n) = Chains[Innermost(n)].tokens[n]
      BY <1>3, <2>2 DEF Promised!Find, Innermost
    <3>4. Innermost(n) \in 1..Len(scopes) /\ Has(scopes[Innermost(n)].tokens, n)
      BY <1>1, <3>2 DEF Knowing
    <3>5. Chains[Innermost(n)].tokens[n] = Value(scopes[Innermost(n)].tokens, n)
      BY <1>2, <3>4, TokenOfName
    <3> QED
      BY <2>2, <3>3, <3>5
  <2> QED
    BY <2>1, <2>2
<1>5. answer' = [token |-> Promised!Find(Chains, n)]
  BY <1>4 DEF LookUp
<1>6. UNCHANGED <<Chains, Classes, open>>
  BY DEF LookUp, registryVars, Chains, Classes, MethodsOf
<1> QED
  BY <1>5, <1>6 DEF Promised!LookUp, Chains, Classes

LEMMA DeclareRefines ==
  ASSUME IInv, NEW n \in Names, NEW k \in Table!Kinds, Declare(n, k)
  PROVE  Promised!Declare(n, k)
<1>1. /\ scopes \in Seq(Tables) /\ Len(scopes) \in Nat /\ Len(scopes) > 0
      /\ Top \in Tables /\ Top.tokens \in Maps(Table!Tokens) /\ Token(k) \in Table!Tokens
  BY TokenType DEF IInv, TypeOK, Tables
<1>2. Len(Chains) = Len(scopes) /\ Chains[Len(Chains)] = ScopeOf(Top)
  BY <1>1 DEF Chains, Top
<1>3. Promised!InsertFails(Chains, n) <=> Has(Top.tokens, n)
  BY <1>1, <1>2, TokenOfName DEF Promised!InsertFails
<1>4. ScopeOf(Extended(n, k)) = Promised!AddToken(ScopeOf(Top), n, k)
  <2>1. Represents(MapInsert(Top.tokens, n, Token(k)), Table!Absent)
          = [Represents(Top.tokens, Table!Absent) EXCEPT ![n] = Token(k)]
    BY <1>1, MapInsertUpdates
  <2> QED
    BY <2>1 DEF ScopeOf, Extended, Promised!AddToken, Token
<1>5. Chains' = Promised!Insert(Chains, n, k)
  <2>1. CASE Has(Top.tokens, n)
    <3>1. Chains' = Chains
      BY <2>1 DEF Declare, Chains, ScopeOf
    <3>2. Promised!ExistsLocal(Chains[Len(Chains)], n)
      BY <1>3, <2>1 DEF Promised!InsertFails
    <3>3. Promised!Insert(Chains, n, k) = [Chains EXCEPT ![Len(Chains)] = Chains[Len(Chains)]]
      BY <3>2 DEF Promised!Insert
    <3> QED
      BY <3>1, <3>3 DEF Chains
  <2>2. CASE ~ Has(Top.tokens, n)
    <3>1. scopes' = [scopes EXCEPT ![Len(scopes)] = Extended(n, k)]
      BY <2>2 DEF Declare
    <3>2. Chains' = [Chains EXCEPT ![Len(scopes)] = ScopeOf(Extended(n, k))]
      <4>1. /\ Len(scopes') = Len(scopes)
            /\ \A d \in 1..Len(scopes) : scopes'[d] = IF d = Len(scopes) THEN Extended(n, k)
                                                                           ELSE scopes[d]
        BY <1>1, <3>1
      <4>2. Chains' = [d \in 1..Len(scopes) |-> IF d = Len(scopes) THEN ScopeOf(Extended(n, k))
                                                                     ELSE ScopeOf(scopes[d])]
        BY <4>1 DEF Chains, ScopeOf
      <4> QED
        BY <4>2 DEF Chains
    <3>3. ~ Promised!ExistsLocal(Chains[Len(Chains)], n)
      BY <1>3, <2>2 DEF Promised!InsertFails
    <3>4. Promised!Insert(Chains, n, k)
            = [Chains EXCEPT ![Len(Chains)] = Promised!AddToken(Chains[Len(Chains)], n, k)]
      BY <3>3 DEF Promised!Insert
    <3> QED
      BY <1>2, <1>4, <3>2, <3>4
  <2> QED
    BY <2>1, <2>2
<1>6. answer' = [exists |-> Promised!InsertFails(Chains, n)]
  BY <1>3 DEF Declare, Has, Promised!InsertFails, Promised!ExistsLocal
<1>7. UNCHANGED <<Classes, open>>
  BY DEF Declare, registryVars, Classes, MethodsOf
<1> QED
  BY <1>5, <1>6, <1>7 DEF Promised!Declare, Chains, Classes

(* What is known of a class: a table of its subroutines, or None. *)
LEMMA ClassKnown ==
  ASSUME IInv, NEW c \in Names
  PROVE  /\ Classes[c] # None <=> Has(registered, c)
         /\ Has(registered, c) => /\ Classes[c] = Represents(MethodsOf(c), None)
                                  /\ MethodsOf(c) \in Maps(Signatures)
<1>1. ASSUME Has(registered, c) PROVE MethodsOf(c) \in Maps(Signatures)
  <2>1. methods \in Seq(Maps(Signatures)) /\ Value(registered, c) \in 1..Len(methods)
    BY <1>1 DEF IInv, TypeOK, OwnMethods
  <2> QED
    BY <2>1 DEF MethodsOf
<1>2. ASSUME Has(registered, c) PROVE Represents(MethodsOf(c), None) # None
  <2>1. \A m \in Names : Has(MethodsOf(c), m) => Value(MethodsOf(c), m) \in Signatures
    BY <1>1, <1>2, ValueType
  <2>2. Represents(MethodsOf(c), None) \in [Names -> Signatures \cup {None}]
    BY <2>1 DEF Represents
  <2> QED
    BY <2>2, NoneAssumption
<1>3. Classes[c] = IF Has(registered, c) THEN Represents(MethodsOf(c), None) ELSE None
  BY DEF Classes
<1> QED
  BY <1>1, <1>2, <1>3

LEMMA LookUpMethodRefines ==
  ASSUME IInv, NEW c \in Names, NEW m \in Names, LookUpMethod(c, m)
  PROVE  Promised!LookUpMethod(c, m)
<1>1. answer' = [method |-> IF Classes[c] = None THEN None ELSE Classes[c][m]]
  <2>1. CASE ~ Has(registered, c)
    BY <2>1, ClassKnown DEF LookUpMethod
  <2>2. CASE Has(registered, c)
    <3>1. Classes[c] # None /\ Classes[c] = Represents(MethodsOf(c), None)
      BY <2>2, ClassKnown
    <3>2. Classes[c][m] = IF Has(MethodsOf(c), m) THEN Value(MethodsOf(c), m) ELSE None
      BY <3>1 DEF Represents
    <3> QED
      BY <2>2, <3>1, <3>2 DEF LookUpMethod
  <2> QED
    BY <2>1, <2>2
<1>2. UNCHANGED <<Chains, Classes, open>>
  BY DEF LookUpMethod, registryVars, Chains, Classes, MethodsOf
<1> QED
  BY <1>1, <1>2 DEF Promised!LookUpMethod, Chains, Classes

LEMMA RegisterRefines == ASSUME IInv, NEW c \in Names, Register(c) PROVE Promised!Register(c)
<1>1. answer' = [exists |-> Classes[c] # None] /\ Chains' = Chains
  BY ClassKnown DEF Register, Chains, Has
<1>2. CASE Has(registered, c)
  <2>1. Classes' = Classes /\ open' = open
    BY <1>2 DEF Register, registryVars, Classes, MethodsOf
  <2>2. Classes[c] # None
    BY <1>2, ClassKnown
  <2> QED
    BY <1>1, <2>1, <2>2 DEF Promised!Register, Chains, Classes
<1>3. CASE ~ Has(registered, c)
  <2>1. /\ methods' = Append(methods, EmptyMap) /\ open' = c
        /\ registered' = MapInsert(registered, c, Len(methods) + 1)
        /\ methods \in Seq(Maps(Signatures)) /\ registered \in Maps(Nat) /\ Len(methods) \in Nat
    BY <1>3 DEF Register, IInv, TypeOK
  <2>2. /\ Has(registered', c) /\ Value(registered', c) = Len(methods) + 1
        /\ \A d \in Names : Has(registered, d) => Has(registered', d)
        /\ \A d \in Names : d # c /\ Has(registered', d) =>
             Has(registered, d) /\ Value(registered', d) = Value(registered, d)
    BY <2>1, MapInsertUpdates
  <2>3. MethodsOf(c)' = EmptyMap
    BY <2>1, <2>2, EmptyMapIsEmpty DEF MethodsOf
  <2>4. ASSUME NEW d \in Names, d # c, Has(registered, d) PROVE MethodsOf(d)' = MethodsOf(d)
    <3>1. Value(registered, d) \in 1..Len(methods) /\ Value(registered', d) = Value(registered, d)
      BY <2>2, <2>4 DEF IInv, OwnMethods
    <3>2. \A i \in 1..Len(methods) : methods'[i] = methods[i]
      BY <2>1, EmptyMapIsEmpty
    <3> QED
      BY <3>1, <3>2 DEF MethodsOf
  <2>5. Classes'[c] = [m \in Names |-> None]
    BY <2>2, <2>3, EmptyMapRepresents DEF Classes
  <2>6. \A d \in Names : d # c => Classes'[d] = Classes[d]
    BY <2>2, <2>4 DEF Classes
  <2>7. Classes' = [Classes EXCEPT ![c] = [m \in Names |-> None]]
    <3>1. Classes' = [d \in Names |-> Classes'[d]] /\ DOMAIN Classes = Names
      BY DEF Classes
    <3> QED
      BY <2>5, <2>6, <3>1 DEF Classes
  <2>8. ~ (Classes[c] # None)
    BY <1>3, ClassKnown
  <2> QED
    BY <1>1, <2>1, <2>7, <2>8 DEF Promised!Register, Chains, Classes
<1> QED
  BY <1>2, <1>3

LEMMA AddMethodRefines ==
  ASSUME IInv, NEW m \in Names, NEW s \in Signatures, AddMethod(m, s)
  PROVE  Promised!AddMethod(m, s)
<1> DEFINE filled == MapInsert(methods[Len(methods)], m, s)
<1>1. /\ open # None /\ methods' = [methods EXCEPT ![Len(methods)] = filled]
      /\ scopes' = scopes /\ registered' = registered /\ open' = open
      /\ answer' = [put |-> m, as |-> s]
  BY DEF AddMethod
<1>2. /\ methods \in Seq(Maps(Signatures)) /\ Len(methods) \in 1..Len(methods)
      /\ methods[Len(methods)] \in Maps(Signatures)
  BY <1>1, NewestMethods DEF IInv, TypeOK
<1>3. Represents(filled, None) = [Represents(methods[Len(methods)], None) EXCEPT ![m] = s]
  BY <1>2, MapInsertUpdates
<1> HIDE DEF filled
<1>4. /\ open \in Names /\ Has(registered, open) /\ Value(registered, open) = Len(methods)
      /\ \A c \in Names \ {open} : Has(registered, c) =>
           Value(registered, c) \in 1..Len(methods) /\ Value(registered, c) # Len(methods)
  BY <1>1 DEF IInv, OwnMethods
<1>5. Classes[open] = Represents(methods[Len(methods)], None)
  BY <1>4 DEF Classes, MethodsOf
<1>6. MethodsOf(open)' = filled
  BY <1>1, <1>2, <1>4 DEF MethodsOf
<1>7. Classes'[open] = [Classes[open] EXCEPT ![m] = s]
  BY <1>1, <1>3, <1>4, <1>5, <1>6 DEF Classes
<1>8. ASSUME NEW c \in Names, c # open PROVE Classes'[c] = Classes[c]
  <2>1. Has(registered, c) => MethodsOf(c)' = MethodsOf(c)
    BY <1>1, <1>2, <1>4, <1>8 DEF MethodsOf
  <2> QED
    BY <1>1, <2>1 DEF Classes
<1>9. Classes' = [Classes EXCEPT ![open] = [Classes[open] EXCEPT ![m] = s]]
  <2>1. Classes' = [d \in Names |-> Classes'[d]] /\ DOMAIN Classes = Names
    BY DEF Classes
  <2> QED
    BY <1>7, <1>8, <2>1 DEF Classes
<1>10. Chains' = Chains
  BY <1>1 DEF Chains
<1> QED
  BY <1>1, <1>9, <1>10 DEF Promised!AddMethod, Chains, Classes

LEMMA NextRefines == IInv /\ [Next]_vars => [Promised!Next]_(Promised!vars)
<1> SUFFICES ASSUME IInv, [Next]_vars PROVE [Promised!Next]_(Promised!vars)
  OBVIOUS
<1>1. Promised!Kinds = Table!Kinds
  BY DEF Promised!Kinds, Table!Kinds
<1>2. CASE Next
  BY <1>1, <1>2, PushRefines, PopRefines, ResetRefines, DeclareRefines, LookUpRefines,
     RegisterRefines, AddMethodRefines, LookUpMethodRefines DEF Next, Promised!Next
<1>3. CASE UNCHANGED vars
  BY <1>3 DEF vars, Promised!vars, MethodsOf
<1> QED
  BY <1>2, <1>3

(* Scopes and registry implement the tables that the compiler's passes take *)
(* them for, whatever the hash function and the number of buckets: a freed *)
(* map that a scope goes on with is as good as a new one, and the chains   *)
(* hold a key at most once, so that insertion and search meet the same     *)
(* node.                                                                   *)
THEOREM Implementation == Spec => ImplementsTables
<1> QED
  BY Invariance, InitRefines, NextRefines, PTL DEF Spec, ImplementsTables, Promised!Spec

=============================================================================
