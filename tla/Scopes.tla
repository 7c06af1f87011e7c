------------------------------- MODULE Scopes -------------------------------
(***************************************************************************)
(* Scopes and function registry as they are stored: a hash map for every   *)
(* scope, one for the classes, and one for the subroutines of each class,  *)
(* which the class's entry points to.                                      *)
(***************************************************************************)
EXTENDS HashMap

CONSTANTS Signatures, None,
          MaxDepth,     (* bound: scopes                                      *)
          MaxNodes      (* bound: nodes of all maps                           *)

(* A class's table of subroutines is told from a class that is not there.   *)
ASSUME NoneAssumption == None \notin [Names -> Signatures \cup {None}] /\ None \notin Signatures

VARIABLES scopes,       (* sym_table: map and counters, the innermost last    *)
          registered,   (* function_registry: class -> index of its methods   *)
          methods,      (* class_symbol: the maps of the classes' methods     *)
          open, answer, (* see NameTables                                     *)
          made          (* nodes allocated: the arena gets none of them back  *)

vars == <<scopes, registered, methods, open, answer, made>>

Table == INSTANCE SymbolTable

NewTable == [tokens |-> EmptyMap, next |-> [k \in Table!Kinds |-> 0]]

Init ==
  /\ scopes = <<NewTable>>
  /\ registered = EmptyMap /\ methods = <<>>
  /\ open = None /\ answer = None /\ made = 0

(* The node that an insertion allocates if the map does not have the key.   *)
Allocate(map, k) ==
  /\ made < MaxNodes
  /\ made' = IF Has(map, k) THEN made ELSE made + 1

registryVars == <<registered, methods, open>>

Top == scopes[Len(scopes)]

(* sym_table_push *)
Push ==
  /\ Len(scopes) < MaxDepth
  /\ scopes' = Append(scopes, NewTable)
  /\ UNCHANGED <<registryVars, answer, made>>

(* sym_table_pop: the memory of the map is not handed out again.            *)
Pop ==
  /\ Len(scopes) > 1
  /\ scopes' = SubSeq(scopes, 1, Len(scopes) - 1)
  /\ UNCHANGED <<registryVars, answer, made>>

(* sym_table_reset_local_state: the scope goes on with the freed map.       *)
Reset ==
  /\ Len(scopes) = 1
  /\ scopes' = <<[tokens |-> MapFree(Top.tokens),
                  next   |-> [Top.next EXCEPT !["field"] = 0, !["local"] = 0]]>>
  /\ answer' = [reset |-> TRUE]
  /\ UNCHANGED <<registryVars, made>>

Token(k) == [kind |-> k, idx |-> Top.next[k]]

Extended(n, k) ==
  [tokens |-> MapInsert(Top.tokens, n, Token(k)),
   next   |-> [Top.next EXCEPT ![k] = @ + 1]]

(* sym_table_insert *)
Declare(n, k) ==
  /\ Allocate(Top.tokens, n)
  /\ answer' = [exists |-> Has(Top.tokens, n)]
  /\ scopes' = IF Has(Top.tokens, n) THEN scopes
               ELSE [scopes EXCEPT ![Len(scopes)] = Extended(n, k)]
  /\ UNCHANGED registryVars

Knowing(n) == {d \in DOMAIN scopes : Has(scopes[d].tokens, n)}

(* Where the walk from the innermost scope outwards finds a name. *)
Innermost(n) == CHOOSE d \in Knowing(n) : \A e \in Knowing(n) : e <= d

(* sym_table_find *)
LookUp(n) ==
  /\ answer' = [token |-> IF Knowing(n) = {} THEN Table!Absent
                           ELSE Value(scopes[Innermost(n)].tokens, n)]
  /\ UNCHANGED <<scopes, registryVars, made>>

(* function_registry_insert as far as the class's own entry, whose copy     *)
(* refers to the map that is filled only then.                             *)
Register(c) ==
  /\ Allocate(registered, c)
  /\ answer' = [exists |-> Has(registered, c)]
  /\ IF Has(registered, c) THEN UNCHANGED registryVars
     ELSE /\ methods' = Append(methods, EmptyMap)
          /\ registered' = MapInsert(registered, c, Len(methods) + 1)
          /\ open' = c
  /\ UNCHANGED scopes

(* One turn of its loop over the class's subroutines *)
AddMethod(m, s) ==
  /\ open # None /\ Allocate(methods[Len(methods)], m)
  /\ methods' = [methods EXCEPT ![Len(methods)] = MapInsert(@, m, s)]
  /\ answer' = [put |-> m, as |-> s]
  /\ UNCHANGED <<scopes, registered, open>>

MethodsOf(c) == methods[Value(registered, c)]

(* function_registry_find *)
LookUpMethod(c, m) ==
  /\ answer' = [method |-> IF Has(registered, c) /\ Has(MethodsOf(c), m)
                            THEN Value(MethodsOf(c), m) ELSE None]
  /\ UNCHANGED <<scopes, registryVars, made>>

Next ==
  \/ Push \/ Pop \/ Reset
  \/ \E n \in Names : LookUp(n) \/ Register(n) \/ \E k \in Table!Kinds : Declare(n, k)
  \/ \E m \in Names : (\E s \in Signatures : AddMethod(m, s)) \/ (\E c \in Names : LookUpMethod(c, m))

Spec == Init /\ [][Next]_vars

-----------------------------------------------------------------------------
(* Properties *)

Represents(map, none) == [k \in Names |-> IF Has(map, k) THEN Value(map, k) ELSE none]

ScopeOf(table) == [tokens |-> Represents(table.tokens, Table!Absent), next |-> table.next]

(* Whatever the buckets and the hash function, and although a scope goes on *)
(* with a map that was freed, scopes and registry are the maps from names  *)
(* that NameTables describes, and every call returns what those would.     *)
Promised ==
  INSTANCE NameTables WITH
    chain   <- [d \in 1..Len(scopes) |-> ScopeOf(scopes[d])],
    classes <- [c \in Names |-> IF Has(registered, c) THEN Represents(MethodsOf(c), None) ELSE None]

ImplementsTables == Promised!Spec
=============================================================================
