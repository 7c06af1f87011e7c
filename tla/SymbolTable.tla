---------------------------- MODULE SymbolTable ----------------------------
(***************************************************************************)
(* The compiler's symbol table (jackc/compiler/symtable/compiler_symtable) *)
(* as a data type: a chain of scopes, the innermost last, each scope a map *)
(* from names to tokens plus one counter per kind of variable.  The hash   *)
(* map behind a scope is abstracted to the function it represents.         *)
(***************************************************************************)
EXTENDS Integers, Sequences

CONSTANT Names        (* identifiers that may be declared                  *)

Kinds == {"static", "field", "local", "arg"}

Absent == [kind |-> "none", idx |-> 0]

Tokens == [kind : Kinds, idx : Nat]

Scopes == [tokens : [Names -> Tokens \cup {Absent}], next : [Kinds -> Nat]]

NoTokens == [n \in Names |-> Absent]

NewScope == [tokens |-> NoTokens, next |-> [k \in Kinds |-> 0]]

-----------------------------------------------------------------------------
(* sym_table_push and sym_table_pop *)
PushScope(chain) == Append(chain, NewScope)

PopScope(chain) == SubSeq(chain, 1, Len(chain) - 1)

ExistsLocal(scope, n) == scope.tokens[n] # Absent

(* sym_table_insert on a name the scope does not have yet: the next index  *)
(* of the variable's kind.                                                 *)
AddToken(scope, n, k) ==
  [tokens |-> [scope.tokens EXCEPT ![n] = [kind |-> k, idx |-> scope.next[k]]],
   next   |-> [scope.next EXCEPT ![k] = @ + 1]]

(* SYMTAB_ALREADY_EXISTS leaves the innermost scope as it was. *)
Insert(chain, n, k) ==
  [chain EXCEPT ![Len(chain)] =
     IF ExistsLocal(@, n) THEN @ ELSE AddToken(@, n, k)]

InsertFails(chain, n) == ExistsLocal(chain[Len(chain)], n)

(* sym_table_find: the scopes that know the name, and the innermost's token *)
Knowing(chain, n) == {d \in DOMAIN chain : ExistsLocal(chain[d], n)}

Find(chain, n) ==
  IF Knowing(chain, n) = {} THEN Absent
  ELSE chain[CHOOSE d \in Knowing(chain, n) :
               \A e \in Knowing(chain, n) : e <= d].tokens[n]

(* Mutant of ResetLocalState: every counter starts again from zero. *)
ResetEverything(scope) == NewScope

(* sym_table_reset_local_state: the statics' counter survives on purpose,  *)
(* so that the next class's statics get fresh slots.                       *)
ResetLocalState(scope) ==
  [tokens |-> NoTokens,
   next   |-> [scope.next EXCEPT !["field"] = 0, !["local"] = 0]]

=============================================================================
