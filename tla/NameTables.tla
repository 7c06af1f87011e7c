----------------------------- MODULE NameTables -----------------------------
(***************************************************************************)
(* What scopes and registry promise, as functions from names: the chain of *)
(* scopes of SymbolTable, and for every class the signatures of its        *)
(* subroutines.                                                            *)
(***************************************************************************)
EXTENDS SymbolTable

CONSTANTS Signatures,
          None        (* no class, and no subroutine                          *)

VARIABLES chain,      (* scopes, the innermost last                           *)
          classes,    (* class -> subroutine -> signature                     *)
          open,       (* the class whose subroutines are being inserted       *)
          answer      (* what the last call returned or, without a result,   *)
              (* was asked for                                        *)

vars == <<chain, classes, open, answer>>

Init ==
  /\ chain = <<NewScope>> /\ classes = [c \in Names |-> None]
  /\ open = None /\ answer = None

Push == chain' = PushScope(chain) /\ UNCHANGED <<classes, open, answer>>

Pop == Len(chain) > 1 /\ chain' = PopScope(chain) /\ UNCHANGED <<classes, open, answer>>

Reset ==
  /\ Len(chain) = 1
  /\ chain' = <<ResetLocalState(chain[1])>>
  /\ answer' = [reset |-> TRUE] /\ UNCHANGED <<classes, open>>

Declare(n, k) ==
  /\ answer' = [exists |-> InsertFails(chain, n)]
  /\ chain' = Insert(chain, n, k) /\ UNCHANGED <<classes, open>>

LookUp(n) == answer' = [token |-> Find(chain, n)] /\ UNCHANGED <<chain, classes, open>>

Register(c) ==
  /\ answer' = [exists |-> classes[c] # None]
  /\ IF classes[c] # None THEN UNCHANGED <<classes, open>>
     ELSE classes' = [classes EXCEPT ![c] = [m \in Names |-> None]] /\ open' = c
  /\ UNCHANGED chain

(* A subroutine declared again gets the new signature. *)
AddMethod(m, s) ==
  /\ open # None
  /\ classes' = [classes EXCEPT ![open] = [@ EXCEPT ![m] = s]]
  /\ answer' = [put |-> m, as |-> s]
  /\ UNCHANGED <<chain, open>>

LookUpMethod(c, m) ==
  /\ answer' = [method |-> IF classes[c] = None THEN None ELSE classes[c][m]]
  /\ UNCHANGED <<chain, classes, open>>

Next ==
  \/ Push \/ Pop \/ Reset
  \/ \E n \in Names : LookUp(n) \/ Register(n) \/ \E k \in Kinds : Declare(n, k)
  \/ \E m \in Names : (\E s \in Signatures : AddMethod(m, s)) \/ (\E c \in Names : LookUpMethod(c, m))

Spec == Init /\ [][Next]_vars
=============================================================================
