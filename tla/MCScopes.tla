------------------------------ MODULE MCScopes ------------------------------
(***************************************************************************)
(* Three names for TLC, in two buckets of a scope's map: two of them meet  *)
(* in a chain.                                                             *)
(***************************************************************************)
EXTENDS Scopes

CONSTANTS a, b, c

MCHash == [n \in Names |-> IF n = a THEN 0 ELSE 1]
=============================================================================
