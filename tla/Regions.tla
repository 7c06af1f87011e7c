------------------------------ MODULE Regions ------------------------------
(***************************************************************************)
(* What a program may expect of an allocator: a region it is given has      *)
(* every cell it asked for and none that a live region has.  Cells are      *)
(* whatever memory is made of: bytes of a block, words of an address space. *)
(***************************************************************************)
EXTENDS Integers, FiniteSets

CONSTANTS Sizes      (* what a region may be asked to hold                   *)

VARIABLE live        (* the regions handed out and not yet given back        *)

Cells == UNION live

RegionsInit == live = {}

(* The region is found in the next state: a refinement chooses it. *)
Allocate ==
  \E region \in live' \ live :
    /\ live' = live \cup {region}
    /\ region \cap Cells = {}
    /\ Cardinality(region) \in Sizes

(* Some regions are given back: one, or all of those of a block. *)
Release == live' \subseteq live

RegionsSpec == RegionsInit /\ [][Allocate \/ Release]_live
=============================================================================
