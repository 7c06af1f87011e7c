----------------------------- MODULE SourceMap -----------------------------
(***************************************************************************)
(* How the diagnostics engine turns positions of the source text into      *)
(* lines (build_source_map and source_map_resolve of engine.c): the map    *)
(* has the position each of the first `total' lines starts at, and a       *)
(* binary search finds the line of a position.  Both loops are taken one   *)
(* iteration at a time.  Positions count from 0, so that text[p] is the    *)
(* character before position p.                                            *)
(***************************************************************************)
EXTENDS Integers, Sequences

CONSTANTS Characters, Newline

ASSUME NewlineAssumption == Newline \in Characters

VARIABLES text,     (* source                                                 *)
          total,    (* lines_total: how far the lexer got                     *)
          phase,    (* "map", "ready" or "search"; "lex" before all of them   *)
          at,       (* characters looked at for the map                       *)
          built,    (* lines in the map so far                                *)
          starts,   (* line_starts                                            *)
          target,   (* the position that is looked for                        *)
          low, high,
          located   (* history: positions and the lines found for them        *)

mapVars == <<text, total, phase, at, built, starts, target, low, high, located>>

MapInit ==
  /\ at = 0 /\ built = 1 /\ starts = [k \in {0} |-> 0]
  /\ target = 0 /\ low = 0 /\ high = 0
  /\ located = <<>>

Init ==
  /\ text \in Seq(Characters) /\ total \in Nat \ {0} /\ phase = "map"
  /\ MapInit

(* One character of the text, while there are lines left to be mapped. *)
MapCharacter ==
  /\ phase = "map" /\ at < Len(text) /\ built < total
  /\ at' = at + 1
  /\ IF text[at + 1] = Newline
     THEN /\ starts' = [k \in 0..built |-> IF k = built THEN at + 1 ELSE starts[k]]
          /\ built' = built + 1
     ELSE UNCHANGED <<starts, built>>
  /\ UNCHANGED <<text, total, phase, target, low, high, located>>

MapDone ==
  /\ phase = "map" /\ (at = Len(text) \/ built = total)
  /\ phase' = "ready"
  /\ UNCHANGED <<text, total, at, built, starts, target, low, high, located>>

(* source_map_resolve of position p *)
Locate(p) ==
  /\ phase = "ready"
  /\ phase' = "search"
  /\ target' = p /\ low' = 0 /\ high' = total - 1
  /\ UNCHANGED <<text, total, at, built, starts, located>>

Middle == low + (high - low) \div 2

(* Mutant of Halve: a position at the start of a line is left to the line before. *)
HalveStrict ==
  /\ phase = "search" /\ low < high /\ Middle < built
  /\ IF starts[Middle] < target
     THEN low' = Middle + 1 /\ UNCHANGED high
     ELSE high' = Middle /\ UNCHANGED low
  /\ UNCHANGED <<text, total, phase, at, built, starts, target, located>>

(* Mutant of Halve: the lower end stays at the middle. *)
HalveStays ==
  /\ phase = "search" /\ low < high /\ Middle < built
  /\ IF starts[Middle] <= target
     THEN low' = Middle /\ UNCHANGED high
     ELSE high' = Middle /\ UNCHANGED low
  /\ UNCHANGED <<text, total, phase, at, built, starts, target, located>>

(* Beyond the lines built the map was never written. *)
Halve ==
  /\ phase = "search" /\ low < high /\ Middle < built
  /\ IF starts[Middle] <= target
     THEN low' = Middle + 1 /\ UNCHANGED high
     ELSE high' = Middle /\ UNCHANGED low
  /\ UNCHANGED <<text, total, phase, at, built, starts, target, located>>

Found ==
  /\ phase = "search" /\ low >= high
  /\ phase' = "ready"
  /\ located' = Append(located, [pos |-> target, line |-> IF low = 0 THEN 0 ELSE low - 1])
  /\ UNCHANGED <<text, total, at, built, starts, target, low, high>>

Next == MapCharacter \/ MapDone \/ (\E p \in Nat : Locate(p)) \/ Halve \/ Found

Spec == Init /\ [][Next]_mapVars

-----------------------------------------------------------------------------
(* Properties *)

(* The map holds where lines start, in their order, and leaves none out     *)
(* before the last one it has.                                             *)
MapOfLines ==
  /\ \A j, k \in 0..(built - 1) : j < k => starts[j] < starts[k]
  /\ \A k \in 1..(built - 1) : text[starts[k]] = Newline
  /\ \A p \in 1..Len(text) : text[p] = Newline /\ p <= starts[built - 1] =>
       \E k \in 1..(built - 1) : starts[k] = p

(* A position is reported in the line that contains it, unless that is the  *)
(* last line of the map, which the search never gives.                     *)
RightLine ==
  built = total =>
    \A k \in DOMAIN located :
      \/ total = 1 /\ located[k].line = 0
      \/ located[k].pos >= starts[total - 1]
      \/ /\ located[k].line + 1 < total
         /\ starts[located[k].line] <= located[k].pos
         /\ located[k].pos < starts[located[k].line + 1]

(* Together: a position is reported in the line of the text it is in.       *)
LinesFound == MapOfLines /\ RightLine
=============================================================================
