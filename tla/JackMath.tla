------------------------------ MODULE JackMath ------------------------------
(***************************************************************************)
(* The arithmetic of the library (stdlib/Math.jack): absolute value,       *)
(* smaller number, and the square root, a bisection that takes one step    *)
(* per round of its loop.                                                  *)
(***************************************************************************)
EXTENDS Integers

CONSTANTS MaxWord,        (* greatest word                                    *)
          SqrtBound       (* 46341 for words of 32 bits                       *)

ASSUME SqrtBoundAssumption ==
  /\ MaxWord \in Nat /\ SqrtBound \in Nat \ {0}
  /\ (SqrtBound - 1) * (SqrtBound - 1) <= MaxWord
  /\ MaxWord < SqrtBound * SqrtBound

VARIABLES radicand, low, high   (* Math.sqrt's argument and locals            *)

sqrtVars == <<radicand, low, high>>

Abs(x) == IF x < 0 THEN -x ELSE x

Lesser(a, b) == IF a < b THEN a ELSE b

(* Math.sqrt, up to its loop *)
SqrtStart(x) == radicand' = x /\ low' = 0 /\ high' = SqrtBound

(* Mutant of Bisecting: off by one. *)
BisectingUntilEqual == low < high

Bisecting == low < high - 1

Mid == (low + high) \div 2

(* Mutant of Bisect: a root that is found exactly is taken for too great. *)
BisectStrictly ==
  /\ Bisecting
  /\ IF Mid * Mid < radicand THEN low' = Mid /\ UNCHANGED high
                             ELSE high' = Mid /\ UNCHANGED low
  /\ UNCHANGED radicand

(* A round of the loop *)
Bisect ==
  /\ Bisecting
  /\ IF Mid * Mid > radicand THEN high' = Mid /\ UNCHANGED low
                             ELSE low' = Mid /\ UNCHANGED high
  /\ UNCHANGED radicand

(* Calls one after the other, each with any word that is not negative *)
SqrtInit == \E x \in 0..MaxWord : radicand = x /\ low = 0 /\ high = SqrtBound

SqrtNext == Bisect \/ (~ Bisecting /\ \E x \in 0..MaxWord : SqrtStart(x))

SqrtSpec == SqrtInit /\ [][SqrtNext]_sqrtVars

-----------------------------------------------------------------------------
(* Properties *)

(* The loop ends at the root rounded down, and no square on the way is      *)
(* greater than a word can hold.                                           *)
SqrtFloor ==
  /\ ~ Bisecting => low * low <= radicand /\ radicand < (low + 1) * (low + 1)
  /\ Bisecting => Mid * Mid <= MaxWord
=============================================================================
