----------------------------- MODULE MCLibrary -----------------------------
(***************************************************************************)
(* The library of the compiled program at work, one of the calls of Screen  *)
(* or a line that is read from the keyboard, with a small screen for TLC.   *)
(* Words have seven bits where numbers are read, and squares are kept       *)
(* below 64.                                                               *)
(***************************************************************************)
EXTENDS Screen, Console

Points == [x : 0..4, y : 0..3]

FewPoints == [x : {0, 2}, y : {0, 1, 2}]

MCShapes ==
  [kind : {"line"}, from : Points, to : Points]
    \cup [kind : {"rectangle"}, from : FewPoints, to : FewPoints]
    \cup [kind : {"circle"}, center : {[x |-> 6, y |-> 5]}, r : -2..5]

(* Rows first: beyond the edges, in the last cell perhaps *)
MCTargets == {<<-1, 1>>, <<2, 3>>}

MCMinWord == -64

MCNumbers == {0, 12, -21, MCMinWord}

(* A g has a tail, and the code of a key beyond 127 is negative. *)
MCKeys == {BackSpace, NewLine, Minus, 49, 50, 103, -56}

-----------------------------------------------------------------------------
libraryVars == <<screenVars, consoleVars>>

Init ==
  \/ /\ ScreenInit
     /\ ConsoleBlank /\ reading = "idle" /\ number = 0 /\ prompt = <<>>
  \/ /\ ConsoleInit
     /\ ScreenBlank /\ drawing = "idle" /\ shape = [kind |-> "none"]

Next ==
  \/ ScreenNext /\ UNCHANGED consoleVars
  \/ ConsoleNext /\ UNCHANGED screenVars

(* The processor goes on with the program.                                  *)
Fairness ==
  /\ WF_libraryVars(ScreenNext /\ UNCHANGED consoleVars)
  /\ WF_libraryVars(ConsoleStep /\ UNCHANGED screenVars)

Spec == Init /\ [][Next]_libraryVars /\ Fairness

-----------------------------------------------------------------------------
(* Properties *)

(* Every shape gets drawn to its end, and a key that was struck is dealt    *)
(* with: once the user stops, the program waits for him or has its line.   *)
Settles == <>[](drawing \in {"idle", "drawn"} /\ (reading \in {"idle", "read"} \/ (reading = "wait" /\ ~ ready)))
=============================================================================
