------------------------------ MODULE MCFrames ------------------------------
(***************************************************************************)
(* Small programs for FrameRefinement: main calls f with two arguments and   *)
(* itself with none, f has a local and calls itself with one argument.  A    *)
(* program is told by the commands that it is made of, so that each kind of  *)
(* them is explored without being multiplied with all others.               *)
(***************************************************************************)
EXTENDS FrameRefinement

MCNLocals == [f \in {"main", "f"} |-> IF f = "f" THEN 1 ELSE 0]

MCCallLines == <<[in |-> "main", to |-> "f", n |-> 2],
                 [in |-> "f", to |-> "f", n |-> 1],
                 [in |-> "main", to |-> "main", n |-> 0]>>

(* Words: data (0 and 1), the addresses of cells and stack, the return     *)
(* addresses from 30 on.                                                   *)
MCWords == 0..33

(* Calls, with everything that they save and that a callee could disturb. *)
Calling(up) ==
  [up |-> up, segments |-> {"constant", "arg", "local", "pointer", "this", "that"},
   indices |-> {0}, constants |-> {1}, operations |-> {"not"},
   calls |-> 1..3, inlined |-> {}, stack |-> 4..14]

(* Calls of calls, recursive ones too. *)
Deep(up) ==
  [up |-> up, segments |-> {"constant"},
   indices |-> {}, constants |-> {1}, operations |-> {},
   calls |-> 1..3, inlined |-> {}, stack |-> 4..27]

(* The memory segments and the inlined calls that read and write memory. *)
Memory(up, indices) ==
  [up |-> up, segments |-> {"constant", "static", "temp", "pointer", "this", "that"},
   indices |-> indices, constants |-> {1}, operations |-> {"not", "eq", "lt"},
   calls |-> {}, inlined |-> {"Memory.peek", "Memory.poke"}, stack |-> 4..7]

(* The inlined Screen.drawPixel between, and below, calls. *)
Drawing(stack) ==
  [up |-> FALSE, segments |-> {"local", "pointer"}, indices |-> {0}, constants |-> {},
   operations |-> {"not"}, calls |-> 1..3, inlined |-> {"Screen.drawPixel"}, stack |-> stack]

(* All kinds; calls and memory in both directions of growth. *)
Kinds ==
  {Calling(FALSE), Calling(TRUE), Deep(FALSE), Deep(TRUE),
   Memory(FALSE, {0, 1}), Memory(TRUE, {0}), Drawing(4..14)}

(* For the run that shows what the inlined drawing leaves behind. *)
DrawingOnce == {Drawing(4..16)}
=============================================================================
