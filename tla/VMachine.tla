------------------------------ MODULE VMachine ------------------------------
(***************************************************************************)
(* The stack machine whose commands a .vm file is made of, as its commands *)
(* are meant: a stack of activations, each with arguments, locals and a    *)
(* working stack of its own, over memory cells that all of them share.     *)
(* Registers, addresses and saved frames do not appear: FrameMachine is    *)
(* what the backend makes of it.                                           *)
(*                                                                         *)
(* The commands are chosen freely among those a well-formed program could  *)
(* contain next, so that every program over the bounds is a behaviour.     *)
(***************************************************************************)
EXTENDS Integers, Sequences

CONSTANTS Functions,             (* names of the program's functions          *)
          Entry,                 (* Main.main                                 *)
          NLocals,               (* [Functions -> Nat]: `function f n'        *)
          CallLines,             (* the `call g n' lines: in, to and n        *)
          Statics, Temps, Heap,  (* word addresses of the three areas         *)
          StaticBase, TempBase,  (* where the two fixed segments start        *)
          Indices,               (* segment indices the program uses          *)
          Constants,             (* operands of `push constant'               *)
          Operations,            (* the binary operations the program uses    *)
          W,                     (* arithmetic is modulo W                    *)
          Words                  (* what a word may hold                      *)

Cells == Statics \cup Temps \cup Heap

(* Assumed by whoever instantiates the machine. *)
MachineAssumption ==
  /\ Entry \in Functions
  /\ NLocals \in [Functions -> Nat]
  /\ CallLines \in Seq([in : Functions, to : Functions, n : Nat])
  /\ Cells \subseteq Nat
  /\ Indices \subseteq Nat
  /\ Operations \subseteq {"add", "sub", "eq", "gt", "lt"}
  /\ W \in Nat \ {0} /\ 0..(W - 1) \subseteq Words

VARIABLES status,  (* "ready", "running" or "halted"                          *)
          frames,  (* the activations, the running one last                   *)
          data     (* the cells' contents                                     *)

vmVars == <<status, frames, data>>

Segments == {"constant", "arg", "local", "static", "temp", "this", "that", "pointer"}

(* The cell a command with one of the memory segments touches. *)
Cell(f, seg, i) ==
  CASE seg = "static" -> StaticBase + i
    [] seg = "temp"   -> TempBase + i
    [] seg = "this"   -> f.this + i
    [] seg = "that"   -> f.that + i

(* What a well-formed program may name in a frame. *)
Denotes(f, seg, i) ==
  CASE seg = "constant" -> i \in Constants
    [] seg = "arg"      -> i \in 0..(Len(f.args) - 1)
    [] seg = "local"    -> i \in 0..(Len(f.locals) - 1)
    [] seg = "pointer"  -> i \in {0, 1}
    [] seg = "static"   -> i \in Indices /\ Cell(f, seg, i) \in Cells
    [] seg = "temp"     -> i \in Indices /\ Cell(f, seg, i) \in Cells
    [] seg = "this"     -> i \in Indices /\ Cell(f, seg, i) \in Heap
    [] seg = "that"     -> i \in Indices /\ Cell(f, seg, i) \in Heap

Value(f, seg, i) ==
  CASE seg = "constant" -> i
    [] seg = "arg"      -> f.args[i + 1]
    [] seg = "local"    -> f.locals[i + 1]
    [] seg = "pointer"  -> IF i = 0 THEN f.this ELSE f.that
    [] OTHER            -> data[Cell(f, seg, i)]

Bit(b) == IF b THEN 1 ELSE 0

(* The left operand is the one pushed first.  The word-level operations     *)
(* `mul', `div', `and' and `or' move the stack exactly like these.          *)
Result(op, a, b) ==
  CASE op = "add" -> (a + b) % W
    [] op = "sub" -> (a - b) % W
    [] op = "eq"  -> Bit(a = b)
    [] op = "lt"  -> Bit(a < b)
    [] op = "gt"  -> Bit(a > b)

Top(f) == f.work[Len(f.work)]

Below(f) == f.work[Len(f.work) - 1]

Drop(f, n) == [f EXCEPT !.work = SubSeq(@, 1, Len(@) - n)]

With(f, v) == [f EXCEPT !.work = Append(@, v)]

-----------------------------------------------------------------------------
VMInit ==
  /\ status = "ready"
  /\ frames = <<>>
  /\ data \in [Cells -> {0}]

Activation(g, as, this, that, ls) ==
  [fn |-> g, args |-> as, locals |-> ls, work |-> <<>>, this |-> this, that |-> that]

(* A new activation's locals hold any words. *)
AnyLocals(g, ls) == ls \in [1..NLocals[g] -> Words]

(* The program is started with argc and argv, and arbitrary pointers. *)
VMStart ==
  /\ status = "ready" /\ status' = "running"
  /\ \E f \in {frames'[k] : k \in DOMAIN frames'} :
       /\ f = Activation(Entry, f.args, f.this, f.that, f.locals)
       /\ f.args \in [1..2 -> Words] /\ {f.this, f.that} \subseteq Words
       /\ AnyLocals(Entry, f.locals)
       /\ frames' = <<f>>
  /\ UNCHANGED data

-----------------------------------------------------------------------------
(* The commands: f is the running activation, `callers' those below it, and *)
(* `after' the activations when the command is done.                       *)

Become(callers, f, after) == after = Append(callers, f) /\ UNCHANGED status

VMPush(callers, f, after, seg, i) ==
  /\ Denotes(f, seg, i)
  /\ Become(callers, With(f, Value(f, seg, i)), after)
  /\ UNCHANGED data

Stored(f, seg, i, v) ==
  CASE seg = "arg"     -> [f EXCEPT !.args[i + 1] = v]
    [] seg = "local"   -> [f EXCEPT !.locals[i + 1] = v]
    [] seg = "pointer" -> IF i = 0 THEN [f EXCEPT !.this = v] ELSE [f EXCEPT !.that = v]
    [] OTHER           -> f

VMPop(callers, f, after, seg, i) ==
  /\ seg # "constant" /\ Denotes(f, seg, i) /\ f.work # <<>>
  /\ Become(callers, Stored(Drop(f, 1), seg, i, Top(f)), after)
  /\ data' = IF seg \in {"arg", "local", "pointer"} THEN data
             ELSE [data EXCEPT ![Cell(f, seg, i)] = Top(f)]

(* `not' stands for `neg' too, which moves the stack alike. *)
VMUnary(callers, f, after) ==
  /\ f.work # <<>>
  /\ Become(callers, With(Drop(f, 1), Bit(Top(f) = 0)), after)
  /\ UNCHANGED data

VMBinary(callers, f, after, op) ==
  /\ Len(f.work) >= 2
  /\ Become(callers, With(Drop(f, 2), Result(op, Below(f), Top(f))), after)
  /\ UNCHANGED data

VMIfGoto(callers, f, after) ==
  /\ f.work # <<>>
  /\ Become(callers, Drop(f, 1), after)
  /\ UNCHANGED data

(* The n topmost words become the arguments: argument 0 was pushed last. *)
TopArgs(f, n) == [k \in 1..n |-> f.work[Len(f.work) + 1 - k]]

VMCall(callers, f, after, c) ==
  /\ c.in = f.fn /\ Len(f.work) >= c.n
  /\ \E g \in {after[k] : k \in DOMAIN after} :
       /\ g = Activation(c.to, TopArgs(f, c.n), f.this, f.that, g.locals)
       /\ AnyLocals(c.to, g.locals)
       /\ after = callers \o <<Drop(f, c.n), g>>
  /\ UNCHANGED <<status, data>>

(* The caller goes on with the result on its working stack, and everything  *)
(* else as it left it.                                                     *)
VMReturn(callers, f, after) ==
  /\ f.work # <<>>
  /\ IF callers = <<>>
     THEN status' = "halted" /\ after = <<>>
     ELSE /\ after = [callers EXCEPT ![Len(callers)] = With(@, Top(f))]
          /\ UNCHANGED status
  /\ UNCHANGED data

(* Library calls that read or write one cell; poke has no result, so that  *)
(* some word is left in its place.                                         *)
VMPeek(callers, f, after) ==
  /\ f.work # <<>> /\ Top(f) \in Cells
  /\ Become(callers, With(Drop(f, 1), data[Top(f)]), after)
  /\ UNCHANGED data

LeavesAWord(callers, f, after) ==
  /\ after # <<>> /\ after[Len(after)].work # <<>>
  /\ Top(after[Len(after)]) \in Words
  /\ Become(callers, With(Drop(f, 2), Top(after[Len(after)])), after)

VMPoke(callers, f, after) ==
  /\ Len(f.work) >= 2 /\ Top(f) \in Cells
  /\ LeavesAWord(callers, f, after)
  /\ data' = [data EXCEPT ![Top(f)] = Below(f)]

(* A library call with two arguments and no effect on the cells: that of   *)
(* Screen.drawPixel, whose pixels are elsewhere.                           *)
VMDraw(callers, f, after) ==
  /\ Len(f.work) >= 2
  /\ LeavesAWord(callers, f, after)
  /\ UNCHANGED data

VMCommand(callers, f, after) ==
  \/ \E seg \in Segments, i \in Indices \cup Constants :
       VMPush(callers, f, after, seg, i) \/ VMPop(callers, f, after, seg, i)
  \/ VMUnary(callers, f, after)
  \/ \E op \in Operations : VMBinary(callers, f, after, op)
  \/ VMIfGoto(callers, f, after)
  \/ \E k \in DOMAIN CallLines : VMCall(callers, f, after, CallLines[k])
  \/ VMReturn(callers, f, after)
  \/ VMPeek(callers, f, after)
  \/ VMPoke(callers, f, after)
  \/ VMDraw(callers, f, after)

VMNext ==
  \/ VMStart
  \/ /\ status = "running"
     /\ \E now \in {frames}, after \in {frames'} :
          VMCommand(SubSeq(now, 1, Len(now) - 1), now[Len(now)], after)

VMSpec == VMInit /\ [][VMNext]_vmVars
=============================================================================
