-------------------------- MODULE FrameRefinement --------------------------
(***************************************************************************)
(* FrameMachine implements VMachine.  The activations are found the way the *)
(* machine itself would find them: from the registers of the running        *)
(* function, through the frames that codegen_call saved on the stack.      *)
(***************************************************************************)
EXTENDS FrameMachine

CONSTANT MaxFrames   (* bound: activations that StackCells has room for      *)

ASSUME RoomAssumption ==
  /\ MaxFrames \in Nat \ {0}
  /\ \A p \in Programs : \A a, b \in p.stack : a - b <= 5 * MaxFrames

(* What a function's code works with. *)
Registers(f, s, l, a, t, u, r) ==
  [fn |-> f, sp |-> s, lcl |-> l, arg |-> a, this |-> t, that |-> u, ra |-> r]

(* The caller to come back to at return address r, its frame saved at base: *)
(* the arguments it pushed are no longer on its working stack.             *)
Caller(base, r) ==
  LET line == CallLines[r - CodeBase]
  IN  Registers(line.in, Slot(base, SlotCount + line.n), mem[Slot(base, Local)],
                mem[Slot(base, Arg)], mem[Slot(base, This)], mem[Slot(base, That)],
                mem[Slot(base, RetAddr)])

(* The running function; between a call and the callee's first line, and   *)
(* between its last line and the restored frame, that is the caller.       *)
Current ==
  IF phase = "run" THEN Registers(fn, sp, lcl, arg, this, that, ra) ELSE Caller(sp, ra)

ArgsOf(r) == IF r.ra = Halt THEN 2 ELSE CallLines[r.ra - CodeBase].n

CallerOf(r) == Caller(Slot(r.lcl, NLocals[r.fn]), r.ra)

(* The functions under way, the running one last: at most n are looked for. *)
Calls == {CodeBase + k : k \in DOMAIN CallLines}

Walk[n \in 1..MaxFrames] ==
  IF n = 1 THEN <<Current>>
  ELSE CHOOSE longer \in {IF inner[1].ra \in Calls THEN <<CallerOf(inner[1])>> \o inner ELSE inner
                            : inner \in {Walk[n - 1]}} : TRUE

Started == phase = "run" \/ (phase # "halted" /\ ra # Halt)

Chain == IF Started THEN Walk[MaxFrames] ELSE <<>>

(* While a call is under way its arguments still belong to the caller, and  *)
(* while it comes back the result is in a0.                                *)
WorkOf(r, last) ==
  [j \in 1..(FrameOffset(r.lcl - r.sp) + (IF last /\ phase = "enter" THEN Line.n ELSE 0)) |->
     mem[r.lcl - FrameOffset(j)]]
  \o (IF last /\ phase = "return" THEN <<a0>> ELSE <<>>)

Activation(r, last) ==
  [fn |-> r.fn, this |-> r.this, that |-> r.that,
   args   |-> [j \in 1..ArgsOf(r) |-> mem[Slot(r.arg, j - 1)]],
   locals |-> [j \in 1..NLocals[r.fn] |-> mem[Slot(r.lcl, j - 1)]],
   work   |-> WorkOf(r, last)]

Activations(regs) == <<>> \o [k \in DOMAIN regs |-> Activation(regs[k], k = Len(regs))]

(* The inlined Screen.drawPixel does not do what a call means (see          *)
(* InlinedLikeACall): a program that has it is taken to do nothing.        *)
Draws == "Screen.drawPixel" \in program.inlined

Status ==
  IF Draws \/ (~ Started /\ phase # "halted") THEN "ready"
  ELSE IF phase = "halted" THEN "halted" ELSE "running"

Frames == IF Draws THEN <<>> ELSE Activations(Chain)

Data == [c \in Cells |-> IF Draws THEN 0 ELSE mem[c]]

Machine == INSTANCE VMachine WITH status <- Status, frames <- Frames, data <- Data

-----------------------------------------------------------------------------
(* Properties *)

(* The emitted code does what the VM commands mean: no call, return or      *)
(* store of one function disturbs the frame of another.  That is said of    *)
(* programs that do not inline Screen.drawPixel.                           *)
ImplementsVM == Machine!VMSpec

(* What stack_frame.h draws: the frames follow one another without a gap    *)
(* from the bottom of the stack, a frame's arguments ending where its      *)
(* saved registers start, its locals right below those and its working     *)
(* stack below its locals.                                                 *)
FramesContiguous ==
  phase = "run" =>
    \A k \in DOMAIN Chain :
      LET r    == Chain[k]
          base == Slot(r.lcl, NLocals[r.fn])
      IN  /\ FrameOffset(r.lcl - r.sp) >= 0
          /\ k = 1 => r.ra = Halt /\ base = Bottom - FrameOffset(1) /\ r.arg = base
          /\ k > 1 => /\ Chain[k - 1].sp = Slot(base, SlotCount + ArgsOf(r))
                      /\ ArgsOf(r) > 0 => r.arg = Slot(base, SlotCount)

(* An inlined call of two arguments is still a call: it leaves the result   *)
(* where the arguments were, and what lies deeper stays within reach.      *)
InlinedLikeACall ==
  [][(\E color \in {0, 1} : DrawPixel(color)) \/ Poke
       => WorkWords' = WorkWords - 1 /\ mem'[sp'] = a0']_vars

=============================================================================
