---------------------------- MODULE FrameMachine ----------------------------
(***************************************************************************)
(* The machine code the backend emits for each VM command, executed: the   *)
(* registers sp, s1 (LOCAL), s2 (ARG), s3 (THIS), s4 (THAT), ra and a0 over *)
(* one memory of words, with the stack growing down or up.                 *)
(*                                                                         *)
(* An action is what a command's lines do, from asm_code_gen.c; `call' and  *)
(* `return' are split where control is transferred: Call and Restore are   *)
(* the two halves of codegen_call, Function and Return the callee's code.  *)
(* Addresses are word addresses: THIS and THAT are kept in bytes, shifted  *)
(* when a pointer is popped and back when it is pushed, which loses nothing *)
(* below 2^30 words.                                                       *)
(*                                                                         *)
(* A word beyond the stack's top is not remembered: what a function finds   *)
(* in its locals is left to choice, and code that read there would have no *)
(* step here.                                                              *)
(*                                                                         *)
(* A return address is the number of its call line above CodeBase; ra       *)
(* holds CodeBase itself while the entry function runs.                    *)
(***************************************************************************)
EXTENDS Integers, Sequences

CONSTANTS Functions, Entry, NLocals, CallLines, Statics, Temps, Heap,
          StaticBase, TempBase, Indices, Constants, Operations, W, Words,
          Programs,              (* what is compiled, see below               *)
          Leftovers,             (* what a word beyond the top may turn out   *)
          CodeBase,              (* below every return address                *)
          MaxWork                (* bound: words of a working stack           *)

(* A program is known by what its commands use:                             *)
(*   up          config->is_stack_growing_upwards, with which it is compiled *)
(*   segments, indices, constants, operations                              *)
(*   calls       its call lines                                            *)
(*   inlined     the calls that codegen_call_aggressive_inline meets       *)
(*   stack       bound: the words of the stack it runs with                *)
Inlinable == {"Memory.peek", "Memory.poke", "Screen.drawPixel"}

(* What a word-level operation computes is the machine's. *)
VM == INSTANCE VMachine WITH status <- "running", frames <- <<>>, data <- <<>>

Cells == VM!Cells

ASSUME FrameAssumption ==
  /\ VM!MachineAssumption
  /\ \A p \in Programs :
       /\ p.up \in BOOLEAN /\ p.inlined \subseteq Inlinable
       /\ p.segments \subseteq VM!Segments /\ p.indices \subseteq Indices
       /\ p.constants \subseteq Constants
       /\ p.operations \subseteq Operations \cup {"not"} /\ p.calls \subseteq DOMAIN CallLines
  /\ \A p \in Programs :
       /\ p.stack \subseteq Nat \ Cells
       /\ \E first, last \in p.stack : first < last /\ p.stack = first..last
       /\ \A k \in DOMAIN CallLines : CodeBase + k \notin Cells \cup p.stack
  /\ CodeBase \in Nat

(* Words hold numbers: data, addresses of the stack and of call lines.      *)
ASSUME WordsAssumption ==
  /\ Words \subseteq Int /\ {0, 1} \cup Constants \cup Leftovers \subseteq Words
  /\ \A k \in DOMAIN CallLines \cup {0} : CodeBase + k \in Words
  /\ \A p \in Programs : p.stack \subseteq Words

(* A stack that grows upwards has the words of `that' but the first in the  *)
(* wrong direction: a program that runs with one uses the first only.       *)
ASSUME ThatAssumption ==
  \A p \in Programs : p.up /\ "that" \in p.segments => p.indices \subseteq {0}

VARIABLES program, (* the program that is compiled and run                     *)
          phase,   (* "enter", "run", "return" or "halted": what runs next     *)
          fn,      (* the function whose code runs                             *)
          sp, lcl, arg, this, that, ra, a0,
          mem      (* the cells and the stack up to its top                    *)

vars == <<program, phase, fn, sp, lcl, arg, this, that, ra, a0, mem>>

Halt == CodeBase

StackCells == program.stack

(* frame_offset_bytes, in words. *)
FrameOffset(i) == IF program.up THEN -i ELSE i

(* The word i below the top (vstack_peek_reg, vstack_poke_reg), and the top *)
(* n words further (vstack_adjust).                                        *)
Slot(base, i) == base + FrameOffset(i)

Allocated(n) == sp - FrameOffset(n)

WorkWords == FrameOffset(lcl - sp)

Line == CallLines[ra - CodeBase]

NArgs == IF ra = Halt THEN 2 ELSE Line.n

RetAddr == 0
This == 1
That == 2
Arg == 3
Local == 4
SlotCount == 5

(* The stack from its bottom to a top s. *)
Stack(s) == {a \in StackCells : FrameOffset(a - s) >= 0}

Stored(new, s) ==
  [a \in Cells \cup Stack(s) |-> IF a \in DOMAIN new THEN new[a] ELSE mem[a]]

(* A word at an address, and words on a stack whose top is s, from the top. *)
Word(address, value) == [a \in {address} |-> value]

OnTop(s, values) ==
  [a \in {Slot(s, i) : i \in DOMAIN values} |-> values[FrameOffset(a - s)]]

-----------------------------------------------------------------------------
(* asm_code_gen_bootstrap leaves argc and argv on the stack, and Sys.init   *)
(* calls the entry function.                                               *)
Bottom == CHOOSE a \in StackCells : \A b \in StackCells : FrameOffset(a - b) >= 0

Init ==
  /\ program \in Programs
  /\ phase = "enter"
  /\ fn = Entry
  /\ sp = Bottom - FrameOffset(1)
  /\ arg = sp
  /\ lcl = 0 /\ this = 0 /\ that = 0 /\ a0 = 0
  /\ ra = Halt
  /\ mem = [a \in Cells \cup Stack(sp) |-> 0]

(* codegen_function *)
Function ==
  /\ phase = "enter"
  /\ Allocated(NLocals[fn]) \in StackCells
  /\ phase' = "run"
  /\ sp' = Allocated(NLocals[fn])
  /\ lcl' = sp'
  /\ \E found \in [Stack(sp') \ Stack(sp) -> Leftovers] : mem' = Stored(found, sp')
  /\ UNCHANGED <<program, fn, arg, this, that, ra, a0>>

(* The address a segment's word i has (vstack_push_mem and vstack_pop_mem): *)
(* is_section_not_stack_based knows static, temp and this.                 *)
Address(seg, i) ==
  CASE seg = "static" -> StaticBase + i
    [] seg = "temp"   -> TempBase + i
    [] seg = "this"   -> this + i
    [] seg = "that"   -> Slot(that, i)
    [] seg = "arg"    -> Slot(arg, i)
    [] seg = "local"  -> Slot(lcl, i)

(* The program is well formed: it names words that its function has. *)
WellNamed(seg, i) ==
  CASE seg = "constant" -> i \in program.constants
    [] seg = "arg"      -> i \in 0..(NArgs - 1)
    [] seg = "local"    -> i \in 0..(NLocals[fn] - 1)
    [] seg = "pointer"  -> i \in {0, 1}
    [] seg = "static"   -> i \in program.indices /\ StaticBase + i \in Statics
    [] seg = "temp"     -> i \in program.indices /\ TempBase + i \in Temps
    [] seg = "this"     -> i \in program.indices /\ this + i \in Heap
    [] seg = "that"     -> i \in program.indices /\ that + i \in Heap

Push(seg, i) ==
  /\ phase = "run"
  /\ WellNamed(seg, i)
  /\ WorkWords < MaxWork /\ Allocated(1) \in StackCells
  /\ sp' = Allocated(1)
  /\ mem' = Stored(Word(sp', CASE seg = "constant" -> i
                            [] seg = "pointer"  -> IF i = 0 THEN this ELSE that
                            [] OTHER            -> mem[Address(seg, i)]), sp')
  /\ UNCHANGED <<program, phase, fn, lcl, arg, this, that, ra, a0>>

Pop(seg, i) ==
  /\ phase = "run"
  /\ seg # "constant" /\ WellNamed(seg, i) /\ WorkWords >= 1
  /\ sp' = Slot(sp, 1)
  /\ IF seg = "pointer"
     THEN /\ this' = IF i = 0 THEN mem[sp] ELSE this
          /\ that' = IF i = 0 THEN that ELSE mem[sp]
          /\ mem' = Stored(<<>>, sp')
     ELSE /\ mem' = Stored(Word(Address(seg, i), mem[sp]), sp')
          /\ UNCHANGED <<this, that>>
  /\ UNCHANGED <<program, phase, fn, lcl, arg, ra, a0>>

(* codegen_alu *)
Unary ==
  /\ "not" \in program.operations
  /\ phase = "run" /\ WorkWords >= 1
  /\ mem' = [mem EXCEPT ![sp] = VM!Bit(@ = 0)]
  /\ UNCHANGED <<program, phase, fn, sp, lcl, arg, this, that, ra, a0>>

Binary(op) ==
  /\ phase = "run" /\ WorkWords >= 2
  /\ sp' = Slot(sp, 1)
  /\ mem' = Stored(Word(sp', VM!Result(op, mem[Slot(sp, 1)], mem[sp])), sp')
  /\ UNCHANGED <<program, phase, fn, lcl, arg, this, that, ra, a0>>

(* codegen_if_goto: whichever way it goes, the condition is popped. *)
IfGoto ==
  /\ phase = "run" /\ WorkWords >= 1
  /\ sp' = Slot(sp, 1)
  /\ mem' = Stored(<<>>, sp')
  /\ UNCHANGED <<program, phase, fn, lcl, arg, this, that, ra, a0>>

(* The registers in the slots that a call saves them in. *)
Saved ==
  [slot \in 0..(SlotCount - 1) |->
     CASE slot = RetAddr -> ra   [] slot = This -> this [] slot = That -> that
       [] slot = Arg     -> arg  [] slot = Local -> lcl]

(* Mutant of Call: THIS and THAT are saved in each other's slot. *)
CallSwapsPointers(k) ==
  LET n == CallLines[k].n
  IN  /\ phase = "run" /\ CallLines[k].in = fn /\ WorkWords >= n
      /\ Allocated(SlotCount) \in StackCells
      /\ sp' = Allocated(SlotCount)
      /\ mem' = Stored(OnTop(sp', [Saved EXCEPT ![This] = that, ![That] = this]), sp')
      /\ arg' = IF n > 0 THEN Slot(sp', SlotCount) ELSE arg
      /\ ra' = CodeBase + k /\ fn' = CallLines[k].to /\ phase' = "enter"
      /\ UNCHANGED <<program, lcl, this, that, a0>>

(* Mutant of Call: ARG points into the saved frame. *)
CallArgOffByOne(k) ==
  LET n == CallLines[k].n
  IN  /\ phase = "run" /\ CallLines[k].in = fn /\ WorkWords >= n
      /\ Allocated(SlotCount) \in StackCells
      /\ sp' = Allocated(SlotCount)
      /\ mem' = Stored(OnTop(sp', Saved), sp')
      /\ arg' = IF n > 0 THEN Slot(sp', SlotCount - 1) ELSE arg
      /\ ra' = CodeBase + k /\ fn' = CallLines[k].to /\ phase' = "enter"
      /\ UNCHANGED <<program, lcl, this, that, a0>>

(* codegen_call up to the jump: the frame is saved below the arguments. *)
Call(k) ==
  LET n == CallLines[k].n
  IN  /\ phase = "run"
      /\ CallLines[k].in = fn /\ WorkWords >= n
      /\ Allocated(SlotCount) \in StackCells
      /\ sp' = Allocated(SlotCount)
      /\ mem' = Stored(OnTop(sp', Saved), sp')
      /\ arg' = IF n > 0 THEN Slot(sp', SlotCount) ELSE arg
      /\ ra' = CodeBase + k
      /\ fn' = CallLines[k].to
      /\ phase' = "enter"
      /\ UNCHANGED <<program, lcl, this, that, a0>>

(* codegen_return *)
Return ==
  /\ phase = "run" /\ WorkWords >= 1
  /\ a0' = mem[sp]
  /\ sp' = Slot(lcl, NLocals[fn])
  /\ mem' = Stored(<<>>, sp')
  /\ phase' = IF ra = Halt THEN "halted" ELSE "return"
  /\ UNCHANGED <<program, fn, lcl, arg, this, that, ra>>

(* codegen_call after the jump, at the line that ra points to: the frame is *)
(* restored and one of its slots, or an argument's, takes the result.      *)
Restore ==
  /\ phase = "return"
  /\ lcl'  = mem[Slot(sp, Local)]
  /\ arg'  = mem[Slot(sp, Arg)]
  /\ that' = mem[Slot(sp, That)]
  /\ this' = mem[Slot(sp, This)]
  /\ ra'   = mem[Slot(sp, RetAddr)]
  /\ sp'   = Slot(sp, SlotCount + Line.n - 1)
  /\ mem'  = Stored(Word(sp', a0), sp')
  /\ fn'   = Line.in
  /\ phase' = "run"
  /\ UNCHANGED <<program, a0>>

(* The inlined calls of the library. *)
Peek ==
  /\ "Memory.peek" \in program.inlined
  /\ phase = "run" /\ WorkWords >= 1 /\ mem[sp] \in Cells
  /\ a0' = mem[mem[sp]]
  /\ mem' = [mem EXCEPT ![sp] = a0']
  /\ UNCHANGED <<program, phase, fn, sp, lcl, arg, this, that, ra>>

Poke ==
  /\ "Memory.poke" \in program.inlined
  /\ phase = "run" /\ WorkWords >= 2 /\ mem[sp] \in Cells
  /\ sp' = Slot(sp, 1)
  /\ mem' = Stored([a \in {mem[sp], sp'} |-> IF a = sp' THEN a0 ELSE mem[Slot(sp, 1)]], sp')
  /\ UNCHANGED <<program, phase, fn, lcl, arg, this, that, ra, a0>>

(* Two words are allocated to save ra and LOCAL over the call of            *)
(* Screen.currentColor, which pushes the colour it returns; two more are   *)
(* allocated afterwards, and one of all these words deallocated.           *)
DrawPixel(color) ==
  /\ "Screen.drawPixel" \in program.inlined
  /\ phase = "run" /\ WorkWords >= 2
  /\ Allocated(4) \in StackCells
  /\ a0' = color
  /\ sp' = Allocated(3)
  /\ mem' = Stored(OnTop(sp', [i \in 0..2 |-> CASE i = 0 -> color [] i = 1 -> lcl [] i = 2 -> ra]), sp')
  /\ UNCHANGED <<program, phase, fn, lcl, arg, this, that, ra>>

Halted == phase = "halted" /\ UNCHANGED vars

Next ==
  \/ Function \/ Unary \/ IfGoto \/ Return \/ Restore \/ Peek \/ Poke
  \/ \E color \in {0, 1} : DrawPixel(color)
  \/ \E seg \in program.segments, i \in program.indices \cup program.constants : Push(seg, i) \/ Pop(seg, i)
  \/ \E op \in program.operations \cap Operations : Binary(op)
  \/ \E k \in program.calls : Call(k)
  \/ Halted

Spec == Init /\ [][Next]_vars
=============================================================================
