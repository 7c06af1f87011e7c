------------------------------- MODULE Bodies -------------------------------
(***************************************************************************)
(* A class's subroutines from their syntax trees to their execution: the   *)
(* semantic pass visits each body, the code generator emits its lines, and *)
(* the lines of one subroutine are then run by the machine of VMachine.    *)
(* Whatever another subroutine does is opaque: a call shows its arguments  *)
(* and returns Answer.                                                     *)
(***************************************************************************)
EXTENDS VmLine

CONSTANTS Names, This,           (* identifiers, and the keyword that is none *)
          Programs,              (* classes: name, vars and subs              *)
          Library,               (* the other classes' part of the registry   *)
          W, StaticBase, TempBase, Areas,  (* see VMachine and JackMeaning    *)
          Answer(_, _),
          Arguments,             (* what subroutines are called with          *)
          Pointers,              (* the caller's `this' and `that'            *)
          Junk,                  (* words a fresh local may hold              *)
          MaxSteps               (* bound: commands executed                  *)

VARIABLES program, pass, sub, verdict, gen,  (* the two passes                *)
          pc, steps, calls, result, left,    (* the execution                 *)
          meant,                             (* history: what was to happen   *)
          status, frames, data               (* those of VMachine             *)

vars == <<program, pass, sub, verdict, gen, pc, steps, calls, result, left, meant,
          status, frames, data>>

Table == INSTANCE SymbolTable

VM == INSTANCE VMachine WITH
        Functions <- {"run"}, Entry <- "run", NLocals <- [f \in {"run"} |-> 0], CallLines <- <<>>,
        Statics <- Areas.statics, Temps <- Areas.temps, Heap <- Areas.heap, Indices <- 0..9,
        Constants <- 0..(W - 1), Operations <- {"add", "sub", "eq", "gt", "lt"}, Words <- 0..(W - 1)

Jack == INSTANCE JackMeaning

-----------------------------------------------------------------------------
(* What both passes find in a subroutine (see Declarations). *)

InsertAll(chain, decs) ==
  FoldLeft(LAMBDA c, d : Table!Insert(c, d.name, d.kind), chain, decs)

Chain(s) ==
  LET opened == Table!PushScope(InsertAll(<<Table!NewScope>>, program.vars))
      object == IF s.kind = "method" THEN Table!Insert(opened, This, "arg") ELSE opened
  IN  InsertAll(object, s.params \o s.locals)

DeclaredType(s, x) ==
  LET own  == s.params \o s.locals
      all  == program.vars \o own
      last == CHOOSE k \in DOMAIN all :
                /\ all[k].name = x
                /\ \A j \in DOMAIN all : all[j].name = x => j <= k
  IN  all[last].type

Tokens(s) ==
  LET chain == Chain(s)
  IN  [x \in {y \in Names \ {This} : Table!Find(chain, y) # Table!Absent} |->
         [kind |-> Table!Find(chain, x).kind, idx |-> Table!Find(chain, x).idx,
          type |-> DeclaredType(s, x)]]

SignatureOf(s) ==
  [kind |-> s.kind, type |-> s.type, nArgs |-> Len(s.params), nLocals |-> Len(s.locals)]

Registry ==
  [c \in DOMAIN Library \cup {program.class} |->
     IF c # program.class THEN Library[c]
     ELSE [m \in {program.subs[k].name : k \in DOMAIN program.subs} |->
             SignatureOf(program.subs[CHOOSE k \in DOMAIN program.subs : program.subs[k].name = m])]]

ScopeOf(s) ==
  [class |-> program.class, kind |-> s.kind, type |-> s.type, tokens |-> Tokens(s),
   registry |-> Registry,
   fields |-> Len(SelectSeq(program.vars, LAMBDA d : d.kind = "field"))]

Sub == program.subs[sub]

-----------------------------------------------------------------------------
Init ==
  /\ program \in Programs
  /\ pass = "semantic" /\ sub = 1
  /\ verdict = Unjudged
  /\ gen = [code |-> <<>>, ifs |-> 0, whiles |-> 0]
  /\ pc = 0 /\ steps = 0 /\ calls = <<>> /\ result = 0 /\ left = 0
  /\ meant = <<>>
  /\ status = "ready" /\ frames = <<>> /\ data = [c \in VM!Cells |-> c % W]

Idle == UNCHANGED <<pc, steps, calls, result, left, meant, status, frames, data>>

Turn == IF sub < Len(program.subs) THEN sub + 1 ELSE 1

(* visit_subroutine of the semantic pass; after the last one the program   *)
(* is refused or goes on to the code generator.                            *)
VisitSubroutine ==
  /\ pass = "semantic"
  /\ LET v == VisitBody(ScopeOf(Sub), Sub.body)
     IN  verdict' = [v EXCEPT !.invalid = @ \/ verdict.invalid]
  /\ sub' = Turn
  /\ pass' = CASE verdict'.aborted        -> "aborted"
               [] sub < Len(program.subs) -> pass
               [] verdict'.invalid        -> "invalid"
               [] OTHER                   -> "codegen"
  /\ UNCHANGED <<program, gen>> /\ Idle

(* Mutant of EmitSubroutine: the label indices start again. *)
EmitSubroutineAfresh ==
  /\ pass = "codegen"
  /\ gen' = GenSubroutine(ScopeOf(Sub), Sub, [gen EXCEPT !.ifs = 0, !.whiles = 0])
  /\ sub' = Turn
  /\ pass' = IF sub < Len(program.subs) THEN pass ELSE "emitted"
  /\ UNCHANGED <<program, verdict>> /\ Idle

(* visit_subroutine of the code generator *)
EmitSubroutine ==
  /\ pass = "codegen"
  /\ gen' = GenSubroutine(ScopeOf(Sub), Sub, gen)
  /\ sub' = Turn
  /\ pass' = IF sub < Len(program.subs) THEN pass ELSE "emitted"
  /\ UNCHANGED <<program, verdict>> /\ Idle

-----------------------------------------------------------------------------
(* The machine.  `function c.m n' starts an activation with n locals.      *)

FunctionAt(m) ==
  CHOOSE k \in DOMAIN gen.code : gen.code[k].cmd = "function" /\ gen.code[k].arg1 = <<program.class, m>>

(* Argument 0 of a method is the object; a function or a constructor       *)
(* inherits the caller's pointers.                                         *)
ArgumentsFor(s) == SubSeq(Arguments, 1, Len(s.params) + (IF s.kind = "method" THEN 1 ELSE 0))

Own(s, as, junk) ==
  LET first == Len(as) - Len(s.params)
  IN  [x \in {d.name : d \in {s.params[k] : k \in DOMAIN s.params}
                       \cup {s.locals[k] : k \in DOMAIN s.locals}} |->
         IF \E k \in DOMAIN s.params : s.params[k].name = x
         THEN as[first + (CHOOSE k \in DOMAIN s.params : s.params[k].name = x)]
         ELSE junk]

Begun(s, as, junk) ==
  [val |-> 0, own |-> Own(s, as, junk), words |-> data,
   this |-> IF s.kind = "method" THEN as[1] ELSE Pointers.this,
   calls |-> <<>>, state |-> "going", fuel |-> MaxSteps, dos |-> 0, surplus |-> 0]

StartSubroutine ==
  /\ pass = "emitted" /\ HadError \notin {gen.code[k] : k \in DOMAIN gen.code}
  /\ status' = "running" /\ pass' = "run"
  /\ \E k \in DOMAIN program.subs, junk \in Junk :
       LET s  == program.subs[k]
           at == FunctionAt(s.name)
           as == ArgumentsFor(s)
       IN  /\ sub' = k
           /\ pc' = at + 1
           /\ frames' = <<VM!Activation(s.name, as, Pointers.this, Pointers.that,
                                        [i \in 1..gen.code[at].arg2 |-> junk])>>
           /\ meant' = Jack!Meaning(ScopeOf(s), s.body, Begun(s, as, junk))
  /\ UNCHANGED <<program, verdict, gen, steps, calls, result, left, data>>

Running == pass = "run" /\ pc \in DOMAIN gen.code /\ steps < MaxSteps

Command == gen.code[pc]

Frame == frames[1]

Segment == IF Command.arg1 = <<"argument">> THEN "arg" ELSE Command.arg1[1]

Target ==
  CHOOSE k \in DOMAIN gen.code : gen.code[k].cmd = "label" /\ gen.code[k].arg1 = Command.arg1

Proceed(next) ==
  /\ pc' = next /\ steps' = steps + 1
  /\ UNCHANGED <<program, pass, sub, verdict, gen, calls, result, left, meant>>

DoPush ==
  /\ Running /\ Command.cmd = "push"
  /\ VM!VMPush(<<>>, Frame, frames', Segment, Command.arg2)
  /\ Proceed(pc + 1)

DoPop ==
  /\ Running /\ Command.cmd = "pop"
  /\ VM!VMPop(<<>>, Frame, frames', Segment, Command.arg2)
  /\ Proceed(pc + 1)

DoNot ==
  /\ Running /\ Command.cmd = "not"
  /\ VM!VMUnary(<<>>, Frame, frames')
  /\ Proceed(pc + 1)

DoNeg ==
  /\ Running /\ Command.cmd = "neg" /\ Frame.work # <<>>
  /\ VM!Become(<<>>, VM!With(VM!Drop(Frame, 1), -VM!Top(Frame) % W), frames')
  /\ UNCHANGED data /\ Proceed(pc + 1)

DoBinary ==
  /\ Running /\ Command.cmd \in {"add", "sub", "eq", "gt", "lt"}
  /\ VM!VMBinary(<<>>, Frame, frames', Command.cmd)
  /\ Proceed(pc + 1)

DoLabel ==
  /\ Running /\ Command.cmd = "label"
  /\ UNCHANGED <<status, frames, data>> /\ Proceed(pc + 1)

DoGoto ==
  /\ Running /\ Command.cmd = "goto"
  /\ UNCHANGED <<status, frames, data>> /\ Proceed(Target)

DoIfGoto ==
  /\ Running /\ Command.cmd = "if-goto"
  /\ VM!VMIfGoto(<<>>, Frame, frames')
  /\ Proceed(IF VM!Top(Frame) = 0 THEN pc + 1 ELSE Target)

(* The callee's activation comes and goes in one step. *)
DoCall ==
  /\ Running /\ Command.cmd = "call" /\ Len(Frame.work) >= Command.arg2
  /\ LET args == VM!TopArgs(Frame, Command.arg2)
     IN  /\ calls' = Append(calls, [to |-> Command.arg1, args |-> args])
         /\ VM!Become(<<>>, VM!With(VM!Drop(Frame, Command.arg2), Answer(Command.arg1, args)), frames')
  /\ pc' = pc + 1 /\ steps' = steps + 1
  /\ UNCHANGED <<program, pass, sub, verdict, gen, result, left, meant, data>>

DoReturn ==
  /\ Running /\ Command.cmd = "return"
  /\ VM!VMReturn(<<>>, Frame, frames')
  /\ result' = VM!Top(Frame) /\ left' = Len(Frame.work) - 1
  /\ pass' = "returned" /\ steps' = steps + 1
  /\ UNCHANGED <<program, sub, verdict, gen, pc, calls, meant>>

Ended == {"aborted", "invalid", "returned"}

(* The words a command takes from the working stack. *)
Needed ==
  CASE Command.cmd \in {"pop", "not", "neg", "if-goto", "return"} -> 1
    [] Command.cmd \in DOMAIN ArgumentsOf \ {"push", "label", "goto", "call", "function"} -> 2
    [] Command.cmd = "call" -> Command.arg2
    [] OTHER -> 0

(* Commands short of words would take those of the frame below. *)
Finished ==
  /\ pass \in Ended \/ steps = MaxSteps \/ (Running /\ Len(Frame.work) < Needed)
  /\ UNCHANGED vars

Next ==
  \/ VisitSubroutine \/ EmitSubroutine \/ StartSubroutine
  \/ DoPush \/ DoPop \/ DoNot \/ DoNeg \/ DoBinary \/ DoLabel \/ DoGoto \/ DoIfGoto
  \/ DoCall \/ DoReturn
  \/ Finished

Spec == Init /\ [][Next]_vars

-----------------------------------------------------------------------------
(* Properties *)

Lines == {gen.code[k] : k \in DOMAIN gen.code}

(* The visits return early and share one flag; yet they let through exactly *)
(* the bodies in which every expression and statement, however deep, is    *)
(* right.                                                                  *)
AcceptsExactlyWellFormed ==
  pass \in {"invalid", "aborted", "emitted"} =>
    (pass = "emitted") = \A k \in DOMAIN program.subs :
                           WellFormedBody(ScopeOf(program.subs[k]), program.subs[k].body)

(* What the semantic pass lets through makes the code generator neither     *)
(* set had_error nor emit a line the backend cannot read as it was meant.  *)
AcceptedIsEmitted == pass = "emitted" => \A l \in Lines : ReadsBack(l)

(* No label is there twice, over all subroutines, and every jump stays in   *)
(* its own subroutine.                                                     *)
Enclosing(k) ==
  CHOOSE j \in 1..k : /\ gen.code[j].cmd = "function"
                      /\ \A i \in (j + 1)..k : gen.code[i].cmd # "function"

JumpsStayInside ==
  pass = "emitted" =>
    /\ \A j, k \in DOMAIN gen.code :
         gen.code[j].cmd = "label" /\ gen.code[k] = gen.code[j] => j = k
    /\ \A j \in DOMAIN gen.code :
         gen.code[j].cmd \in {"goto", "if-goto"} =>
           \E k \in DOMAIN gen.code : /\ gen.code[k].cmd = "label"
                                      /\ gen.code[k].arg1 = gen.code[j].arg1
                                      /\ Enclosing(k) = Enclosing(j)

(* A string literal leaves a word for each of its characters. *)
Literals(e) == {l \in Within(e) : l.kind = "string"}

(* One of several characters stands above words that are still to be used.  *)
Displaces(e) ==
  \E l \in UNION {Literals(above) :
                    above \in CASE e.kind = "call"   -> {e.args[k] : k \in 1..(Len(e.args) - 1)}
                               [] e.kind = "binary" -> {e.right}
                               [] e.kind = "array"  -> {e.index}
                               [] OTHER             -> {}} : Len(l.chars) > 1

Expressions(body) == UNION {ExpressionsOf(s) : s \in StatementsOf(body)}

HasEmptyLiteral(body) == \E l \in Expressions(body) : l.kind = "string" /\ l.chars = <<>>

(* The bodies whose literals do no harm. *)
LiteralsFit(body) ==
  /\ ~ HasEmptyLiteral(body)
  /\ \A e \in Expressions(body) : ~ Displaces(e)
  /\ \A s \in StatementsOf(body) :
       s.kind = "let" /\ s.index # <<>> => \A l \in Literals(s.index[1]) : Len(l.chars) = 1

(* The lines of an accepted program never lack a word on the working stack, *)
(* a slot of the frame or a command to go on with; an empty literal is the *)
(* exception, whose value nobody pushed.                                   *)
NeverStuck ==
  Running /\ ~ HasEmptyLiteral(Sub.body) =>
    /\ Command.cmd \in {"push", "pop"} => VM!Denotes(Frame, Segment, Command.arg2)
    /\ Len(Frame.work) >= Needed
    /\ Command.cmd # "function"

(* The execution makes the calls the statements ask for, in their order and *)
(* with the arguments the callee is to see, and ends with the result and   *)
(* the memory they give, where no literal pushes other words aside.        *)
SameEffects ==
  pass \in {"run", "returned"} /\ LiteralsFit(Sub.body) =>
    /\ IsPrefix(calls, meant.calls)
    /\ pass = "returned" =>
         /\ meant.state = "returned" /\ calls = meant.calls /\ result = meant.val
         /\ \A c \in VM!Cells \ Areas.temps : data[c] = meant.words[c]

(* When a subroutine returns, all that is left on its working stack are the *)
(* results of its `do' statements and the words of literals beyond the     *)
(* first: whole expressions leave one word each.                           *)
OnlyDoResultsLeft ==
  pass = "returned" /\ ~ HasEmptyLiteral(Sub.body) => left = meant.dos + meant.surplus
=============================================================================
