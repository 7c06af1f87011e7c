------------------------------ MODULE CodeGen ------------------------------
(***************************************************************************)
(* The VM lines the frontend emits for one subroutine (code-gen/, and      *)
(* vm_segment_to_string of type_mappers.c).  Scope is as in SemanticBodies *)
(* with fields, the number of the class's fields, and tokens that carry    *)
(* the segment indices.                                                    *)
(***************************************************************************)
EXTENDS SemanticBodies

Line(cmd, arg1, arg2) == [cmd |-> cmd, arg1 |-> arg1, arg2 |-> arg2]

(* had_error stays set, and the file that has this line in it is removed.  *)
HadError == Line("error", <<>>, 0)

Push(seg, i) == Line("push", <<seg>>, i)

Pop(seg, i) == Line("pop", <<seg>>, i)

(* vm_emit_signed_const *)
Constant(n) == Push("constant", n)

CallTo(c, m, n) == Line("call", <<c, m>>, n)

Jump(cmd, label, i) == Line(cmd, <<label, i>>, 0)

Plain(cmd) == Line(cmd, <<>>, 0)

UnaryCommand == [NEG |-> "neg", NOT |-> "not"]

BinaryCommand == [ADD |-> "add", SUB |-> "sub", MUL |-> "mul", DIV |-> "div", AND |-> "and",
                  OR |-> "or", LT |-> "lt", GT |-> "gt", EQ |-> "eq"]

(* vm_segment_from_variable_kind, and how the segments are spelled *)
SegmentOf == [static |-> "static", field |-> "this", local |-> "local", arg |-> "argument"]

Variable(scope, x) == Push(SegmentOf[scope.tokens[x].kind], scope.tokens[x].idx)

-----------------------------------------------------------------------------
(* emit_std_call: the string under construction is kept in temp 0. *)
StringNew(n) == <<Constant(n), CallTo("String", "new", 1)>>

AppendChar(c) == <<Constant(c), Push("temp", 0), CallTo("String", "appendChar", 2)>>

MemoryAlloc(n) == <<Constant(n), CallTo("Memory", "alloc", 1)>>

(* vm_emit_string_from_string_literal.  Every appendChar leaves its result *)
(* on the stack, so that a literal is as many words as it has characters.  *)
StringLiteral(cs) ==
  StringNew(Len(cs)) \o <<Pop("temp", 0)>>
    \o FlattenSeq([k \in DOMAIN cs |-> AppendChar(cs[k])])

Keyword(w) ==
  CASE w = "true"            -> Constant(1)
    [] w \in {"false", "null"} -> Constant(0)
    [] w = "this"            -> Push("pointer", 0)

RECURSIVE GenExpression(_, _)

(* The arguments are evaluated from the last to the first. *)
GenArguments(scope, as) ==
  FlattenSeq([k \in DOMAIN as |-> GenExpression(scope, as[Len(as) + 1 - k])])

IsMethod(scope, c) == Signature(scope, c).kind = "method"

(* The object of a method call is argument 0, pushed after all others. *)
PushThis(scope, c) ==
  CASE ~ IsMethod(scope, c)   -> <<>>
    [] c.receiver = Implicit  -> <<Push("pointer", 0)>>
    [] IsVariable(scope, c)   -> <<Variable(scope, c.receiver)>>
    [] OTHER                  -> <<HadError>>

(* visit_subroutine_call *)
GenCall(scope, c) ==
  GenArguments(scope, c.args) \o
  IF Resolves(scope, c)
  THEN PushThis(scope, c) \o
       <<CallTo(ReceiverClass(scope, c), c.name,
                Len(c.args) + (IF IsMethod(scope, c) THEN 1 ELSE 0))>>
  ELSE <<HadError>>

(* The address of an element becomes `that', whose word 0 it is. *)
Element(scope, x, i) ==
  <<Variable(scope, x)>> \o GenExpression(scope, i)
    \o <<Plain(BinaryCommand.ADD), Pop("pointer", 1)>>

(* visit_expression *)
GenExpression(scope, e) ==
  CASE e.kind = "int"     -> <<Constant(e.val)>>
    [] e.kind = "string"  -> StringLiteral(e.chars)
    [] e.kind = "keyword" -> <<Keyword(e.word)>>
    [] e.kind = "call"    -> GenCall(scope, e)
    [] e.kind = "unary"   -> GenExpression(scope, e.operand) \o <<Plain(UnaryCommand[e.op])>>
    [] e.kind = "binary"  -> GenExpression(scope, e.left) \o GenExpression(scope, e.right)
                               \o <<Plain(BinaryCommand[e.op])>>
    [] e.name \notin DOMAIN scope.tokens -> <<HadError>>
    [] e.kind = "var"     -> <<Variable(scope, e.name)>>
    [] e.kind = "array"   -> Element(scope, e.name, e.index) \o <<Push("that", 0)>>

-----------------------------------------------------------------------------
(* Statements are emitted after what g.code has, with the label indices    *)
(* that g.ifs and g.whiles have reached.                                   *)
Emit(g, lines) == [g EXCEPT !.code = @ \o lines]

RECURSIVE GenStatements(_, _, _)

(* Mutant of GenLet: the element's address is computed before the value.   *)
GenLetIndexFirst(scope, s) ==
  IF s.name \notin DOMAIN scope.tokens THEN <<HadError>>
  ELSE IF s.index = <<>>
       THEN GenExpression(scope, s.value)
              \o <<Pop(SegmentOf[scope.tokens[s.name].kind], scope.tokens[s.name].idx)>>
       ELSE Element(scope, s.name, s.index[1])
              \o GenExpression(scope, s.value) \o <<Pop("that", 0)>>

(* STMT_LET: the value comes before the index of the element. *)
GenLet(scope, s) ==
  IF s.name \notin DOMAIN scope.tokens THEN <<HadError>>
  ELSE GenExpression(scope, s.value) \o
       IF s.index = <<>>
       THEN <<Pop(SegmentOf[scope.tokens[s.name].kind], scope.tokens[s.name].idx)>>
       ELSE Element(scope, s.name, s.index[1]) \o <<Pop("that", 0)>>

(* STMT_IF: the false branch first; the index is taken before the branches. *)
GenIf(scope, s, g) ==
  LET test == Emit([g EXCEPT !.ifs = @ + 1],
                   GenExpression(scope, s.cond) \o <<Jump("if-goto", "IF_TRUE", g.ifs)>>)
      otherwise == Emit(GenStatements(scope, s.else, test),
                        <<Jump("goto", "IF_END", g.ifs), Jump("label", "IF_TRUE", g.ifs)>>)
  IN  Emit(GenStatements(scope, s.then, otherwise), <<Jump("label", "IF_END", g.ifs)>>)

(* Mutant of GenWhile: the label is placed after the condition. *)
GenWhileStale(scope, s, g) ==
  LET test == Emit([g EXCEPT !.whiles = @ + 1],
                   GenExpression(scope, s.cond) \o <<Jump("label", "WHILE_CONDITION", g.whiles)>>
                     \o <<Plain(UnaryCommand.NOT), Jump("if-goto", "WHILE_END", g.whiles)>>)
  IN  Emit(GenStatements(scope, s.body, test),
           <<Jump("goto", "WHILE_CONDITION", g.whiles), Jump("label", "WHILE_END", g.whiles)>>)

(* STMT_WHILE *)
GenWhile(scope, s, g) ==
  LET test == Emit([g EXCEPT !.whiles = @ + 1],
                   <<Jump("label", "WHILE_CONDITION", g.whiles)>> \o GenExpression(scope, s.cond)
                     \o <<Plain(UnaryCommand.NOT), Jump("if-goto", "WHILE_END", g.whiles)>>)
  IN  Emit(GenStatements(scope, s.body, test),
           <<Jump("goto", "WHILE_CONDITION", g.whiles), Jump("label", "WHILE_END", g.whiles)>>)

GenReturn(scope, s) ==
  (IF s.value = <<>> THEN <<Constant(0)>> ELSE GenExpression(scope, s.value[1]))
    \o <<Plain("return")>>

(* visit_stmt *)
GenStatement(scope, s, g) ==
  CASE s.kind = "let"    -> Emit(g, GenLet(scope, s))
    [] s.kind = "do"     -> Emit(g, GenCall(scope, s.call))
    [] s.kind = "return" -> Emit(g, GenReturn(scope, s))
    [] s.kind = "if"     -> GenIf(scope, s, g)
    [] s.kind = "while"  -> GenWhile(scope, s, g)

GenStatements(scope, ss, g) ==
  FoldLeft(LAMBDA h, s : GenStatement(scope, s, h), g, ss)

-----------------------------------------------------------------------------
(* A constructor allocates its object, a method finds it as argument 0. *)
Prologue(scope) ==
  CASE scope.kind = "constructor" -> MemoryAlloc(scope.fields) \o <<Pop("pointer", 0)>>
    [] scope.kind = "method"      -> <<Push("argument", 0), Pop("pointer", 0)>>
    [] scope.kind = "function"    -> <<>>

(* `return 0' is added unless the last statement returns. *)
Epilogue(body) ==
  IF body # <<>> /\ body[Len(body)].kind = "return" THEN <<>>
  ELSE <<Constant(0), Plain("return")>>

(* Mutant of GenSubroutine: a body that returns somewhere gets no epilogue. *)
GenSubroutineTrusting(scope, sub, g) ==
  LET opened == Emit(g, <<Line("function", <<scope.class, sub.name>>, Len(sub.locals))>>
                          \o Prologue(scope))
      done   == GenStatements(scope, sub.body, opened)
  IN  IF \E s \in StatementsOf(sub.body) : s.kind = "return" THEN done
      ELSE Emit(done, Epilogue(sub.body))

(* visit_subroutine *)
GenSubroutine(scope, sub, g) ==
  LET opened == Emit(g, <<Line("function", <<scope.class, sub.name>>, Len(sub.locals))>>
                          \o Prologue(scope))
  IN  Emit(GenStatements(scope, sub.body, opened), Epilogue(sub.body))
=============================================================================
