--------------------------- MODULE SemanticBodies ---------------------------
(***************************************************************************)
(* The semantic pass over the statements of one subroutine, and the types  *)
(* it gives to expressions (semantic_validity_traversal.c and              *)
(* ast_traversal_utils.c).  Scope is what the pass finds when it is in the *)
(* subroutine:                                                             *)
(*   class     the class at hand        kind, type   of the subroutine     *)
(*   tokens    the variables in scope: kind, index and type by name        *)
(*   registry  class -> subroutine -> kind, type and numbers of variables  *)
(* Declarations is where tokens and registry come from.                    *)
(***************************************************************************)
EXTENDS Ast, SequencesExt

Knows(scope, c, m) == c \in DOMAIN scope.registry /\ m \in DOMAIN scope.registry[c]

IsClass(scope, x) == scope.tokens[x].type.kind = "class"

(* resolve_subroutine_call_receiver.  Asking it about a variable that is no *)
(* object is an assertion (see Aborts).                                    *)
ReceiverClass(scope, c) ==
  CASE c.receiver = Implicit            -> scope.class
    [] c.receiver \in DOMAIN scope.tokens -> scope.tokens[c.receiver].type.class
    [] OTHER                            -> c.receiver

Resolves(scope, c) == Knows(scope, ReceiverClass(scope, c), c.name)

Signature(scope, c) == scope.registry[ReceiverClass(scope, c)][c.name]

(* sym_table_token_to_ast_type *)
TokenType(t) == IF t.type.kind = "class" THEN t.type ELSE Type("int")

Arithmetic == {"ADD", "SUB", "MUL", "DIV"}

(* resolve_expression_type: arguments and indices are not looked at. *)
RECURSIVE TypeOf(_, _)
TypeOf(scope, e) ==
  CASE e.kind \in {"int", "array"} -> Type("int")
    [] e.kind = "string"  -> ClassType("String")
    [] e.kind = "keyword" -> IF e.word = "this" THEN ClassType(scope.class) ELSE Type("int")
    [] e.kind = "unary"   -> TypeOf(scope, e.operand)
    [] e.kind = "binary"  -> IF \E side \in {e.left, e.right} : TypeOf(scope, side).kind = "void"
                             THEN Type("void")
                             ELSE Type(IF e.op \in Arithmetic THEN "int" ELSE "boolean")
    [] e.kind = "call"    -> IF Resolves(scope, e) THEN Signature(scope, e).type ELSE Type("void")
    [] e.kind = "var"     -> IF e.name \in DOMAIN scope.tokens
                             THEN TokenType(scope.tokens[e.name]) ELSE Type("void")

(* The calls whose type TypeOf asks for. *)
RECURSIVE Asked(_)
Asked(e) ==
  CASE e.kind = "unary"  -> Asked(e.operand)
    [] e.kind = "binary" -> Asked(e.left) \cup Asked(e.right)
    [] e.kind = "call"   -> {e}
    [] OTHER             -> {}

(* jackc_assert(receiver_var.type == JACK_CLASS) fails. *)
Aborts(scope, e) ==
  \E c \in Asked(e) : c.receiver \in DOMAIN scope.tokens /\ ~ IsClass(scope, c.receiver)

Primitive == {"int", "char", "boolean"}

(* are_types_compatible *)
Compatible(left, right) ==
  IF "void" \in {left.kind, right.kind} THEN left.kind = right.kind
  ELSE IF "class" \in {left.kind, right.kind}
       THEN left = right \/ left = ClassType("Array") \/ {left.kind, right.kind} \cap Primitive # {}
       ELSE {left.kind, right.kind} \subseteq Primitive

-----------------------------------------------------------------------------
(* is_valid_var_or_diagnostic *)
IsValidVar(scope, x) == x \in DOMAIN scope.tokens /\ ~ Knows(scope, scope.class, x)

IsVariable(scope, c) == c.receiver # Implicit /\ c.receiver \in DOMAIN scope.tokens

(* A call of a method needs an object: a variable, or this subroutine's own. *)
HasObject(scope, c) ==
  IF c.receiver = Implicit THEN scope.kind \in {"method", "constructor"}
  ELSE IsVariable(scope, c)

ReceiverRefused(scope, c) ==
  IF IsVariable(scope, c) THEN ~ IsClass(scope, c.receiver)
  ELSE c.receiver # Implicit /\ c.receiver \notin DOMAIN scope.registry

RECURSIVE Refused(_, _)

(* visit_subroutine_call: a receiver or a name that is not known ends it.  *)
CallRefused(scope, c) ==
  \/ ReceiverRefused(scope, c)
  \/ ~ Resolves(scope, c)
  \/ ~ HasObject(scope, c) /\ Signature(scope, c).kind = "method"
  \/ \E k \in DOMAIN c.args : Refused(scope, c.args[k])
  \/ Len(c.args) # Signature(scope, c).nArgs

(* visit_expression: whether it reports anything. *)
Refused(scope, e) ==
  CASE e.kind = "var"    -> ~ IsValidVar(scope, e.name)
    [] e.kind = "array"  -> ~ IsValidVar(scope, e.name) \/ Refused(scope, e.index)
    [] e.kind = "call"   -> CallRefused(scope, e)
    [] e.kind = "unary"  -> Refused(scope, e.operand)
    [] e.kind = "binary" -> Refused(scope, e.left) \/ Refused(scope, e.right)
    [] OTHER             -> FALSE

-----------------------------------------------------------------------------
(* The visits of statements pass on what the context keeps: whether a      *)
(* diagnostic was emitted, a return seen, or an assertion hit; nothing is  *)
(* looked at after the last.                                               *)
Unjudged == [invalid |-> FALSE, returned |-> FALSE, aborted |-> FALSE]

Noting(v, bad) == [v EXCEPT !.invalid = @ \/ bad]

(* resolve_expression_type on e, and a diagnostic unless its type will do. *)
Judge(scope, e, Bad(_), v) ==
  CASE v.aborted        -> v
    [] Aborts(scope, e) -> [v EXCEPT !.aborted = TRUE]
    [] OTHER            -> Noting(v, Bad(TypeOf(scope, e)))

(* matching_return_type_or_diagnostic, with and without an expression *)
BadReturn(scope, t) == t.kind = "void" \/ ~ Compatible(scope.type, t)

BadPlainReturn(scope) == scope.type.kind # "void"

(* A literal may only be assigned to a String, or to an Array's element.   *)
BadLiteral(scope, s) ==
  /\ s.value.kind = "string"
  /\ scope.tokens[s.name].type # ClassType("String")
  /\ ~ (scope.tokens[s.name].type = ClassType("Array") /\ s.index # <<>>)

JudgeIndex(scope, s, v) ==
  IF s.index = <<>> THEN v
  ELSE LET BadIndex(t) == ~ Compatible(Type("int"), t)
       IN  Judge(scope, s.index[1], BadIndex, Noting(v, Refused(scope, s.index[1])))

(* STMT_LET: the array's element may have any type the array itself may. *)
VisitLet(scope, s, v) ==
  IF ~ IsValidVar(scope, s.name) THEN Noting(v, TRUE)
  ELSE LET BadValue(t) == ~ Compatible(TokenType(scope.tokens[s.name]), t)
           indexed     == JudgeIndex(scope, s, Noting(v, BadLiteral(scope, s)))
       IN  Judge(scope, s.value, BadValue, Noting(indexed, Refused(scope, s.value)))

VisitReturn(scope, s, v) ==
  LET seen    == [v EXCEPT !.returned = TRUE]
      Bad(t)  == BadReturn(scope, t)
  IN  IF s.value = <<>> THEN Noting(seen, BadPlainReturn(scope))
      ELSE Judge(scope, s.value[1], Bad, Noting(seen, Refused(scope, s.value[1])))

RECURSIVE VisitStatements(_, _, _)

(* Mutant of VisitStatement: an `else' block is only visited without a `then'. *)
VisitStatementOneBranch(scope, s, v) ==
  CASE v.aborted         -> v
    [] s.kind = "let"    -> VisitLet(scope, s, v)
    [] s.kind = "do"     -> Noting(v, CallRefused(scope, s.call))
    [] s.kind = "return" -> VisitReturn(scope, s, v)
    [] s.kind = "while"  -> VisitStatements(scope, s.body, Noting(v, Refused(scope, s.cond)))
    [] s.kind = "if"     -> VisitStatements(scope, IF s.then = <<>> THEN s.else ELSE s.then,
                                            Noting(v, Refused(scope, s.cond)))

(* visit_statement.  An `if' without statements is a warning, and yet it   *)
(* makes the program invalid.                                              *)
VisitStatement(scope, s, v) ==
  CASE v.aborted         -> v
    [] s.kind = "let"    -> VisitLet(scope, s, v)
    [] s.kind = "do"     -> Noting(v, CallRefused(scope, s.call))
    [] s.kind = "return" -> VisitReturn(scope, s, v)
    [] s.kind = "while"  -> VisitStatements(scope, s.body, Noting(v, Refused(scope, s.cond)))
    [] s.kind = "if"     -> VisitStatements(scope, s.then \o s.else,
                                            Noting(v, Refused(scope, s.cond) \/ s.then \o s.else = <<>>))

VisitStatements(scope, ss, v) ==
  FoldLeft(LAMBDA w, s : VisitStatement(scope, s, w), v, ss)

(* The statements of a subroutine and the return it must have somewhere.   *)
VisitBody(scope, body) ==
  LET v == VisitStatements(scope, body, Unjudged)
  IN  IF v.aborted \/ v.returned THEN v ELSE Noting(v, BadPlainReturn(scope))

-----------------------------------------------------------------------------
(* What a body must be, of every statement and expression in it. *)

GoodCall(scope, c) ==
  /\ IsVariable(scope, c) => IsClass(scope, c.receiver)
  /\ Resolves(scope, c)
  /\ Len(c.args) = Signature(scope, c).nArgs
  /\ Signature(scope, c).kind = "method" => HasObject(scope, c)

GoodExpression(scope, e) ==
  /\ e.kind \in {"var", "array"} => IsValidVar(scope, e.name)
  /\ e.kind = "call" => GoodCall(scope, e)

(* Values go where their type may go. *)
GoodTypes(scope, s) ==
  CASE s.kind = "let" ->
         /\ IsValidVar(scope, s.name)
         /\ ~ BadLiteral(scope, s)
         /\ Compatible(TokenType(scope.tokens[s.name]), TypeOf(scope, s.value))
         /\ \A k \in DOMAIN s.index : TypeOf(scope, s.index[k]).kind # "void"
    [] s.kind = "return" ->
         IF s.value = <<>> THEN scope.type.kind = "void"
         ELSE TypeOf(scope, s.value[1]).kind # "void" /\ Compatible(scope.type, TypeOf(scope, s.value[1]))
    [] s.kind = "if" -> s.then # <<>> \/ s.else # <<>>
    [] OTHER -> TRUE

WellFormedBody(scope, body) ==
  /\ \A s \in StatementsOf(body) :
       /\ \A e \in ExpressionsOf(s) : GoodExpression(scope, e)
       /\ GoodTypes(scope, s)
  /\ scope.type.kind # "void" => \E s \in StatementsOf(body) : s.kind = "return"
=============================================================================
