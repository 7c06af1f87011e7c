-------------------------------- MODULE Ast --------------------------------
(***************************************************************************)
(* The nodes the parser builds for types, expressions, statements and      *)
(* subroutines (jackc/compiler/ast).  A linked list of nodes is a sequence *)
(* and an optional node a sequence of at most one; spans are left out.     *)
(***************************************************************************)
EXTENDS Integers, Sequences

(* ast_type: the class name is only meant for TYPE_CLASS. *)
Type(k) == [kind |-> k, class |-> ""]

ClassType(c) == [kind |-> "class", class |-> c]

(* ast_variable_declaration *)
VarDec(k, x, t) == [kind |-> k, name |-> x, type |-> t]

-----------------------------------------------------------------------------
Num(n) == [kind |-> "int", val |-> n]

Str(cs) == [kind |-> "string", chars |-> cs]

Key(w) == [kind |-> "keyword", word |-> w]

Var(x) == [kind |-> "var", name |-> x]

At(x, i) == [kind |-> "array", name |-> x, index |-> i]

Unary(op, e) == [kind |-> "unary", op |-> op, operand |-> e]

Binary(l, op, r) == [kind |-> "binary", op |-> op, left |-> l, right |-> r]

(* No receiver means the class at hand, and its object for a method. *)
Implicit == ""

Call(r, m, as) == [kind |-> "call", receiver |-> r, name |-> m, args |-> as]

-----------------------------------------------------------------------------
Let(x, i, e) == [kind |-> "let", name |-> x, index |-> i, value |-> e]

If(c, t, f) == [kind |-> "if", cond |-> c, then |-> t, else |-> f]

While(c, b) == [kind |-> "while", cond |-> c, body |-> b]

Do(c) == [kind |-> "do", call |-> c]

Return(e) == [kind |-> "return", value |-> e]

(* ast_subroutine_create *)
Subroutine(k, t, m, ps, ls, b) ==
  [kind |-> k, type |-> t, name |-> m, params |-> ps, locals |-> ls, body |-> b]

-----------------------------------------------------------------------------
(* What the trees contain, read off their shape: every expression below an *)
(* expression, every statement below a list of them, and the expressions   *)
(* those start with.                                                       *)

RECURSIVE Within(_)
Within(e) ==
  {e} \cup
  CASE e.kind = "array"  -> Within(e.index)
    [] e.kind = "unary"  -> Within(e.operand)
    [] e.kind = "binary" -> Within(e.left) \cup Within(e.right)
    [] e.kind = "call"   -> UNION {Within(e.args[k]) : k \in DOMAIN e.args}
    [] OTHER             -> {}

RECURSIVE StatementsOf(_)
StatementsOf(ss) ==
  UNION {{ss[k]} \cup
         CASE ss[k].kind = "if"    -> StatementsOf(ss[k].then) \cup StatementsOf(ss[k].else)
           [] ss[k].kind = "while" -> StatementsOf(ss[k].body)
           [] OTHER                -> {} : k \in DOMAIN ss}

Roots(s) ==
  CASE s.kind = "let"             -> {s.value} \cup {s.index[k] : k \in DOMAIN s.index}
    [] s.kind \in {"if", "while"} -> {s.cond}
    [] s.kind = "do"              -> {s.call}
    [] s.kind = "return"          -> {s.value[k] : k \in DOMAIN s.value}

ExpressionsOf(s) == UNION {Within(e) : e \in Roots(s)}
=============================================================================
