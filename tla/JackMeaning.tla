---------------------------- MODULE JackMeaning ----------------------------
(***************************************************************************)
(* What a subroutine's statements mean, as an interpreter of the syntax    *)
(* tree that knows variables by name and has no stack: the reference the   *)
(* emitted lines are compared with.  Calls are opaque; their sequence,     *)
(* each with what its callee sees, is what an execution shows, together    *)
(* with the result and the words it leaves in memory.                      *)
(***************************************************************************)
EXTENDS SemanticBodies

CONSTANTS W,             (* words are 0..W-1                                  *)
          StaticBase,    (* address of the first static variable              *)
          Answer(_, _)   (* what a call returns, from its name and arguments  *)

(* An execution: the value at hand, the variables of the subroutine, the   *)
(* words of the memory, the object, the calls made, how it stands, the     *)
(* `do' statements executed and the words its literals are too long by.    *)
Word(n) == n % W

Truth(b) == IF b THEN 1 ELSE 0

Address(scope, s, x) ==
  scope.tokens[x].idx + (IF scope.tokens[x].kind = "static" THEN StaticBase ELSE s.this)

IsOwn(scope, x) == scope.tokens[x].kind \in {"local", "arg"}

Fetch(scope, s, x) == IF IsOwn(scope, x) THEN s.own[x] ELSE s.words[Address(scope, s, x)]

Store(scope, s, x) ==
  IF IsOwn(scope, x) THEN [s EXCEPT !.own[x] = s.val]
  ELSE [s EXCEPT !.words[Address(scope, s, x)] = s.val]

Gives(s, v) == [s EXCEPT !.val = v]

Operate(op, a, b) ==
  CASE op = "ADD" -> Word(a + b)
    [] op = "SUB" -> Word(a - b)
    [] op = "EQ"  -> Truth(a = b)
    [] op = "LT"  -> Truth(a < b)
    [] op = "GT"  -> Truth(a > b)

Calls(s, to, args) ==
  [s EXCEPT !.calls = Append(@, [to |-> to, args |-> args]), !.val = Answer(to, args)]

(* A literal is a new string of its length with each character appended.   *)
Spell(s, cs) ==
  LET new == Calls(s, <<"String", "new">>, <<Len(cs)>>)
      all == FoldLeft(LAMBDA t, c : Calls(t, <<"String", "appendChar">>, <<new.val, c>>), new, cs)
  IN  [all EXCEPT !.val = new.val, !.surplus = @ + Len(cs) - 1]

RECURSIVE Eval(_, _, _)

(* The arguments' values in their order, evaluated from the last one. *)
EvalAll(scope, es, s) ==
  FoldRight(LAMBDA e, r : [s |-> Eval(scope, e, r.s),
                           vals |-> <<Eval(scope, e, r.s).val>> \o r.vals],
            es, [s |-> s, vals |-> <<>>])

EvalCall(scope, c, s) ==
  LET args == EvalAll(scope, c.args, s)
      this == IF Signature(scope, c).kind # "method" THEN <<>>
              ELSE IF c.receiver = Implicit THEN <<s.this>>
              ELSE <<Fetch(scope, args.s, c.receiver)>>
  IN  Calls(args.s, <<ReceiverClass(scope, c), c.name>>, this \o args.vals)

Eval(scope, e, s) ==
  CASE e.kind = "int"     -> Gives(s, e.val)
    [] e.kind = "string"  -> Spell(s, e.chars)
    [] e.kind = "keyword" -> Gives(s, CASE e.word = "true" -> 1
                                        [] e.word = "this" -> s.this
                                        [] OTHER -> 0)
    [] e.kind = "var"     -> Gives(s, Fetch(scope, s, e.name))
    [] e.kind = "call"    -> EvalCall(scope, e, s)
    [] e.kind = "array"   -> LET i == Eval(scope, e.index, s)
                             IN  Gives(i, i.words[Word(Fetch(scope, s, e.name) + i.val)])
    [] e.kind = "unary"   -> LET v == Eval(scope, e.operand, s)
                             IN  Gives(v, IF e.op = "NOT" THEN Truth(v.val = 0) ELSE Word(-v.val))
    [] e.kind = "binary"  -> LET l == Eval(scope, e.left, s)
                                 r == Eval(scope, e.right, l)
                             IN  Gives(r, Operate(e.op, l.val, r.val))

-----------------------------------------------------------------------------
ExecLet(scope, t, s) ==
  LET v == Eval(scope, t.value, s)
      i == Eval(scope, t.index[1], v)
  IN  IF t.index = <<>> THEN Store(scope, v, t.name)
      ELSE [i EXCEPT !.words[Word(Fetch(scope, i, t.name) + i.val)] = v.val]

RECURSIVE Exec(_, _, _)

(* A loop stops the interpreter when it has used its fuel up. *)
RECURSIVE ExecWhile(_, _, _)
ExecWhile(scope, t, s) ==
  LET test == Eval(scope, t.cond, s)
  IN  CASE s.state # "going"  -> s
        [] s.fuel = 0         -> [s EXCEPT !.state = "stopped"]
        [] test.val = 0       -> test
        [] OTHER              -> ExecWhile(scope, t, Exec(scope, t.body, [test EXCEPT !.fuel = @ - 1]))

ExecOne(scope, t, s) ==
  CASE s.state # "going"  -> s
    [] t.kind = "let"     -> ExecLet(scope, t, s)
    [] t.kind = "do"      -> [EvalCall(scope, t.call, s) EXCEPT !.dos = @ + 1]
    [] t.kind = "if"      -> LET test == Eval(scope, t.cond, s)
                             IN  Exec(scope, IF test.val # 0 THEN t.then ELSE t.else, test)
    [] t.kind = "while"   -> ExecWhile(scope, t, s)
    [] t.kind = "return"  -> [(IF t.value = <<>> THEN Gives(s, 0) ELSE Eval(scope, t.value[1], s))
                                EXCEPT !.state = "returned"]

Exec(scope, ts, s) == FoldLeft(LAMBDA r, t : ExecOne(scope, t, r), s, ts)

(* A subroutine from its first statement on: falling off its end returns 0. *)
Meaning(scope, body, begun) ==
  LET built == IF scope.kind # "constructor" THEN begun
               ELSE LET new == Calls(begun, <<"Memory", "alloc">>, <<scope.fields>>)
                    IN  [new EXCEPT !.this = new.val]
      end   == Exec(scope, body, built)
  IN  IF end.state = "going" THEN [end EXCEPT !.val = 0, !.state = "returned"] ELSE end
=============================================================================
