------------------------------ MODULE MCBodies ------------------------------
(***************************************************************************)
(* Classes for TLC: a first subroutine with a varied body, in each of the  *)
(* three kinds, and a second one with an `if' and a `while' of its own.    *)
(* Expressions are nested twice and statements twice.  Every word is an    *)
(* address of the heap.                                                    *)
(***************************************************************************)
EXTENDS Bodies

INT == Type("int")

VOID == Type("void")

MCLibrary ==
  [Obj    |-> [get   |-> [kind |-> "method", type |-> INT, nArgs |-> 1, nLocals |-> 0],
               put   |-> [kind |-> "method", type |-> VOID, nArgs |-> 2, nLocals |-> 0],
               twice |-> [kind |-> "function", type |-> INT, nArgs |-> 2, nLocals |-> 0],
               new   |-> [kind |-> "constructor", type |-> ClassType("Obj"), nArgs |-> 1, nLocals |-> 0]],
   String |-> [new        |-> [kind |-> "constructor", type |-> ClassType("String"), nArgs |-> 1, nLocals |-> 0],
               appendChar |-> [kind |-> "method", type |-> ClassType("String"), nArgs |-> 1, nLocals |-> 0]],
   Memory |-> [alloc |-> [kind |-> "function", type |-> INT, nArgs |-> 1, nLocals |-> 0]]]

(* Opaque results that tell the arguments' order apart. *)
MCAnswer(to, args) ==
  CASE to = <<"Memory", "alloc">>      -> 2
    [] to = <<"String", "new">>        -> 6
    [] to = <<"String", "appendChar">> -> args[1]
    [] to[2] = "get"                   -> (args[1] + 2 * args[2]) % 8
    [] to[2] = "twice"                 -> (args[1] + 3 * args[2] + 1) % 8
    [] OTHER                           -> 5

MCAreas == [statics |-> {10, 11}, temps |-> {12}, heap |-> 0..9]

(* Argument 0, the object of a method, x and the address in a. *)
MCArguments == <<1, 3, 4>>

MCPointers == [this |-> 7, that |-> 0]

-----------------------------------------------------------------------------
(* Variables, literals and keywords; two names that may not be used. *)
Leaves ==
  {Num(1), Var("x"), Var("s"), Var("f"), Var("y"), Key("this"), Key("true"), Str(<<3>>)}

BadLeaves == {Var("nowhere"), Var("run")}

Calls1(as, bs) ==
  {Call("Obj", "twice", <<a, b>>) : a \in as, b \in bs}
  \cup {Call("o", "get", <<a>>) : a \in as} \cup {Call(Implicit, "two", <<b>>) : b \in bs}
  \cup {Call("h", "put", <<a, b>>) : a \in as, b \in bs}

BadCalls ==
  {Call("y", "get", <<Num(1)>>), Call("Obj", "get", <<Num(1)>>), Call("Obj", "none", <<>>),
   Call("Nobody", "get", <<Num(1)>>), Call("o", "get", <<>>), Call("o", "get", <<Num(1), Num(2)>>),
   Call(Implicit, "run", <<Num(1), Num(2)>>), Call("o", "get", <<Var("nowhere")>>)}

Simple == {Num(1), Var("x"), Var("f")}

Nested(es) ==
  {At("a", e) : e \in es} \cup {Unary("NOT", e) : e \in es} \cup {Unary("NEG", e) : e \in es}
  \cup {Binary(l, op, r) : l \in es, op \in {"SUB", "LT", "EQ"}, r \in Simple}
  \cup {Binary(l, "ADD", r) : l \in Simple, r \in es}
  \cup Calls1(es, {Var("y")}) \cup Calls1({Var("y")}, es)

Deep1 == Nested(Leaves)

Deep2 == Nested({At("a", Var("x")), Call("o", "get", <<Var("x")>>), Binary(Var("x"), "GT", Num(1)),
                 Call("Obj", "twice", <<At("a", Var("y")), At("a", Var("x"))>>),
                 Binary(At("a", Var("x")), "SUB", At("a", Num(1)))})

Deep3 == Nested(Nested(Simple))

Wrong == Nested(BadLeaves) \cup BadCalls \cup Nested({Call("y", "get", <<Num(1)>>)})

Small == {Var("x"), At("a", Var("y")), Call("o", "get", <<At("a", Num(1))>>)}

-----------------------------------------------------------------------------
Literal == Str(<<3, 4>>)

Lets ==
  {Let(x, <<>>, e) : x \in {"y", "f"}, e \in Leaves \cup BadLeaves \cup Deep1 \cup Deep2 \cup Wrong}
  \cup {Let("y", <<>>, e) : e \in Deep3}
  \cup {Let(x, <<>>, e) : x \in {"s", "o", "t", "run", "nowhere"},
                          e \in Leaves \cup {Var("o"), Var("a"), Call("Obj", "new", <<Num(3)>>)}}
  \cup {Let("a", <<i>>, e) : i \in Small \cup {Str(<<3>>), Var("nowhere"), Call("h", "put", <<Num(1), Num(2)>>)},
                             e \in Small \cup Leaves}
  \cup {Let(x, <<>>, e) : x \in {"t", "y"},
                          e \in {Literal, Str(<<>>), Call("Obj", "new", <<Literal>>), Binary(Var("x"), "ADD", Literal),
                                 Binary(Literal, "ADD", Var("x")), At("a", Literal)}}
  \cup {Let("a", <<i>>, e) : i \in {Var("x"), Literal}, e \in {Literal, Num(1)}}

(* Literals of several characters, where nothing is beneath them and where *)
(* something is.                                                           *)
Dos ==
  {Do(c) : c \in Calls1(Small, {Var("y"), Var("o")}) \cup BadCalls
                  \cup {Call("h", "put", <<a, b>>) : a, b \in {Var("y"), Literal, Str(<<3, 4, 1>>)}}}

Returns == {Return(<<>>)} \cup {Return(<<e>>) : e \in Small \cup Leaves \cup BadCalls \cup {Var("o")}}

Incr == Let("y", <<>>, Binary(Var("y"), "ADD", Num(1)))

Send == Do(Call("h", "put", <<Var("x"), Var("y")>>))

Blocks == {<<>>, <<Send>>, <<Incr, Send>>, <<Return(<<Var("x")>>)>>, <<Let("nowhere", <<>>, Num(1))>>}

Conditions == {Var("f"), Binary(Var("y"), "LT", Num(2)), Call("o", "get", <<Var("run")>>)}

Branches ==
  {If(c, t, f) : c \in Conditions, t \in Blocks, f \in Blocks}
  \cup {While(c, b) : c \in {Binary(Var("y"), "LT", Num(2)), Call("y", "get", <<>>)}, b \in Blocks}

Twice ==
  {If(Var("x"), <<b>>, <<While(Binary(Var("y"), "LT", Num(2)), <<Incr, b>>)>>) : b \in Branches}
  \cup {While(Binary(Var("y"), "LT", Num(2)), <<b, Incr>>) : b \in Branches}

Ending == Return(<<Binary(Var("y"), "SUB", Var("x"))>>)

Bodies1 ==
  {<<s, Ending>> : s \in Lets \cup Dos \cup Branches \cup Twice}
  \cup {<<s>> : s \in Returns \cup Branches}
  \cup {<<s, r>> : s \in {Send, While(Var("x"), <<Return(<<>>)>>)}, r \in Returns}

-----------------------------------------------------------------------------
Vars == <<VarDec("static", "s", INT), VarDec("field", "f", INT), VarDec("field", "h", ClassType("Obj"))>>

Params == <<VarDec("arg", "x", INT), VarDec("arg", "a", ClassType("Array"))>>

Locals == <<VarDec("local", "y", INT), VarDec("local", "o", ClassType("Obj")),
            VarDec("local", "t", ClassType("String"))>>

(* The second subroutine, whose labels come after the first's. *)
Second ==
  Subroutine("function", INT, "two", <<VarDec("arg", "x", INT)>>, <<>>,
             <<While(Var("x"), <<If(Var("s"), <<Return(<<Var("x")>>)>>, <<Let("x", <<>>, Num(0))>>)>>)>>)

MainClass(kind, type, vs, body) ==
  [class |-> "Main", vars |-> vs,
   subs  |-> <<Subroutine(kind, type, "run", Params, Locals, body), Second>>]

MCPrograms ==
  {MainClass("method", INT, Vars, b) : b \in Bodies1}
  \cup {MainClass("constructor", ClassType("Main"), Vars, <<s, Return(<<Key("this")>>)>>) :
          s \in Branches \cup Returns}
  \cup {MainClass("function", t, Append(Vars, VarDec("static", "two", INT)), <<s, r>>) :
          t \in {INT, VOID}, r \in Returns,
          s \in {Send, Do(Call(Implicit, "run", <<Num(1), Num(2)>>)), Let("two", <<>>, Num(1)),
                 Do(Call(Implicit, "two", <<Num(1)>>))}}
=============================================================================
