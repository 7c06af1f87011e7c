--------------------------- MODULE MCDeclarations ---------------------------
(***************************************************************************)
(* Programs of two classes for TLC.  The first class is the entry class and *)
(* varies its subroutines; the second varies its class variables, so that  *)
(* the shared root scope is refilled after a reset.                        *)
(***************************************************************************)
EXTENDS Declarations

V(k, n, t) == [kind |-> k, name |-> n, type |-> t]

ClassVarLists ==
  {<<>>, <<V("static", "x", "int")>>, <<V("field", "x", "int")>>,
   <<V("static", "x", "int"), V("static", "y", "int")>>,
   <<V("field", "y", "Other"), V("static", "x", "int")>>,
   <<V("field", "x", "int"), V("field", "y", "int")>>,
   <<V("static", "x", "int"), V("field", "x", "int")>>,
   <<V("static", "x", "void")>>}

ParamLists ==
  {<<>>, <<V("arg", "x", "int")>>, <<V("arg", "y", "Nowhere"), V("arg", "x", "int")>>,
   <<V("arg", "y", "int"), V("arg", "x", "int")>>}

LocalLists ==
  {<<>>, <<V("local", "x", "int"), V("local", "run", "int")>>,
   <<V("local", "z", "Main"), V("local", "y", "int")>>}

Uses == {{"x"}, {"x", "y"}, {"run"}}

SubS(n, k, nat, ps, ls, us) ==
  [name |-> n, kind |-> k, native |-> nat, params |-> ps, locals |-> ls, uses |-> us]

EntrySubs ==
  {SubS("main", k, FALSE, ps, ls, us) :
     k \in {"function", "method"}, ps \in ParamLists, ls \in LocalLists, us \in Uses}

SecondSubs ==
  {SubS("run", "method", FALSE, <<V("arg", "a", "int")>>, <<>>, {"x"}),
   SubS("run", "constructor", FALSE, <<>>, <<V("local", "a", "int")>>, {"a", "x"}),
   SubS("run", "function", TRUE, <<V("arg", "a", "int")>>, <<>>, {})}

OtherClass(nm, vs, s) == [name |-> nm, filename |-> "Other", vars |-> vs, subs |-> <<s>>]

MainClass(vs, ss) == [name |-> "Main", filename |-> "Main", vars |-> vs, subs |-> ss]

(* Subroutines of one name and different signatures. *)
Overloads ==
  {<<MainClass(<<V("field", "x", "int")>>, <<a, b, m>>)>> :
     a \in {SubS("twin", k, FALSE, ps, <<V("local", "z", "char")>>, {"x", "z"}) :
              k \in {"function", "method"}, ps \in ParamLists},
     b \in {SubS("twin", k, nat, <<V("arg", "y", "int")>>, <<>>, {"y"}) :
              k \in {"function", "method"}, nat \in BOOLEAN},
     m \in {t \in EntrySubs : t.kind = "function" /\ t.uses = {"x"}}}

MCPrograms ==
  {<<OtherClass("Other", ovs, s), MainClass(vs, <<m>>)>> :
     ovs \in {<<>>, <<V("static", "x", "int"), V("field", "y", "int")>>,
              <<V("static", "y", "int"), V("static", "x", "int")>>},
     s \in SecondSubs, vs \in ClassVarLists, m \in EntrySubs}
  \cup
  {<<MainClass(vs, <<s, m>>), OtherClass(nm, <<V("static", "x", "int")>>, s)>> :
     nm \in {"Other", "Main", "Elsewhere"}, vs \in ClassVarLists, s \in SecondSubs,
     m \in {t \in EntrySubs : t.kind = "function"}}
  \cup
  {<<MainClass(vs, <<s>>)>> : vs \in ClassVarLists, s \in SecondSubs}
  \cup
  Overloads
=============================================================================
