---------------------------- MODULE JackGrammar ----------------------------
(***************************************************************************)
(* The grammar of Jack classes over the words of module Parser, and what it *)
(* derives: the reference for what the parser accepts.                      *)
(***************************************************************************)
EXTENDS Integers, Sequences

Nothing == <<>>

(* The right-hand sides of every nonterminal; other symbols are words. *)
Productions ==
  [Class       |-> {<<"class", "name", "{", "ClassVars", "Subroutines", "}">>},
   ClassVars   |-> {Nothing, <<"classVar", "Type", "Names", ";", "ClassVars">>},
   Type        |-> {<<"builtin">>, <<"name">>},
   Names       |-> {<<"name">>, <<"name", ",", "Names">>},
   Subroutines |-> {Nothing, <<"Subroutine", "Subroutines">>,
                    <<"native", "Subroutine", "Subroutines">>},
   Subroutine  |-> {<<"routine", "Result", "name", "(", "Parameters", ")",
                      "{", "Locals", "Statements", "}">>},
   Result      |-> {<<"Type">>, <<"void">>},
   Parameters  |-> {Nothing, <<"Parameter">>},
   Parameter   |-> {<<"Type", "name">>, <<"Type", "name", ",", "Parameter">>},
   Locals      |-> {Nothing, <<"var", "Type", "Names", ";", "Locals">>},
   Statements  |-> {Nothing, <<"Statement", "Statements">>},
   Statement   |-> {<<"let", "name", "=", "Expression", ";">>,
                    <<"let", "name", "Index", "=", "Expression", ";">>,
                    <<"if", "(", "Expression", ")", "{", "Statements", "}", "Else">>,
                    <<"while", "(", "Expression", ")", "{", "Statements", "}">>,
                    <<"do", "Call", ";">>,
                    <<"return", ";">>, <<"return", "Expression", ";">>},
   Index       |-> {<<"[", "Expression", "]">>},
   Else        |-> {Nothing, <<"else", "{", "Statements", "}">>},
   Expression  |-> {<<"Term">>, <<"Term", "Operator", "Expression">>},
   Operator    |-> {<<"+">>, <<"-">>, <<"=">>},
   Term        |-> {<<"literal">>, <<"name">>, <<"name", "Index">>, <<"Call">>,
                    <<"(", "Expression", ")">>, <<"-", "Term">>, <<"~", "Term">>},
   Call        |-> {<<"name", "Arguments">>, <<"name", ".", "name", "Arguments">>},
   Arguments   |-> {<<"(", ")">>, <<"(", "List", ")">>},
   List        |-> {<<"Expression">>, <<"Expression", ",", "List">>}]

Terminals ==
  {"class", "name", "builtin", "void", "classVar", "routine", "native", "var", "let", "do",
   "if", "while", "else", "return", "literal", "+", "-", "~", "=", "{", "}", "(", ")", "[", "]",
   ",", ";", "."}

Symbols == Terminals \cup DOMAIN Productions

(* Whether what the symbols of a pair <<symbols, place>> derive may start at *)
(* that place of w: the first of them is replaced or found there.           *)
Derived(w) ==
  LET Found[c \in Seq(Symbols) \X Nat] ==
        IF c[1] = <<>> THEN TRUE
        ELSE IF Head(c[1]) \in DOMAIN Productions
        THEN \E rhs \in Productions[Head(c[1])] : Found[<<rhs \o Tail(c[1]), c[2]>>]
        ELSE c[2] \in DOMAIN w /\ w[c[2]] = Head(c[1]) /\ Found[<<Tail(c[1]), c[2] + 1>>]
  IN  Found

(* A class at the start of w; the parser leaves what follows it alone. *)
StartsWithClass(w) == Derived(w)[<<<<"Class">>, 1>>]
=============================================================================
