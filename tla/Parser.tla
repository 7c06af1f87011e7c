------------------------------- MODULE Parser -------------------------------
(***************************************************************************)
(* The recursive descent parser (jackc/compiler/parser) as a machine: what  *)
(* the routines under way have left to do is a stack of items, and an error *)
(* drops the items up to the innermost loop, which is what the chains of   *)
(* RETURN_IF_PANIC do.                                                     *)
(*                                                                         *)
(* A word is a token of the lexer, up to what no routine below tells apart: *)
(*   name                an identifier                                     *)
(*   literal             a number, a string, true, false, null or this     *)
(*   +                   an operator that is infix only                    *)
(*   builtin             int, char or boolean                              *)
(*   classVar, routine   static or field; function, method or constructor  *)
(*   other               a token that no routine below asks for            *)
(***************************************************************************)
EXTENDS Integers, Sequences, JackGrammar

CONSTANTS Sources,     (* inputs; the empty one stands for any input at all   *)
          MaxNesting,  (* bound, on any input: nested statement lists          *)
          MaxParens    (* bound, on any input: nested expressions              *)

Words == {"class", "name", "builtin", "void", "classVar", "routine", "native", "var",
          "let", "do", "if", "while", "else", "return", "literal", "+", "-", "~", "=",
          "{", "}", "(", ")", "[", "]", ",", ";", ".", "other", "eof"}

ASSUME ParserAssumption ==
  /\ Sources \subseteq Seq(Words)
  /\ MaxNesting \in Nat /\ MaxParens \in Nat

VARIABLES source,   (* history: the input, where it is not any                 *)
          ahead,    (* its words after the current one                        *)
          current,  (* parser->current                                        *)
          todo,     (* what the routines under way have left to do            *)
          panic,    (* panic_mode                                             *)
          hadError, (* had_error                                              *)
          context,  (* sync_context, the bits that are set                    *)
          moved     (* history: the last step consumed a word                 *)

vars == <<source, ahead, current, todo, panic, hadError, context, moved>>

-----------------------------------------------------------------------------
(* Items *)
Expect(ws)   == [do |-> "expect", words |-> ws]
Need(w)      == Expect({w})
Simple(d)    == [do |-> d]
Push(c)      == [do |-> "push", context |-> c]
Pop(c)       == [do |-> "pop", context |-> c]
Optional(w, then) == [do |-> "optional", words |-> {w}, then |-> then]
Enter(loop) == [do |-> "enter", loop |-> loop]
Body(d, seen) == [do |-> d, seen |-> seen]
Variables(end) == [do |-> "variables", end |-> end, first |-> TRUE, any |-> FALSE]

Loops == {"classBody", "subBody", "statements", "variables"}

Infix == {"+", "-", "="}
Prefix == {"-", "~"}
Types == {"builtin", "name"}
StatementStart == {"let", "do", "if", "while", "return"}
SubroutineStart == {"routine", "native"}
ClassMemberStart == SubroutineStart \cup {"classVar"}
RcurlOrEof == {"}", "eof"}

(* jack_parser_parse_class *)
Class == <<Need("class"), Need("name"), Need("{"), Push("class"), Enter(Body("classBody", FALSE)),
           Pop("class"), Need("}")>>

(* Mutant of VarDec: the context is entered before the type is known. *)
VarDecPushFirst(w) ==
  <<Need(w), Push("var"), Simple("type"), Enter(Variables(";")), Pop("var"), Need(";")>>

(* jack_parser_parse_class_var_dec and jack_parser_parse_var_dec *)
VarDec(w) ==
  <<Need(w), Simple("type"), Push("var"), Enter(Variables(";")), Pop("var"), Need(";")>>

(* jack_parser_parse_subroutine, jack_parser_parse_param_list *)
Subroutine ==
  <<Push("sub"), Optional("native", <<Need("native")>>), Need("routine"),
    Expect(Types \cup {"void"}), Need("name"), Need("("), Push("param"),
    Enter(Variables(")")), Pop("param"), Need(")"), Need("{"),
    Enter(Body("subBody", FALSE)), Pop("sub"), Need("}")>>

(* jack_parser_parse_array_index, parse_expression_list_with_parens and      *)
(* jack_parser_parse_subroutine_call                                       *)
Index == <<Need("["), Simple("expression"), Need("]")>>

Arguments == <<Need("("), [do |-> "arguments", any |-> FALSE], Need(")")>>

Call == <<Need("name"), Optional(".", <<Need("."), Need("name")>>)>> \o Arguments

(* jack_parser_parse_statements and the statements themselves *)
Statements == <<Push("stmt"), Enter(Simple("statements"))>>

Block == <<Need("{")>> \o Statements \o <<Need("}")>>

Condition == <<Need("("), Simple("expression"), Need(")")>>

Statement(w) ==
  CASE w = "let"    -> <<Need("let"), Need("name"), Optional("[", Index),
                         Need("="), Simple("expression"), Need(";")>>
    [] w = "if"     -> <<Need("if")>> \o Condition \o Block
                       \o <<Optional("else", <<Need("else")>> \o Block)>>
    [] w = "while"  -> <<Need("while")>> \o Condition \o Block
    [] w = "do"     -> <<Need("do")>> \o Call \o <<Need(";")>>
    [] w = "return" -> <<Need("return"), Simple("value"), Need(";")>>

-----------------------------------------------------------------------------
Over == todo = <<>>

Now == Head(todo)

Rest == Tail(todo)

(* Where RETURN_IF_PANIC leads to: the innermost loop, or out of the parser. *)
Unwound(items) ==
  LET loops == {k \in DOMAIN items : items[k].do \in Loops}
  IN  IF loops = {} THEN <<>>
      ELSE SubSeq(items, CHOOSE k \in loops : \A j \in loops : k <= j, Len(items))

Count(d, items) == Len(SelectSeq(items, LAMBDA i : i.do = d))

Nesting(items) == Count("statements", items)

AnyInput == source = <<>>

(* What the lexer may deliver next; the bound is on the input, not on what  *)
(* the parser makes of it.                                                 *)
Offered ==
  IF ahead # <<>> THEN {Head(ahead)}
  ELSE IF current = "eof" \/ ~ AnyInput THEN {"eof"}
  ELSE {w \in Words :
          /\ w \in {"if", "while"} => Nesting(todo') < MaxNesting
          /\ w \in {"(", "["} => Count("infix", todo') < MaxParens}

(* jack_parser_advance *)
Advance ==
  /\ current' \in Offered
  /\ ahead' = IF ahead = <<>> THEN <<>> ELSE Tail(ahead)
  /\ moved' = TRUE

Stay == moved' = FALSE /\ UNCHANGED <<ahead, current>>

(* enter_panic_mode and the returns that follow it. *)
Panic ==
  /\ panic' = TRUE /\ hadError' = TRUE
  /\ todo' = Unwound(Rest)

Continue(items) == todo' = items /\ UNCHANGED <<panic, hadError>>

Init ==
  /\ source \in Sources
  /\ ahead = IF AnyInput THEN <<>> ELSE Tail(source)
  /\ current \in IF AnyInput THEN Words ELSE {Head(source)}
  /\ todo = Class
  /\ panic = FALSE /\ hadError = FALSE
  /\ context = {}
  /\ moved = TRUE

Doing(d) == todo # <<>> /\ Now.do = d

(* jack_parser_expect, and RETURN_IF_PANIC after it: a loop that was left in *)
(* panic mode makes even the word that is found useless.                   *)
DoExpect ==
  /\ Doing("expect")
  /\ \/ current \in Now.words /\ ~ panic /\ Continue(Rest) /\ Advance
     \/ current \in Now.words /\ panic /\ Panic /\ Advance
     \/ current \notin Now.words /\ Panic /\ Stay
  /\ UNCHANGED <<source, context>>

(* jack_parser_parse_type consumes what it finds before looking at it. *)
DoType ==
  /\ Doing("type")
  /\ IF current \in Types THEN Continue(Rest) ELSE Panic
  /\ Advance
  /\ UNCHANGED <<source, context>>

(* jack_parser_parse_return *)
DoValue ==
  /\ Doing("value")
  /\ Continue(IF current = ";" THEN Rest ELSE <<Simple("expression")>> \o Rest)
  /\ Stay
  /\ UNCHANGED <<source, context>>

(* jack_parser_parse_expression: whichever call of it takes an operator, the *)
(* words it takes are the same.                                            *)
DoExpression ==
  /\ Doing("expression")
  /\ Continue(<<Simple("term"), Simple("infix")>> \o Rest) /\ Stay
  /\ UNCHANGED <<source, context>>

DoInfix ==
  /\ Doing("infix")
  /\ IF current \in Infix
     THEN Continue(<<Simple("term")>> \o todo) /\ Advance
     ELSE Continue(Rest) /\ Stay
  /\ UNCHANGED <<source, context>>

(* jack_parser_parse_term; what follows a name tells what it is the name of. *)
DoTerm ==
  /\ Doing("term")
  /\ \/ current = "literal" /\ Continue(Rest) /\ Advance
     \/ current = "name" /\ Continue(<<Simple("named")>> \o Rest) /\ Advance
     \/ current = "(" /\ Continue(<<Simple("expression"), Need(")")>> \o Rest) /\ Advance
     \/ current \in Prefix /\ Continue(todo) /\ Advance
     \/ current \notin {"literal", "name", "("} \cup Prefix /\ Panic /\ Stay
  /\ UNCHANGED <<source, context>>

DoNamed ==
  /\ Doing("named")
  /\ Continue(CASE current = "[" -> Index \o Rest
                [] current \in {"(", "."} -> Tail(Call) \o Rest
                [] OTHER -> Rest)
  /\ Stay
  /\ UNCHANGED <<source, context>>

(* The loop of jack_parser_parse_expression_list. *)
DoArguments ==
  /\ Doing("arguments")
  /\ Continue(IF current = ")" THEN Rest
              ELSE (IF Now.any THEN <<Need(",")>> ELSE <<>>)
                   \o <<Simple("expression"), [Now EXCEPT !.any = TRUE]>> \o Rest)
  /\ Stay
  /\ UNCHANGED <<source, context>>

DoOptional ==
  /\ Doing("optional")
  /\ Continue(IF current \in Now.words THEN Now.then \o Rest ELSE Rest)
  /\ Stay
  /\ UNCHANGED <<source, context>>

(* jack_sync_context_push and jack_sync_context_pop set and clear a bit. *)
DoPush ==
  /\ Doing("push")
  /\ context' = context \cup {Now.context}
  /\ Continue(Rest) /\ Stay
  /\ UNCHANGED source

DoEnter ==
  /\ Doing("enter")
  /\ Continue(<<Now.loop>> \o Rest) /\ Stay
  /\ UNCHANGED <<source, context>>

DoPop ==
  /\ Doing("pop")
  /\ context' = context \ {Now.context}
  /\ Continue(Rest) /\ Stay
  /\ UNCHANGED source

-----------------------------------------------------------------------------
(* is_sync_token *)
SyncWords(c) ==
  CASE c = "param" -> {",", ")"}
    [] c = "var"   -> {",", ";"}
    [] c = "stmt"  -> StatementStart \cup {"}"}
    [] c = "sub"   -> SubroutineStart \cup {"}"}
    [] c = "class" -> ClassMemberStart \cup {"}"}

IsSyncWord == current = "eof" \/ \E c \in context : current \in SyncWords(c)

(* jack_parser_sync *)
SyncSkip ==
  /\ Doing("sync") /\ ~ IsSyncWord
  /\ Continue(todo) /\ Advance
  /\ UNCHANGED <<source, context>>

SyncDone ==
  /\ Doing("sync") /\ IsSyncWord
  /\ panic' = FALSE /\ hadError' = TRUE /\ todo' = Rest
  /\ Stay
  /\ UNCHANGED <<source, context>>

Synchronize == Continue(<<Simple("sync")>> \o todo) /\ Stay /\ UNCHANGED <<source, context>>

-----------------------------------------------------------------------------
(* The loop of jack_parser_parse_class. *)
ClassBodyEnds ==
  /\ Doing("classBody") /\ current \in RcurlOrEof
  /\ Continue(Rest) /\ Stay
  /\ UNCHANGED <<source, context>>

ClassMember ==
  /\ Doing("classBody") /\ ~ panic /\ current \in ClassMemberStart
  /\ IF current = "classVar"
     THEN /\ todo' = VarDec("classVar") \o todo
          /\ hadError' = (hadError \/ Now.seen)
     ELSE /\ todo' = Subroutine \o <<Body("classBody", TRUE)>> \o Rest
          /\ UNCHANGED hadError
  /\ Stay
  /\ UNCHANGED <<source, panic, context>>

(* The synchronisation may stop at the end of a subroutine: that brace is   *)
(* skipped, unless it is the last word of the input.                       *)
ClassBodyError ==
  /\ Doing("classBody") /\ current \notin RcurlOrEof
  /\ panic \/ current \notin ClassMemberStart
  /\ Continue(<<Simple("sync"), Simple("skipBrace")>> \o todo) /\ Stay
  /\ UNCHANGED <<source, context>>

SkipBrace ==
  /\ Doing("skipBrace")
  /\ Continue(Rest)
  /\ \/ current = "}" /\ Advance /\ current' # "eof"
     \/ (current # "}" \/ "eof" \in Offered) /\ Stay
  /\ UNCHANGED <<source, context>>

(* The loop of jack_parser_parse_subroutine. *)
SubBodyEnds ==
  /\ Doing("subBody") /\ current \in RcurlOrEof \cup ClassMemberStart
  /\ Continue(Rest) /\ Stay
  /\ UNCHANGED <<source, context>>

SubMember ==
  /\ Doing("subBody") /\ ~ panic /\ current \in StatementStart \cup {"var"}
  /\ IF current = "var"
     THEN /\ todo' = VarDec("var") \o todo
          /\ hadError' = (hadError \/ Now.seen)
     ELSE /\ todo' = Statements \o <<Body("subBody", TRUE)>> \o Rest
          /\ UNCHANGED hadError
  /\ Stay
  /\ UNCHANGED <<source, panic, context>>

SubBodyError ==
  /\ Doing("subBody") /\ current \notin RcurlOrEof \cup ClassMemberStart
  /\ panic \/ current \notin StatementStart \cup {"var"}
  /\ Synchronize

(* The loop of jack_parser_parse_statements: only its regular end leaves    *)
(* the context, and whichever list ends clears it for the lists around it. *)
StatementsEnd ==
  /\ Doing("statements") /\ ~ panic /\ current \in RcurlOrEof
  /\ context' = context \ {"stmt"}
  /\ Continue(Rest) /\ Stay
  /\ UNCHANGED source

StatementsReturn ==
  /\ Doing("statements") /\ ~ panic /\ current \notin RcurlOrEof \cup StatementStart
  /\ Continue(Rest) /\ Stay
  /\ UNCHANGED <<source, context>>

OneStatement ==
  /\ Doing("statements") /\ ~ panic /\ current \in StatementStart
  /\ Continue(Statement(current) \o todo) /\ Stay
  /\ UNCHANGED <<source, context>>

StatementError ==
  /\ Doing("statements") /\ panic
  /\ Synchronize

(* Mutant of VariablesDone: a class member does not end the list. *)
VariablesDoneNoMembers == current \in RcurlOrEof \cup {Now.end}

(* The loop of jack_parser_parse_variables; parameters carry a type each.   *)
VariablesDone == current \in RcurlOrEof \cup ClassMemberStart \cup {Now.end}

(* Mutant of VariablesEnd: a declaration may declare nothing. *)
VariablesEndUnchecked ==
  /\ Doing("variables") /\ ~ panic /\ VariablesDone
  /\ Continue(Rest) /\ Stay
  /\ UNCHANGED <<source, context>>

(* A declaration, but no parameter list, has to declare something. *)
VariablesEnd ==
  /\ Doing("variables") /\ ~ panic /\ VariablesDone
  /\ hadError' = (hadError \/ (Now.end = ";" /\ ~ Now.any))
  /\ todo' = Rest /\ Stay
  /\ UNCHANGED <<source, panic, context>>

(* One round of the loop: a comma from the second on, a type for a parameter. *)
Variable ==
  (IF Now.first THEN <<>> ELSE <<Need(",")>>)
  \o (IF Now.end = ")" THEN <<Simple("type")>> ELSE <<>>)
  \o <<Need("name"), Simple("declared"), [Now EXCEPT !.first = FALSE]>>

OneVariable ==
  /\ Doing("variables") /\ ~ panic /\ ~ VariablesDone
  /\ Continue(Variable \o Rest) /\ Stay
  /\ UNCHANGED <<source, context>>

Declared ==
  /\ Doing("declared")
  /\ Continue(<<[Rest[1] EXCEPT !.any = TRUE]>> \o Tail(Rest)) /\ Stay
  /\ UNCHANGED <<source, context>>

(* Mutant of VariableError: the loop goes on without synchronising. *)
VariableErrorUnsynchronized ==
  /\ Doing("variables") /\ panic
  /\ Continue(IF VariablesDone THEN Rest ELSE Variable \o Rest) /\ Stay
  /\ UNCHANGED <<source, context>>

VariableError ==
  /\ Doing("variables") /\ panic
  /\ Synchronize

Finished == Over /\ moved' = FALSE /\ UNCHANGED <<source, ahead, current, todo, panic, hadError, context>>

Step ==
  \/ DoExpect \/ DoType \/ DoOptional \/ DoPush \/ DoPop \/ DoEnter
  \/ DoValue \/ DoExpression \/ DoInfix \/ DoTerm \/ DoNamed \/ DoArguments
  \/ SyncSkip \/ SyncDone \/ SkipBrace
  \/ ClassBodyEnds \/ ClassMember \/ ClassBodyError
  \/ SubBodyEnds \/ SubMember \/ SubBodyError
  \/ StatementsEnd \/ StatementsReturn \/ OneStatement \/ StatementError
  \/ VariablesEnd \/ OneVariable \/ Declared \/ VariableError

Next == Step \/ Finished

Spec == Init /\ [][Next]_vars

(* The parser waits for nothing: it runs until it returns. *)
FairSpec == Spec /\ WF_vars(Step)

-----------------------------------------------------------------------------
(* Properties *)

InVariables == \E k \in DOMAIN todo : todo[k].do = "variables"

(* A statement list that was left early has left its context set. *)
Leaked == "stmt" \in context /\ Nesting(todo) = 0

(* The contexts of declarations and parameter lists are left on every path  *)
(* out of them: `,' `;' and `)' stop a synchronisation only inside them.    *)
DeclarationContexts ==
  Doing("sync") =>
    /\ "var" \in context => Rest[1].do = "variables" /\ Rest[1].end = ";"
    /\ "param" \in context => Rest[1].do = "variables" /\ Rest[1].end = ")"

(* compiler_parser_internal.c of parse_variables: it NEVER PANICS, that is,  *)
(* its callers never find the parser in panic mode when it returns.        *)
NeverPanics ==
  [][InVariables /\ ~ InVariables' => ~ panic']_vars

(* The parser reports no error exactly for the inputs that start with a     *)
(* class of the grammar, and only then does it return one.                 *)
AcceptsExactlyGrammar ==
  Over /\ ~ AnyInput => (StartsWithClass(source) <=> ~ hadError /\ ~ panic)

(* Between two words the parser does not run forever, on any input however  *)
(* long, except at a statement's keyword with a context that an early       *)
(* return of parse_statements left set.                                    *)
ProgressUnlessLeaked == []<>(moved \/ Over \/ (Leaked /\ current \in StatementStart))

(* compiler_parser_internal.c of parse_variables: it always attempts to     *)
(* recover and returns.                                                    *)
VariablesReturn == InVariables ~> ~ InVariables
=============================================================================
