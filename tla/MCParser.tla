------------------------------ MODULE MCParser ------------------------------
(***************************************************************************)
(* Inputs for the parser: any input at all, sound ones with one word        *)
(* dropped, replaced or inserted, and one that it never gets to the end of;  *)
(* and the parser against the grammar on those given as a whole.            *)
(***************************************************************************)
EXTENDS Parser, SequencesExt

Sub(params, body) ==
  <<"routine", "void", "name", "(">> \o params \o <<")", "{">> \o body \o <<"}">>

ClassOf(members) == <<"class", "name", "{">> \o members \o <<"}">>

Let == <<"let", "name", "=", "literal", ";">>

Sound ==
  {ClassOf(<<>>),
   ClassOf(<<"classVar", "builtin", "name", ",", "name", ";">>),
   ClassOf(<<"classVar", "name", "name", ";">> \o Sub(<<>>, <<"return", ";">>)),
   ClassOf(Sub(<<"builtin", "name", ",", "name", "name">>, <<>>)),
   ClassOf(<<"native">> \o Sub(<<>>, <<>>)
           \o Sub(<<>>, <<"do", "name", "(", "name", ",", "literal", ")", ";">>)),
   ClassOf(Sub(<<>>, <<"var", "builtin", "name", ";">> \o Let)),
   ClassOf(Sub(<<>>, <<"let", "name", "[", "name", "]", "=",
                       "name", ".", "name", "(", ")", ";">>)),
   ClassOf(Sub(<<>>, <<"while", "(", "~", "(", "name", "=", "literal", ")", ")", "{">> \o Let
                     \o <<"}", "return", "name", "[", "literal", "+", "name", "]", ";">>)),
   ClassOf(Sub(<<>>, <<"if", "(", "name", ")", "{", "}",
                       "else", "{", "do", "name", "(", ")", ";", "}">>))}

(* Declarations after what they have to come before. *)
Misplaced ==
  {ClassOf(Sub(<<>>, <<>>) \o <<"classVar", "builtin", "name", ";">>),
   ClassOf(Sub(<<>>, Let \o <<"}", "var", "name", "name", ";">>)),
   ClassOf(Sub(<<>>, <<"return", ";", "var", "name", "name", ";", "return", ";">>))}

Dropped(w) == {RemoveAt(w, k) : k \in DOMAIN w}

Replaced(w) == {[w EXCEPT ![k] = v] : k \in DOMAIN w, v \in Words \ {"eof"}}

Inserted(w) == {InsertAt(w, k, v) : k \in 1..Len(w) + 1, v \in Words \ {"eof"}}

NearlySound == Sound \cup Misplaced \cup UNION {Dropped(w) \cup Replaced(w) \cup Inserted(w) : w \in Sound}

AnyOrNearlySound == {<<>>} \cup NearlySound

(* function void f() { let x = 1; var int a let y = 2; } *)
LeftEarly == {ClassOf(Sub(<<>>, Let \o <<"var", "builtin", "name">> \o Let))}
=============================================================================
