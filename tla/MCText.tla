------------------------------- MODULE MCText -------------------------------
(***************************************************************************)
(* Texts for TLC: every short text over the characters that matter to the  *)
(* lexer, and longer ones made of pieces, so that comments, strings and    *)
(* line ends meet in every order.                                          *)
(***************************************************************************)
EXTENDS Text

Short == UNION {[1..n -> {"/", "*", "\n", "\"", "d", ";"}] : n \in 0..3}

Pieces ==
  {<<"/", "*">>, <<"*", "/">>, <<"/", "/">>, <<"\n">>, <<"\r", "\n">>, <<"d", "o", "1">>, <<"d", "o">>,
   <<" ", "1", "2">>, <<"\"", " ", "/">>, <<"\"">>, <<";">>, <<"\r">>}

(* Pieces that end lines, open and close comments. *)
Lines == {<<"/", "*">>, <<"*", "/">>, <<"/", "/">>, <<"\n">>, <<";">>}

Long == {p \o q \o r : p, q, r \in Pieces} \cup {p \o q \o r \o s : p, q, r, s \in Lines}

(* Texts of several lines, for the search. *)
Listings ==
  LET lines == {<<"d", "\n">>, <<"\n">>, <<";">>, <<"1", "\r", "\n">>, <<"/", "/", "\n">>}
  IN  {p \o q \o r \o s : p, q, r, s \in lines}

MCNewline == "\n"

MCReturn == "\r"

MCCharacters == {"/", "*", MCNewline, MCReturn, "\"", "d", "o", "1", "2", ";", " "}

MCTexts == Short \cup Long \cup Listings

MCKeywords == {<<"d", "o">>}

=============================================================================
