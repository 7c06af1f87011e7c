------------------------------- MODULE Lexer -------------------------------
(***************************************************************************)
(* The compiler's lexer (jackc/compiler/lexer), one character of a loop at *)
(* a time.  The lexer's current character is the pos-th of the text (the   *)
(* code's lexer->c is always buffer[pos - 1]), a blank before the first    *)
(* and Nul after the last.                                                 *)
(***************************************************************************)
EXTENDS SourceMap, FiniteSetsExt

CONSTANTS Nul, Return, Blanks,   (* '\0', '\r'; ' ' and '\t'                  *)
          Letters,               (* letters and '_'                           *)
          Digits,                (* digit characters                          *)
          Keywords               (* the spellings of the reserved words       *)

(* The classes of characters that the code tells apart. *)
ASSUME LexerAssumption ==
  /\ " " \in Blanks
  /\ Newline # Nul
  /\ \A c \in {Newline, Nul} : c \notin Blanks \cup Letters \cup Digits \cup {"/", "*", "\"", Return}

(* No character has two meanings, and a file's text ends at its first nul.  *)
ASSUME ClassesAssumption ==
  /\ Nul \notin Characters
  /\ Letters \cap Digits = {} /\ (Letters \cup Digits) \cap Blanks = {}
  /\ \A c \in {"/", "*", "\"", Return} : c \notin Blanks \cup Letters \cup Digits
  /\ Return \notin {"/", "*", "\""}

VARIABLES pos, line,
          mode,      (* "ready" between two tokens, else what is scanned      *)
          one, multi,(* is_one_line_comment, is_multiline_comment             *)
          start,     (* where the token starts                                *)
          tokens     (* history: the tokens returned so far                   *)

lexVars == <<pos, line, mode, one, multi, start, tokens>>

Char(p) == CASE p = 0 -> " " [] p \in 1..Len(text) -> text[p] [] OTHER -> Nul

Here == Char(pos)

(* jack_lexer_read_and_expect: whether the next character is c. *)
Ahead(c) == Char(pos + 1) = c

Spelling(from, to) == SubSeq(text, from + 1, to)

LexInit ==
  /\ pos = 0 /\ line = 1 /\ mode = "ready"
  /\ one = FALSE /\ multi = FALSE /\ start = 0 /\ tokens = <<>>

Read(n) == pos' = pos + n

(* jack_lexer_next_token starts with the blanks and comments. *)
NextToken ==
  /\ mode = "ready" /\ mode' = "blank"
  /\ one' = FALSE /\ multi' = FALSE
  /\ UNCHANGED <<pos, line, start, tokens>>

SkipBlank ==
  /\ mode = "blank" /\ Here \in Blanks
  /\ Read(1) /\ UNCHANGED <<line, mode, one, multi, start, tokens>>

(* Mutant of AtNewline: a carriage return ends a line by itself. *)
AtNewlineAny == Here \in {Newline, Return}

AtNewline == Here = Newline \/ (Here = Return /\ Ahead(Newline))

SkipNewline ==
  /\ mode = "blank" /\ AtNewline
  /\ Read(IF Here = Newline THEN 1 ELSE 2)
  /\ line' = line + 1 /\ one' = FALSE
  /\ UNCHANGED <<mode, multi, start, tokens>>

(* Mutant of SkipSlash: a comment may start inside a one line comment. *)
SkipSlashNesting ==
  /\ mode = "blank" /\ Here = "/"
  /\ one' = (one \/ (~ multi /\ Ahead("/")))
  /\ multi' = (multi \/ Ahead("*"))
  /\ IF one' \/ multi'
     THEN Read(IF <<one', multi'>> # <<one, multi>> THEN 2 ELSE 1) /\ UNCHANGED mode
     ELSE mode' = "token" /\ UNCHANGED pos
  /\ UNCHANGED <<line, start, tokens>>

(* A slash opens one of the comments, is inside one, or divides. *)
SkipSlash ==
  /\ mode = "blank" /\ Here = "/"
  /\ one' = (one \/ (~ multi /\ Ahead("/")))
  /\ multi' = (multi \/ (~ one' /\ Ahead("*")))
  /\ IF one' \/ multi'
     THEN Read(IF <<one', multi'>> # <<one, multi>> THEN 2 ELSE 1) /\ UNCHANGED mode
     ELSE mode' = "token" /\ UNCHANGED pos
  /\ UNCHANGED <<line, start, tokens>>

(* The end of a comment is skipped even where there is none to end. *)
SkipStar ==
  /\ mode = "blank" /\ Here = "*" /\ Ahead("/")
  /\ Read(2) /\ multi' = FALSE
  /\ UNCHANGED <<line, mode, one, start, tokens>>

Ordinary == Here \notin Blanks \cup {Nul, "/"} /\ ~ AtNewline /\ ~ (Here = "*" /\ Ahead("/"))

SkipComment ==
  /\ mode = "blank" /\ Ordinary /\ (one \/ multi)
  /\ Read(1) /\ UNCHANGED <<line, mode, one, multi, start, tokens>>

BlankDone ==
  /\ mode = "blank" /\ (Here = Nul \/ (Ordinary /\ ~ one /\ ~ multi))
  /\ mode' = "token"
  /\ UNCHANGED <<pos, line, one, multi, start, tokens>>

-----------------------------------------------------------------------------
StartNumber ==
  /\ mode = "token" /\ Here \in Digits
  /\ mode' = "number" /\ start' = pos - 1 /\ Read(1)
  /\ UNCHANGED <<line, one, multi, tokens>>

StartString ==
  /\ mode = "token" /\ Here = "\""
  /\ mode' = "string" /\ start' = pos /\ Read(1)
  /\ UNCHANGED <<line, one, multi, tokens>>

StartName ==
  /\ mode = "token" /\ Here \in Letters
  /\ mode' = "name" /\ start' = pos - 1 /\ Read(1)
  /\ UNCHANGED <<line, one, multi, tokens>>

EndOfLine == Here \in {Newline, Return, Nul}

Continues ==
  CASE mode = "number" -> Here \in Digits
    [] mode = "string" -> Here # "\"" /\ ~ EndOfLine
    [] mode = "name"   -> Here \in Letters \cup Digits

Continue ==
  /\ mode \in {"number", "string", "name"} /\ Continues
  /\ Read(1) /\ UNCHANGED <<line, mode, one, multi, start, tokens>>

TokenAt(type, from, to) == [type |-> type, start |-> from, end |-> to]

Returned(type, from, to) ==
  /\ tokens' = Append(tokens, TokenAt(type, from, to))
  /\ mode' = "ready"

(* The closing quote of a string is not part of it, and may be missing. *)
EndToken ==
  /\ mode \in {"number", "string", "name"} /\ ~ Continues
  /\ Returned(CASE mode = "number" -> "integer"
                [] mode = "string" -> "string"
                [] mode = "name" -> IF Spelling(start, pos - 1) \in Keywords THEN "keyword"
                                    ELSE "identifier", start, pos - 1)
  /\ Read(IF mode = "string" /\ Here = "\"" THEN 1 ELSE 0)
  /\ UNCHANGED <<line, one, multi, start>>

Symbol ==
  /\ mode = "token"
  /\ Here \notin Digits \cup Letters \cup {"\"", Nul, Newline, Return}
  /\ Returned("symbol", pos - 1, pos)
  /\ Read(1) /\ UNCHANGED <<line, one, multi, start>>

(* The parser may ask again: the end is returned over and over. *)
EndOfText ==
  /\ mode = "token" /\ Here = Nul
  /\ Returned("eof", pos - 1, pos - 1)
  /\ UNCHANGED <<pos, line, one, multi, start>>

(* A carriage return on its own is an assertion. *)
Asserts ==
  /\ mode = "token" /\ Here \in {Return, Newline}
  /\ mode' = "asserted"
  /\ UNCHANGED <<pos, line, one, multi, start, tokens>>

LexStep ==
  \/ SkipBlank \/ SkipNewline \/ SkipSlash \/ SkipStar \/ SkipComment \/ BlankDone
  \/ StartNumber \/ StartString \/ StartName \/ Continue \/ EndToken
  \/ Symbol \/ EndOfText \/ Asserts
-----------------------------------------------------------------------------
(* Properties *)

Starts(p, a, b) == Char(p + 1) = a /\ Char(p + 2) = b

(* The positions in front of one of these characters, and the end           *)
At(characters) == {p \in 0..Len(text) : p = Len(text) \/ text[p + 1] \in characters}

CommentEnds == {p \in 0..Len(text) : p = Len(text) \/ Starts(p, "*", "/")}

First(p, stops) == Min({q \in stops : q >= p})

(* What is in the text at p, by the language's lexical rules: a blank, a    *)
(* comment, or the longest lexeme; and where that ends.                    *)
Piece(p) ==
  LET c             == Char(p + 1)
      number        == First(p, At(Characters \ Digits))
      name          == First(p, At(Characters \ (Letters \cup Digits)))
      string        == First(p + 1, At({"\"", Newline, Return}))
      Skip(q)       == [tokens |-> <<>>, next |-> q]
      Take(type, q) == [tokens |-> <<TokenAt(type, p, q)>>, next |-> q]
  IN  CASE c \in Blanks \cup {Newline, Return} -> Skip(p + 1)
        [] Starts(p, "/", "/") -> Skip(First(p, At({Newline})))
        [] Starts(p, "/", "*") -> Skip(First(p + 2, CommentEnds) + 2)
        [] c = "\"" -> [tokens |-> <<TokenAt("string", p + 1, string)>>,
                        next |-> IF Char(string + 1) = "\"" THEN string + 1 ELSE string]
        [] c \in Digits -> Take("integer", number)
        [] c \in Letters -> Take(IF Spelling(p, name) \in Keywords THEN "keyword" ELSE "identifier", name)
        [] OTHER -> Take("symbol", p + 1)

(* The tokens of the text from p on *)
Lexemes[p \in Nat] ==
  IF p >= Len(text) THEN <<>>
  ELSE LET piece == Piece(p) IN piece.tokens \o Lexemes[piece.next]

(* A product followed by a slash: the lexer skips the two like the end of a *)
(* comment, although none is open.                                         *)
Stray(lexemes) ==
  \E k \in DOMAIN lexemes :
    Spelling(lexemes[k].start, lexemes[k].end) = <<"*">> /\ Char(lexemes[k].end + 1) = "/"

(* What the lexer returns are the lexemes of the text, each with its span,  *)
(* in texts where `*/' only ends comments.                                 *)
TokensAreLexemes ==
  (mode = "ready" /\ phase = "lex") =>
    LET lexemes == Lexemes[0]
        all     == Append(lexemes, TokenAt("eof", Len(text), Len(text)))
    IN  ~ Stray(lexemes) => SubSeq(all, 1, Len(tokens)) = tokens
=============================================================================
