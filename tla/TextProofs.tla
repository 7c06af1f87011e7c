----------------------------- MODULE TextProofs -----------------------------
(***************************************************************************)
(* Proofs about SourceMap and Text, for texts of any length.               *)
(*                                                                         *)
(* SourceMap first: the search keeps the lines that start behind the       *)
(* target out of its reach (IInv), so that where its ends meet the line is *)
(* found.  Then the whole of Text: what the lexer counts are the newlines  *)
(* behind it, so that the map, which is asked for that many lines, gets    *)
(* them all; the engine keeps the first complaints; and while it reports,  *)
(* Text takes the steps of SourceMap, whose invariant it inherits (TInv).  *)
(*                                                                         *)
(* Last the tokens: the lexemes of a text are a function on its positions, *)
(* and the tokens returned, followed by the lexemes from where the lexer   *)
(* is, are those of the text from its start (LexInv).                      *)
(***************************************************************************)
EXTENDS Text, FiniteSetTheorems, SequenceTheorems, WellFoundedInduction, TLAPS

(* The types of the map's and the search's variables. *)
Typed ==
  /\ text \in Seq(Characters) /\ total \in Nat \ {0}
  /\ phase \in {"map", "ready", "search"}
  /\ at \in 0..Len(text)
  /\ built \in 1..total
  /\ starts \in [0..(built - 1) -> Nat]
  /\ target \in Nat /\ low \in Nat /\ high \in Nat
  /\ located \in Seq([pos : Nat, line : Nat])
  /\ phase = "map" => located = <<>>

(* The map so far is that of the characters looked at. *)
MapOfPrefix ==
  /\ starts[0] = 0
  /\ \A j, k \in 0..(built - 1) : j < k => starts[j] < starts[k]
  /\ \A k \in 1..(built - 1) : starts[k] \in 1..at /\ text[starts[k]] = Newline
  /\ \A p \in 1..at : text[p] = Newline => \E k \in 1..(built - 1) : starts[k] = p

(* The search keeps the lines that start behind the target out of reach.    *)
Searching ==
  phase = "search" =>
    /\ low <= high /\ high <= total - 1
    /\ \A k \in 0..(low - 1) : k < built /\ starts[k] <= target
    /\ high = total - 1 \/ (high < built /\ starts[high] > target)

IInv == Typed /\ MapOfPrefix /\ Searching /\ RightLine

-----------------------------------------------------------------------------
LEMMA InitInvariant == Init => IInv
  BY DEF Init, MapInit, IInv, Typed, MapOfPrefix, Searching, RightLine

(* One more character: it may be the newline that a new line starts behind. *)
LEMMA MapCharacterKeeps == IInv /\ MapCharacter => IInv'
<1> SUFFICES ASSUME IInv, MapCharacter PROVE IInv'
  OBVIOUS
<1>0. Searching' /\ RightLine'
  BY DEF IInv, Typed, Searching, RightLine, MapCharacter
<1> USE DEF IInv, Typed, MapOfPrefix, MapCharacter
<1>1. CASE text[at + 1] = Newline
  <2>1. /\ at' = at + 1 /\ built' = built + 1
        /\ starts' = [k \in 0..built |-> IF k = built THEN at + 1 ELSE starts[k]]
    BY <1>1
  <2>2. starts' \in [0..(built' - 1) -> Nat] /\ at' \in 0..Len(text) /\ built' \in 1..total
    BY <2>1
  <2>3. Typed'
    BY <2>2
  <2>4. \A k \in 0..(built - 1) : starts'[k] = starts[k]
    BY <2>1
  <2>5. starts'[built] = at + 1
    BY <2>1
  <2>6. \A j, k \in 0..(built' - 1) : j < k => starts'[j] < starts'[k]
    <3>1. \A j \in 0..(built - 1) : starts[j] <= at
      OBVIOUS
    <3>2. TAKE j, k \in 0..(built' - 1)
    <3>3. HAVE j < k
    <3>4. CASE k = built
      BY <2>1, <2>4, <2>5, <3>1, <3>3, <3>4
    <3>5. CASE k # built
      BY <2>1, <2>4, <3>3, <3>5
    <3>6. QED
      BY <3>4, <3>5
  <2>7. \A k \in 1..(built' - 1) : starts'[k] \in 1..at' /\ text[starts'[k]] = Newline
    BY <1>1, <2>1, <2>4, <2>5
  <2>8. \A p \in 1..at' : text[p] = Newline => \E k \in 1..(built' - 1) : starts'[k] = p
    <3>1. TAKE p \in 1..at'
    <3>2. HAVE text[p] = Newline
    <3>3. CASE p = at + 1
      BY <2>1, <2>5, <3>3
    <3>4. CASE p # at + 1
      <4>1. PICK k \in 1..(built - 1) : starts[k] = p
        BY <2>1, <3>2, <3>4
      <4>2. k \in 1..(built' - 1) /\ starts'[k] = p
        BY <2>1, <2>4, <4>1
      <4>3. QED
        BY <4>2
    <3>5. QED
      BY <3>3, <3>4
  <2>9. MapOfPrefix'
    BY <2>1, <2>4, <2>6, <2>7, <2>8
  <2>10. QED
    BY <1>0, <2>3, <2>9
<1>2. CASE text[at + 1] # Newline
  <2>1. at' = at + 1 /\ UNCHANGED <<starts, built, text, total, phase, target, low, high, located>>
    BY <1>2
  <2>2. at' \in 0..Len(text')
    BY <2>1
  <2>3. MapOfPrefix'
    BY <1>2, <2>1
  <2>4. QED
    BY <1>0, <2>1, <2>2, <2>3
<1>3. QED
  BY <1>1, <1>2

(* The middle lies between the two ends of what is left to search. *)
LEMMA MiddleBetween ==
  ASSUME low \in Nat, high \in Nat, low < high
  PROVE  Middle \in Nat /\ low <= Middle /\ Middle < high
  BY DEF Middle

LEMMA HalveKeeps == IInv /\ Halve => IInv'
<1> SUFFICES ASSUME IInv, Halve PROVE IInv'
  OBVIOUS
<1>1. Middle \in Nat /\ low <= Middle /\ Middle < high
  BY MiddleBetween DEF IInv, Typed, Halve
<1>2. UNCHANGED <<text, total, phase, at, built, starts, target, located>> /\ Middle < built
      /\ phase = "search"
  BY DEF Halve
<1>3. MapOfPrefix' /\ RightLine'
  BY <1>2 DEF IInv, MapOfPrefix, RightLine
<1>4. CASE starts[Middle] <= target
  <2>1. low' = Middle + 1 /\ high' = high
    BY <1>4 DEF Halve
  <2>2. \A k \in 0..Middle : k < built /\ starts[k] <= target
    <3>1. TAKE k \in 0..Middle
    <3>2. k \in 0..(built - 1) /\ Middle \in 0..(built - 1)
      BY <1>1, <1>2 DEF IInv, Typed
    <3>3. starts[k] \in Nat /\ starts[Middle] \in Nat /\ target \in Nat
      BY <3>2 DEF IInv, Typed
    <3>4. k < Middle => starts[k] < starts[Middle]
      BY <3>2 DEF IInv, MapOfPrefix
    <3>5. k = Middle \/ k < Middle
      BY <1>1
    <3>6. starts[k] <= target
      BY <1>4, <3>3, <3>4, <3>5
    <3>7. QED
      BY <3>2, <3>6 DEF IInv, Typed
  <2>3. Typed'
    BY <1>1, <1>2, <2>1 DEF IInv, Typed
  <2>4. Searching'
    BY <1>1, <1>2, <2>1, <2>2 DEF IInv, Typed, Searching
  <2>5. QED
    BY <1>3, <2>3, <2>4 DEF IInv
<1>5. CASE ~ (starts[Middle] <= target)
  <2>1. high' = Middle /\ low' = low
    BY <1>5 DEF Halve
  <2>2. starts[Middle] > target
    BY <1>1, <1>2, <1>5 DEF IInv, Typed
  <2>3. Typed'
    BY <1>1, <1>2, <2>1 DEF IInv, Typed
  <2>4. Searching'
    BY <1>1, <1>2, <2>1, <2>2 DEF IInv, Typed, Searching
  <2>5. QED
    BY <1>3, <2>3, <2>4 DEF IInv
<1>6. QED
  BY <1>4, <1>5

(* The ends have met at the first line behind the target, or at the last.   *)
LEMMA FoundKeeps == IInv /\ Found => IInv'
<1> SUFFICES ASSUME IInv, Found PROVE IInv'
  OBVIOUS
<1> DEFINE found == [pos |-> target, line |-> IF low = 0 THEN 0 ELSE low - 1]
<1>1. /\ phase = "search" /\ phase' = "ready" /\ low = high
      /\ located' = Append(located, found)
      /\ UNCHANGED <<text, total, at, built, starts, target, low, high>>
  BY DEF IInv, Typed, Searching, Found
<1>2. found \in [pos : Nat, line : Nat]
  BY DEF IInv, Typed
<1>3. Typed'
  <2>1. located' \in Seq([pos : Nat, line : Nat])
    BY <1>1, <1>2 DEF IInv, Typed
  <2>2. QED
    BY <1>1, <2>1 DEF IInv, Typed
<1>4. ASSUME built = total
      PROVE  \/ total = 1 /\ found.line = 0
             \/ found.pos >= starts[total - 1]
             \/ /\ found.line + 1 < total
                /\ starts[found.line] <= found.pos
                /\ found.pos < starts[found.line + 1]
  <2>1. found.pos = target /\ found.line = IF low = 0 THEN 0 ELSE low - 1
    OBVIOUS
  <2>2. starts[0] = 0 /\ low \in 0..(total - 1) /\ target \in Nat /\ starts[low] \in Nat
    BY <1>1, <1>4 DEF IInv, Typed, MapOfPrefix, Searching
  <2>3. low # 0 => starts[low - 1] <= target
    BY <1>1, <2>2 DEF IInv, Searching
  <2>4. low = total - 1 \/ starts[low] > target
    BY <1>1 DEF IInv, Searching
  <2>5. total \in Nat \ {0}
    BY DEF IInv, Typed
  <2>6. CASE low = 0
    <3>1. total = 1 \/ starts[low] > target
      BY <2>4, <2>5, <2>6
    <3>2. total = 1
      BY <2>2, <2>6, <3>1
    <3>3. QED
      BY <2>1, <2>6, <3>2
  <2>7. CASE low # 0
    <3>1. found.line = low - 1 /\ found.line + 1 = low
      BY <2>1, <2>2, <2>7
    <3>2. CASE starts[low] > target
      BY <2>1, <2>2, <2>3, <2>5, <2>7, <3>1, <3>2
    <3>3. CASE ~ (starts[low] > target)
      BY <2>1, <2>2, <2>4, <3>3
    <3>4. QED
      BY <3>2, <3>3
  <2>8. QED
    BY <2>6, <2>7
<1>5. RightLine'
  <2>1. ASSUME built = total, NEW k \in DOMAIN located'
        PROVE  \/ total = 1 /\ located'[k].line = 0
               \/ located'[k].pos >= starts[total - 1]
               \/ /\ located'[k].line + 1 < total
                  /\ starts[located'[k].line] <= located'[k].pos
                  /\ located'[k].pos < starts[located'[k].line + 1]
    <3>1. CASE k \in DOMAIN located
      <4>1. located'[k] = located[k]
        BY <1>1, <3>1 DEF IInv, Typed
      <4>2. QED
        BY <2>1, <3>1, <4>1 DEF IInv, RightLine
    <3>2. CASE k \notin DOMAIN located
      <4>1. located'[k] = found
        BY <1>1, <2>1, <3>2 DEF IInv, Typed
      <4>2. QED
        BY <1>4, <2>1, <4>1
    <3>3. QED
      BY <3>1, <3>2
  <2>2. QED
    BY <1>1, <2>1 DEF RightLine
<1>6. MapOfPrefix' /\ Searching'
  BY <1>1 DEF IInv, MapOfPrefix, Searching
<1>7. QED
  BY <1>3, <1>5, <1>6 DEF IInv

LEMMA StepKeeps == IInv /\ [Next]_mapVars => IInv'
<1> SUFFICES ASSUME IInv, [Next]_mapVars PROVE IInv'
  OBVIOUS
<1>1. CASE MapCharacter
  BY <1>1, MapCharacterKeeps
<1>2. CASE MapDone
  BY <1>2 DEF MapDone, IInv, Typed, MapOfPrefix, Searching, RightLine
<1>3. ASSUME NEW p \in Nat, Locate(p)
      PROVE  IInv'
  BY <1>3 DEF Locate, IInv, Typed, MapOfPrefix, Searching, RightLine
<1>4. CASE Halve
  BY <1>4, HalveKeeps
<1>5. CASE Found
  BY <1>5, FoundKeeps
<1>6. CASE UNCHANGED mapVars
  BY <1>6 DEF mapVars, IInv, Typed, MapOfPrefix, Searching, RightLine
<1>7. QED
  BY <1>1, <1>2, <1>3, <1>4, <1>5, <1>6 DEF Next

THEOREM Invariance == Spec => []IInv
  BY InitInvariant, StepKeeps, PTL DEF Spec

-----------------------------------------------------------------------------
LEMMA MapIsOfLines == IInv => MapOfLines
<1> SUFFICES ASSUME IInv PROVE MapOfLines
  OBVIOUS
<1>1. \A p \in 1..Len(text) : text[p] = Newline /\ p <= starts[built - 1] =>
        \E k \in 1..(built - 1) : starts[k] = p
  <2>1. starts[built - 1] <= at
    BY DEF IInv, Typed, MapOfPrefix
  <2>2. starts[built - 1] \in Nat /\ at \in Nat
    BY DEF IInv, Typed
  <2>3. QED
    BY <2>1, <2>2 DEF IInv, MapOfPrefix
<1>2. QED
  BY <1>1 DEF IInv, Typed, MapOfPrefix, MapOfLines

(* The map has where the lines start, in their order and without a gap      *)
(* (build_source_map), and the search finds the line that contains a       *)
(* position, but for the last (source_map_resolve): on any text, with any  *)
(* number of lines.                                                        *)
THEOREM FindsLines == Spec => []LinesFound
<1>1. IInv => LinesFound
  BY MapIsOfLines DEF LinesFound, IInv
<1>2. QED
  BY <1>1, Invariance, PTL

-----------------------------------------------------------------------------
(* The whole of Text *)

NewlinesTo(n) == {p \in DOMAIN text : p < n /\ text[p] = Newline}

TokenTypes == {"integer", "string", "keyword", "identifier", "symbol", "eof"}

Positions == [type : TokenTypes, start : Nat, end : Nat]

LexerTyped ==
  /\ text \in Seq(Characters)
  /\ pos \in Nat /\ start \in Nat /\ one \in BOOLEAN /\ multi \in BOOLEAN
  /\ mode \in {"ready", "blank", "token", "number", "string", "name", "asserted"}
  /\ tokens \in Seq(Positions)
  /\ pos = 0 => mode \in {"ready", "blank"}

Counted == line = 1 + Cardinality(NewlinesTo(pos))

(* The engine's list is the beginning of the complaints. *)
FirstKept ==
  /\ complaints \in Seq(Nat) /\ diagnostics \in Seq(Nat)
  /\ Len(diagnostics) = IF Len(complaints) < MaxDiagnostics THEN Len(complaints) ELSE MaxDiagnostics
  /\ \A k \in DOMAIN diagnostics : diagnostics[k] = complaints[k]
  /\ overflow = (Len(complaints) > MaxDiagnostics)

(* The report goes through the list from its start. *)
InOrder ==
  /\ located \in Seq([pos : Nat, line : Nat])
  /\ Len(located) <= Len(diagnostics)
  /\ \A k \in DOMAIN located : located[k].pos = diagnostics[k]
  /\ phase = "search" => Len(located) < Len(diagnostics) /\ target = diagnostics[Len(located) + 1]

(* Before the report the map is empty; then it is SourceMap's, and the text *)
(* has all the lines it is asked for.                                      *)
Mapping ==
  /\ phase \in {"lex", "map", "ready", "search"}
  /\ phase = "lex" => MapInit
  /\ phase # "lex" =>
       /\ IInv
       /\ built = 1 + Cardinality(NewlinesTo(at + 1))
       /\ total <= 1 + Cardinality(NewlinesTo(Len(text) + 1))
       /\ phase # "map" => built = total

TInv == LexerTyped /\ Counted /\ FirstKept /\ InOrder /\ Mapping

-----------------------------------------------------------------------------
(* Newlines *)

LEMMA NewlinesFinite ==
  ASSUME text \in Seq(Characters), NEW n
  PROVE  IsFiniteSet(NewlinesTo(n)) /\ Cardinality(NewlinesTo(n)) \in Nat
<1> DEFINE m == Len(text)
<1>1. m \in Nat /\ NewlinesTo(n) \subseteq 1..m
  BY DEF NewlinesTo
<1> HIDE DEF m
<1>2. IsFiniteSet(1..m)
  BY <1>1, FS_Interval
<1> QED
  BY <1>1, <1>2, FS_Subset, FS_CardinalityType

LEMMA OneFurther ==
  ASSUME text \in Seq(Characters), NEW n \in Nat
  PROVE  /\ Cardinality(NewlinesTo(n + 1)) =
              Cardinality(NewlinesTo(n)) + (IF n \in DOMAIN text /\ text[n] = Newline THEN 1 ELSE 0)
         /\ Cardinality(NewlinesTo(n)) \in Nat
<1>1. IsFiniteSet(NewlinesTo(n)) /\ Cardinality(NewlinesTo(n)) \in Nat
  BY NewlinesFinite
<1>2. n \notin NewlinesTo(n)
  BY DEF NewlinesTo
<1>3. NewlinesTo(n + 1) = IF n \in DOMAIN text /\ text[n] = Newline THEN NewlinesTo(n) \cup {n} ELSE NewlinesTo(n)
  BY DEF NewlinesTo
<1>4. Cardinality(NewlinesTo(n) \cup {n}) = Cardinality(NewlinesTo(n)) + 1
  BY <1>1, <1>2, FS_AddElement
<1> QED
  BY <1>1, <1>3, <1>4

LEMMA NoneBefore ==
  ASSUME text \in Seq(Characters)
  PROVE  Cardinality(NewlinesTo(0)) = 0 /\ Cardinality(NewlinesTo(1)) = 0
<1>1. NewlinesTo(0) = {} /\ NewlinesTo(1) = {}
  BY DEF NewlinesTo
<1> QED
  BY <1>1, FS_EmptySet

LEMMA AtCharacter ==
  ASSUME text \in Seq(Characters), NEW n \in Nat
  PROVE  /\ Char(n) = Newline <=> n \in DOMAIN text /\ text[n] = Newline
         /\ Char(0) = " "
<1>1. Newline # " " /\ Newline # Nul
  BY LexerAssumption
<1>2. DOMAIN text = 1..Len(text)
  OBVIOUS
<1>3. Char(0) = " "
  <2>1. 0 \notin 1..Len(text)
    OBVIOUS
  <2> QED
    BY <2>1 DEF Char
<1>4. CASE n = 0
  <2>1. Char(n) # Newline
    BY <1>1, <1>3, <1>4
  <2>2. n \notin DOMAIN text
    BY <1>2, <1>4
  <2> QED
    BY <1>3, <2>1, <2>2
<1>5. CASE n \in 1..Len(text)
  <2>1. n # 0
    BY <1>5
  <2>2. Char(n) = text[n]
    BY <1>5, <2>1 DEF Char
  <2> QED
    BY <1>2, <1>3, <1>5, <2>2
<1>6. CASE n # 0 /\ n \notin 1..Len(text)
  <2>1. Char(n) = Nul
    BY <1>6 DEF Char
  <2> QED
    BY <1>1, <1>2, <1>3, <1>6, <2>1
<1> QED
  BY <1>4, <1>5, <1>6

(* How far a step of the lexer reads, and what it reads over. *)
Reads ==
  \/ UNCHANGED <<pos, line>>
  \/ pos' = pos + 1 /\ Here # Newline /\ line' = line
  \/ pos' = pos + 1 /\ Here = Newline /\ line' = line + 1
  \/ pos' = pos + 2 /\ Here # Newline /\ ~Ahead(Newline) /\ line' = line
  \/ pos' = pos + 2 /\ Here # Newline /\ Ahead(Newline) /\ line' = line + 1

LEMMA ReadsCount ==
  ASSUME LexerTyped, Counted, Reads, UNCHANGED text
  PROVE  Counted' /\ pos' \in Nat /\ (pos' = 0 => pos = 0)
<1>1. pos \in Nat /\ text \in Seq(Characters)
  BY DEF LexerTyped
<1>2. Cardinality(NewlinesTo(pos))' = Cardinality(NewlinesTo(pos'))
  BY DEF NewlinesTo
<1> DEFINE C(n) == Cardinality(NewlinesTo(n))
<1>4. /\ C(pos) \in Nat
      /\ C(pos + 1) = C(pos) + (IF Here = Newline THEN 1 ELSE 0)
  BY <1>1, OneFurther, AtCharacter DEF Here
<1>5. C(pos + 2) = C(pos + 1) + (IF Ahead(Newline) THEN 1 ELSE 0)
  <2>1. pos + 1 \in Nat /\ (pos + 1) + 1 = pos + 2
    BY <1>1
  <2>2. C((pos + 1) + 1) = C(pos + 1) + (IF Char(pos + 1) = Newline THEN 1 ELSE 0)
    BY <1>1, <2>1, OneFurther, AtCharacter
  <2> QED
    BY <2>1, <2>2 DEF Ahead
<1>6. line = 1 + C(pos)
  BY DEF Counted
<1>7. line' = 1 + C(pos')
  <2> HIDE DEF C
  <2> QED
    BY <1>1, <1>4, <1>5, <1>6 DEF Reads
<1>8. Counted'
  BY <1>2, <1>7 DEF Counted
<1> QED
  BY <1>1, <1>8 DEF Reads

-----------------------------------------------------------------------------
(* The lexer's steps *)

LEMMA Classes ==
  /\ \A c \in Blanks \cup Letters \cup Digits \cup {"/", "*", "\"", Return, Nul} : c # Newline
  /\ \A c \in Blanks \cup Letters \cup Digits \cup {"/", "*", "\"", Return} : c # Nul
BY LexerAssumption

(* A step that leaves the tokens alone. *)
LEMMA NoToken ==
  ASSUME LexerTyped, UNCHANGED <<text, tokens>>, pos' \in Nat, start' \in Nat, one' \in BOOLEAN,
         multi' \in BOOLEAN, mode' \in {"ready", "blank", "token", "number", "string", "name", "asserted"},
         pos' = 0 => mode' \in {"ready", "blank"}
  PROVE  LexerTyped'
BY DEF LexerTyped

(* One character more, inside a token or between two. *)
LEMMA ReadOn ==
  ASSUME LexerTyped, Here # Newline, pos' = pos + 1, mode' \in {"blank", "number", "string", "name"},
         start' \in {start, pos, pos - 1}, pos # 0 \/ start' = start,
         UNCHANGED <<text, line, one, multi, tokens>>
  PROVE  Reads /\ LexerTyped'
<1>1. Reads
  BY DEF Reads
<1>2. pos' \in Nat /\ pos' # 0 /\ start' \in Nat /\ one' \in BOOLEAN /\ multi' \in BOOLEAN
  BY DEF LexerTyped
<1>3. LexerTyped'
  BY <1>2, NoToken
<1> QED
  BY <1>1, <1>3

LEMMA BlankSteps ==
  ASSUME LexerTyped, UNCHANGED text,
         NextToken \/ SkipBlank \/ SkipNewline \/ SkipSlash \/ SkipStar \/ SkipComment \/ BlankDone
  PROVE  Reads /\ LexerTyped'
<1>1. pos \in Nat /\ start \in Nat /\ one \in BOOLEAN /\ multi \in BOOLEAN /\ Char(0) = " "
  BY AtCharacter DEF LexerTyped
<1>n. pos \in Nat
  BY DEF LexerTyped
<1>2. " " \in Blanks /\ " " # Nul /\ " " # "/"
  BY LexerAssumption
<1>3. CASE NextToken
  BY <1>1, <1>3, NoToken DEF NextToken, Reads
<1>4. CASE SkipBlank
  <2>1. Here # Newline
    BY <1>4, Classes DEF SkipBlank
  <2>2. pos' = pos + 1 /\ mode' = mode /\ mode = "blank" /\ UNCHANGED <<line, one, multi, start, tokens>>
    BY <1>4 DEF SkipBlank, Read
  <2> QED
    BY <2>1, <2>2, ReadOn
<1>5. CASE SkipNewline
  <2>1. Here # Newline => Here = Return /\ Ahead(Newline)
    BY <1>5 DEF SkipNewline, AtNewline
  <2>2. Reads
    BY <1>5, <2>1 DEF SkipNewline, Reads, Read
  <2>3. mode' = mode /\ one' = FALSE /\ UNCHANGED <<multi, start, tokens>>
    BY <1>5 DEF SkipNewline
  <2>4. pos' \in Nat /\ pos' # 0
    <3>1. pos' = pos + 1 \/ pos' = pos + 2
      BY <1>5 DEF SkipNewline, Read
    <3> QED
      BY <1>n, <3>1
  <2>5. mode' = "blank"
    BY <1>5, <2>3 DEF SkipNewline
  <2>6. LexerTyped'
    BY <1>1, <2>3, <2>4, <2>5, NoToken
  <2> QED
    BY <2>2, <2>6
<1>6. CASE SkipSlash
  <2>1. Here # Newline /\ pos # 0
    BY <1>1, <1>2, <1>6, Classes DEF SkipSlash, Here
  <2>2. one' \in BOOLEAN /\ multi' \in BOOLEAN /\ UNCHANGED <<line, start, tokens>>
    BY <1>1, <1>6 DEF SkipSlash
  <2>3. Ahead("/") \/ Ahead("*") => ~Ahead(Newline)
    BY Classes DEF Ahead
  <2>4. <<one', multi'>> # <<one, multi>> => Ahead("/") \/ Ahead("*")
    BY <1>1, <1>6 DEF SkipSlash
  <2>5. \/ pos' = pos + 1 /\ mode' = mode
        \/ pos' = pos + 2 /\ mode' = mode /\ ~Ahead(Newline)
        \/ pos' = pos /\ mode' = "token"
    BY <1>6, <2>3, <2>4 DEF SkipSlash, Read
  <2>6. Reads
    BY <2>1, <2>2, <2>5 DEF Reads
  <2>7. pos' \in Nat /\ pos' # 0
    <3>1. pos' = pos + 1 \/ pos' = pos + 2 \/ pos' = pos
      BY <2>5
    <3> QED
      BY <1>n, <2>1, <3>1
  <2>8. mode' \in {"blank", "token"}
    BY <1>6, <2>5 DEF SkipSlash
  <2>9. LexerTyped'
    BY <1>1, <2>2, <2>7, <2>8, NoToken
  <2> QED
    BY <2>6, <2>9
<1>7. CASE SkipStar
  <2>1. Here # Newline /\ ~Ahead(Newline)
    BY <1>7, Classes DEF SkipStar, Ahead
  <2>2. /\ pos' = pos + 2 /\ mode' = mode /\ mode = "blank" /\ multi' = FALSE
        /\ UNCHANGED <<line, one, start, tokens>>
    BY <1>7 DEF SkipStar, Read
  <2>3. Reads
    BY <2>1, <2>2 DEF Reads
  <2>4. pos' \in Nat /\ pos' # 0
    <3>1. pos' = pos + 2
      BY <2>2
    <3> QED
      BY <1>n, <3>1
  <2>5. LexerTyped'
    BY <1>1, <2>2, <2>4, NoToken
  <2> QED
    BY <2>3, <2>5
<1>8. CASE SkipComment
  <2>1. Here # Newline
    BY <1>8 DEF SkipComment, Ordinary, AtNewline
  <2>2. pos' = pos + 1 /\ mode' = mode /\ mode = "blank" /\ UNCHANGED <<line, one, multi, start, tokens>>
    BY <1>8 DEF SkipComment, Read
  <2> QED
    BY <2>1, <2>2, ReadOn
<1>9. CASE BlankDone
  <2>1. pos # 0
    BY <1>1, <1>2, <1>9 DEF BlankDone, Ordinary, Here
  <2>2. mode' = "token" /\ UNCHANGED <<pos, line, one, multi, start, tokens>>
    BY <1>9 DEF BlankDone
  <2>3. LexerTyped'
    BY <1>1, <2>1, <2>2, NoToken
  <2> QED
    BY <2>2, <2>3 DEF Reads
<1> QED
  BY <1>3, <1>4, <1>5, <1>6, <1>7, <1>8, <1>9

LEMMA TokenSteps ==
  ASSUME LexerTyped, UNCHANGED text,
         \/ StartNumber \/ StartString \/ StartName \/ Continue \/ EndToken
         \/ Symbol \/ EndOfText \/ Asserts
  PROVE  Reads /\ LexerTyped'
<1>1. pos \in Nat /\ start \in Nat /\ one \in BOOLEAN /\ multi \in BOOLEAN /\ tokens \in Seq(Positions)
  BY DEF LexerTyped
<1>n. pos \in Nat
  BY DEF LexerTyped
<1>2. pos # 0 /\ pos - 1 \in Nat
  <2>1. mode \notin {"ready", "blank"}
    BY DEF StartNumber, StartString, StartName, Continue, EndToken, Symbol, EndOfText, Asserts
  <2> QED
    BY <2>1 DEF LexerTyped
<1>3. CASE StartNumber \/ StartString \/ StartName
  <2>1. Here # Newline
    BY <1>3, Classes DEF StartNumber, StartString, StartName
  <2>2. /\ pos' = pos + 1 /\ start' \in {pos, pos - 1} /\ mode' \in {"number", "string", "name"}
        /\ UNCHANGED <<line, one, multi, tokens>>
    BY <1>3 DEF StartNumber, StartString, StartName, Read
  <2> QED
    BY <1>2, <2>1, <2>2, ReadOn
<1>4. CASE Continue
  <2>1. Here # Newline
    BY <1>4, Classes DEF Continue, Continues, EndOfLine
  <2>2. /\ pos' = pos + 1 /\ mode' = mode /\ mode \in {"number", "string", "name"}
        /\ UNCHANGED <<line, one, multi, start, tokens>>
    BY <1>4 DEF Continue, Read
  <2> QED
    BY <2>1, <2>2, ReadOn
<1>5. ASSUME NEW type \in TokenTypes, NEW from \in Nat, NEW to \in Nat, Returned(type, from, to),
             pos' \in Nat, UNCHANGED <<one, multi, start>>
      PROVE  LexerTyped'
  <2>1. TokenAt(type, from, to) \in Positions
    BY <1>5 DEF TokenAt, Positions
  <2>2. tokens' \in Seq(Positions) /\ mode' = "ready"
    BY <1>1, <1>5, <2>1 DEF Returned
  <2> QED
    BY <1>1, <1>5, <2>2 DEF LexerTyped
<1>6. CASE EndToken
  <2> DEFINE type == CASE mode = "number" -> "integer"
                       [] mode = "string" -> "string"
                       [] mode = "name" -> IF Spelling(start, pos - 1) \in Keywords THEN "keyword" ELSE "identifier"
  <2>1. type \in TokenTypes /\ Returned(type, start, pos - 1)
    <3>1. mode \in {"number", "string", "name"} /\ Returned(type, start, pos - 1)
      BY <1>6 DEF EndToken
    <3>2. type \in TokenTypes
      <4>1. CASE mode = "number"
        BY <4>1 DEF TokenTypes
      <4>2. CASE mode = "string"
        BY <4>2 DEF TokenTypes
      <4>3. CASE mode = "name"
        BY <4>3 DEF TokenTypes
      <4> QED
        BY <3>1, <4>1, <4>2, <4>3
    <3> QED
      BY <3>1, <3>2
  <2> DEFINE quoted == mode = "string" /\ Here = "\""
  <2>2. Read(IF quoted THEN 1 ELSE 0) /\ UNCHANGED <<line, one, multi, start>>
    BY <1>6 DEF EndToken
  <2>3. quoted => Here # Newline
    BY Classes
  <2> HIDE DEF type, quoted
  <2>4. (pos' = pos + 1 /\ Here # Newline) \/ pos' = pos
    BY <1>n, <2>2, <2>3 DEF Read
  <2>5. Reads
    BY <2>2, <2>4 DEF Reads
  <2>6. pos' \in Nat
    BY <1>n, <2>4
  <2> QED
    BY <1>1, <1>2, <1>5, <2>1, <2>2, <2>5, <2>6
<1>7. CASE Symbol
  <2>1. Here # Newline /\ pos' = pos + 1 /\ UNCHANGED <<line, one, multi, start>>
    BY <1>7 DEF Symbol, Read
  <2>2. Returned("symbol", pos - 1, pos)
    BY <1>7 DEF Symbol
  <2>3. LexerTyped'
    <3>1. "symbol" \in TokenTypes /\ pos' \in Nat
      BY <1>n, <2>1 DEF TokenTypes
    <3> QED
      BY <1>1, <1>2, <1>5, <2>1, <2>2, <3>1
  <2> QED
    BY <2>1, <2>3 DEF Reads
<1>8. CASE EndOfText
  <2>1. UNCHANGED <<pos, line, one, multi, start>> /\ Returned("eof", pos - 1, pos - 1)
    BY <1>8 DEF EndOfText
  <2>2. LexerTyped'
    <3>1. "eof" \in TokenTypes /\ pos' \in Nat
      <4>1. pos' = pos
        BY <2>1
      <4> QED
        BY <1>n, <4>1 DEF TokenTypes
    <3> QED
      BY <1>1, <1>2, <1>5, <2>1, <3>1
  <2> QED
    BY <2>1, <2>2 DEF Reads
<1>9. CASE Asserts
  <2>1. mode' = "asserted" /\ UNCHANGED <<pos, line, one, multi, start, tokens>>
    BY <1>9 DEF Asserts
  <2>2. LexerTyped'
    BY <1>1, <1>2, <2>1, NoToken
  <2> QED
    BY <2>1, <2>2 DEF Reads
<1> QED
  BY <1>3, <1>4, <1>6, <1>7, <1>8, <1>9

LEMMA LexerSteps ==
  ASSUME LexerTyped, Counted, LexStep \/ NextToken, UNCHANGED text
  PROVE  LexerTyped' /\ Counted'
<1>1. Reads /\ LexerTyped'
  BY BlankSteps, TokenSteps DEF LexStep
<1> QED
  BY <1>1, ReadsCount

-----------------------------------------------------------------------------
(* Every step keeps the invariant. *)

LEMMA TextInitTInv == TextInit => TInv
<1> SUFFICES ASSUME TextInit PROVE TInv
  OBVIOUS
<1>1. /\ text \in Seq(Characters) /\ phase = "lex" /\ MapInit /\ pos = 0 /\ line = 1 /\ mode = "ready"
      /\ one = FALSE /\ multi = FALSE /\ start = 0 /\ tokens = <<>>
      /\ diagnostics = <<>> /\ overflow = FALSE /\ complaints = <<>> /\ located = <<>>
  BY TextAssumption DEF TextInit, LexInit, MapInit
<1>2. LexerTyped
  <2>1. pos \in Nat /\ start \in Nat /\ tokens \in Seq(Positions)
    BY <1>1
  <2>2. one \in BOOLEAN /\ multi \in BOOLEAN
    BY <1>1
  <2> QED
    BY <1>1, <2>1, <2>2 DEF LexerTyped
<1>3. Counted
  BY <1>1, NoneBefore DEF Counted
<1>4. FirstKept
  <2>1. /\ complaints \in Seq(Nat) /\ diagnostics \in Seq(Nat) /\ DOMAIN diagnostics = {}
        /\ Len(complaints) = 0 /\ Len(diagnostics) = 0
    BY <1>1
  <2>2. MaxDiagnostics \in Nat
    BY TextAssumption
  <2>3. /\ ~(Len(complaints) > MaxDiagnostics)
        /\ Len(diagnostics) = IF Len(complaints) < MaxDiagnostics THEN Len(complaints) ELSE MaxDiagnostics
    BY <2>1, <2>2
  <2>4. overflow = (Len(complaints) > MaxDiagnostics)
    <3> DEFINE more == Len(complaints) > MaxDiagnostics
    <3>1. more = FALSE
      BY <2>3
    <3> QED
      BY <1>1, <3>1
  <2>5. \A k \in DOMAIN diagnostics : diagnostics[k] = complaints[k]
    BY <2>1
  <2> QED
    BY <2>1, <2>3, <2>4, <2>5 DEF FirstKept
<1>5. InOrder /\ Mapping
  BY <1>1 DEF InOrder, Mapping
<1> QED
  BY <1>2, <1>3, <1>4, <1>5 DEF TInv

LEMMA MapVarsKept ==
  ASSUME Mapping, UNCHANGED mapVars
  PROVE  Mapping'
<1>1. UNCHANGED <<text, total, phase, at, built, starts, target, low, high, located>>
  BY DEF mapVars
<1>2. IInv => IInv'
  BY StepKeeps
<1>3. NewlinesTo(at + 1)' = NewlinesTo(at + 1) /\ NewlinesTo(Len(text) + 1)' = NewlinesTo(Len(text) + 1)
  BY <1>1 DEF NewlinesTo
<1> QED
  BY <1>1, <1>2, <1>3 DEF Mapping, MapInit

LEMMA LexKeeps == ASSUME TInv, Lex PROVE TInv'
<1>1. UNCHANGED mapVars /\ UNCHANGED <<text, phase, target, located, diagnostics, overflow, complaints>>
  BY DEF Lex, mapVars, engineVars
<1>2. LexerTyped' /\ Counted'
  BY <1>1, LexerSteps DEF Lex, TInv
<1>3. Mapping'
  BY <1>1, MapVarsKept DEF TInv
<1>4. FirstKept' /\ InOrder'
  BY <1>1 DEF TInv, FirstKept, InOrder
<1> QED
  BY <1>2, <1>3, <1>4 DEF TInv

LEMMA LexVarsKept ==
  ASSUME LexerTyped, Counted, UNCHANGED text, UNCHANGED lexVars
  PROVE  LexerTyped' /\ Counted'
<1>1. UNCHANGED <<pos, line, mode, one, multi, start, tokens>>
  BY DEF lexVars
<1>2. NewlinesTo(pos)' = NewlinesTo(pos)
  BY <1>1 DEF NewlinesTo
<1> QED
  BY <1>1, <1>2 DEF LexerTyped, Counted

LEMMA ComplainKeeps == ASSUME TInv, NEW k \in DOMAIN tokens, Complain(k) PROVE TInv'
<1> DEFINE p == tokens[k].start
           n == Len(complaints)
           d == Len(diagnostics)
<1>1. /\ phase = "lex" /\ UNCHANGED mapVars /\ UNCHANGED lexVars /\ UNCHANGED <<text, phase, target, located>>
      /\ complaints' = Append(complaints, p)
      /\ IF d < MaxDiagnostics THEN diagnostics' = Append(diagnostics, p) /\ overflow' = overflow
         ELSE overflow' = TRUE /\ diagnostics' = diagnostics
  BY DEF Complain, mapVars
<1>2. p \in Nat
  <2>1. tokens[k] \in Positions
    BY DEF TInv, LexerTyped
  <2> QED
    BY <2>1 DEF Positions
<1> HIDE DEF p
<1>3. LexerTyped' /\ Counted' /\ Mapping'
  BY <1>1, LexVarsKept, MapVarsKept DEF TInv
<1>4. /\ complaints \in Seq(Nat) /\ diagnostics \in Seq(Nat) /\ n \in Nat /\ d \in Nat
      /\ d = IF n < MaxDiagnostics THEN n ELSE MaxDiagnostics
      /\ \A i \in DOMAIN diagnostics : diagnostics[i] = complaints[i]
      /\ overflow = (n > MaxDiagnostics)
      /\ MaxDiagnostics \in Nat /\ DOMAIN complaints = 1..n /\ DOMAIN diagnostics = 1..d
  BY TextAssumption DEF TInv, FirstKept
<1>5. /\ complaints' \in Seq(Nat) /\ Len(complaints') = n + 1
      /\ \A i \in 1..n : complaints'[i] = complaints[i]
      /\ complaints'[n + 1] = p
  BY <1>1, <1>2, <1>4
<1>6. FirstKept'
  <2>1. CASE d < MaxDiagnostics
    <3>1. /\ diagnostics' \in Seq(Nat) /\ Len(diagnostics') = d + 1 /\ DOMAIN diagnostics' = 1..d + 1
          /\ \A i \in 1..d : diagnostics'[i] = diagnostics[i]
          /\ diagnostics'[d + 1] = p
      <4>1. diagnostics' = Append(diagnostics, p)
        BY <1>1, <2>1
      <4> QED
        BY <1>2, <1>4, <4>1
    <3>2. overflow' = overflow
      BY <1>1, <2>1
    <3> HIDE DEF n, d
    <3>3. /\ d = n /\ ~(n > MaxDiagnostics) /\ ~(n + 1 > MaxDiagnostics)
          /\ d + 1 = IF n + 1 < MaxDiagnostics THEN n + 1 ELSE MaxDiagnostics
      BY <1>4, <2>1
    <3>4. \A i \in 1..d + 1 : diagnostics'[i] = complaints'[i]
      <4>1. ASSUME NEW i \in 1..d + 1 PROVE diagnostics'[i] = complaints'[i]
        <5>1. CASE i = d + 1
          BY <1>5, <3>1, <3>3, <5>1
        <5>2. CASE i # d + 1
          <6>1. i \in 1..d
            BY <1>4, <5>2
          <6> QED
            BY <1>4, <1>5, <3>1, <3>3, <6>1
        <5> QED
          BY <5>1, <5>2
      <4> QED
        BY <4>1
    <3>5. overflow' = (n + 1 > MaxDiagnostics)
      BY <1>4, <3>2, <3>3
    <3> QED
      BY <1>5, <3>1, <3>3, <3>4, <3>5 DEF FirstKept
  <2>2. CASE ~(d < MaxDiagnostics)
    <3>1. diagnostics' = diagnostics /\ overflow' = TRUE
      BY <1>1, <2>2
    <3> HIDE DEF n, d
    <3>2. d = MaxDiagnostics /\ d <= n /\ n + 1 > MaxDiagnostics /\ ~(n + 1 < MaxDiagnostics)
      BY <1>4, <2>2
    <3>3. \A i \in 1..d : diagnostics[i] = complaints'[i]
      BY <1>4, <1>5, <3>2
    <3>4. Len(diagnostics) = d
      BY DEF d
    <3> QED
      BY <1>4, <1>5, <3>1, <3>2, <3>3, <3>4 DEF FirstKept
  <2> QED
    BY <2>1, <2>2
<1>7. InOrder'
  <2>1. located = <<>>
    BY <1>1 DEF TInv, Mapping, MapInit
  <2>2. Len(diagnostics') \in Nat
    BY <1>6 DEF FirstKept
  <2> QED
    BY <1>1, <2>1, <2>2 DEF InOrder
<1> QED
  BY <1>3, <1>6, <1>7 DEF TInv

LEMMA StartReportKeeps == ASSUME TInv, StartReport PROVE TInv'
<1>1. /\ phase = "lex" /\ phase' = "map" /\ total' = line
      /\ UNCHANGED <<text, at, built, starts, target, low, high, located>>
      /\ UNCHANGED lexVars /\ UNCHANGED <<diagnostics, overflow, complaints>>
  BY DEF StartReport, engineVars
<1>2. LexerTyped' /\ Counted'
  BY <1>1, LexVarsKept DEF TInv
<1>3. FirstKept' /\ InOrder'
  BY <1>1 DEF TInv, FirstKept, InOrder
<1>4. /\ text \in Seq(Characters) /\ at = 0 /\ built = 1 /\ starts = [k \in {0} |-> 0]
      /\ target = 0 /\ low = 0 /\ high = 0 /\ located = <<>>
  BY <1>1 DEF TInv, LexerTyped, Mapping, MapInit
<1>5. line = 1 + Cardinality(NewlinesTo(pos)) /\ Cardinality(NewlinesTo(pos)) \in Nat
  BY <1>4, NewlinesFinite DEF TInv, Counted
<1>6. Cardinality(NewlinesTo(pos)) <= Cardinality(NewlinesTo(Len(text) + 1))
  <2>1. NewlinesTo(pos) \subseteq NewlinesTo(Len(text) + 1)
    BY <1>4 DEF NewlinesTo
  <2>2. IsFiniteSet(NewlinesTo(Len(text) + 1))
    BY <1>4, NewlinesFinite
  <2> QED
    BY <2>1, <2>2, FS_Subset
<1>7. IInv'
  <2>1. line \in Nat \ {0} /\ built \in 1..line
    BY <1>4, <1>5
  <2>2. Typed'
    BY <1>1, <1>4, <2>1 DEF Typed
  <2>3. MapOfPrefix' /\ Searching' /\ RightLine'
    BY <1>1, <1>4 DEF MapOfPrefix, Searching, RightLine
  <2> QED
    BY <2>2, <2>3 DEF IInv
<1>8. /\ NewlinesTo(at + 1)' = NewlinesTo(1)
      /\ NewlinesTo(Len(text) + 1)' = NewlinesTo(Len(text) + 1)
  BY <1>1, <1>4 DEF NewlinesTo
<1>9. Cardinality(NewlinesTo(1)) = 0
  BY <1>4, NoneBefore
<1>10. total' <= 1 + Cardinality(NewlinesTo(Len(text) + 1))
  <2>1. Cardinality(NewlinesTo(Len(text) + 1)) \in Nat
    BY <1>4, NewlinesFinite
  <2> QED
    BY <1>1, <1>5, <1>6, <2>1
<1>11. Mapping'
  BY <1>1, <1>4, <1>7, <1>8, <1>9, <1>10 DEF Mapping
<1> QED
  BY <1>2, <1>3, <1>11 DEF TInv

LEMMA ReportOneKeeps == ASSUME TInv, ReportOne PROVE TInv'
<1> DEFINE d == diagnostics[Len(located) + 1]
<1>1. /\ Len(located) < Len(diagnostics) /\ Locate(d) /\ phase = "ready" /\ phase' = "search" /\ target' = d
      /\ UNCHANGED <<text, total, at, built, starts, located, diagnostics, overflow, complaints>>
      /\ UNCHANGED lexVars
  BY DEF ReportOne, Locate, engineVars
<1>2. d \in Nat
  <2>1. diagnostics \in Seq(Nat) /\ Len(located) \in Nat
    BY DEF TInv, FirstKept, InOrder
  <2> QED
    BY <1>1, <2>1
<1> HIDE DEF d
<1>3. LexerTyped' /\ Counted'
  BY <1>1, LexVarsKept DEF TInv
<1>4. FirstKept' /\ InOrder'
  BY <1>1 DEF TInv, FirstKept, InOrder, d
<1>5. IInv'
  BY <1>1, <1>2, StepKeeps DEF TInv, Mapping, Next
<1>6. NewlinesTo(at + 1)' = NewlinesTo(at + 1) /\ NewlinesTo(Len(text) + 1)' = NewlinesTo(Len(text) + 1)
  BY <1>1 DEF NewlinesTo
<1>7. Mapping'
  BY <1>1, <1>5, <1>6 DEF TInv, Mapping
<1> QED
  BY <1>3, <1>4, <1>7 DEF TInv

LEMMA ResolveKeeps == ASSUME TInv, Resolve PROVE TInv'
<1>1. /\ UNCHANGED <<text, total, diagnostics, overflow, complaints>> /\ UNCHANGED lexVars
      /\ phase \in {"map", "search"} /\ phase' \in {phase, "ready"} /\ IInv
  BY DEF Resolve, MapCharacter, MapDone, Halve, Found, engineVars, TInv, Mapping
<1>2. LexerTyped' /\ Counted'
  BY <1>1, LexVarsKept DEF TInv
<1>3. FirstKept'
  BY <1>1 DEF TInv, FirstKept
<1>4. IInv'
  BY <1>1, StepKeeps DEF Resolve, Next
<1>5. NewlinesTo(Len(text) + 1)' = NewlinesTo(Len(text) + 1)
  BY <1>1 DEF NewlinesTo
<1>6. text \in Seq(Characters) /\ at \in 0..Len(text) /\ built \in 1..total /\ total \in Nat
  BY <1>1 DEF IInv, Typed
<1>7. CASE MapCharacter
  <2>1. /\ phase = "map" /\ at < Len(text) /\ at' = at + 1 /\ UNCHANGED <<phase, target, located>>
        /\ built' = IF text[at + 1] = Newline THEN built + 1 ELSE built
    BY <1>7 DEF MapCharacter
  <2>2. at + 1 \in Nat /\ at + 1 \in DOMAIN text
    BY <1>6, <2>1
  <2>3. /\ Cardinality(NewlinesTo((at + 1) + 1)) =
             Cardinality(NewlinesTo(at + 1)) + (IF text[at + 1] = Newline THEN 1 ELSE 0)
        /\ Cardinality(NewlinesTo(at + 1)) \in Nat
    BY <1>6, <2>2, OneFurther
  <2>4. NewlinesTo(at + 1)' = NewlinesTo((at + 1) + 1)
    BY <1>1, <2>1 DEF NewlinesTo
  <2>5. built = 1 + Cardinality(NewlinesTo(at + 1))
    BY <1>1 DEF TInv, Mapping
  <2>6. built' = 1 + Cardinality(NewlinesTo((at + 1) + 1))
    BY <1>6, <2>1, <2>3, <2>5
  <2>7. Mapping'
    BY <1>1, <1>4, <1>5, <2>1, <2>4, <2>6 DEF TInv, Mapping
  <2>8. InOrder'
    BY <1>1, <2>1 DEF TInv, InOrder
  <2> QED
    BY <1>2, <1>3, <2>7, <2>8 DEF TInv
<1>8. CASE ~MapCharacter
  <2>1. UNCHANGED <<at, built>>
    BY <1>8 DEF Resolve, MapDone, Halve, Found
  <2>2. NewlinesTo(at + 1)' = NewlinesTo(at + 1)
    BY <1>1, <2>1 DEF NewlinesTo
  <2>3. built = total
    <3>1. CASE phase = "map"
      <4>1. at = Len(text) \/ built = total
        BY <1>8, <3>1 DEF Resolve, MapDone, Halve, Found
      <4>2. built = 1 + Cardinality(NewlinesTo(at + 1)) /\ total <= 1 + Cardinality(NewlinesTo(Len(text) + 1))
        BY <1>1 DEF TInv, Mapping
      <4>3. Cardinality(NewlinesTo(at + 1)) \in Nat
        BY <1>6, NewlinesFinite
      <4>4. CASE at = Len(text)
        <5>1. total <= built
          BY <4>2, <4>4
        <5> QED
          BY <1>6, <5>1
      <4> QED
        BY <4>1, <4>4
    <3>2. CASE phase = "search"
      BY <3>2 DEF TInv, Mapping
    <3> QED
      BY <1>1, <3>1, <3>2
  <2>4. Mapping'
    BY <1>1, <1>4, <1>5, <2>1, <2>2, <2>3 DEF TInv, Mapping
  <2>5. InOrder'
    <3>1. CASE Found
      <4> DEFINE found == [pos |-> target, line |-> IF low = 0 THEN 0 ELSE low - 1]
                 n == Len(located)
      <4>1. phase = "search" /\ phase' = "ready" /\ located' = Append(located, found) /\ target' = target
        BY <3>1 DEF Found
      <4>2. located \in Seq([pos : Nat, line : Nat]) /\ located' \in Seq([pos : Nat, line : Nat])
        BY <1>1, <1>4 DEF IInv, Typed
      <4>3. found.pos = target
        OBVIOUS
      <4> HIDE DEF found
      <4>4. /\ n \in Nat /\ DOMAIN located = 1..n /\ DOMAIN located' = 1..n + 1 /\ Len(located') = n + 1
            /\ \A k \in 1..n : located'[k] = located[k]
            /\ located'[n + 1] = found
        BY <4>1, <4>2
      <4>5. /\ \A k \in 1..n : located[k].pos = diagnostics[k]
            /\ n < Len(diagnostics) /\ target = diagnostics[n + 1]
            /\ Len(diagnostics) \in Nat
        <5>1. Len(diagnostics) \in Nat
          BY LenProperties DEF TInv, FirstKept
        <5>2. /\ \A k \in DOMAIN located : located[k].pos = diagnostics[k]
              /\ n < Len(diagnostics) /\ target = diagnostics[n + 1]
          BY <4>1 DEF TInv, InOrder
        <5> QED
          BY <4>4, <5>1, <5>2
      <4> HIDE DEF n
      <4>6. n + 1 <= Len(diagnostics)
        BY <4>4, <4>5
      <4>7. \A k \in 1..n + 1 : located'[k].pos = diagnostics[k]
        BY <4>3, <4>4, <4>5
      <4> QED
        BY <1>1, <4>1, <4>2, <4>4, <4>6, <4>7 DEF InOrder
    <3>2. CASE ~Found
      <4>1. UNCHANGED <<target, located>> /\ (phase' = "search" => phase = "search")
        BY <1>1, <1>8, <3>2 DEF Resolve, MapDone, Halve
      <4> QED
        BY <1>1, <4>1 DEF TInv, InOrder
    <3> QED
      BY <3>1, <3>2
  <2> QED
    BY <1>2, <1>3, <2>4, <2>5 DEF TInv
<1> QED
  BY <1>7, <1>8

LEMMA TextStepKeeps == TInv /\ [TextNext]_vars => TInv'
<1> SUFFICES ASSUME TInv, [TextNext]_vars PROVE TInv'
  OBVIOUS
<1>1. CASE UNCHANGED vars
  <2>1. UNCHANGED mapVars /\ UNCHANGED lexVars /\ UNCHANGED <<diagnostics, overflow, complaints>>
    BY <1>1 DEF vars
  <2>2. LexerTyped' /\ Counted' /\ Mapping'
    BY <2>1, LexVarsKept, MapVarsKept DEF TInv, mapVars
  <2>3. FirstKept' /\ InOrder'
    BY <2>1 DEF TInv, FirstKept, InOrder, mapVars
  <2> QED
    BY <2>2, <2>3 DEF TInv
<1> QED
  BY <1>1, LexKeeps, StartReportKeeps, ReportOneKeeps, ResolveKeeps, ComplainKeeps DEF TextNext, Finished

(* What the theorems on texts rest on. *)
THEOREM TextInvariance == TextSpec => []TInv
BY TextInitTInv, TextStepKeeps, PTL DEF TextSpec

(* The lexer's line counter is right wherever it stands, through comments   *)
(* and line ends of either kind, so that a map of that many lines has them *)
(* all.                                                                    *)
THEOREM CountsLines == TextSpec => []LinesCounted
<1>1. TInv => LinesCounted
  BY DEF TInv, Counted, NewlinesTo, Mapping, LinesCounted
<1> QED
  BY <1>1, TextInvariance, PTL

(* The report is of the first complaints, in their order, as many as fit. *)
THEOREM KeepsFirst == TextSpec => []ReportKeepsFirst
<1>1. TInv => ReportKeepsFirst
  <2> SUFFICES ASSUME TInv, Reported PROVE ReportKeepsFirst
    BY DEF ReportKeepsFirst
  <2>1. /\ Len(located) = Len(diagnostics) /\ located \in Seq([pos : Nat, line : Nat]) /\ diagnostics \in Seq(Nat)
        /\ \A k \in DOMAIN located : located[k].pos = diagnostics[k]
        /\ \A k \in DOMAIN diagnostics : diagnostics[k] = complaints[k]
    BY DEF TInv, FirstKept, InOrder, Reported
  <2>2. DOMAIN located = DOMAIN diagnostics
    BY <2>1
  <2> QED
    BY <2>1, <2>2 DEF TInv, FirstKept, ReportKeepsFirst
<1> QED
  BY <1>1, TextInvariance, PTL

(* What FindsLines says of SourceMap holds of the report, whatever the      *)
(* parser complained about and whenever it gave up.                        *)
THEOREM ReportFindsLines == TextSpec => []LinesFound
<1>1. TInv => LinesFound
  <2> SUFFICES ASSUME TInv PROVE LinesFound
    OBVIOUS
  <2>1. CASE phase = "lex"
    <3>1. built = 1 /\ starts = [k \in {0} |-> 0] /\ located = <<>> /\ text \in Seq(Characters)
      BY <2>1 DEF TInv, Mapping, MapInit, LexerTyped
    <3> QED
      BY <3>1 DEF LinesFound, MapOfLines, RightLine
  <2>2. CASE phase # "lex"
    BY <2>2, MapIsOfLines DEF TInv, Mapping, LinesFound, IInv
  <2> QED
    BY <2>1, <2>2
<1> QED
  BY <1>1, TextInvariance, PTL

-----------------------------------------------------------------------------
(* Tokens: positions and pieces of the text *)

LEMMA SetInduction ==
  ASSUME NEW S, 0 \in S, \A n \in Nat : n \in S => n + 1 \in S
  PROVE  Nat \subseteq S
<1> DEFINE T == Nat \ S
<1>1. SUFFICES ASSUME T # {} PROVE FALSE
  OBVIOUS
<1>2. PICK x \in T : \A y \in T : ~ (<<y, x>> \in OpToRel(<, Nat))
  BY <1>1, WFMin, NatLessThanWellFounded
<1>3. \A y \in T : ~ (y < x)
  BY <1>2 DEF OpToRel
<1>4. x # 0 /\ x \in Nat /\ x \notin S
  OBVIOUS
<1>5. x - 1 \in Nat /\ x - 1 < x /\ (x - 1) + 1 = x
  BY <1>4
<1>6. x - 1 \in S
  BY <1>3, <1>5
<1>7. x \in S
  BY <1>5, <1>6
<1> QED
  BY <1>4, <1>7

LEMMA FirstIs ==
  ASSUME NEW n \in Nat, NEW S \in SUBSET (0..n), n \in S, NEW p \in 0..n
  PROVE  /\ First(p, S) \in S /\ First(p, S) \in p..n
         /\ \A q \in S : q >= p => First(p, S) <= q
<1> DEFINE T == {q \in S : q >= p}
<1>1. \A q \in S : q \in Nat /\ q <= n
  OBVIOUS
<1>2. n \in T /\ T \subseteq Nat /\ T \subseteq p..n
  <2>1. n >= p
    OBVIOUS
  <2>2. ASSUME NEW q \in T PROVE q \in Nat /\ q \in p..n
    BY <1>1
  <2> QED
    BY <2>1, <2>2
<1>3. PICK x \in T : \A y \in T : ~ (<<y, x>> \in OpToRel(<, Nat))
  BY <1>2, WFMin, NatLessThanWellFounded
<1>4. \A y \in T : x <= y
  <2>1. TAKE y \in T
  <2>2. ~ (y < x) /\ x \in Nat /\ y \in Nat
    BY <1>2, <1>3 DEF OpToRel
  <2> QED
    BY <2>2
<1>5. Min(T) \in T /\ \A y \in T : Min(T) <= y
  BY <1>4 DEF Min
<1> QED
  BY <1>2, <1>5 DEF First

LEMMA FirstUnique ==
  ASSUME NEW n \in Nat, NEW S \in SUBSET (0..n), n \in S, NEW p \in 0..n,
         NEW q \in S, q >= p, \A r \in S : r >= p => q <= r
  PROVE  First(p, S) = q
<1>1. PICK f : f = First(p, S)
  OBVIOUS
<1>2. f \in S /\ f >= p /\ f <= q
  BY <1>1, FirstIs
<1>3. q <= f /\ q \in Int /\ f \in Int
  BY <1>2
<1> QED
  BY <1>1, <1>2, <1>3

(* Looking on from the next position gives the same, where none is. *)
LEMMA FirstStays ==
  ASSUME NEW n \in Nat, NEW S \in SUBSET (0..n), n \in S, NEW p \in 0..(n - 1), p \notin S
  PROVE  First(p + 1, S) = First(p, S) /\ First(p, S) > p
<1>1. PICK q : q = First(p, S)
  OBVIOUS
<1>4. /\ q \in S /\ q >= p /\ \A r \in S : r >= p => q <= r
  BY <1>1, FirstIs
<1>5. q >= p + 1 /\ \A r \in S : r >= p + 1 => q <= r
  BY <1>4
<1>6. p + 1 \in 0..n
  OBVIOUS
<1> QED
  BY <1>1, <1>4, <1>5, <1>6, FirstUnique

LEMMA FirstHere ==
  ASSUME NEW n \in Nat, NEW S \in SUBSET (0..n), n \in S, NEW p \in S
  PROVE  First(p, S) = p
<1>1. p \in 0..n /\ p >= p /\ \A r \in S : r >= p => p <= r
  OBVIOUS
<1> QED
  BY <1>1, FirstUnique

LEMMA AreStops ==
  ASSUME text \in Seq(Characters), NEW n, n = Len(text)
  PROVE  /\ n \in Nat
         /\ CommentEnds \in SUBSET (0..n) /\ n \in CommentEnds
         /\ \A cs : At(cs) \in SUBSET (0..n) /\ n \in At(cs)
BY LenProperties DEF CommentEnds, At

LEMMA CharAt ==
  ASSUME text \in Seq(Characters), NEW n, n = Len(text), NEW p \in Nat
  PROVE  /\ p < n => Char(p + 1) = text[p + 1] /\ Char(p + 1) \in Characters /\ Char(p + 1) # Nul
         /\ p >= n => Char(p + 1) = Nul
<1>1. n \in Nat /\ p + 1 # 0 /\ (p + 1 \in 1..n <=> p < n)
  BY LenProperties
<1>2. p < n => text[p + 1] \in Characters
  BY <1>1, ElementOfSeq
<1>3. Nul \notin Characters
  BY ClassesAssumption
<1> QED
  BY <1>1, <1>2, <1>3 DEF Char

LEMMA InFront ==
  ASSUME text \in Seq(Characters), NEW n, n = Len(text), NEW p \in 0..n
  PROVE  /\ \A cs : p \in At(cs) <=> p = n \/ Char(p + 1) \in cs
         /\ p \in CommentEnds <=> p = n \/ Starts(p, "*", "/")
<1>1. n \in Nat /\ p \in Nat /\ (p # n <=> p < n)
  BY LenProperties
<1> QED
  BY <1>1, CharAt DEF At, CommentEnds

LEMMA PieceIs ==
  ASSUME NEW p, NEW c, c = Char(p + 1),
         NEW number, number = First(p, At(Characters \ Digits)),
         NEW name, name = First(p, At(Characters \ (Letters \cup Digits))),
         NEW string, string = First(p + 1, At({"\"", Newline, Return}))
  PROVE  /\ c \in Blanks \cup {Newline, Return} => Piece(p) = [tokens |-> <<>>, next |-> p + 1]
         /\ Starts(p, "/", "/") => Piece(p) = [tokens |-> <<>>, next |-> First(p, At({Newline}))]
         /\ Starts(p, "/", "*") => Piece(p) = [tokens |-> <<>>, next |-> First(p + 2, CommentEnds) + 2]
         /\ c = "\"" => Piece(p) = [tokens |-> <<TokenAt("string", p + 1, string)>>,
                                    next |-> IF Char(string + 1) = "\"" THEN string + 1 ELSE string]
         /\ c \in Digits => Piece(p) = [tokens |-> <<TokenAt("integer", p, number)>>, next |-> number]
         /\ c \in Letters =>
              Piece(p) = [tokens |-> <<TokenAt(IF Spelling(p, name) \in Keywords THEN "keyword" ELSE "identifier",
                                               p, name)>>,
                          next |-> name]
         /\ c \notin Blanks \cup {Newline, Return, "\""} \cup Digits \cup Letters
              /\ ~ Starts(p, "/", "/") /\ ~ Starts(p, "/", "*") =>
              Piece(p) = [tokens |-> <<TokenAt("symbol", p, p + 1)>>, next |-> p + 1]
<1>1. /\ \A d \in {"/", "*", "\"", Return, Newline} : d \notin Blanks \cup Letters \cup Digits
      /\ Return \notin {"/", "*", "\""} /\ Newline \notin {"/", "*", "\"", Return}
      /\ \A d \in Digits : d \notin Letters \cup Blanks
      /\ \A d \in Letters : d \notin Digits \cup Blanks
  BY LexerAssumption, ClassesAssumption
<1>2. CASE c \in Blanks \cup {Newline, Return}
  BY <1>1, <1>2 DEF Piece, Starts
<1>3. CASE Starts(p, "/", "/")
  BY <1>1, <1>3 DEF Piece, Starts
<1>4. CASE Starts(p, "/", "*")
  BY <1>1, <1>4 DEF Piece, Starts
<1>5. CASE c = "\""
  BY <1>1, <1>5 DEF Piece, Starts
<1>6. CASE c \in Digits
  BY <1>1, <1>6 DEF Piece, Starts
<1>7. CASE c \in Letters
  BY <1>1, <1>7 DEF Piece, Starts
<1>8. CASE c \notin Blanks \cup {Newline, Return, "\""} \cup Digits \cup Letters
             /\ ~ Starts(p, "/", "/") /\ ~ Starts(p, "/", "*")
  BY <1>1, <1>8 DEF Piece
<1> QED
  BY <1>2, <1>3, <1>4, <1>5, <1>6, <1>7, <1>8

LEMMA QuotedPiece ==
  ASSUME NEW p, Char(p + 1) = "\"", NEW string, string = First(p + 1, At({"\"", Newline, Return}))
  PROVE  Piece(p) = [tokens |-> <<TokenAt("string", p + 1, string)>>,
                     next |-> IF Char(string + 1) = "\"" THEN string + 1 ELSE string]
<1>1. "\"" \notin Blanks \cup {Newline, Return} \cup Digits \cup Letters
  BY LexerAssumption, ClassesAssumption
<1> QED
  BY <1>1 DEF Piece, Starts

LEMMA PieceType ==
  ASSUME text \in Seq(Characters), NEW p \in 0..(Len(text) - 1)
  PROVE  /\ Piece(p).tokens \in Seq(Positions)
         /\ Piece(p).next \in Nat /\ Piece(p).next > p
<1>1. PICK n \in Nat : n = Len(text)
  BY LenProperties
<1>2. p \in Nat /\ p < n /\ p \in 0..n /\ p \in 0..(n - 1) /\ p + 1 \in 0..n /\ p # n
  BY <1>1
<1>3. PICK c : c = Char(p + 1)
  OBVIOUS
<1>4. /\ \A cs : At(cs) \in SUBSET (0..n) /\ n \in At(cs)
      /\ CommentEnds \in SUBSET (0..n) /\ n \in CommentEnds
      /\ \A cs : p \in At(cs) <=> c \in cs
  BY <1>1, <1>2, <1>3, AreStops, InFront
<1>5. PICK number, name, string :
        /\ number = First(p, At(Characters \ Digits))
        /\ name = First(p, At(Characters \ (Letters \cup Digits)))
        /\ string = First(p + 1, At({"\"", Newline, Return}))
  OBVIOUS
<1>6. string \in (p + 1)..n
  <2>1. PICK o, S : o = p + 1 /\ S = At({"\"", Newline, Return})
    OBVIOUS
  <2>2. S \in SUBSET (0..n) /\ n \in S /\ o \in 0..n /\ string = First(o, S)
    BY <1>2, <1>4, <1>5, <2>1
  <2>3. string \in o..n
    BY <2>2, FirstIs
  <2> QED
    BY <2>1, <2>3
<1>7. ASSUME NEW t \in Positions PROVE <<t>> \in Seq(Positions)
  OBVIOUS
<1>8. ASSUME NEW type \in TokenTypes, NEW q \in Nat, NEW r \in Nat PROVE TokenAt(type, q, r) \in Positions
  BY DEF TokenAt, Positions
<1>9. CASE c \in Blanks \cup {Newline, Return}
  <2>1. Piece(p) = [tokens |-> <<>>, next |-> p + 1]
    BY <1>3, <1>9, PieceIs
  <2> QED
    BY <1>2, <2>1
<1>10. CASE Starts(p, "/", "/")
  <2>1. PICK q : q = First(p, At({Newline}))
    OBVIOUS
  <2>2. c # Newline
    BY <1>3, <1>10, LexerAssumption DEF Starts
  <2>3. q > p /\ q \in p..n
    BY <1>1, <1>2, <1>4, <2>1, <2>2, FirstStays, FirstIs
  <2>4. Piece(p) = [tokens |-> <<>>, next |-> q]
    BY <1>10, <2>1, PieceIs
  <2> QED
    BY <2>3, <2>4
<1>11. CASE Starts(p, "/", "*")
  <2>1. PICK q : q = First(p + 2, CommentEnds)
    OBVIOUS
  <2>2. p + 1 < n
    <3>1. PICK o : o = p + 1
      OBVIOUS
    <3>2. o + 1 = p + 2 /\ o \in Nat
      BY <1>2, <3>1
    <3>3. Char(p + 2) = "*" /\ "*" # Nul
      BY <1>11, LexerAssumption DEF Starts
    <3>4. o < n
      BY <1>1, <3>2, <3>3, CharAt
    <3> QED
      BY <3>1, <3>4
  <2>3. q \in (p + 2)..n
    BY <1>1, <1>2, <1>4, <2>1, <2>2, FirstIs
  <2>4. Piece(p) = [tokens |-> <<>>, next |-> q + 2]
    BY <1>11, <2>1, PieceIs
  <2> QED
    BY <1>2, <2>3, <2>4
<1>12. CASE c = "\""
  <2>1. PICK q, t : /\ q = IF Char(string + 1) = "\"" THEN string + 1 ELSE string
                    /\ t = TokenAt("string", p + 1, string)
    OBVIOUS
  <2>2. Piece(p) = [tokens |-> <<t>>, next |-> q]
    <3>1. c = Char(p + 1) /\ c = "\"" /\ string = First(p + 1, At({"\"", Newline, Return}))
      BY <1>3, <1>5, <1>12
    <3>2. Piece(p) = [tokens |-> <<TokenAt("string", p + 1, string)>>,
                      next |-> IF Char(string + 1) = "\"" THEN string + 1 ELSE string]
      BY <3>1, QuotedPiece
    <3> QED
      BY <2>1, <3>2, Zenon
  <2>3. string \in Nat /\ string > p /\ p + 1 \in Nat
    BY <1>2, <1>6
  <2>4. t \in Positions
    BY <1>8, <2>1, <2>3 DEF TokenTypes
  <2>5. string + 1 \in Nat /\ string + 1 > p
    BY <1>2, <2>3
  <2>6. q \in Nat /\ q > p
    BY <2>1, <2>3, <2>5
  <2> QED
    BY <1>7, <2>2, <2>4, <2>6
<1>13. CASE c \in Digits
  <2>1. number > p /\ number \in p..n
    BY <1>1, <1>2, <1>4, <1>5, <1>13, FirstStays, FirstIs
  <2>2. Piece(p) = [tokens |-> <<TokenAt("integer", p, number)>>, next |-> number]
    BY <1>3, <1>5, <1>13, PieceIs
  <2>3. TokenAt("integer", p, number) \in Positions
    BY <1>2, <1>8, <2>1 DEF TokenTypes
  <2> QED
    BY <1>2, <1>7, <2>1, <2>2, <2>3
<1>14. CASE c \in Letters
  <2>1. name > p /\ name \in p..n
    BY <1>1, <1>2, <1>4, <1>5, <1>14, FirstStays, FirstIs
  <2>2. PICK type : type = IF Spelling(p, name) \in Keywords THEN "keyword" ELSE "identifier"
    OBVIOUS
  <2>3. Piece(p) = [tokens |-> <<TokenAt(type, p, name)>>, next |-> name]
    BY <1>3, <1>5, <1>14, <2>2, PieceIs
  <2>4. TokenAt(type, p, name) \in Positions
    BY <1>2, <1>8, <2>1, <2>2 DEF TokenTypes
  <2> QED
    BY <1>2, <1>7, <2>1, <2>3, <2>4
<1>15. CASE c \notin Blanks \cup {Newline, Return, "\""} \cup Digits \cup Letters
              /\ ~ Starts(p, "/", "/") /\ ~ Starts(p, "/", "*")
  <2>1. Piece(p) = [tokens |-> <<TokenAt("symbol", p, p + 1)>>, next |-> p + 1]
    BY <1>3, <1>15, PieceIs
  <2>2. TokenAt("symbol", p, p + 1) \in Positions
    BY <1>2, <1>8 DEF TokenTypes
  <2> QED
    BY <1>2, <1>7, <2>1, <2>2
<1> QED
  BY <1>9, <1>10, <1>11, <1>12, <1>13, <1>14, <1>15

(* f is what Lexemes is defined to be, on a set of positions.               *)
LexedAt(f, p) == IF p >= Len(text) THEN <<>> ELSE Piece(p).tokens \o f[Piece(p).next]

Lexed(f, P) == f \in [Nat -> Seq(Positions)] /\ \A p \in P : f[p] = LexedAt(f, p)

LEMMA OnePieceMore ==
  ASSUME text \in Seq(Characters), NEW m \in 0..(Len(text) - 1), NEW f \in [Nat -> Seq(Positions)],
         \A p \in Nat : p > m => f[p] = LexedAt(f, p)
  PROVE  \E g \in [Nat -> Seq(Positions)] : \A p \in Nat : p >= m => g[p] = LexedAt(g, p)
<1>1. PICK n \in Nat : n = Len(text)
  BY LenProperties
<1>2. m \in Nat /\ m < n
  BY <1>1
<1>3. PICK e, g : e = LexedAt(f, m) /\ g = [f EXCEPT ![m] = e]
  OBVIOUS
<1>4. e \in Seq(Positions)
  <2>1. PICK d, q : d = Piece(m).tokens /\ q = Piece(m).next
    OBVIOUS
  <2>2. d \in Seq(Positions) /\ q \in Nat
    BY <2>1, PieceType
  <2>3. f[q] \in Seq(Positions)
    BY <2>2
  <2>4. d \o f[q] \in Seq(Positions)
    BY <2>2, <2>3, ConcatProperties
  <2>5. ~ (m >= Len(text))
    BY <1>1, <1>2
  <2> QED
    BY <1>3, <2>1, <2>4, <2>5, Zenon DEF LexedAt
<1>5. g \in [Nat -> Seq(Positions)] /\ g[m] = e /\ \A p \in Nat : p # m => g[p] = f[p]
  BY <1>2, <1>3, <1>4
<1>6. ASSUME NEW p \in Nat, p >= m PROVE LexedAt(g, p) = LexedAt(f, p)
  <2>1. CASE p < n
    <3>1. PICK q : q = Piece(p).next
      OBVIOUS
    <3>2. p \in 0..(Len(text) - 1)
      BY <1>1, <2>1
    <3>3. q \in Nat /\ q > p
      BY <3>1, <3>2, PieceType
    <3>4. g[q] = f[q]
      BY <1>2, <1>5, <1>6, <3>3
    <3> QED
      BY <3>1, <3>4, Zenon DEF LexedAt
  <2>2. CASE p >= n
    BY <1>1, <2>2, Zenon DEF LexedAt
  <2> QED
    BY <1>1, <2>1, <2>2
<1>7. ASSUME NEW p \in Nat, p >= m PROVE g[p] = LexedAt(g, p)
  <2>1. p = m \/ (p # m /\ p > m)
    BY <1>2, <1>7
  <2> QED
    BY <1>3, <1>5, <1>6, <1>7, <2>1
<1> QED
  BY <1>5, <1>7

LEMMA LexemesExist ==
  ASSUME text \in Seq(Characters)
  PROVE  \E f : Lexed(f, Nat)
<1>1. PICK n \in Nat : n = Len(text)
  BY LenProperties
<1> DEFINE Done(k) == \E f \in [Nat -> Seq(Positions)] : \A p \in Nat : p + k >= n => f[p] = LexedAt(f, p)
           S == {k \in Nat : Done(k)}
<1>2. Done(0)
  <2>1. PICK f : f = [p \in Nat |-> <<>>]
    OBVIOUS
  <2>2. f \in [Nat -> Seq(Positions)] /\ \A p \in Nat : f[p] = <<>>
    BY <2>1
  <2>3. ASSUME NEW p \in Nat, p + 0 >= n PROVE f[p] = LexedAt(f, p)
    <3>1. p >= Len(text)
      BY <1>1, <2>3
    <3>2. LexedAt(f, p) = <<>>
      BY <3>1, Zenon DEF LexedAt
    <3> QED
      BY <2>2, <3>2, Zenon
  <2> QED
    BY <2>2, <2>3
<1>3. ASSUME NEW k \in Nat, Done(k) PROVE Done(k + 1)
  <2>1. PICK f \in [Nat -> Seq(Positions)] : \A p \in Nat : p + k >= n => f[p] = LexedAt(f, p)
    BY <1>3, Zenon
  <2>2. CASE k >= n
    <3>1. \A p \in Nat : p + k >= n
      BY <2>2
    <3> QED
      BY <2>1, <3>1
  <2>3. CASE k < n
    <3>1. PICK m \in Nat : m = n - k - 1
      BY <2>3
    <3>2. m \in 0..(Len(text) - 1)
      BY <1>1, <3>1
    <3>5. \A p \in Nat : p > m => p + k >= n
      BY <3>1
    <3>6. \A p \in Nat : p > m => f[p] = LexedAt(f, p)
      BY <2>1, <3>5
    <3>3. PICK g \in [Nat -> Seq(Positions)] : \A p \in Nat : p >= m => g[p] = LexedAt(g, p)
      BY <3>2, <3>6, OnePieceMore
    <3>4. \A p \in Nat : p + (k + 1) >= n => p >= m
      BY <3>1
    <3>7. \A p \in Nat : p + (k + 1) >= n => g[p] = LexedAt(g, p)
      BY <3>3, <3>4
    <3> QED
      BY <3>7
  <2>4. k >= n \/ k < n
    OBVIOUS
  <2> HIDE DEF Done
  <2> QED
    BY <2>2, <2>3, <2>4
<1>4. n \in S
  <2>1. 0 \in S /\ \A k \in Nat : k \in S => k + 1 \in S
    <3> HIDE DEF Done
    <3> QED
      BY <1>2, <1>3
  <2> HIDE DEF S
  <2> QED
    BY <2>1, SetInduction
<1>5. PICK f \in [Nat -> Seq(Positions)] : \A p \in Nat : p + n >= n => f[p] = LexedAt(f, p)
  BY <1>4
<1>6. \A p \in Nat : p + n >= n
  OBVIOUS
<1>7. Lexed(f, Nat)
  BY <1>5, <1>6 DEF Lexed
<1> QED
  BY <1>7

LEMMA LexemesAre ==
  ASSUME text \in Seq(Characters)
  PROVE  Lexed(Lexemes, Nat)
<1>1. PICK f : Lexed(f, Nat)
  BY LexemesExist
<1>2. f \in [Nat -> Seq(Positions)] /\ \A p \in Nat : f[p] = LexedAt(f, p)
  BY <1>1 DEF Lexed
<1>3. f = [p \in Nat |-> LexedAt(f, p)]
  BY <1>2
<1>4. Lexemes = [p \in Nat |-> LexedAt(Lexemes, p)]
  BY <1>3, Zenon DEF Lexemes, LexedAt
<1>5. PICK g : g = Lexemes
  OBVIOUS
<1>6. g = [p \in Nat |-> LexedAt(g, p)]
  BY <1>4, <1>5
<1>7. \A p \in Nat : g[p] = LexedAt(g, p)
  BY <1>6, Zenon
<1>8. PICK n \in Nat : n = Len(text)
  BY LenProperties
<1> DEFINE Same(k) == \A p \in Nat : p + k >= n => g[p] = f[p]
           S == {k \in Nat : Same(k)}
<1>9. Same(0)
  <2>1. ASSUME NEW p \in Nat, p + 0 >= n PROVE g[p] = f[p]
    <3>1. p >= Len(text)
      BY <1>8, <2>1
    <3>2. LexedAt(g, p) = <<>> /\ LexedAt(f, p) = <<>>
      BY <3>1 DEF LexedAt
    <3> QED
      BY <1>2, <1>7, <3>2, Zenon
  <2> QED
    BY <2>1
<1>10. ASSUME NEW k \in Nat, Same(k) PROVE Same(k + 1)
  <2>1. ASSUME NEW p \in Nat, p + (k + 1) >= n PROVE g[p] = f[p]
    <3>1. CASE p >= n
      BY <1>10, <3>1
    <3>2. CASE p < n
      <4>1. PICK q : q = Piece(p).next
        OBVIOUS
      <4>2. p \in 0..(Len(text) - 1)
        BY <1>8, <3>2
      <4>3. q \in Nat /\ q > p
        BY <4>1, <4>2, PieceType
      <4>4. q + k >= n
        BY <2>1, <4>3
      <4>5. g[q] = f[q]
        BY <1>10, <4>3, <4>4
      <4>6. LexedAt(g, p) = LexedAt(f, p)
        BY <4>1, <4>5, Zenon DEF LexedAt
      <4> QED
        BY <1>2, <1>7, <4>6, Zenon
    <3> QED
      BY <1>8, <3>1, <3>2
  <2> QED
    BY <2>1
<1>11. n \in S
  <2>1. 0 \in S /\ \A k \in Nat : k \in S => k + 1 \in S
    <3> HIDE DEF Same
    <3> QED
      BY <1>9, <1>10
  <2> HIDE DEF S
  <2> QED
    BY <2>1, SetInduction
<1>12. \A p \in Nat : p + n >= n
  OBVIOUS
<1>13. \A p \in Nat : g[p] = f[p]
  BY <1>11, <1>12, Zenon
<1>14. g = f
  <2>1. \A p \in Nat : LexedAt(g, p) = LexedAt(f, p)
    BY <1>2, <1>7, <1>13, Zenon
  <2> QED
    BY <1>3, <1>6, <2>1, Zenon
<1> QED
  BY <1>1, <1>5, <1>14, Zenon

-----------------------------------------------------------------------------
(* How the lexemes go on at a position *)

LEMMA NothingLeft ==
  ASSUME NEW f, Lexed(f, Nat), NEW p \in Nat, p >= Len(text)
  PROVE  f[p] = <<>>
BY DEF Lexed, LexedAt

LEMMA PieceFollows ==
  ASSUME text \in Seq(Characters), NEW f, Lexed(f, Nat), NEW p \in 0..(Len(text) - 1)
  PROVE  /\ f[p] = Piece(p).tokens \o f[Piece(p).next]
         /\ f[Piece(p).next] \in Seq(Positions)
<1>1. PICK n \in Nat : n = Len(text)
  BY LenProperties
<1>2. p \in Nat /\ ~ (p >= n)
  BY <1>1
<1>3. Piece(p).next \in Nat
  BY PieceType
<1>4. f \in [Nat -> Seq(Positions)] /\ f[p] = LexedAt(f, p)
  BY <1>2 DEF Lexed
<1>5. f[Piece(p).next] \in Seq(Positions)
  BY <1>3, <1>4
<1> QED
  BY <1>1, <1>2, <1>4, <1>5 DEF LexedAt

LEMMA Skips ==
  ASSUME text \in Seq(Characters), NEW f, Lexed(f, Nat), NEW p \in 0..(Len(text) - 1),
         NEW q, Piece(p) = [tokens |-> <<>>, next |-> q]
  PROVE  f[p] = f[q]
<1>1. Piece(p).tokens = <<>> /\ Piece(p).next = q
  OBVIOUS
<1>2. f[p] = <<>> \o f[q] /\ f[q] \in Seq(Positions)
  BY <1>1, PieceFollows
<1> QED
  BY <1>2, ConcatEmptySeq

LEMMA Regroup ==
  ASSUME NEW S, NEW u \in Seq(S), NEW v \in Seq(S), NEW w \in Seq(S)
  PROVE  u \o (v \o w) = (u \o v) \o w
BY ConcatAssociative

LEMMA Takes ==
  ASSUME text \in Seq(Characters), NEW f, Lexed(f, Nat), NEW p \in 0..(Len(text) - 1),
         NEW t \in Positions, NEW q, Piece(p) = [tokens |-> <<t>>, next |-> q],
         NEW ts \in Seq(Positions), f[0] = ts \o f[p]
  PROVE  f[0] = Append(ts, t) \o f[q] /\ f[q] \in Seq(Positions)
<1>1. Piece(p).tokens = <<t>> /\ Piece(p).next = q
  OBVIOUS
<1>2. f[p] = <<t>> \o f[q] /\ f[q] \in Seq(Positions)
  BY <1>1, PieceFollows
<1>3. <<t>> \in Seq(Positions)
  OBVIOUS
<1>4. ts \o (<<t>> \o f[q]) = (ts \o <<t>>) \o f[q]
  <2>1. PICK a, b : a = <<t>> /\ b = f[q]
    OBVIOUS
  <2>2. a \in Seq(Positions) /\ b \in Seq(Positions)
    BY <1>2, <1>3, <2>1
  <2>3. ts \o (a \o b) = (ts \o a) \o b
    BY <2>2, Regroup
  <2> QED
    BY <2>1, <2>3, Zenon
<1>5. ts \o <<t>> = Append(ts, t)
  BY AppendIsConcat
<1> QED
  BY <1>2, <1>4, <1>5

(* A star before a slash is stray, wherever it is a piece of its own.        *)
LEMMA StarIsStray ==
  ASSUME text \in Seq(Characters), NEW f, Lexed(f, Nat), NEW p \in 0..(Len(text) - 1),
         Starts(p, "*", "/"), NEW ts \in Seq(Positions), f[0] = ts \o f[p]
  PROVE  Stray(f[0])
<1>1. PICK n \in Nat : n = Len(text)
  BY LenProperties
<1>2. PICK t : t = TokenAt("symbol", p, p + 1)
  OBVIOUS
<1>3. p \in Nat /\ p < n /\ p + 1 \in Nat
  BY <1>1
<1>4. t \in Positions /\ t.start = p /\ t.end = p + 1
  BY <1>2, <1>3 DEF TokenAt, Positions, TokenTypes
<1>5. Piece(p) = [tokens |-> <<t>>, next |-> p + 1]
  <2>1. "*" \notin Blanks \cup {Newline, Return, "\""} \cup Digits \cup Letters
    BY LexerAssumption, ClassesAssumption
  <2> QED
    BY <1>2, <2>1 DEF Piece, Starts
<1>6. PICK rest \in Seq(Positions) : f[0] = Append(ts, t) \o rest
  <2>1. PICK q : q = p + 1
    OBVIOUS
  <2>2. Piece(p) = [tokens |-> <<t>>, next |-> q]
    BY <1>5, <2>1
  <2>3. f[0] = Append(ts, t) \o f[q] /\ f[q] \in Seq(Positions)
    BY <1>4, <2>2, Takes
  <2> QED
    BY <2>3
<1>7. PICK k \in Nat, us \in Seq(Positions) : k = Len(ts) + 1 /\ us = Append(ts, t) /\ Len(us) = k /\ us[k] = t
  <2>1. PICK k, us : k = Len(ts) + 1 /\ us = Append(ts, t)
    OBVIOUS
  <2>2. k \in Nat
    BY <2>1, LenProperties
  <2>3. us \in Seq(Positions) /\ Len(us) = k /\ us[k] = t
    BY <1>4, <2>1, AppendProperties
  <2> QED
    BY <2>1, <2>2, <2>3
<1>8. k \in 1..Len(f[0]) /\ f[0][k] = t /\ DOMAIN f[0] = 1..Len(f[0])
  <2>1. PICK m \in Nat : m = Len(rest)
    BY LenProperties
  <2>2. /\ us \o rest \in Seq(Positions) /\ Len(us \o rest) = k + m
        /\ \A i \in 1..k + m : (us \o rest)[i] = IF i <= k THEN us[i] ELSE rest[i - k]
    BY <1>7, <2>1, ConcatProperties
  <2>3. k >= 1
    BY <1>7, LenProperties
  <2>4. k \in 1..(k + m) /\ (us \o rest)[k] = t
    BY <1>7, <2>2, <2>3
  <2> QED
    BY <1>6, <1>7, <2>2, <2>4, LenProperties
<1>9. Spelling(p, p + 1) = <<"*">>
  <2>1. PICK o : o = p + 1
    OBVIOUS
  <2>2. o \in Int /\ o <= o /\ o - o + 1 = 1
    BY <1>3, <2>1
  <2>3. Char(p + 1) = text[p + 1]
    BY <1>1, <1>3, CharAt
  <2>4. text[o] = "*"
    BY <2>1, <2>3 DEF Starts
  <2>5. \A i \in o..o : text[i] \in {"*"}
    BY <2>2, <2>4
  <2>6. PICK s : s = SubSeq(text, o, o)
    OBVIOUS
  <2>7. s \in Seq({"*"}) /\ Len(s) = 1
    BY <2>2, <2>5, <2>6, SubSeqProperties
  <2>8. <<"*">> \in Seq({"*"}) /\ Len(<<"*">>) = 1 /\ <<"*">>[1] = "*"
    OBVIOUS
  <2>9. s[1] = "*"
    <3>1. 1 \in 1..Len(s)
      BY <2>7
    <3>2. PICK S, e : S = {"*"} /\ e = s[1]
      OBVIOUS
    <3>3. e \in S
      BY <2>7, <3>1, <3>2, ElementOfSeq
    <3> QED
      BY <3>2, <3>3
  <2>10. \A i \in 1..Len(s) : s[i] = <<"*">>[i]
    BY <2>7, <2>8, <2>9
  <2>11. Len(s) = Len(<<"*">>)
    BY <2>7, <2>8
  <2>12. s = <<"*">>
    BY <2>7, <2>8, <2>10, <2>11, SeqEqual, Zenon
  <2> QED
    BY <2>1, <2>6, <2>12 DEF Spelling
<1>10. Char((p + 1) + 1) = "/"
  <2>1. (p + 1) + 1 = p + 2
    BY <1>3
  <2> QED
    BY <2>1 DEF Starts
<1> QED
  BY <1>4, <1>8, <1>9, <1>10, Zenon DEF Stray

LEMMA SameText ==
  ASSUME UNCHANGED text
  PROVE  /\ \A p : Char(p)' = Char(p)
         /\ \A cs : At(cs)' = At(cs)
         /\ CommentEnds' = CommentEnds
         /\ \A p, q : Spelling(p, q)' = Spelling(p, q)
<1>1. \A p : Char(p)' = Char(p)
  BY DEF Char
<1> QED
  BY <1>1 DEF At, CommentEnds, Starts, Spelling

LEMMA SamePieces ==
  ASSUME UNCHANGED text
  PROVE  /\ \A p : Piece(p)' = Piece(p)
         /\ \A s : Stray(s)' <=> Stray(s)
         /\ \A f : Lexed(f, Nat)' <=> Lexed(f, Nat)
<1>1. \A p, a, b : Starts(p, a, b)' = Starts(p, a, b)
  BY SameText DEF Starts
<1>2. \A p : Piece(p)' = Piece(p)
  BY DEF Piece, At, CommentEnds, Starts, Char, Spelling
<1>3. \A s : Stray(s)' <=> Stray(s)
  BY SameText DEF Stray
<1>4. \A f : Lexed(f, Nat)' <=> Lexed(f, Nat)
  BY <1>2 DEF Lexed, LexedAt
<1> QED
  BY <1>2, <1>3, <1>4

-----------------------------------------------------------------------------
(* Blanks, line ends and comments: where the lexemes go on *)

(* The lexer's current character is the one in front of which it stands. *)
Front == IF pos = 0 THEN 0 ELSE pos - 1

(* Where the lexemes go on behind the comment that is open at p, if one is. *)
Resumes(p, o, m) ==
  IF o THEN First(p, At({Newline})) ELSE IF m THEN First(p, CommentEnds) + 2 ELSE p

(* A character more inside a comment, or a blank outside one. *)
LEMMA BlankBehind ==
  ASSUME text \in Seq(Characters), NEW f, Lexed(f, Nat), NEW p \in 0..(Len(text) - 1),
         NEW o \in BOOLEAN, NEW m \in BOOLEAN,
         o => Char(p + 1) # Newline,
         ~ o /\ m => ~ Starts(p, "*", "/"),
         ~ o /\ ~ m => Char(p + 1) \in Blanks \cup {Newline, Return}
  PROVE  f[Resumes(p + 1, o, m)] = f[Resumes(p, o, m)]
<1>1. PICK n \in Nat : n = Len(text)
  BY LenProperties
<1>2. p \in Nat /\ p < n /\ p \in 0..n /\ p \in 0..(n - 1) /\ p # n
  BY <1>1
<1>3. /\ At({Newline}) \in SUBSET (0..n) /\ n \in At({Newline})
      /\ CommentEnds \in SUBSET (0..n) /\ n \in CommentEnds
  BY <1>1, AreStops
<1>4. /\ p \in At({Newline}) <=> Char(p + 1) = Newline
      /\ p \in CommentEnds <=> Starts(p, "*", "/")
  BY <1>1, <1>2, InFront
<1>5. CASE o
  <2>1. First(p + 1, At({Newline})) = First(p, At({Newline}))
    BY <1>1, <1>2, <1>3, <1>4, <1>5, FirstStays
  <2> QED
    BY <1>5, <2>1, Zenon DEF Resumes
<1>6. CASE ~ o /\ m
  <2>1. First(p + 1, CommentEnds) = First(p, CommentEnds)
    BY <1>1, <1>2, <1>3, <1>4, <1>6, FirstStays
  <2> QED
    BY <1>6, <2>1, Zenon DEF Resumes
<1>7. CASE ~ o /\ ~ m
  <2>1. PICK q : q = p + 1
    OBVIOUS
  <2>2. Piece(p) = [tokens |-> <<>>, next |-> q]
    BY <1>7, <2>1, PieceIs
  <2>3. f[p] = f[q]
    BY <2>2, Skips
  <2>4. Resumes(p + 1, o, m) = q /\ Resumes(p, o, m) = p
    BY <1>7, <2>1, Zenon DEF Resumes
  <2> QED
    BY <2>3, <2>4, Zenon
<1> QED
  BY <1>5, <1>6, <1>7, Zenon

(* The end of a line ends a comment of that line. *)
LEMMA LineBehind ==
  ASSUME text \in Seq(Characters), NEW f, Lexed(f, Nat), NEW p \in 0..(Len(text) - 1),
         NEW o \in BOOLEAN, NEW m \in BOOLEAN, ~ (o /\ m), Char(p + 1) = Newline
  PROVE  f[Resumes(p + 1, FALSE, m)] = f[Resumes(p, o, m)]
<1>0. PICK l : l = FALSE
  OBVIOUS
<1>1. l \in BOOLEAN /\ ~ l
  BY <1>0
<1>2. Newline # "*"
  BY LexerAssumption
<1>3. f[Resumes(p + 1, l, m)] = f[Resumes(p, l, m)]
  BY <1>1, <1>2, BlankBehind DEF Starts
<1>4. CASE ~ o
  <2>1. Resumes(p, o, m) = Resumes(p, l, m)
    BY <1>1, <1>4, Zenon DEF Resumes
  <2> QED
    BY <1>0, <1>3, <2>1, Zenon
<1>5. CASE o
  <2>1. PICK n \in Nat : n = Len(text)
    BY LenProperties
  <2>2. p \in 0..n
    BY <2>1
  <2>3. p \in At({Newline}) /\ At({Newline}) \in SUBSET (0..n) /\ n \in At({Newline})
    BY <2>1, <2>2, InFront, AreStops
  <2>4. First(p, At({Newline})) = p
    BY <2>1, <2>3, FirstHere
  <2>5. Resumes(p, o, m) = p /\ Resumes(p, l, m) = p
    BY <1>1, <1>5, <2>4, Zenon DEF Resumes
  <2> QED
    BY <1>0, <1>3, <2>5, Zenon
<1> QED
  BY <1>4, <1>5, Zenon

(* A slash that opens a comment *)
LEMMA CommentBehind ==
  ASSUME text \in Seq(Characters), NEW f, Lexed(f, Nat), NEW p \in 0..(Len(text) - 2)
  PROVE  /\ Starts(p, "/", "/") => f[Resumes(p + 2, TRUE, FALSE)] = f[p]
         /\ Starts(p, "/", "*") => f[Resumes(p + 2, FALSE, TRUE)] = f[p]
<1>1. PICK n \in Nat : n = Len(text)
  BY LenProperties
<1>2. p \in Nat /\ p + 1 < n /\ p \in 0..(n - 1)
  BY <1>1
<1>3. CASE Starts(p, "/", "/")
  <2>1. PICK q : q = First(p, At({Newline}))
    OBVIOUS
  <2>2. Piece(p) = [tokens |-> <<>>, next |-> q]
    BY <1>3, <2>1, PieceIs
  <2>3. f[p] = f[q]
    BY <1>1, <1>2, <2>2, Skips
  <2>4. PICK S : S = At({Newline})
    OBVIOUS
  <2>5. PICK o \in Nat : o = p + 1
    BY <1>2
  <2>6. Char(p + 1) = "/" /\ Char(o + 1) = "/" /\ "/" # Newline
    <3>1. o + 1 = p + 2
      BY <1>2, <2>5
    <3> QED
      BY <1>3, <3>1, LexerAssumption DEF Starts
  <2>7. p \notin S /\ o \notin S /\ S \in SUBSET (0..n) /\ n \in S
    <3>1. p \in 0..n /\ o \in 0..n /\ p # n /\ o # n
      BY <1>2, <2>5
    <3> QED
      BY <1>1, <2>4, <2>6, <3>1, InFront, AreStops
  <2>8. First(o, S) = First(p, S)
    BY <1>2, <2>5, <2>7, FirstStays
  <2>9. First(o + 1, S) = First(o, S)
    <3>1. o \in 0..(n - 1)
      BY <1>2, <2>5
    <3> QED
      BY <2>7, <3>1, FirstStays
  <2>10. o + 1 = p + 2
    BY <1>2, <2>5
  <2>11. Resumes(p + 2, TRUE, FALSE) = q
    BY <2>1, <2>4, <2>8, <2>9, <2>10, Zenon DEF Resumes
  <2>12. ~ Starts(p, "/", "*")
    BY <1>3, ClassesAssumption DEF Starts
  <2> QED
    BY <2>3, <2>11, <2>12, Zenon
<1>4. CASE Starts(p, "/", "*")
  <2>1. PICK q : q = First(p + 2, CommentEnds) + 2
    OBVIOUS
  <2>2. Piece(p) = [tokens |-> <<>>, next |-> q]
    BY <1>4, <2>1, PieceIs
  <2>3. f[p] = f[q]
    BY <1>1, <1>2, <2>2, Skips
  <2>4. Resumes(p + 2, FALSE, TRUE) = q
    BY <2>1, Zenon DEF Resumes
  <2>5. ~ Starts(p, "/", "/")
    BY <1>4, ClassesAssumption DEF Starts
  <2> QED
    BY <2>3, <2>4, <2>5, Zenon
<1> QED
  BY <1>3, <1>4, Zenon

(* The end of a comment, if it is one. *)
LEMMA EndBehind ==
  ASSUME text \in Seq(Characters), NEW f, Lexed(f, Nat), NEW p \in 0..(Len(text) - 2),
         NEW o \in BOOLEAN, NEW m \in BOOLEAN, ~ (o /\ m), Starts(p, "*", "/"),
         NEW ts \in Seq(Positions), f[0] = ts \o f[Resumes(p, o, m)], ~ Stray(f[0])
  PROVE  f[Resumes(p + 2, o, FALSE)] = f[Resumes(p, o, m)]
<1>1. PICK n \in Nat : n = Len(text)
  BY LenProperties
<1>2. p \in Nat /\ p + 1 < n /\ p \in 0..(n - 1) /\ p \in 0..n
  BY <1>1
<1>3. CASE o
  <2>1. PICK l : l = FALSE
    OBVIOUS
  <2>2. ~ m /\ ~ l /\ l \in BOOLEAN
    BY <1>3, <2>1
  <2>3. PICK q : q = p + 1
    OBVIOUS
  <2>4. q + 1 = p + 2 /\ q \in 0..(n - 1)
    BY <1>2, <2>3
  <2>5. Char(p + 1) # Newline /\ Char(q + 1) # Newline
    BY <2>4, LexerAssumption DEF Starts
  <2>6. f[Resumes(p + 1, o, l)] = f[Resumes(p, o, l)]
    BY <1>1, <1>2, <1>3, <2>2, <2>5, BlankBehind
  <2>7. f[Resumes(q + 1, o, l)] = f[Resumes(q, o, l)]
    BY <1>1, <1>3, <2>2, <2>4, <2>5, BlankBehind
  <2>8. Resumes(p, o, l) = Resumes(p, o, m)
    BY <1>3, Zenon DEF Resumes
  <2> QED
    BY <2>1, <2>3, <2>4, <2>6, <2>7, <2>8, Zenon
<1>4. CASE ~ o /\ m
  <2>1. p \in CommentEnds /\ CommentEnds \in SUBSET (0..n) /\ n \in CommentEnds
    BY <1>1, <1>2, InFront, AreStops
  <2>2. First(p, CommentEnds) = p
    BY <1>1, <2>1, FirstHere
  <2>3. Resumes(p, o, m) = p + 2 /\ Resumes(p + 2, o, FALSE) = p + 2
    BY <1>4, <2>2, Zenon DEF Resumes
  <2> QED
    BY <2>3, Zenon
<1>5. CASE ~ o /\ ~ m
  <2>1. Resumes(p, o, m) = p
    BY <1>5, Zenon DEF Resumes
  <2>2. f[0] = ts \o f[p]
    BY <2>1, Zenon
  <2>3. Stray(f[0])
    BY <1>1, <1>2, <2>2, StarIsStray
  <2> QED
    BY <2>3, Zenon
<1> QED
  BY <1>3, <1>4, <1>5, Zenon

(* At the end of the text nothing is left, inside a comment or not. *)
LEMMA EndOfTextBehind ==
  ASSUME text \in Seq(Characters), NEW f, Lexed(f, Nat), NEW o \in BOOLEAN, NEW m \in BOOLEAN
  PROVE  f[Resumes(Len(text), o, m)] = <<>> /\ f[Len(text)] = <<>>
<1>1. PICK n \in Nat : n = Len(text)
  BY LenProperties
<1>2. /\ At({Newline}) \in SUBSET (0..n) /\ n \in At({Newline})
      /\ CommentEnds \in SUBSET (0..n) /\ n \in CommentEnds
  BY <1>1, AreStops
<1>3. First(n, At({Newline})) = n /\ First(n, CommentEnds) = n
  BY <1>1, <1>2, FirstHere
<1>4. PICK r : r = Resumes(n, o, m)
  OBVIOUS
<1>5. r \in {n, n + 2}
  BY <1>3, <1>4, Zenon DEF Resumes
<1>6. r \in Nat /\ r >= n /\ n >= n
  BY <1>1, <1>5
<1>7. f[r] = <<>> /\ f[n] = <<>>
  BY <1>1, <1>6, NothingLeft
<1> QED
  BY <1>1, <1>4, <1>7, Zenon

-----------------------------------------------------------------------------
(* Where the lexer stands *)

(* Where the lexemes go on that the tokens do not have yet. *)
Onward ==
  CASE mode = "blank" -> Resumes(Front, one, multi)
    [] mode \in {"number", "name"} -> start
    [] mode = "string" -> start - 1
    [] OTHER -> Front

(* What is behind the lexer in the piece it is in. *)
Scanned ==
  /\ Front <= Len(text)
  /\ ~ (one /\ multi)
  /\ mode = "token" =>
       Here \notin Blanks \cup {Newline} /\ ~ Starts(Front, "/", "/") /\ ~ Starts(Front, "/", "*")
  /\ mode = "number" =>
       start < Front /\ \A q \in start..(Front - 1) : Char(q + 1) \in Digits
  /\ mode = "name" =>
       /\ start < Front /\ Char(start + 1) \in Letters
       /\ \A q \in start..(Front - 1) : Char(q + 1) \in Letters \cup Digits
  /\ mode = "string" =>
       /\ start \in 1..Front /\ Char(start) = "\""
       /\ \A q \in start..(Front - 1) : Char(q + 1) \notin {"\"", Newline, Return}

(* The tokens so far, and then the lexemes from there on, are f's from the start. *)
Told(f) ==
  \/ mode = "asserted"
  \/ f[0] = tokens \o f[Onward]
  \/ mode = "ready" /\ tokens = Append(f[0], TokenAt("eof", Len(text), Len(text)))

AllTold == \A f : Lexed(f, Nat) /\ ~ Stray(f[0]) => Told(f)

LEMMA Standing ==
  ASSUME LexerTyped, Scanned
  PROVE  /\ Front \in Nat /\ Front \in 0..Len(text) /\ Len(text) \in Nat /\ pos \in Nat
         /\ one \in BOOLEAN /\ multi \in BOOLEAN /\ tokens \in Seq(Positions) /\ text \in Seq(Characters)
         /\ pos = 0 => Front = 0 /\ Here = " "
         /\ pos # 0 => pos = Front + 1 /\ Here = Char(Front + 1) /\ \A c : Ahead(c) <=> Char(Front + 2) = c
         /\ pos # 0 => pos - 1 = Front
<1>1. pos \in Nat /\ one \in BOOLEAN /\ multi \in BOOLEAN /\ tokens \in Seq(Positions) /\ text \in Seq(Characters)
  BY DEF LexerTyped
<1>2. Len(text) \in Nat
  BY <1>1, LenProperties
<1>3. Front \in Nat /\ (pos # 0 => pos = Front + 1 /\ pos + 1 = Front + 2)
  BY <1>1 DEF Front
<1>4. Front \in 0..Len(text)
  <2>1. PICK p, n : p = Front /\ n = Len(text)
    OBVIOUS
  <2>2. p <= n
    BY <2>1, Zenon DEF Scanned
  <2>3. p \in Nat /\ n \in Nat
    BY <1>2, <1>3, <2>1
  <2>4. p \in 0..n
    BY <2>2, <2>3
  <2> QED
    BY <2>1, <2>4
<1>5. Char(0) = " "
  BY <1>1, AtCharacter
<1>6. pos = 0 => Front = 0 /\ Here = " "
  BY <1>5 DEF Front, Here
<1>7. pos # 0 => Here = Char(Front + 1) /\ \A c : Ahead(c) <=> Char(Front + 2) = c
  BY <1>3, Zenon DEF Here, Ahead
<1>8. pos # 0 => pos - 1 = Front
  BY <1>1, <1>3
<1> QED
  BY <1>1, <1>2, <1>3, <1>4, <1>6, <1>7, <1>8

(* The character in front of the lexer is one of the text unless it is at the end. *)
LEMMA NotAtEnd ==
  ASSUME LexerTyped, Scanned, pos # 0
  PROVE  /\ Here # Nul => Front \in 0..(Len(text) - 1) /\ Here \in Characters
         /\ Here = Nul => Front = Len(text)
         /\ Here # Nul /\ Char(Front + 2) # Nul => Front \in 0..(Len(text) - 2)
<1>1. PICK n \in Nat : n = Len(text)
  BY Standing
<1>2. PICK p \in Nat : p = Front
  BY Standing
<1>3. p <= n /\ Here = Char(p + 1) /\ text \in Seq(Characters)
  <2>1. Front \in 0..Len(text) /\ Here = Char(Front + 1) /\ text \in Seq(Characters)
    BY Standing, Zenon
  <2>2. p \in 0..n /\ Here = Char(p + 1)
    BY <1>1, <1>2, <2>1, Zenon
  <2> QED
    BY <2>1, <2>2
<1>4. Here # Nul <=> p < n
  BY <1>1, <1>3, CharAt
<1>5. Here # Nul => Here \in Characters
  BY <1>1, <1>3, CharAt
<1>6. Char(p + 2) # Nul => p + 1 < n
  <2>1. PICK q \in Nat : q = p + 1
    OBVIOUS
  <2>2. q + 1 = p + 2
    BY <2>1
  <2>3. Char(q + 1) # Nul => q < n
    BY <1>1, <1>3, CharAt
  <2> QED
    BY <2>1, <2>2, <2>3
<1> QED
  BY <1>1, <1>2, <1>3, <1>4, <1>5, <1>6

LEMMA FrontMoves ==
  ASSUME LexerTyped, Scanned, NEW k \in {0, 1, 2}, pos' = pos + k
  PROVE  /\ pos # 0 => (Front)' = Front + k
         /\ pos = 0 /\ k # 2 => (Front)' = Front
<1>1. pos \in Nat
  BY DEF LexerTyped
<1>2. (Front)' = IF pos' = 0 THEN 0 ELSE pos' - 1
  BY DEF Front
<1> QED
  BY <1>1, <1>2 DEF Front

LEMMA SameStanding ==
  ASSUME UNCHANGED text
  PROVE  /\ \A p, o, m : Resumes(p, o, m)' = Resumes(p, o, m)
         /\ \A p, a, b : Starts(p, a, b)' = Starts(p, a, b)
         /\ \A p : Char(p)' = Char(p)
         /\ Len(text)' = Len(text)
BY SameText DEF Resumes, First, Starts

LEMMA BlankTold ==
  ASSUME UNCHANGED <<text, tokens>>, mode = "blank", mode' = "blank", NEW f, Told(f),
         f[Resumes((Front)', one', multi')] = f[Resumes(Front, one, multi)]
  PROVE  Told(f)'
<1>1. f[0] = tokens \o f[Resumes(Front, one, multi)]
  BY DEF Told, Onward
<1>2. f[0] = tokens' \o f[Resumes((Front)', one', multi')]
  BY <1>1
<1>3. Onward' = Resumes((Front)', one', multi')
  BY SameStanding DEF Onward
<1> QED
  BY <1>2, <1>3 DEF Told

LEMMA BlankScanned ==
  ASSUME UNCHANGED text, mode' = "blank", (Front)' <= Len(text), ~ (one' /\ multi')
  PROVE  Scanned'
BY DEF Scanned

-----------------------------------------------------------------------------
(* Every step of the lexer *)

(* What a step has to keep. *)
Keeps == Scanned' /\ \A f : Lexed(f, Nat) /\ ~ Stray(f[0]) /\ Told(f) => Told(f)'

LEMMA NextTokenTells ==
  ASSUME LexerTyped, Scanned, UNCHANGED text, NextToken, ~ AtEnd
  PROVE  Keeps
<1>1. mode = "ready" /\ mode' = "blank" /\ ~ one' /\ ~ multi' /\ UNCHANGED <<pos, tokens>>
  BY DEF NextToken
<1>2. (Front)' = Front /\ Front <= Len(text)
  BY <1>1 DEF Front, Scanned
<1>3. Scanned'
  BY <1>1, <1>2, BlankScanned
<1>4. ASSUME NEW f, Lexed(f, Nat), Told(f) PROVE Told(f)'
  <2>1. tokens \in Seq(Positions) /\ f[0] \in Seq(Positions)
    BY <1>4 DEF LexerTyped, Lexed
  <2>2. tokens # Append(f[0], TokenAt("eof", Len(text), Len(text)))
    <3>1. PICK ts, t : ts = f[0] /\ t = TokenAt("eof", Len(text), Len(text))
      OBVIOUS
    <3>2. ts \in Seq(Positions) /\ t.type = "eof"
      BY <2>1, <3>1 DEF TokenAt
    <3>3. Append(ts, t) # <<>> /\ Append(ts, t)[Len(Append(ts, t))] = t
      BY <3>2, AppendProperties
    <3> QED
      BY <3>1, <3>2, <3>3 DEF AtEnd
  <2>3. f[0] = tokens \o f[Front]
    BY <1>1, <1>4, <2>2, Zenon DEF Told, Onward
  <2>4. Onward' = Front
    BY <1>1, <1>2, Zenon DEF Onward, Resumes
  <2> QED
    BY <1>1, <2>3, <2>4, Zenon DEF Told
<1> QED
  BY <1>3, <1>4 DEF Keeps

LEMMA SkipBlankTells ==
  ASSUME LexerTyped, Scanned, UNCHANGED text, SkipBlank
  PROVE  Keeps
<1>1. mode = "blank" /\ mode' = "blank" /\ Here \in Blanks /\ pos' = pos + 1 /\ UNCHANGED <<one, multi, tokens>>
  BY DEF SkipBlank, Read
<1>2. /\ Front \in Nat /\ Front \in 0..Len(text) /\ one \in BOOLEAN /\ multi \in BOOLEAN /\ text \in Seq(Characters)
      /\ Len(text) \in Nat
  BY Standing
<1>3. ~ (one' /\ multi')
  BY <1>1 DEF Scanned
<1>4. CASE pos = 0
  <2>1. (Front)' = Front
    BY <1>1, <1>4, FrontMoves
  <2>2. Scanned'
    BY <1>1, <1>2, <1>3, <2>1, BlankScanned
  <2>3. ASSUME NEW f, Told(f) PROVE Told(f)'
    <3>1. Resumes((Front)', one', multi') = Resumes(Front, one, multi)
      BY <1>1, <2>1, Zenon
    <3> QED
      BY <1>1, <2>3, <3>1, BlankTold
  <2> QED
    BY <2>2, <2>3 DEF Keeps
<1>5. CASE pos # 0
  <2>1. Here = Char(Front + 1) /\ Here # Nul /\ Here # Newline /\ Here # "*"
    BY <1>1, <1>5, Standing, LexerAssumption, ClassesAssumption
  <2>2. (Front)' = Front + 1
    BY <1>1, <1>5, FrontMoves
  <2>3. Front \in 0..(Len(text) - 1)
    BY <1>5, <2>1, NotAtEnd
  <2>4. Scanned'
    <3>1. (Front)' <= Len(text)
      BY <1>2, <2>2, <2>3
    <3> QED
      BY <1>1, <1>3, <3>1, BlankScanned
  <2>5. ASSUME NEW f, Lexed(f, Nat), Told(f) PROVE Told(f)'
    <3>1. ~ Starts(Front, "*", "/")
      BY <2>1, Zenon DEF Starts
    <3>2. f[Resumes(Front + 1, one, multi)] = f[Resumes(Front, one, multi)]
      BY <1>1, <1>2, <2>1, <2>3, <2>5, <3>1, BlankBehind
    <3>3. f[Resumes((Front)', one', multi')] = f[Resumes(Front, one, multi)]
      BY <1>1, <2>2, <3>2, Zenon
    <3> QED
      BY <1>1, <2>5, <3>3, BlankTold
  <2> QED
    BY <2>4, <2>5 DEF Keeps
<1> QED
  BY <1>4, <1>5

LEMMA SkipNewlineTells ==
  ASSUME LexerTyped, Scanned, UNCHANGED text, SkipNewline
  PROVE  Keeps
<1>1. /\ mode = "blank" /\ mode' = "blank" /\ UNCHANGED <<multi, tokens>> /\ one' = FALSE
      /\ pos' = pos + IF Here = Newline THEN 1 ELSE 2
      /\ Here = Newline \/ (Here = Return /\ Ahead(Newline))
  BY DEF SkipNewline, Read, AtNewline
<1>2. /\ Front \in Nat /\ Front \in 0..Len(text) /\ one \in BOOLEAN /\ multi \in BOOLEAN /\ text \in Seq(Characters)
      /\ Len(text) \in Nat
  BY Standing
<1>3. pos # 0 /\ ~ (one /\ multi) /\ Here # Nul
  <2>1. " " # Newline /\ " " # Return /\ Newline # Nul /\ Return # Nul
    BY LexerAssumption, ClassesAssumption
  <2>2. Here # " "
    BY <1>1, <2>1
  <2> QED
    BY <1>1, <2>1, <2>2, Standing DEF Scanned
<1>4. Here = Char(Front + 1) /\ \A c : Ahead(c) <=> Char(Front + 2) = c
  BY <1>3, Standing
<1>5. PICK p \in Nat : p = Front
  BY <1>2
<1>6. CASE Here = Newline
  <2>1. (Front)' = p + 1
    BY <1>1, <1>3, <1>5, <1>6, FrontMoves
  <2>2. p \in 0..(Len(text) - 1)
    BY <1>3, <1>5, NotAtEnd
  <2>3. (Front)' <= Len(text)
    BY <1>2, <2>1, <2>2
  <2>4. Scanned'
    BY <1>1, <2>3, BlankScanned
  <2>5. ASSUME NEW f, Lexed(f, Nat), Told(f) PROVE Told(f)'
    <3>1. f[Resumes(p + 1, FALSE, multi)] = f[Resumes(p, one, multi)]
      BY <1>2, <1>3, <1>4, <1>5, <1>6, <2>2, <2>5, LineBehind
    <3>2. f[Resumes((Front)', one', multi')] = f[Resumes(Front, one, multi)]
      BY <1>1, <1>5, <2>1, <3>1, Zenon
    <3> QED
      BY <1>1, <2>5, <3>2, BlankTold
  <2> QED
    BY <2>4, <2>5 DEF Keeps
<1>7. CASE Here # Newline
  <2>1. pos' = pos + 2
    BY <1>1, <1>7
  <2>2. (Front)' = p + 2
    BY <1>3, <1>5, <2>1, FrontMoves
  <2>3. Char(p + 1) = Return /\ Char(p + 2) = Newline
    BY <1>1, <1>4, <1>5, <1>7
  <2>4. Newline # Nul /\ Return # "*" /\ Return # Newline
    BY LexerAssumption, ClassesAssumption
  <2>5. p \in 0..(Len(text) - 2)
    BY <1>3, <1>5, <2>3, <2>4, NotAtEnd
  <2>6. PICK q \in Nat : q = p + 1
    OBVIOUS
  <2>7. p \in 0..(Len(text) - 1) /\ q \in 0..(Len(text) - 1) /\ q + 1 = p + 2 /\ p + 2 <= Len(text)
    BY <1>2, <2>5, <2>6
  <2>8. Scanned'
    BY <1>1, <2>2, <2>7, BlankScanned
  <2>9. ASSUME NEW f, Lexed(f, Nat), Told(f) PROVE Told(f)'
    <3>1. ~ Starts(p, "*", "/")
      BY <2>3, <2>4, Zenon DEF Starts
    <3>2. f[Resumes(p + 1, one, multi)] = f[Resumes(p, one, multi)]
      BY <1>2, <2>3, <2>4, <2>7, <2>9, <3>1, BlankBehind
    <3>3. f[Resumes(q + 1, FALSE, multi)] = f[Resumes(q, one, multi)]
      BY <1>2, <1>3, <2>3, <2>7, <2>9, LineBehind
    <3>4. f[Resumes((Front)', one', multi')] = f[Resumes(Front, one, multi)]
      BY <1>1, <1>5, <2>2, <2>6, <2>7, <3>2, <3>3, Zenon
    <3> QED
      BY <1>1, <2>9, <3>4, BlankTold
  <2> QED
    BY <2>8, <2>9 DEF Keeps
<1> QED
  BY <1>6, <1>7

LEMMA SkipStarTells ==
  ASSUME LexerTyped, Scanned, UNCHANGED text, SkipStar
  PROVE  Keeps
<1>1. /\ mode = "blank" /\ mode' = "blank" /\ UNCHANGED <<one, tokens>> /\ multi' = FALSE
      /\ pos' = pos + 2 /\ Here = "*" /\ Ahead("/")
  BY DEF SkipStar, Read
<1>2. /\ Front \in Nat /\ Front \in 0..Len(text) /\ one \in BOOLEAN /\ multi \in BOOLEAN /\ text \in Seq(Characters)
      /\ Len(text) \in Nat /\ tokens \in Seq(Positions)
  BY Standing
<1>3. pos # 0 /\ ~ (one /\ multi) /\ Here # Nul /\ "/" # Nul
  <2>1. "*" # Nul /\ "/" # Nul /\ " " # "*"
    BY LexerAssumption, ClassesAssumption
  <2> QED
    BY <1>1, <2>1, Standing DEF Scanned
<1>4. Here = Char(Front + 1) /\ \A c : Ahead(c) <=> Char(Front + 2) = c
  BY <1>3, Standing
<1>5. PICK p \in Nat : p = Front
  BY <1>2
<1>6. (Front)' = p + 2
  BY <1>1, <1>3, <1>5, FrontMoves
<1>7. Char(p + 1) = "*" /\ Char(p + 2) = "/"
  BY <1>1, <1>4, <1>5
<1>8. p \in 0..(Len(text) - 2)
  BY <1>3, <1>5, <1>7, NotAtEnd
<1>9. p + 2 <= Len(text)
  BY <1>2, <1>8
<1>10. Scanned'
  BY <1>1, <1>6, <1>9, BlankScanned
<1>11. ASSUME NEW f, Lexed(f, Nat), ~ Stray(f[0]), Told(f) PROVE Told(f)'
  <2>1. f[0] = tokens \o f[Resumes(p, one, multi)]
    BY <1>1, <1>5, <1>11, Zenon DEF Told, Onward
  <2>2. Starts(p, "*", "/")
    BY <1>7, Zenon DEF Starts
  <2>3. f[Resumes(p + 2, one, FALSE)] = f[Resumes(p, one, multi)]
    BY <1>2, <1>3, <1>8, <1>11, <2>1, <2>2, EndBehind
  <2>4. f[Resumes((Front)', one', multi')] = f[Resumes(Front, one, multi)]
    BY <1>1, <1>5, <1>6, <2>3, Zenon
  <2> QED
    BY <1>1, <1>11, <2>4, BlankTold
<1> QED
  BY <1>10, <1>11 DEF Keeps

LEMMA SkipCommentTells ==
  ASSUME LexerTyped, Scanned, UNCHANGED text, SkipComment
  PROVE  Keeps
<1>1. /\ mode = "blank" /\ mode' = "blank" /\ UNCHANGED <<one, multi, tokens>>
      /\ pos' = pos + 1 /\ Here \notin Blanks \cup {Nul, "/", Newline} /\ ~ (Here = "*" /\ Ahead("/"))
      /\ one \/ multi
  BY DEF SkipComment, Read, Ordinary, AtNewline
<1>2. /\ Front \in Nat /\ Front \in 0..Len(text) /\ one \in BOOLEAN /\ multi \in BOOLEAN /\ text \in Seq(Characters)
      /\ Len(text) \in Nat
  BY Standing
<1>3. pos # 0 /\ ~ (one' /\ multi')
  BY <1>1, Standing, LexerAssumption DEF Scanned
<1>4. Here = Char(Front + 1) /\ \A c : Ahead(c) <=> Char(Front + 2) = c
  BY <1>3, Standing
<1>5. PICK p \in Nat : p = Front
  BY <1>2
<1>6. (Front)' = p + 1
  BY <1>1, <1>3, <1>5, FrontMoves
<1>7. p \in 0..(Len(text) - 1)
  BY <1>1, <1>3, <1>5, NotAtEnd
<1>8. p + 1 <= Len(text)
  BY <1>2, <1>7
<1>9. Scanned'
  BY <1>1, <1>3, <1>6, <1>8, BlankScanned
<1>10. ASSUME NEW f, Lexed(f, Nat), Told(f) PROVE Told(f)'
  <2>1. ~ Starts(p, "*", "/") /\ Char(p + 1) # Newline
    BY <1>1, <1>4, <1>5 DEF Starts
  <2>2. f[Resumes(p + 1, one, multi)] = f[Resumes(p, one, multi)]
    BY <1>1, <1>2, <1>7, <1>10, <2>1, BlankBehind
  <2>3. f[Resumes((Front)', one', multi')] = f[Resumes(Front, one, multi)]
    BY <1>1, <1>5, <1>6, <2>2, Zenon
  <2> QED
    BY <1>1, <1>10, <2>3, BlankTold
<1> QED
  BY <1>9, <1>10 DEF Keeps

LEMMA BlankDoneTells ==
  ASSUME LexerTyped, Scanned, UNCHANGED text, BlankDone
  PROVE  Keeps
<1>1. /\ mode = "blank" /\ mode' = "token" /\ UNCHANGED <<pos, one, multi, tokens>>
      /\ \/ Here = Nul
         \/ Here \notin Blanks \cup {"/", Newline} /\ ~ one /\ ~ multi
  BY DEF BlankDone, Ordinary, AtNewline
<1>2. /\ Front \in Nat /\ Front \in 0..Len(text) /\ one \in BOOLEAN /\ multi \in BOOLEAN /\ text \in Seq(Characters)
      /\ Len(text) \in Nat
  BY Standing
<1>3. pos # 0
  BY <1>1, Standing, LexerAssumption
<1>4. Here = Char(Front + 1)
  BY <1>3, Standing
<1>5. Here \notin Blanks \cup {Newline, "/"}
  BY <1>1, LexerAssumption
<1>6. (Front)' = Front
  BY <1>1 DEF Front
<1>7. Here' = Here
  BY <1>1, SameText, Zenon DEF Here
<1>8. Scanned'
  <2>1. ~ Starts(Front, "/", "/") /\ ~ Starts(Front, "/", "*")
    BY <1>4, <1>5, Zenon DEF Starts
  <2>2. ~ Starts(Front, "/", "/")' /\ ~ Starts(Front, "/", "*")'
    BY <1>6, <2>1, SameStanding DEF Starts
  <2>3. (Front)' <= Len(text)' /\ ~ (one' /\ multi')
    BY <1>1, <1>6, Zenon DEF Scanned
  <2> QED
    BY <1>1, <1>5, <1>7, <2>2, <2>3 DEF Scanned
<1>9. ASSUME NEW f, Lexed(f, Nat), Told(f) PROVE Told(f)'
  <2>1. f[0] = tokens \o f[Resumes(Front, one, multi)]
    BY <1>1, <1>9, Zenon DEF Told, Onward
  <2>2. f[Resumes(Front, one, multi)] = f[Front]
    <3>1. CASE Here = Nul
      <4>1. Front = Len(text)
        BY <1>3, <3>1, NotAtEnd
      <4>2. f[Resumes(Len(text), one, multi)] = <<>> /\ f[Len(text)] = <<>>
        BY <1>2, <1>9, EndOfTextBehind
      <4> QED
        BY <4>1, <4>2, Zenon
    <3>2. CASE ~ one /\ ~ multi
      BY <3>2, Zenon DEF Resumes
    <3> QED
      BY <1>1, <3>1, <3>2
  <2>3. Onward' = Front
    BY <1>1, <1>6 DEF Onward
  <2>4. f[0] = tokens' \o f[Onward']
    BY <1>1, <2>1, <2>2, <2>3, Zenon
  <2> QED
    BY <2>4, Zenon DEF Told
<1> QED
  BY <1>8, <1>9 DEF Keeps

LEMMA SkipSlashTells ==
  ASSUME LexerTyped, Scanned, UNCHANGED text, SkipSlash
  PROVE  Keeps
<1>1. mode = "blank" /\ Here = "/" /\ UNCHANGED tokens
  BY DEF SkipSlash
<1>2. /\ Front \in Nat /\ Front \in 0..Len(text) /\ one \in BOOLEAN /\ multi \in BOOLEAN /\ text \in Seq(Characters)
      /\ Len(text) \in Nat
  BY Standing
<1>3. pos # 0 /\ Here # Nul /\ Here # Newline /\ Here # "*" /\ Here \notin Blanks
  <2>1. "/" # Nul /\ "/" # Newline /\ " " # "/" /\ "/" \notin Blanks
    BY LexerAssumption, ClassesAssumption
  <2> QED
    BY <1>1, <2>1, Standing
<1>4. Here = Char(Front + 1) /\ \A c : Ahead(c) <=> Char(Front + 2) = c
  BY <1>3, Standing
<1>5. PICK p \in Nat : p = Front
  BY <1>2
<1>6. Char(p + 1) = "/" /\ p \in 0..(Len(text) - 1)
  BY <1>1, <1>3, <1>4, <1>5, NotAtEnd
<1>7. ~ (one /\ multi)
  BY Zenon DEF Scanned
<1>8. CASE one \/ multi
  <2>1. UNCHANGED <<one, multi, mode>> /\ pos' = pos + 1
    <3>1. one' = (one \/ (~ multi /\ Ahead("/"))) /\ multi' = (multi \/ (~ one' /\ Ahead("*")))
      BY DEF SkipSlash
    <3>2. CASE one
      <4>1. ~ multi /\ one = TRUE /\ multi = FALSE
        BY <1>2, <1>7, <3>2
      <4>2. one' = TRUE /\ multi' = FALSE
        BY <3>1, <4>1
      <4> QED
        BY <4>1, <4>2 DEF SkipSlash, Read
    <3>3. CASE multi
      <4>1. ~ one /\ one = FALSE /\ multi = TRUE
        BY <1>2, <1>7, <3>3
      <4>2. one' = FALSE /\ multi' = TRUE
        BY <3>1, <4>1
      <4> QED
        BY <4>1, <4>2 DEF SkipSlash, Read
    <3> QED
      BY <1>8, <3>2, <3>3
  <2>2. (Front)' = p + 1
    BY <1>3, <1>5, <2>1, FrontMoves
  <2>3. p + 1 <= Len(text)
    BY <1>2, <1>6
  <2>4. Scanned'
    BY <1>1, <1>7, <2>1, <2>2, <2>3, BlankScanned
  <2>5. ASSUME NEW f, Lexed(f, Nat), Told(f) PROVE Told(f)'
    <3>1. ~ Starts(p, "*", "/") /\ Char(p + 1) # Newline
      BY <1>1, <1>3, <1>6 DEF Starts
    <3>2. f[Resumes(p + 1, one, multi)] = f[Resumes(p, one, multi)]
      BY <1>2, <1>6, <1>8, <2>5, <3>1, BlankBehind
    <3>3. f[Resumes((Front)', one', multi')] = f[Resumes(Front, one, multi)]
      BY <1>5, <2>1, <2>2, <3>2, Zenon
    <3> QED
      BY <1>1, <2>1, <2>5, <3>3, BlankTold
  <2> QED
    BY <2>4, <2>5 DEF Keeps
<1>9. CASE ~ one /\ ~ multi /\ (Ahead("/") \/ Ahead("*"))
  <2>1. /\ one' = Ahead("/") /\ multi' = Ahead("*") /\ ~ (one' /\ multi')
        /\ mode' = mode /\ pos' = pos + 2
    <3>1. one = FALSE /\ multi = FALSE
      BY <1>2, <1>9
    <3>2. Ahead("/") => ~ Ahead("*")
      BY ClassesAssumption DEF Ahead
    <3>3. one' = Ahead("/") /\ multi' = Ahead("*")
      BY <3>1, <3>2 DEF SkipSlash, Ahead
    <3>4. (one' \/ multi') /\ <<one', multi'>> # <<one, multi>>
      BY <1>9, <3>1, <3>3
    <3> QED
      BY <3>2, <3>3, <3>4 DEF SkipSlash, Read
  <2>2. (Front)' = p + 2
    BY <1>3, <1>5, <2>1, FrontMoves
  <2>3. Char(p + 2) \in {"/", "*"} /\ "/" # Nul /\ "*" # Nul
    BY <1>4, <1>5, <1>9, LexerAssumption
  <2>4. p \in 0..(Len(text) - 2)
    BY <1>3, <1>5, <2>3, NotAtEnd
  <2>5. p + 2 <= Len(text)
    BY <1>2, <2>4
  <2>6. Scanned'
    BY <1>1, <2>1, <2>2, <2>5, BlankScanned
  <2>7. ASSUME NEW f, Lexed(f, Nat), Told(f) PROVE Told(f)'
    <3>1. /\ Starts(p, "/", "/") => f[Resumes(p + 2, TRUE, FALSE)] = f[p]
          /\ Starts(p, "/", "*") => f[Resumes(p + 2, FALSE, TRUE)] = f[p]
      BY <1>2, <2>4, <2>7, CommentBehind
    <3>2. Resumes(Front, one, multi) = p
      BY <1>5, <1>9, Zenon DEF Resumes
    <3>3. CASE Ahead("/")
      <4>1. Starts(p, "/", "/")
        BY <1>4, <1>5, <1>6, <3>3, Zenon DEF Starts
      <4>2. one' /\ ~ multi'
        BY <2>1, <3>3
      <4>3. Resumes((Front)', one', multi') = Resumes(p + 2, TRUE, FALSE)
        BY <2>2, <4>2, Zenon DEF Resumes
      <4>4. f[Resumes((Front)', one', multi')] = f[Resumes(Front, one, multi)]
        BY <3>1, <3>2, <4>1, <4>3, Zenon
      <4> QED
        BY <1>1, <2>1, <2>7, <4>4, BlankTold
    <3>4. CASE Ahead("*")
      <4>1. Starts(p, "/", "*")
        BY <1>4, <1>5, <1>6, <3>4, Zenon DEF Starts
      <4>2. multi' /\ ~ one'
        BY <2>1, <3>4
      <4>3. Resumes((Front)', one', multi') = Resumes(p + 2, FALSE, TRUE)
        BY <2>2, <4>2, Zenon DEF Resumes
      <4>4. f[Resumes((Front)', one', multi')] = f[Resumes(Front, one, multi)]
        BY <3>1, <3>2, <4>1, <4>3, Zenon
      <4> QED
        BY <1>1, <2>1, <2>7, <4>4, BlankTold
    <3> QED
      BY <1>9, <3>3, <3>4
  <2> QED
    BY <2>6, <2>7 DEF Keeps
<1>10. CASE ~ one /\ ~ multi /\ ~ Ahead("/") /\ ~ Ahead("*")
  <2>1. ~ one' /\ ~ multi'
    BY <1>10 DEF SkipSlash
  <2>2. mode' = "token" /\ UNCHANGED pos
    BY <2>1 DEF SkipSlash
  <2>3. (Front)' = Front /\ Here' = Here
    BY <2>2, SameText DEF Front, Here
  <2>4. Scanned'
    <3>1. ~ Starts(Front, "/", "/") /\ ~ Starts(Front, "/", "*")
      BY <1>4, <1>10, Zenon DEF Starts
    <3>2. ~ Starts(Front, "/", "/")' /\ ~ Starts(Front, "/", "*")'
      BY <2>3, <3>1, SameStanding DEF Starts
    <3>3. (Front)' <= Len(text)' /\ ~ (one' /\ multi')
      BY <2>1, <2>3, Zenon DEF Scanned
    <3> QED
      BY <1>3, <2>2, <2>3, <3>2, <3>3 DEF Scanned
  <2>5. ASSUME NEW f, Told(f) PROVE Told(f)'
    <3>1. f[0] = tokens \o f[Resumes(Front, one, multi)] /\ Resumes(Front, one, multi) = Front
      BY <1>1, <1>10, <2>5, Zenon DEF Told, Onward, Resumes
    <3>2. Onward' = Front
      BY <2>2, <2>3 DEF Onward
    <3>3. f[0] = tokens' \o f[Onward']
      BY <1>1, <3>1, <3>2, Zenon
    <3> QED
      BY <3>3, Zenon DEF Told
  <2> QED
    BY <2>4, <2>5 DEF Keeps
<1> QED
  BY <1>8, <1>9, <1>10

-----------------------------------------------------------------------------
(* Steps inside a token *)

LEMMA StartTells ==
  ASSUME LexerTyped, Scanned, UNCHANGED text, StartNumber \/ StartName \/ StartString
  PROVE  Keeps
<1>1. /\ mode = "token" /\ pos' = pos + 1 /\ UNCHANGED <<one, multi, tokens>>
      /\ \/ mode' = "number" /\ Here \in Digits /\ start' = pos - 1
         \/ mode' = "name" /\ Here \in Letters /\ start' = pos - 1
         \/ mode' = "string" /\ Here = "\"" /\ start' = pos
  BY DEF StartNumber, StartName, StartString, Read
<1>2. pos # 0 /\ Here # Nul /\ ~ (one /\ multi)
  <2>1. pos # 0
    BY <1>1 DEF LexerTyped
  <2>2. Here # Nul
    BY <1>1, LexerAssumption
  <2> QED
    BY <2>1, <2>2 DEF Scanned
<1>3. PICK p \in Nat : p = Front
  BY Standing
<1>4. Here = Char(p + 1) /\ pos = p + 1 /\ pos - 1 = p /\ p \in 0..(Len(text) - 1) /\ Len(text) \in Nat
  BY <1>2, <1>3, Standing, NotAtEnd
<1>5. (Front)' = p + 1
  BY <1>1, <1>2, <1>3, FrontMoves
<1>6. \A q : Char(q)' = Char(q)
  BY SameText
<1>7. p + 1 <= Len(text) /\ p < p + 1 /\ p..((p + 1) - 1) = {p} /\ (p + 1)..((p + 1) - 1) = {}
      /\ p + 1 \in 1..(p + 1)
  BY <1>4
<1>8. Scanned'
  <2>1. (Front)' <= Len(text)' /\ ~ (one' /\ multi')
    BY <1>1, <1>2, <1>5, <1>7
  <2>2. CASE mode' = "number"
    <3>1. start' = p /\ Char(p + 1) \in Digits
      BY <1>1, <1>4, <2>2
    <3>2. start' < (Front)' /\ \A q \in (start')..((Front)' - 1) : Char(q + 1)' \in Digits
      BY <1>5, <1>6, <1>7, <3>1
    <3> QED
      BY <2>1, <2>2, <3>2 DEF Scanned
  <2>3. CASE mode' = "name"
    <3>1. start' = p /\ Char(p + 1) \in Letters
      BY <1>1, <1>4, <2>3
    <3>2. start' < (Front)' /\ \A q \in (start')..((Front)' - 1) : Char(q + 1)' \in Letters \cup Digits
      BY <1>5, <1>6, <1>7, <3>1
    <3>3. Char(start + 1)' \in Letters
      BY <1>6, <3>1 DEF Char
    <3> QED
      BY <2>1, <2>3, <3>2, <3>3 DEF Scanned
  <2>4. CASE mode' = "string"
    <3>1. start' = p + 1 /\ Char(p + 1) = "\""
      BY <1>1, <1>4, <2>4
    <3>2. /\ start' \in 1..(Front)' /\ Char(start)' = "\""
          /\ \A q \in (start')..((Front)' - 1) : Char(q + 1)' \notin {"\"", Newline, Return}
      BY <1>5, <1>6, <1>7, <3>1 DEF Char
    <3> QED
      BY <2>1, <2>4, <3>2 DEF Scanned
  <2> QED
    BY <1>1, <2>2, <2>3, <2>4
<1>9. ASSUME NEW f, Told(f) PROVE Told(f)'
  <2>1. f[0] = tokens \o f[p]
    BY <1>1, <1>3, <1>9, Zenon DEF Told, Onward
  <2>2. Onward' = p
    <3>1. CASE mode' \in {"number", "name"}
      BY <1>1, <1>4, <3>1 DEF Onward
    <3>2. CASE mode' = "string"
      <4>1. start' = p + 1 /\ start' - 1 = p
        BY <1>1, <1>4, <3>2
      <4> QED
        BY <3>2, <4>1 DEF Onward
    <3> QED
      BY <1>1, <3>1, <3>2
  <2>3. f[0] = tokens' \o f[Onward']
    BY <1>1, <2>1, <2>2, Zenon
  <2> QED
    BY <2>3, Zenon DEF Told
<1> QED
  BY <1>8, <1>9 DEF Keeps

LEMMA ContinueTells ==
  ASSUME LexerTyped, Scanned, UNCHANGED text, Continue
  PROVE  Keeps
<1>1. /\ mode \in {"number", "string", "name"} /\ mode' = mode /\ pos' = pos + 1
      /\ UNCHANGED <<one, multi, start, tokens>>
      /\ mode = "number" => Here \in Digits
      /\ mode = "string" => Here \notin {"\"", Newline, Return, Nul}
      /\ mode = "name" => Here \in Letters \cup Digits
  BY DEF Continue, Continues, EndOfLine, Read
<1>2. pos # 0 /\ Here # Nul /\ ~ (one /\ multi)
  <2>1. pos # 0
    BY <1>1 DEF LexerTyped
  <2>2. Here # Nul
    BY <1>1, LexerAssumption
  <2> QED
    BY <2>1, <2>2 DEF Scanned
<1>3. PICK p \in Nat : p = Front
  BY Standing
<1>4. Here = Char(p + 1) /\ p \in 0..(Len(text) - 1) /\ Len(text) \in Nat /\ start \in Nat
  BY <1>2, <1>3, Standing, NotAtEnd DEF LexerTyped
<1>5. (Front)' = p + 1
  BY <1>1, <1>2, <1>3, FrontMoves
<1>6. \A q : Char(q)' = Char(q)
  BY SameText
<1>7. PICK b \in Nat : b = start
  BY <1>4
<1>8. \A q \in b..((p + 1) - 1) : q \in b..(p - 1) \/ q = p
  BY <1>4
<1>9. p + 1 <= Len(text)
  BY <1>4
<1>10. Scanned'
  <2>1. (Front)' <= Len(text)' /\ ~ (one' /\ multi')
    BY <1>1, <1>2, <1>5, <1>9
  <2>2. CASE mode = "number"
    <3>1. b < p /\ \A q \in b..(p - 1) : Char(q + 1) \in Digits
      BY <1>3, <1>7, <2>2, Zenon DEF Scanned
    <3>2. \A q \in b..((p + 1) - 1) : Char(q + 1) \in Digits
      BY <1>1, <1>4, <1>8, <2>2, <3>1
    <3>3. b < p + 1
      BY <3>1
    <3>4. start' < (Front)' /\ \A q \in (start')..((Front)' - 1) : Char(q + 1)' \in Digits
      BY <1>1, <1>5, <1>6, <1>7, <3>2, <3>3, Zenon
    <3> QED
      BY <1>1, <2>1, <2>2, <3>4 DEF Scanned
  <2>3. CASE mode = "name"
    <3>1. b < p /\ Char(b + 1) \in Letters /\ \A q \in b..(p - 1) : Char(q + 1) \in Letters \cup Digits
      BY <1>3, <1>7, <2>3, Zenon DEF Scanned
    <3>2. \A q \in b..((p + 1) - 1) : Char(q + 1) \in Letters \cup Digits
      BY <1>1, <1>4, <1>8, <2>3, <3>1
    <3>3. b < p + 1
      BY <3>1
    <3>4. start' < (Front)' /\ \A q \in (start')..((Front)' - 1) : Char(q + 1)' \in Letters \cup Digits
      BY <1>1, <1>5, <1>6, <1>7, <3>2, <3>3, Zenon
    <3>5. Char(start + 1)' \in Letters
      BY <1>1, <1>7, <3>1 DEF Char
    <3> QED
      BY <1>1, <2>1, <2>3, <3>4, <3>5 DEF Scanned
  <2>4. CASE mode = "string"
    <3>1. /\ b \in 1..p /\ Char(b) = "\""
          /\ \A q \in b..(p - 1) : Char(q + 1) \notin {"\"", Newline, Return}
      BY <1>3, <1>7, <2>4, Zenon DEF Scanned
    <3>2. \A q \in b..((p + 1) - 1) : Char(q + 1) \notin {"\"", Newline, Return}
      BY <1>1, <1>4, <1>8, <2>4, <3>1
    <3>3. b \in 1..(p + 1)
      <4>1. b \in 1..p
        BY <3>1, Zenon
      <4> QED
        BY <4>1
    <3>4. /\ start' \in 1..(Front)'
          /\ \A q \in (start')..((Front)' - 1) : Char(q + 1)' \notin {"\"", Newline, Return}
      BY <1>1, <1>5, <1>6, <1>7, <3>2, <3>3, Zenon
    <3>5. Char(start)' = "\""
      BY <1>1, <1>7, <3>1 DEF Char
    <3> QED
      BY <1>1, <2>1, <2>4, <3>4, <3>5 DEF Scanned
  <2> QED
    BY <1>1, <2>2, <2>3, <2>4
<1>11. ASSUME NEW f, Told(f) PROVE Told(f)'
  <2>1. f[0] = tokens \o f[Onward] /\ mode \notin {"ready", "blank"}
    BY <1>1, <1>11 DEF Told
  <2>2. Onward' = Onward
    BY <1>1, <2>1 DEF Onward
  <2>3. f[0] = tokens' \o f[Onward']
    BY <1>1, <2>1, <2>2, Zenon
  <2> QED
    BY <2>3, Zenon DEF Told
<1> QED
  BY <1>10, <1>11 DEF Keeps

(* A token that is returned is the lexeme at the place where it starts, and  *)
(* the lexer then stands where that ends.                                  *)
LEMMA ReturnedTells ==
  ASSUME LexerTyped, Scanned, UNCHANGED <<text, one, multi>>, NEW b \in 0..(Len(text) - 1),
         NEW t \in Positions, tokens' = Append(tokens, t), mode' = "ready", mode # "ready", mode # "asserted",
         b = Onward, NEW q, (Front)' = q, q <= Len(text), Piece(b) = [tokens |-> <<t>>, next |-> q]
  PROVE  Keeps
<1>1. Scanned'
  BY DEF Scanned
<1>2. ASSUME NEW f, Lexed(f, Nat), Told(f) PROVE Told(f)'
  <2>1. f[0] = tokens \o f[b]
    BY <1>2, Zenon DEF Told
  <2>2. f[0] = Append(tokens, t) \o f[q]
    BY <1>2, <2>1, Takes, Standing
  <2>3. Onward' = q
    BY DEF Onward
  <2>4. f[0] = tokens' \o f[Onward']
    BY <2>2, <2>3, Zenon
  <2> QED
    BY <2>4, Zenon DEF Told
<1> QED
  BY <1>1, <1>2 DEF Keeps

LEMMA SymbolTells ==
  ASSUME LexerTyped, Scanned, UNCHANGED text, Symbol
  PROVE  Keeps
<1>1. /\ mode = "token" /\ pos' = pos + 1 /\ UNCHANGED <<one, multi>> /\ mode' = "ready"
      /\ tokens' = Append(tokens, TokenAt("symbol", pos - 1, pos))
      /\ Here \notin Digits \cup Letters \cup {"\"", Nul, Newline, Return}
  BY DEF Symbol, Read, Returned
<1>2. pos # 0 /\ Here # Nul
  BY <1>1 DEF LexerTyped
<1>3. PICK p \in Nat : p = Front
  BY Standing
<1>4. Here = Char(p + 1) /\ pos = p + 1 /\ pos - 1 = p /\ p \in 0..(Len(text) - 1) /\ Len(text) \in Nat
  BY <1>2, <1>3, Standing, NotAtEnd
<1>5. (Front)' = p + 1
  BY <1>1, <1>2, <1>3, FrontMoves
<1>6. PICK t, q : t = TokenAt("symbol", p, p + 1) /\ q = p + 1
  OBVIOUS
<1>7. q <= Len(text) /\ q \in Nat
  BY <1>4, <1>6
<1>8. t \in Positions
  BY <1>6, <1>7 DEF TokenAt, Positions, TokenTypes
<1>9. Here \notin Blanks \cup {Newline} /\ ~ Starts(p, "/", "/") /\ ~ Starts(p, "/", "*")
  BY <1>1, <1>3, Zenon DEF Scanned
<1>10. Piece(p) = [tokens |-> <<t>>, next |-> q]
  <2>1. Char(p + 1) \notin Blanks \cup {Newline, Return, "\""} \cup Digits \cup Letters
    BY <1>1, <1>4, <1>9
  <2> QED
    BY <1>6, <1>9, <2>1, Zenon DEF Piece
<1>11. p = Onward
  BY <1>1, <1>3 DEF Onward
<1>12. tokens' = Append(tokens, t)
  BY <1>1, <1>4, <1>6, Zenon
<1>13. (Front)' = q /\ mode # "ready" /\ mode # "asserted"
  BY <1>1, <1>5, <1>6
<1> QED
  BY <1>1, <1>4, <1>7, <1>8, <1>10, <1>11, <1>12, <1>13, ReturnedTells

LEMMA EndOfTextTells ==
  ASSUME LexerTyped, Scanned, UNCHANGED text, EndOfText
  PROVE  Keeps
<1>1. /\ mode = "token" /\ UNCHANGED <<pos, one, multi>> /\ mode' = "ready" /\ Here = Nul
      /\ tokens' = Append(tokens, TokenAt("eof", pos - 1, pos - 1))
  BY DEF EndOfText, Returned
<1>2. pos # 0
  BY <1>1 DEF LexerTyped
<1>3. pos - 1 = Front /\ Front = Len(text) /\ text \in Seq(Characters) /\ tokens \in Seq(Positions)
  BY <1>1, <1>2, Standing, NotAtEnd
<1>4. Scanned'
  <2>1. (Front)' <= Len(text)' /\ ~ (one' /\ multi')
    BY <1>1, Zenon DEF Scanned, Front
  <2> QED
    BY <1>1, <2>1 DEF Scanned
<1>5. ASSUME NEW f, Lexed(f, Nat), Told(f) PROVE Told(f)'
  <2>1. f[0] = tokens \o f[Len(text)]
    BY <1>1, <1>3, <1>5 DEF Told, Onward
  <2>2. f[Len(text)] = <<>>
    BY <1>3, <1>5, EndOfTextBehind
  <2>3. f[0] = tokens
    BY <1>3, <2>1, <2>2, ConcatEmptySeq
  <2>4. tokens' = Append(f[0], TokenAt("eof", Len(text), Len(text)))
    BY <1>1, <1>3, <2>3, Zenon
  <2>5. tokens' = Append(f[0], TokenAt("eof", Len(text)', Len(text)'))
    BY <2>4
  <2> QED
    BY <1>1, <2>5 DEF Told, TokenAt
<1> QED
  BY <1>4, <1>5 DEF Keeps

LEMMA AssertsTells ==
  ASSUME LexerTyped, Scanned, UNCHANGED text, Asserts
  PROVE  Keeps
<1>1. mode' = "asserted" /\ UNCHANGED <<pos, one, multi>>
  BY DEF Asserts
<1>2. (Front)' <= Len(text)' /\ ~ (one' /\ multi')
  BY <1>1, Zenon DEF Scanned, Front
<1>3. Scanned'
  BY <1>1, <1>2 DEF Scanned
<1> QED
  BY <1>1, <1>3 DEF Keeps, Told

LEMMA EndTokenTells ==
  ASSUME LexerTyped, Scanned, UNCHANGED text, EndToken
  PROVE  Keeps
<1>1. /\ mode \in {"number", "string", "name"} /\ mode' = "ready" /\ UNCHANGED <<one, multi, start>>
      /\ mode = "number" => Here \notin Digits
      /\ mode = "string" => Here \in {"\"", Newline, Return, Nul}
      /\ mode = "name" => Here \notin Letters \cup Digits
  BY DEF EndToken, Continues, EndOfLine, Returned
<1>2. pos # 0
  BY <1>1 DEF LexerTyped
<1>3. PICK p \in Nat : p = Front
  BY Standing
<1>4. PICK n \in Nat : n = Len(text)
  BY Standing
<1>5. Here = Char(p + 1) /\ pos - 1 = p /\ p \in 0..n /\ text \in Seq(Characters)
  <2>1. Here = Char(Front + 1) /\ pos - 1 = Front /\ Front \in 0..Len(text) /\ text \in Seq(Characters)
    BY <1>2, Standing
  <2> QED
    BY <1>3, <1>4, <2>1, Zenon
<1>6. PICK b \in Nat : b = start
  BY DEF LexerTyped
<1>7. /\ p < n => Here \in Characters /\ Here # Nul
      /\ p >= n => p = n
  BY <1>4, <1>5, CharAt
<1>8. \A cs : (p \in At(cs) <=> p = n \/ Here \in cs) /\ At(cs) \in SUBSET (0..n) /\ n \in At(cs)
  BY <1>4, <1>5, InFront, AreStops
<1>9. ASSUME NEW cs, NEW r \in At(cs), r < n PROVE Char(r + 1) \in cs /\ r \in Nat
  <2>1. r \in 0..n
    BY <1>8
  <2> QED
    BY <1>4, <1>5, <1>9, <2>1, InFront
<1>10. ASSUME NEW cs, p \in At(cs), NEW s \in 0..p, \A q \in s..(p - 1) : Char(q + 1) \notin cs
       PROVE  First(s, At(cs)) = p
  <2>1. ASSUME NEW r \in At(cs), r >= s PROVE p <= r
    <3>1. SUFFICES ASSUME r < p PROVE FALSE
      BY <1>5, <1>8
    <3>2. r \in 0..n /\ r < n
      BY <1>5, <1>8, <3>1
    <3>3. Char(r + 1) \in cs
      BY <1>9, <3>2
    <3>4. r \in s..(p - 1)
      BY <1>5, <2>1, <3>1, <3>2
    <3> QED
      BY <1>10, <3>3, <3>4
  <2>2. PICK S : S = At(cs)
    OBVIOUS
  <2>3. S \in SUBSET (0..n) /\ n \in S /\ p \in S /\ s \in 0..n /\ p >= s
    BY <1>5, <1>8, <1>10, <2>2
  <2>4. First(s, S) = p
    BY <2>1, <2>2, <2>3, FirstUnique
  <2> QED
    BY <2>2, <2>4
<1>11. ASSUME NEW type \in TokenTypes PROVE TokenAt(type, b, p) \in Positions
  BY <1>6, <1>3 DEF TokenAt, Positions
<1>12. Nul \notin Characters /\ \A c \in Digits : c \notin Letters
  BY ClassesAssumption
<1>13. CASE mode = "number"
  <2>1. PICK t : t = TokenAt("integer", b, p)
    OBVIOUS
  <2>2. tokens' = Append(tokens, t) /\ pos' = pos + 0
    BY <1>5, <1>6, <1>13, <2>1 DEF EndToken, Returned, Read
  <2>3. b < p /\ \A q \in b..(p - 1) : Char(q + 1) \in Digits
    BY <1>3, <1>6, <1>13, Zenon DEF Scanned
  <2>4. p \in At(Characters \ Digits)
    BY <1>1, <1>5, <1>7, <1>8, <1>13
  <2>5. First(b, At(Characters \ Digits)) = p
    <3>1. b \in 0..p /\ \A q \in b..(p - 1) : Char(q + 1) \notin Characters \ Digits
      BY <2>3
    <3> QED
      BY <1>10, <2>4, <3>1
  <2>6. b \in b..(p - 1) /\ b \in 0..(n - 1)
    BY <1>5, <2>3
  <2>7. Char(b + 1) \in Digits
    BY <2>3, <2>6
  <2>8. Piece(b) = [tokens |-> <<t>>, next |-> p]
    BY <2>1, <2>5, <2>7, PieceIs
  <2>9. (Front)' = p
    BY <1>2, <1>3, <2>2, FrontMoves
  <2>10. b = Onward /\ mode # "ready" /\ mode # "asserted"
    BY <1>6, <1>13 DEF Onward
  <2>11. t \in Positions /\ p <= Len(text)
    BY <1>4, <1>5, <1>11, <2>1 DEF TokenTypes
  <2> QED
    BY <1>1, <1>4, <2>2, <2>6, <2>8, <2>9, <2>10, <2>11, ReturnedTells
<1>14. CASE mode = "name"
  <2>1. PICK type, t : /\ type = IF Spelling(b, p) \in Keywords THEN "keyword" ELSE "identifier"
                       /\ t = TokenAt(type, b, p)
    OBVIOUS
  <2>2. tokens' = Append(tokens, t) /\ pos' = pos + 0
    BY <1>5, <1>6, <1>14, <2>1 DEF EndToken, Returned, Read
  <2>3. b < p /\ Char(b + 1) \in Letters /\ \A q \in b..(p - 1) : Char(q + 1) \in Letters \cup Digits
    BY <1>3, <1>6, <1>14, Zenon DEF Scanned
  <2>4. p \in At(Characters \ (Letters \cup Digits))
    BY <1>1, <1>5, <1>7, <1>8, <1>14
  <2>5. First(b, At(Characters \ (Letters \cup Digits))) = p
    <3>1. b \in 0..p /\ \A q \in b..(p - 1) : Char(q + 1) \notin Characters \ (Letters \cup Digits)
      BY <2>3
    <3> QED
      BY <1>10, <2>4, <3>1
  <2>6. b \in 0..(n - 1)
    BY <1>5, <2>3
  <2>7. Piece(b) = [tokens |-> <<t>>, next |-> p]
    BY <2>1, <2>3, <2>5, PieceIs
  <2>8. (Front)' = p
    BY <1>2, <1>3, <2>2, FrontMoves
  <2>9. b = Onward /\ mode # "ready" /\ mode # "asserted"
    BY <1>6, <1>14 DEF Onward
  <2>10. t \in Positions /\ p <= Len(text)
    <3>1. type \in TokenTypes
      BY <2>1 DEF TokenTypes
    <3> QED
      BY <1>4, <1>5, <1>11, <2>1, <3>1
  <2> QED
    BY <1>1, <1>4, <2>2, <2>6, <2>7, <2>8, <2>9, <2>10, ReturnedTells
<1>15. CASE mode = "string"
  <2>1. PICK t : t = TokenAt("string", b, p)
    OBVIOUS
  <2>2. tokens' = Append(tokens, t) /\ pos' = pos + IF Here = "\"" THEN 1 ELSE 0
    BY <1>5, <1>6, <1>15, <2>1 DEF EndToken, Returned, Read
  <2>3. /\ b \in 1..p /\ Char(b) = "\""
        /\ \A q \in b..(p - 1) : Char(q + 1) \notin {"\"", Newline, Return}
    BY <1>3, <1>6, <1>15, Zenon DEF Scanned
  <2>4. p \in At({"\"", Newline, Return})
    <3>1. Here = Nul => p = n
      BY <1>5, <1>7
    <3> QED
      BY <1>1, <1>8, <1>15, <3>1
  <2>5. First(b, At({"\"", Newline, Return})) = p
    <3>1. b \in 1..p
      BY <2>3, Zenon
    <3>2. b \in 0..p
      BY <3>1
    <3> QED
      BY <1>10, <2>3, <2>4, <3>2
  <2>6. PICK a \in Nat : b = a + 1 /\ a = b - 1
    <3>1. b \in 1..p
      BY <2>3, Zenon
    <3>2. b - 1 \in Nat /\ b = (b - 1) + 1
      BY <3>1
    <3> QED
      BY <3>2
  <2>7. a \in 0..(n - 1)
    <3>1. b \in 1..p /\ p \in 0..n
      BY <1>5, <2>3, Zenon
    <3> QED
      BY <2>6, <3>1
  <2>8. PICK q : q = IF Here = "\"" THEN p + 1 ELSE p
    OBVIOUS
  <2>9. Piece(a) = [tokens |-> <<t>>, next |-> q]
    <3>1. Char(a + 1) = "\"" /\ p = First(a + 1, At({"\"", Newline, Return}))
      BY <2>3, <2>5, <2>6, Zenon
    <3>2. Piece(a) = [tokens |-> <<TokenAt("string", a + 1, p)>>,
                      next |-> IF Char(p + 1) = "\"" THEN p + 1 ELSE p]
      BY <3>1, QuotedPiece
    <3> QED
      BY <1>5, <2>1, <2>6, <2>8, <3>2, Zenon
  <2>10. (Front)' = q
    <3>1. CASE Here = "\""
      <4>1. pos' = pos + 1 /\ q = p + 1
        BY <2>2, <2>8, <3>1, Zenon
      <4> QED
        BY <1>2, <1>3, <4>1, FrontMoves
    <3>2. CASE Here # "\""
      <4>1. pos' = pos + 0 /\ q = p
        BY <2>2, <2>8, <3>2, Zenon
      <4>2. (Front)' = Front + 0
        BY <1>2, <4>1, FrontMoves
      <4> QED
        BY <1>3, <4>1, <4>2
    <3> QED
      BY <3>1, <3>2
  <2>11. a = Onward /\ mode # "ready" /\ mode # "asserted"
    BY <1>6, <1>15, <2>6 DEF Onward
  <2>12. t \in Positions
    BY <1>11, <2>1 DEF TokenTypes
  <2>13. q <= Len(text)
    <3>1. "\"" # Nul
      BY LexerAssumption
    <3>2. CASE Here = "\""
      <4>1. Here # Nul
        BY <3>1, <3>2, Zenon
      <4>2. Front \in 0..(Len(text) - 1)
        BY <1>2, <4>1, NotAtEnd
      <4>3. q = p + 1 /\ p \in 0..(n - 1)
        BY <1>3, <1>4, <2>8, <3>2, <4>2, Zenon
      <4> QED
        BY <1>4, <4>3
    <3>3. CASE Here # "\""
      <4>1. q = p /\ p \in 0..n
        BY <1>5, <2>8, <3>3, Zenon
      <4> QED
        BY <1>4, <4>1
    <3> QED
      BY <3>2, <3>3
  <2> QED
    BY <1>1, <1>4, <2>2, <2>7, <2>9, <2>10, <2>11, <2>12, <2>13, ReturnedTells
<1> QED
  BY <1>1, <1>13, <1>14, <1>15

-----------------------------------------------------------------------------
LexInv == Scanned /\ AllTold

LEMMA LexTells ==
  ASSUME LexerTyped, Scanned, UNCHANGED text, LexStep \/ (NextToken /\ ~ AtEnd)
  PROVE  Keeps
BY NextTokenTells, SkipBlankTells, SkipNewlineTells, SkipSlashTells, SkipStarTells, SkipCommentTells,
   BlankDoneTells, StartTells, ContinueTells, EndTokenTells, SymbolTells, EndOfTextTells, AssertsTells
   DEF LexStep

LEMMA LexInvStays ==
  ASSUME LexInv, UNCHANGED text, UNCHANGED lexVars
  PROVE  LexInv'
<1>1. UNCHANGED <<pos, mode, one, multi, start, tokens>>
  BY DEF lexVars
<1>2. (Front)' = Front /\ Here' = Here /\ \A p : Char(p)' = Char(p)
  BY <1>1, SameText DEF Front, Here
<1>3. Char(start)' = Char(start) /\ Char(start + 1)' = Char(start + 1)
  BY <1>1 DEF Char
<1>4. \A a, b : Starts(Front, a, b)' = Starts(Front, a, b)
  BY <1>1, <1>2, SameStanding DEF Starts, Front, Char
<1>5. Scanned'
  BY <1>1, <1>2, <1>3, <1>4 DEF LexInv, Scanned
<1>6. Onward' = Onward
  BY <1>1 DEF Onward, Resumes, Front, First, At, CommentEnds, Starts, Char
<1>7. AllTold'
  <2>1. ASSUME NEW f, Lexed(f, Nat)', ~ Stray(f[0])' PROVE Told(f)'
    <3>1. Lexed(f, Nat) /\ ~ Stray(f[0])
      BY <2>1, SamePieces
    <3>2. Told(f)
      BY <3>1 DEF LexInv, AllTold
    <3> QED
      BY <1>1, <1>6, <3>2 DEF Told, TokenAt
  <2> QED
    BY <2>1 DEF AllTold
<1> QED
  BY <1>5, <1>7 DEF LexInv

LEMMA LexInvStep == (TInv /\ LexInv) /\ [TextNext]_vars => (LexInv)'
<1> SUFFICES ASSUME TInv, LexInv, [TextNext]_vars PROVE LexInv'
  OBVIOUS
<1>1. CASE Lex
  <2>1. UNCHANGED text /\ (LexStep \/ (NextToken /\ ~ AtEnd)) /\ LexerTyped /\ Scanned
    BY <1>1 DEF Lex, mapVars, TInv, LexInv
  <2>2. Keeps
    BY <2>1, LexTells
  <2>3. ASSUME NEW f, Lexed(f, Nat)', ~ Stray(f[0])' PROVE Told(f)'
    <3>1. Lexed(f, Nat) /\ ~ Stray(f[0])
      BY <2>1, <2>3, SamePieces
    <3>2. Told(f)
      BY <3>1 DEF LexInv, AllTold
    <3> QED
      BY <2>2, <3>1, <3>2 DEF Keeps
  <2>4. AllTold'
    BY <2>3 DEF AllTold
  <2> QED
    BY <2>2, <2>4 DEF LexInv, Keeps
<1>2. CASE ~ Lex
  <2>1. UNCHANGED text /\ UNCHANGED lexVars
    BY <1>2 DEF TextNext, StartReport, ReportOne, Locate, Resolve, MapCharacter, MapDone, Halve, Found, Complain,
                Finished, vars, mapVars
  <2> QED
    BY <2>1, LexInvStays
<1> QED
  BY <1>1, <1>2

LEMMA LexInvInit == TextInit => LexInv
<1> SUFFICES ASSUME TextInit PROVE LexInv
  OBVIOUS
<1>1. pos = 0 /\ mode = "ready" /\ one = FALSE /\ multi = FALSE /\ tokens = <<>> /\ text \in Seq(Characters)
  BY TextAssumption DEF TextInit, LexInit
<1>2. Front = 0 /\ Onward = 0
  BY <1>1 DEF Front, Onward
<1>3. Scanned
  <2>1. 0 <= Len(text)
    <3>1. Len(text) \in Nat
      BY <1>1, LenProperties
    <3> QED
      BY <3>1
  <2> QED
    BY <1>1, <1>2, <2>1 DEF Scanned
<1>4. ASSUME NEW f, Lexed(f, Nat) PROVE Told(f)
  <2>1. f[0] \in Seq(Positions)
    BY <1>4 DEF Lexed
  <2>2. f[0] = <<>> \o f[0]
    BY <2>1, ConcatEmptySeq
  <2> QED
    BY <1>1, <1>2, <2>2, Zenon DEF Told
<1> QED
  BY <1>3, <1>4 DEF LexInv, AllTold

LEMMA ToldTokens == TInv /\ LexInv => TokensAreLexemes
<1> SUFFICES ASSUME TInv, LexInv, mode = "ready", ~ Stray(Lexemes[0])
             PROVE  SubSeq(Append(Lexemes[0], TokenAt("eof", Len(text), Len(text))), 1, Len(tokens)) = tokens
  BY DEF TokensAreLexemes
<1>1. text \in Seq(Characters) /\ tokens \in Seq(Positions) /\ Scanned
  BY DEF TInv, LexerTyped, LexInv
<1>2. Lexed(Lexemes, Nat)
  BY <1>1, LexemesAre
<1>3. PICK ts, e, us, n : /\ ts = Lexemes[0] /\ e = TokenAt("eof", Len(text), Len(text)) /\ us = Append(ts, e)
                          /\ n = Len(tokens)
  OBVIOUS
<1>4. ts \in Seq(Positions) /\ e \in Positions
  <2>1. Len(text) \in Nat
    BY <1>1, LenProperties
  <2>2. e \in Positions
    BY <1>3, <2>1 DEF TokenAt, Positions, TokenTypes
  <2>3. \A g : Lexed(g, Nat) => g[0] \in Seq(Positions)
    BY DEF Lexed
  <2>4. ts \in Seq(Positions)
    BY <1>2, <1>3, <2>3, Zenon
  <2> QED
    BY <2>2, <2>4
<1>5. us \in Seq(Positions)
  BY <1>3, <1>4
<1>6. Told(Lexemes)
  BY <1>2, Zenon DEF LexInv, AllTold
<1>7. ts = tokens \o Lexemes[Front] \/ tokens = us
  BY <1>3, <1>6 DEF Told, Onward
<1>8. n \in Nat /\ n <= Len(us) /\ \A i \in 1..n : us[i] = tokens[i]
  <2>1. CASE tokens = us
    BY <1>1, <1>3, <2>1, LenProperties
  <2>2. CASE ts = tokens \o Lexemes[Front]
    <3>1. PICK rest : rest = Lexemes[Front]
      OBVIOUS
    <3>2. rest \in Seq(Positions)
      <4>1. Front \in Nat
        BY Standing DEF TInv, LexInv
      <4>2. \A g : Lexed(g, Nat) => \A p \in Nat : g[p] \in Seq(Positions)
        BY DEF Lexed
      <4> QED
        BY <1>2, <3>1, <4>1, <4>2, Zenon
    <3>3. PICK m \in Nat : m = Len(rest)
      BY <3>2, LenProperties
    <3>4. n \in Nat
      BY <1>1, <1>3, LenProperties
    <3>5. Len(ts) = n + m /\ \A i \in 1..(n + m) : ts[i] = IF i <= n THEN tokens[i] ELSE rest[i - n]
      BY <1>1, <1>3, <2>2, <3>1, <3>2, <3>3, ConcatProperties
    <3>6. Len(us) = (n + m) + 1 /\ \A i \in 1..(n + m) : us[i] = ts[i]
      BY <1>3, <1>4, <3>5, AppendProperties
    <3>7. n <= Len(us)
      BY <3>4, <3>6
    <3>8. \A i \in 1..n : us[i] = tokens[i]
      BY <3>4, <3>5, <3>6
    <3> QED
      BY <3>4, <3>7, <3>8
  <2> QED
    BY <1>7, <2>1, <2>2
<1>9. SubSeq(us, 1, n) = tokens
  <2>1. \A i \in 1..n : us[i] \in Positions
    BY <1>1, <1>3, <1>8, ElementOfSeq
  <2>2. PICK s : s = SubSeq(us, 1, n)
    OBVIOUS
  <2>3. 1 \in Int /\ n \in Int /\ n - 1 + 1 = n /\ (1 <= n \/ n = 0) /\ \A i \in 1..n : 1 + i - 1 = i
    BY <1>8
  <2>4. s \in Seq(Positions) /\ Len(s) = n /\ \A i \in 1..n : s[i] = us[i]
    BY <2>1, <2>2, <2>3, SubSeqProperties
  <2>5. Len(s) = Len(tokens) /\ \A i \in 1..Len(s) : s[i] = tokens[i]
    BY <1>3, <1>8, <2>4
  <2> QED
    BY <1>1, <2>2, <2>4, <2>5, SeqEqual
<1> QED
  BY <1>3, <1>9

(* What the lexer returns, with its spans, are the lexemes of the text, at  *)
(* any length and in any order of comments, strings, names and line ends,  *)
(* as long as no product is followed by a slash.                           *)
THEOREM ReadsLexemes == TextSpec => []TokensAreLexemes
<1>1. TextSpec => [](TInv /\ LexInv)
  BY TextInvariance, LexInvInit, LexInvStep, PTL DEF TextSpec
<1> QED
  BY <1>1, ToldTokens, PTL

=============================================================================
