------------------------------- MODULE Console -------------------------------
(***************************************************************************)
(* Keyboard.readInt and readLine (stdlib/Keyboard.jack) with the keyboard   *)
(* they poll and the character screen they echo to (stdlib/Output.jack).   *)
(* The keyboard is the device of the machine: it keeps the last key struck  *)
(* until that is read.                                                     *)
(*                                                                         *)
(* A character cell shows parts of glyphs: of every one the body, which a   *)
(* black square covers, and of some a tail in the row below it.            *)
(***************************************************************************)
EXTENDS JackString

CONSTANTS Columns, Rows,  (* of characters: 64 and 23                         *)
          Tailed,         (* characters with a tail                           *)
          Targets,        (* where the program puts the cursor first          *)
          Numbers,        (* what it prints before it reads                   *)
          Keys,           (* codes the keyboard sends                         *)
          MaxStruck       (* bound: keys struck                               *)

ASSUME ConsoleAssumption ==
  /\ Columns \in Nat \ {0} /\ Rows \in Nat \ {0}
  /\ Targets \subseteq Int \X Int
  /\ Numbers \subseteq MinWord..(-MinWord - 1)

VARIABLES reading,        (* "idle", "move", "prompt", "wait", ..., "read"     *)
          cursor,         (* <<_col, _row>>                                   *)
          cells,          (* what each cell shows                             *)
          number, prompt, (* what is printed, and what of it has not been yet *)
          ready, data,    (* the keyboard's registers                         *)
          pressed, line,  (* locals of readChar and readLine                  *)
          value,          (* readInt's result                                 *)
          start,          (* history: the cell where the prompt begins        *)
          struck, hasty   (* history: all keys, and whether one of them came  *)
                          (* before the program waited for it                 *)

device == <<ready, data>>
typed == <<struck, hasty>>
consoleVars == <<reading, cursor, cells, number, prompt, device, pressed, line, value, start, typed>>

Cells == (0..(Columns - 1)) \X (0..(Rows - 1))

Printable == 32..126

(* getMap: a character that is not printable gets the square.               *)
Glyph(c) ==
  LET shown == IF c \in Printable THEN c ELSE 0
  IN  (IF c = 32 THEN {} ELSE {<<shown, "body">>})
        \cup (IF c \in Tailed THEN {<<shown, "tail">>} ELSE {})

Bodies(parts) == {p \in parts : p[2] = "body"}

(* Where printChar leaves the cursor: the screen does not scroll. *)
Behind(cell) ==
  IF cell[1] + 1 < Columns THEN <<cell[1] + 1, cell[2]>>
  ELSE <<0, IF cell[2] + 1 < Rows THEN cell[2] + 1 ELSE 0>>

(* Output.backSpace *)
Before(cell) ==
  IF cell[1] > 0 THEN <<cell[1] - 1, cell[2]>>
  ELSE <<Columns - 1, IF cell[2] > 0 THEN cell[2] - 1 ELSE Rows - 1>>

(* Output.println *)
NextLine(cell) == <<0, IF cell[2] + 1 < Rows THEN cell[2] + 1 ELSE 0>>

Clamp(i, n) == IF i < 0 THEN 0 ELSE IF i < n THEN i ELSE n - 1

(* Output.moveCursor: the rectangle it fills is the whole cell. *)
MoveCursor(i, j) ==
  /\ reading = "move"
  /\ cursor' = <<Clamp(j, Columns), Clamp(i, Rows)>>
  /\ start' = cursor'
  /\ cells' = [cells EXCEPT ![cursor'] = {}]
  /\ reading' = "prompt"
  /\ UNCHANGED <<number, prompt, device, pressed, line, value, typed>>

(* printChar in white adds to what the cell shows. *)
PrintChar(c) ==
  /\ cells' = [cells EXCEPT ![cursor] = @ \cup Glyph(c)]
  /\ cursor' = Behind(cursor)

(* The loop of printInt or printString *)
Prompt ==
  /\ reading = "prompt" /\ prompt # <<>>
  /\ PrintChar(Head(prompt)) /\ prompt' = Tail(prompt)
  /\ UNCHANGED <<reading, number, device, pressed, line, value, start, typed>>

(* readLine goes on with an empty string. *)
Ask ==
  /\ reading = "prompt" /\ prompt = <<>>
  /\ reading' = "wait" /\ line' = <<>>
  /\ UNCHANGED <<cursor, cells, number, prompt, device, pressed, value, start, typed>>

(* keyPressed: reading the key makes the keyboard ready for another one. *)
KeyPressed == IF ready THEN data ELSE 0

(* Mutant of WaitPressed: the keyboard is asked once more for the key. *)
WaitPressedAskAgain ==
  /\ reading = "wait" /\ KeyPressed # 0
  /\ pressed' = 0 /\ ready' = FALSE /\ reading' = "release"
  /\ UNCHANGED <<data, cursor, cells, number, prompt, line, value, start, typed>>

WaitPressed ==
  /\ reading = "wait" /\ KeyPressed # 0
  /\ pressed' = data /\ ready' = FALSE /\ reading' = "release"
  /\ UNCHANGED <<data, cursor, cells, number, prompt, line, value, start, typed>>

(* A key that is struck meanwhile is read here, and forgotten. *)
SpinUntilReleased ==
  /\ reading = "release" /\ KeyPressed # 0
  /\ ready' = FALSE
  /\ UNCHANGED <<reading, data, cursor, cells, number, prompt, pressed, line, value, start, typed>>

Released ==
  /\ reading = "release" /\ KeyPressed = 0
  /\ reading' = "echo"
  /\ UNCHANGED <<cursor, cells, number, prompt, device, pressed, line, value, start, typed>>

(* readLine returns, and readInt converts what was read. *)
EchoNewLine ==
  /\ reading = "echo" /\ pressed = NewLine
  /\ cursor' = NextLine(cursor)
  /\ value' = IntValue(line) /\ reading' = "read"
  /\ UNCHANGED <<cells, number, prompt, device, pressed, line, start, typed>>

(* Mutant of EchoBackSpace: the cursor stays behind the square. *)
EchoBackSpaceBehind ==
  /\ reading = "echo" /\ pressed = BackSpace /\ reading' = "wait"
  /\ IF line = <<>> THEN UNCHANGED <<cursor, cells, line>>
     ELSE /\ line' = EraseLastChar(line)
          /\ cells' = [cells EXCEPT ![Before(cursor)] = @ \ Bodies(@)]
          /\ cursor' = Behind(Before(cursor))
  /\ UNCHANGED <<number, prompt, device, pressed, value, start, typed>>

(* A black square over the last character, whose cell the cursor is then in *)
EchoBackSpace ==
  /\ reading = "echo" /\ pressed = BackSpace /\ reading' = "wait"
  /\ IF line = <<>> THEN UNCHANGED <<cursor, cells, line>>
     ELSE /\ line' = EraseLastChar(line)
          /\ cells' = [cells EXCEPT ![Before(cursor)] = @ \ Bodies(@)]
          /\ cursor' = Before(Behind(Before(cursor)))
  /\ UNCHANGED <<number, prompt, device, pressed, value, start, typed>>

EchoOther ==
  /\ reading = "echo" /\ pressed \notin {NewLine, BackSpace} /\ reading' = "wait"
  /\ PrintChar(pressed)
  /\ line' = AppendChar(line, pressed)
  /\ UNCHANGED <<number, prompt, device, pressed, value, start, typed>>

(* The user, at any time *)
Strike(k) ==
  /\ Len(struck) < MaxStruck /\ reading \notin {"idle", "read"}
  /\ ready' = TRUE /\ data' = k
  /\ struck' = Append(struck, k)
  /\ hasty' = (hasty \/ ready \/ reading # "wait")
  /\ UNCHANGED <<reading, cursor, cells, number, prompt, pressed, line, value, start>>

(* No line is being read yet. *)
ConsoleBlank ==
  /\ cursor = <<0, 0>>
  /\ cells = [cell \in Cells |-> {}]
  /\ ready = FALSE /\ data = 0 /\ pressed = 0
  /\ line = <<>> /\ value = 0 /\ start = <<0, 0>>
  /\ struck = <<>> /\ hasty = FALSE

ConsoleInit ==
  /\ ConsoleBlank /\ reading = "move"
  /\ number \in Numbers /\ prompt = PrintedInt(number)

(* What the program does without the user *)
ConsoleStep ==
  \/ \E to \in Targets : MoveCursor(to[1], to[2])
  \/ Prompt \/ Ask \/ WaitPressed \/ SpinUntilReleased \/ Released
  \/ EchoNewLine \/ EchoBackSpace \/ EchoOther

ConsoleNext == ConsoleStep \/ \E k \in Keys : Strike(k)

ConsoleSpec == ConsoleInit /\ [][ConsoleNext]_consoleVars

-----------------------------------------------------------------------------
(* Properties *)

(* The cell n characters behind the start *)
CellBehind(n) ==
  LET at == start[2] * Columns + start[1] + n
  IN  <<at % Columns, (at \div Columns) % Rows>>

Text == PrintedInt(number) \o line

(* Whatever was typed and erased, over the ends of lines and the end of the *)
(* screen: while readLine waits for a key the cursor is behind the line,   *)
(* and of all cells exactly the line's and those of what was printed       *)
(* before it show a body, their own.  Tails may be left of characters that *)
(* were erased; and text as long as the screen runs over its own start,    *)
(* which the square then erases too.                                       *)
EchoShowsLine ==
  reading = "wait" /\ Len(PrintedInt(number)) + Len(struck) <= Columns * Rows =>
    /\ cursor = CellBehind(Len(Text))
    /\ \A cell \in Cells :
         Bodies(cells[cell]) =
           UNION {Bodies(Glyph(Text[i])) : i \in {j \in DOMAIN Text : CellBehind(j - 1) = cell}}
    /\ \A i \in DOMAIN Text : Glyph(Text[i]) \subseteq cells[CellBehind(i - 1)]

(* What a line editor makes of keys                                          *)
Edited(keys) ==
  LET Line[n \in 0..Len(keys)] ==
        IF n = 0 THEN <<>>
        ELSE IF keys[n] # BackSpace THEN Append(Line[n - 1], keys[n])
        ELSE IF Line[n - 1] = <<>> THEN <<>>
        ELSE Front(Line[n - 1])
  IN  Line[Len(keys)]

(* A user who strikes a key only when the program waits for it loses none,  *)
(* although readChar reads keys away while it waits for the release.       *)
SlowTypistIsRead ==
  /\ reading = "wait" /\ ~ ready /\ ~ hasty => line = Edited(struck)
  /\ reading = "read" /\ ~ hasty => Edited(struck) = Append(line, NewLine)

(* Who types what printInt showed him is understood, and setInt writes the  *)
(* same, but for the least word, of which both write no digit.             *)
NumbersReadBack ==
  reading = "read" =>
    /\ line = PrintedInt(number) /\ number # MinWord => value = number
    /\ PrintedInt(number) = SetInt(number)
=============================================================================
