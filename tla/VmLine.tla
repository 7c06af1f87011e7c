------------------------------- MODULE VmLine -------------------------------
(***************************************************************************)
(* How the backend reads one line of a .vm file (vm_parser_internal.c and  *)
(* vm_parser_utils.c).  A printed line is the words of it: the command,    *)
(* the name that follows and the number, which is a sign and its decimal   *)
(* digits, as jackc_fprintf writes and jackc_atoi reads it.                *)
(***************************************************************************)
EXTENDS CodeGen

(* vm_cmd_to_args, by the spelling jackc_vm_cmd_type_from_string knows     *)
ArgumentsOf ==
  [c \in {"add", "sub", "neg", "mul", "div", "eq", "gt", "lt", "and", "or", "not", "return"} |-> 0]
  @@ [c \in {"label", "goto", "if-goto"} |-> 1]
  @@ [c \in {"push", "pop", "function", "call"} |-> 2]

Commands == DOMAIN ArgumentsOf

(* The segments that are recognised in a push and a pop. *)
SegmentWords == {"this", "that", "local", "argument", "static", "constant", "temp", "pointer"}

-----------------------------------------------------------------------------
RECURSIVE Digits(_)
Digits(n) == IF n < 10 THEN <<n>> ELSE Append(Digits(n \div 10), n % 10)

Abs(n) == IF n < 0 THEN -n ELSE n

Printed(n) == [minus |-> n < 0, digits |-> Digits(Abs(n))]

(* How many words follow the command when it is printed. *)
Width(line) ==
  CASE line.cmd \in {"push", "pop", "function", "call"} -> 2
    [] line.cmd \in {"label", "goto", "if-goto"}        -> 1
    [] OTHER                                            -> 0

PrintLine(line) ==
  [word   |-> line.cmd,
   first  |-> IF Width(line) > 0 THEN line.arg1 ELSE <<>>,
   second |-> IF Width(line) = 2 THEN Printed(line.arg2) ELSE [minus |-> FALSE, digits |-> <<>>]]

-----------------------------------------------------------------------------
(* jackc_atoi *)
Number(t) ==
  LET size == FoldLeft(LAMBDA n, d : 10 * n + d, 0, t.digits)
  IN  IF t.minus THEN -size ELSE size

(* Mutant of ParseArg1: `that' is not among the segments. *)
ParseArg1NoThat(text) ==
  CASE text.first = <<>> -> "VM_EMPTY_FIRST_ARGUMENT"
    [] text.word \in {"push", "pop"} /\ text.first[1] \notin SegmentWords \ {"that"} ->
         "VM_INVALID_SEGMENT"
    [] text.word = "pop" /\ text.first[1] = "constant" -> "VM_POP_SEGMENT_CONST"
    [] OTHER -> "VM_OK"

(* vm_parser_parse_arg1 *)
ParseArg1(text) ==
  CASE text.first = <<>> -> "VM_EMPTY_FIRST_ARGUMENT"
    [] text.word \in {"push", "pop"} /\ text.first[1] \notin SegmentWords -> "VM_INVALID_SEGMENT"
    [] text.word = "pop" /\ text.first[1] = "constant" -> "VM_POP_SEGMENT_CONST"
    [] OTHER -> "VM_OK"

(* vm_parser_parse_arg2: a zero must be spelled as one. *)
ParseArg2(text) ==
  CASE text.second.digits = <<>> /\ ~ text.second.minus -> "VM_EMPTY_SECOND_ARGUMENT"
    [] text.second.digits = <<>> -> "VM_INVALID_ARG_2"
    [] Number(text.second) = 0 /\ (text.second.minus \/ text.second.digits[1] # 0) -> "VM_INVALID_ARG_2"
    [] OTHER -> "VM_OK"

BadPointer(text) ==
  /\ text.word \in {"push", "pop"} /\ text.first = <<"pointer">>
  /\ Number(text.second) \notin {0, 1}

(* vm_parser_parse_line: the first thing that is wrong with it. *)
LineStatus(text) ==
  CASE text.word \notin Commands -> "VM_INVALID_CMD"
    [] ArgumentsOf[text.word] > 0 /\ ParseArg1(text) # "VM_OK" -> ParseArg1(text)
    [] ArgumentsOf[text.word] = 2 /\ ParseArg2(text) # "VM_OK" -> ParseArg2(text)
    [] BadPointer(text) -> "VM_INVALID_POINTER_IDX"
    [] OTHER -> "VM_OK"

ParseLine(text) ==
  Line(text.word,
       IF ArgumentsOf[text.word] > 0 THEN text.first ELSE <<>>,
       IF ArgumentsOf[text.word] = 2 THEN Number(text.second) ELSE 0)

(* What was printed is read as what was meant. *)
ReadsBack(line) ==
  LET text == PrintLine(line)
  IN  LineStatus(text) = "VM_OK" /\ ParseLine(text) = line
=============================================================================
