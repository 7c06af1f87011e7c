------------------------------ MODULE Backend ------------------------------
(***************************************************************************)
(* The backend's driver and the VM parser's lookahead                       *)
(* (jackc/vm-translator/backend.c and parser/vm_parser.c): VM files are read *)
(* line by line, one line ahead, and each line is translated.               *)
(* A line that is translated is appended to the assembly.                   *)
(***************************************************************************)
EXTENDS FileUtils

VARIABLES base,          (* base_path: a directory, or a single VM file       *)
          broken,        (* the directory has an entry that ends its walk,    *)
                         (* see FileUtils                                     *)
          library,       (* stdlib.s: present, missing or locked              *)
          stage,         (* what the driver does next                        *)
          unread,        (* the VM files that the iterator has still to give  *)
          parser,        (* the VM parser of the file that is open           *)
          assembly,      (* what is emitted                                  *)
          hadError,      (* ctx->had_error                                   *)
          backendCode,   (* what the backend returned                        *)
          translated     (* history: the VM files opened, in order           *)

backendVars == <<base, broken, library, stage, unread, parser, assembly, hadError,
                 backendCode, translated>>

Directory == "."
Library == [of |-> "stdlib", n |-> 0, form |-> "library"]

(* A vm_line without initialiser, of which only the start is set, and one   *)
(* that is all zeros, which is an add that starts nowhere.                 *)
Dummy == [of |-> "", n |-> 0, form |-> "dummy"]
Zeros == [of |-> "", n |-> 0, form |-> "zeros"]

(* vm_parser: what is still to be read, the two lines and the status. *)
VmParser(rest, current, next, valid) ==
  [rest |-> rest, current |-> current, next |-> next, valid |-> valid]

NoFile == VmParser(<<>>, Zeros, Zeros, TRUE)

BackendInit ==
  /\ library \in {"present", "missing", "locked"} /\ broken \in BOOLEAN
  /\ stage = "start" /\ unread = {} /\ parser = NoFile
  /\ assembly = <<>> /\ hadError = FALSE
  /\ backendCode = "RUNNING" /\ translated = <<>>

BackendReturn(code) == stage' = "returned" /\ backendCode' = code

-----------------------------------------------------------------------------
(* The VM parser *)

(* vm_parser_advance: the parsers it may leave, none where it does not     *)
(* return.  A bad line ends it before the lines are shifted, somewhere in   *)
(* the line, and so does every line after the first bad one.               *)
Advance(p) ==
  LET Shifted(line, rest) == VmParser(rest, p.next, line, p.valid)
      Stopped(rest) == VmParser(rest, p.current, p.next, FALSE)
  IN IF p.rest = <<>> THEN {Shifted(Dummy, <<>>)}
     ELSE LET line == Head(p.rest) IN
          CASE line.form = "junk" -> {}
            [] line.form = "good" /\ p.valid -> {Shifted(line, Tail(p.rest))}
            [] OTHER -> {Stopped(rest) : rest \in
                           {Tail(p.rest), p.rest, <<[line EXCEPT !.form = "junk"]>> \o Tail(p.rest)}}

Unread(lines) == VmParser(lines, Zeros, Zeros, TRUE)

(* Mutant: only one line is read. *)
InitializedOnce(lines) == Advance(Unread(lines))

(* vm_parser_init *)
Initialized(lines) ==
  UNION {IF p.valid THEN Advance(p) ELSE {p} : p \in Advance(Unread(lines))}

HasMoreLines(p) == p.next # Dummy

(* asm_code_gen_process_line: the command of a dummy is any, or none of    *)
(* those that the switch has a case for.                                   *)
Emitted(line) == IF line = Dummy THEN {<<>>, <<Dummy>>} ELSE {<<line>>}

-----------------------------------------------------------------------------
(* jackc_backend_compile *)

(* A path too long, or a file that cannot be opened. *)
Refuse ==
  /\ stage = "start"
  /\ \/ \E code \in {"SAVE_PATH_TOO_LONG", "FAILED_TO_OPEN_SAVE_FILE", "BASE_PATH_TOO_LONG"} :
          BackendReturn(code)
     \/ library = "locked" /\ BackendReturn("FAILED_TO_OPEN_STD_NATIVE")
  /\ UNCHANGED <<output, base, broken, library, unread, parser, assembly, hadError, translated>>

(* Opening a file to read it creates it when it is missing: a library that  *)
(* is missing is an empty one.                                             *)
Bootstrap ==
  /\ stage = "start" /\ library # "locked"
  /\ assembly' = IF library = "present" THEN <<Library>> ELSE <<>>
  /\ stage' = IF base = Directory THEN "open" ELSE "single"
  /\ UNCHANGED <<output, base, broken, library, unread, parser, hadError, backendCode, translated>>

OpenDirectory ==
  /\ stage = "open"
  /\ \/ unread' = DOMAIN output /\ stage' = "files" /\ UNCHANGED backendCode
     \/ BackendReturn("FAILED_TO_OPEN_SOURCE_FILE") /\ UNCHANGED unread
  /\ UNCHANGED <<output, base, broken, library, parser, assembly, hadError, translated>>

(* handle_vm_file up to its loop; a missing file is created empty. *)
OpenVmFile(name) ==
  /\ output' = IF name \in DOMAIN output THEN output ELSE Written(name, <<>>)
  /\ parser' \in Initialized(output'[name])
  /\ translated' = Append(translated, name)
  /\ stage' = "lines" /\ UNCHANGED <<backendCode, hadError>>

VmFileRefused == UNCHANGED <<output, parser, translated>>

OpenSingle ==
  /\ stage = "single"
  /\ \/ OpenVmFile(base)
     \/ BackendReturn("FAILED_TO_OPEN_SOURCE_FILE") /\ VmFileRefused /\ UNCHANGED hadError
  /\ UNCHANGED <<base, broken, library, unread, assembly>>

OpenNext ==
  /\ stage = "files"
  /\ \E name \in unread :
       /\ unread' = unread \ {name}
       /\ \/ OpenVmFile(name)
          \/ hadError' = TRUE /\ VmFileRefused /\ UNCHANGED <<stage, backendCode>>
  /\ UNCHANGED <<base, broken, library, assembly>>

(* The loop's body: the current line is translated, and the parser goes on. *)
TranslateLine ==
  /\ stage = "lines" /\ parser.next # Zeros /\ HasMoreLines(parser)
  /\ \E code \in Emitted(parser.current) : assembly' = assembly \o code
  /\ parser' \in Advance(parser)
  /\ stage' = IF parser'.valid THEN "lines" ELSE "last"
  /\ UNCHANGED <<output, base, broken, library, unread, hadError, backendCode, translated>>

(* After the loop the current line is translated, once more if the loop     *)
(* was left at a bad line.                                                 *)
TranslateLast ==
  /\ \/ stage = "last"
     \/ stage = "lines" /\ ~HasMoreLines(parser)
  /\ \E code \in Emitted(parser.current) : assembly' = assembly \o code
  /\ parser' = NoFile
  /\ stage' = IF base = Directory THEN "files" ELSE "finalize"
  /\ UNCHANGED <<output, base, broken, library, unread, hadError, backendCode, translated>>

(* vm_parser_has_more_lines asserts that a line has been read. *)
AssertLineRead ==
  /\ stage = "lines" /\ parser.next = Zeros
  /\ BackendReturn("ASSERTION_ERROR")
  /\ UNCHANGED <<output, base, broken, library, unread, parser, assembly, hadError, translated>>

EndFiles ==
  /\ stage = "files" /\ (unread = {} \/ broken)
  /\ stage' = "finalize"
  /\ UNCHANGED <<output, base, broken, library, unread, parser, assembly, hadError, backendCode, translated>>

(* vm_files_cnt counts the files that could not be read, too. *)
Finalize ==
  /\ stage = "finalize"
  /\ BackendReturn(CASE translated = <<>> /\ ~hadError -> "NO_SOURCE_FILES"
                     [] hadError -> "CODE_GEN_FAILED"
                     [] OTHER -> "OK")
  /\ UNCHANGED <<output, base, broken, library, unread, parser, assembly, hadError, translated>>

BackendNext ==
  \/ Refuse \/ Bootstrap \/ OpenDirectory \/ OpenSingle \/ OpenNext
  \/ TranslateLine \/ TranslateLast \/ AssertLineRead \/ EndFiles \/ Finalize
=============================================================================
