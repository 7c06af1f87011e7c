----------------------------- MODULE Frontend ------------------------------
(***************************************************************************)
(* The frontend's driver (jackc/compiler/frontend.c): it collects and       *)
(* parses the source files, makes the three passes over them, and writes a  *)
(* VM file for each into one directory.                                    *)
(*                                                                         *)
(* An input path is an entry as in FileUtils, or of kind null.  A source     *)
(* file is an entry with                                                   *)
(*   name, class    the file's name without extension; its class           *)
(*   parse          sound; recovered (errors, but an AST); failed (no AST); *)
(*                  unreadable; endless (the parser does not return)        *)
(*   valid          the semantic pass reports nothing inside the class      *)
(*   main           the class has a subroutine main                        *)
(*   lines          how many VM lines it is compiled to                    *)
(***************************************************************************)
EXTENDS FileUtils

VARIABLES disk,             (* the directories: the entries of each          *)
          paths,            (* input_dir_paths, those still to take          *)
          iter,             (* the directory iterator, Closed between paths   *)
          sources,          (* source_files, the last one found first         *)
          syntaxError, failedToOpen,   (* frontend_errors                    *)
          pass,             (* what the driver does next                     *)
          ungenerated,      (* the files that generate_vm_code has not taken  *)
          genError,         (* had_error of generate_vm_code                 *)
          frontendCode,     (* what the frontend returned                    *)
          found,            (* history: the source files met, in order       *)
          written           (* history: the names of the VM files written    *)

frontendVars == <<disk, paths, iter, sources, syntaxError, failedToOpen, pass,
                  ungenerated, genError, frontendCode, output, found, written>>

Running == "RUNNING"

(* The disk, the paths and the output are the environment's. *)
FrontendInit ==
  /\ iter = Closed /\ sources = <<>> /\ found = <<>> /\ written = <<>>
  /\ ungenerated = <<>>
  /\ syntaxError = FALSE /\ failedToOpen = FALSE /\ genError = FALSE
  /\ pass = "collect" /\ frontendCode = Running

Return(code) == pass' = "returned" /\ frontendCode' = code

Goto(next) == pass' = next /\ UNCHANGED frontendCode

-----------------------------------------------------------------------------
(* Collecting the source files *)

(* Mutant: the last file's errors stand for those of all. *)
HandleSourceLastError(source) ==
  /\ found' = Append(found, source)
  /\ failedToOpen' = (failedToOpen \/ source.parse = "unreadable")
  /\ syntaxError' = (source.parse \in {"recovered", "failed"})
  /\ sources' = IF source.parse \in {"sound", "recovered"}
                THEN <<source>> \o sources ELSE sources
  /\ pass' = IF source.parse = "endless" THEN "parsing" ELSE pass

(* handle_source_file. It is not over while a file is being parsed, and the  *)
(* driver takes no further step when that does not end.                     *)
HandleSource(source) ==
  /\ found' = Append(found, source)
  /\ failedToOpen' = (failedToOpen \/ source.parse = "unreadable")
  /\ syntaxError' = (syntaxError \/ source.parse \in {"recovered", "failed"})
  /\ sources' = IF source.parse \in {"sound", "recovered"}
                THEN <<source>> \o sources ELSE sources
  /\ pass' = IF source.parse = "endless" THEN "parsing" ELSE pass

NoSource == UNCHANGED <<found, failedToOpen, syntaxError, sources, pass>>

Collecting ==
  /\ pass = "collect"
  /\ UNCHANGED <<disk, ungenerated, genError, frontendCode, output, written>>

(* A null path, or a directory that cannot be opened, is passed over. *)
SkipPath ==
  /\ Collecting /\ iter = Closed /\ paths # <<>>
  /\ Head(paths).kind \in {"null", "locked", "dangling"}
  /\ paths' = Tail(paths)
  /\ NoSource /\ UNCHANGED iter

SourcePath ==
  /\ Collecting /\ iter = Closed /\ paths # <<>> /\ Head(paths).kind = "file"
  /\ HandleSource(Head(paths))
  /\ paths' = Tail(paths) /\ UNCHANGED iter

OpenPath ==
  /\ Collecting /\ iter = Closed /\ paths # <<>> /\ Head(paths).kind = "dir"
  /\ iter' = Create(disk[Head(paths).dir])
  /\ paths' = Tail(paths) /\ NoSource

ReadEntry ==
  /\ Collecting /\ iter # Closed /\ UNCHANGED paths
  /\ \E entry \in Remaining(iter) :
       IF EndsWalk(iter, entry) THEN iter' = Closed /\ NoSource
       ELSE /\ iter' = Past(iter, entry, disk)
            /\ IF HandsOut(entry, "jack") THEN HandleSource(entry) ELSE NoSource

LeaveDir ==
  /\ Collecting /\ iter # Closed /\ Remaining(iter) = {}
  /\ iter' = Leave(iter)
  /\ NoSource /\ UNCHANGED paths

EndCollect ==
  /\ pass = "collect" /\ iter = Closed /\ paths = <<>>
  /\ CASE syntaxError -> Return("SYNTAX_ERROR")
       [] ~syntaxError /\ sources = <<>> -> Return("NO_SOURCE_FILES")
       [] ~syntaxError /\ sources # <<>> /\ failedToOpen -> Return("FAILED_TO_OPEN_SOURCE_FILE")
       [] OTHER -> Goto("registry")
  /\ UNCHANGED <<disk, paths, iter, sources, syntaxError, failedToOpen, ungenerated,
                 genError, output, found, written>>

-----------------------------------------------------------------------------
(* The three passes *)

ClassesDistinct ==
  \A i, j \in DOMAIN sources : sources[i].class = sources[j].class => i = j

BuildRegistry ==
  /\ pass = "registry"
  /\ IF ClassesDistinct THEN Goto("semantic") ELSE Return("SYMBOL_TABLE_BUILD_ERROR")
  /\ UNCHANGED <<disk, paths, iter, sources, syntaxError, failedToOpen, ungenerated,
                 genError, output, found, written>>

(* Mutant: a class may be in a file of any name. *)
IsSemanticallyInvalidAnyFile ==
  \/ \E i \in DOMAIN sources : ~sources[i].valid
  \/ ~\E i \in DOMAIN sources : sources[i].class = "Main" /\ sources[i].main

IsSemanticallyInvalid ==
  \/ \E i \in DOMAIN sources : ~sources[i].valid \/ sources[i].class # sources[i].name
  \/ ~\E i \in DOMAIN sources : sources[i].class = "Main" /\ sources[i].main

CheckSemantics ==
  /\ pass = "semantic"
  /\ IF IsSemanticallyInvalid
     THEN Return("SEMANTICALLY_INVALID") /\ UNCHANGED ungenerated
     ELSE Goto("generate") /\ ungenerated' = sources
  /\ UNCHANGED <<disk, paths, iter, sources, syntaxError, failedToOpen, genError,
                 output, found, written>>

Compiled(source) == [n \in 1..source.lines |-> [of |-> source.class, n |-> n, form |-> "good"]]

(* Mutant: a file that is generated clears the error of another. *)
GenerateFileClearsError ==
  /\ pass = "generate" /\ ungenerated # <<>>
  /\ LET source == Head(ungenerated) IN
       \/ /\ output' = Written(source.name, Compiled(source))
          /\ written' = Append(written, source.name)
          /\ genError' = FALSE
       \/ /\ genError' = TRUE
          /\ UNCHANGED <<output, written>>
  /\ ungenerated' = Tail(ungenerated)
  /\ UNCHANGED <<disk, paths, iter, sources, syntaxError, failedToOpen, pass,
                 frontendCode, found>>

(* Directories are flattened: the file's name alone makes the output's.     *)
(* Opening may fail, and the others are generated all the same. The error    *)
(* that a body may record (ctx.had_error) is left out: what the semantic     *)
(* pass accepts is emitted without one (AcceptedIsEmitted of Bodies).       *)
GenerateFile ==
  /\ pass = "generate" /\ ungenerated # <<>>
  /\ LET source == Head(ungenerated) IN
       \/ /\ output' = Written(source.name, Compiled(source))
          /\ written' = Append(written, source.name)
          /\ UNCHANGED genError
       \/ /\ genError' = TRUE
          /\ UNCHANGED <<output, written>>
  /\ ungenerated' = Tail(ungenerated)
  /\ UNCHANGED <<disk, paths, iter, sources, syntaxError, failedToOpen, pass,
                 frontendCode, found>>

EndGenerate ==
  /\ pass = "generate" /\ ungenerated = <<>>
  /\ Return(IF genError THEN "FAILED_TO_GENERATE_VM_CODE" ELSE "OK")
  /\ UNCHANGED <<disk, paths, iter, sources, syntaxError, failedToOpen, ungenerated,
                 genError, output, found, written>>

FrontendNext ==
  \/ SkipPath \/ SourcePath \/ OpenPath \/ ReadEntry \/ LeaveDir \/ EndCollect
  \/ BuildRegistry \/ CheckSemantics \/ GenerateFile \/ EndGenerate
=============================================================================
