------------------------------- MODULE Jackc -------------------------------
(***************************************************************************)
(* The tools (the three main.c): jackc is the frontend and, when it returns *)
(* OK, the backend over the directory that the frontend wrote to;           *)
(* jackc_frontend and jackc_backend are one of them alone, the backend over *)
(* a directory or a VM file.                                               *)
(***************************************************************************)
EXTENDS Frontend, Backend, SequencesExt

CONSTANTS Calls   (* what the tools are called with: the tool, the directories *)
                  (* of the disk, the input paths, the VM files that the    *)
                  (* output directory has already, the backend's base path  *)

(* What a call lets the tools meet, on the disk or as an input path. *)
Entries(call) == Range(call.paths) \cup UNION Range(call.disk)

(* What parsing comes to is told of the files that are parsed: those handed  *)
(* out by the iterator, and the paths, whatever their extension.            *)
ASSUME JackcAssumption ==
  \A call \in Calls :
    /\ call.tool \in {"jackc", "frontend", "backend"}
    /\ \A name \in DOMAIN call.output : call.output[name] \in Seq(Lines)
    /\ call.paths \in Seq(Range(call.paths))
    /\ \A entry \in Entries(call) :
         /\ entry.kind = "dir" => entry.dir \in DOMAIN call.disk
         /\ entry.kind = "file" /\ (entry.ext = "jack" \/ entry \in Range(call.paths))
              => /\ entry.parse \in {"sound", "recovered", "failed", "unreadable", "endless"}
                 /\ entry.class \in STRING /\ entry.lines \in Nat

VARIABLES tool, exitCode

vars == <<frontendVars, backendVars, tool, exitCode>>

Init ==
  /\ FrontendInit /\ BackendInit
  /\ \E call \in Calls : /\ tool = call.tool /\ disk = call.disk /\ paths = call.paths
                         /\ output = call.output /\ base = call.base
  /\ exitCode = "RUNNING"

Compile ==
  /\ tool # "backend" /\ FrontendNext
  /\ UNCHANGED <<backendVars, tool, exitCode>>

FrontendExits ==
  /\ exitCode = "RUNNING" /\ frontendCode # "RUNNING"
  /\ tool = "frontend" \/ frontendCode # "OK"
  /\ exitCode' = frontendCode
  /\ UNCHANGED <<frontendVars, backendVars, tool>>

(* The frontend's variables other than output are left alone. *)
Translate ==
  /\ tool = "backend" \/ (tool = "jackc" /\ frontendCode = "OK")
  /\ BackendNext
  /\ UNCHANGED <<disk, paths, iter, sources, syntaxError, failedToOpen, pass, ungenerated,
                 genError, frontendCode, found, written, tool, exitCode>>

BackendExits ==
  /\ exitCode = "RUNNING" /\ backendCode # "RUNNING"
  /\ exitCode' = backendCode
  /\ UNCHANGED <<frontendVars, backendVars, tool>>

Next == Compile \/ FrontendExits \/ Translate \/ BackendExits

Spec == Init /\ [][Next]_vars

(* Nothing runs beside the tools: they go on until they exit. *)
FairSpec == Spec /\ WF_vars(Next)

-----------------------------------------------------------------------------
(* Directories are flattened for the output, yet no file is overwritten by  *)
(* another source of the same compilation: the registry wants classes that  *)
(* differ and the semantic pass wants files named for them                  *)
(* (frontend.c:146-153).                                                   *)
OneSourcePerOutput == IsInjective(written)

(* Nothing is written, and the backend not started, unless every source     *)
(* file that was met could be read, parsed without an error and checked.    *)
WritesOnlySoundPrograms ==
  written # <<>> \/ frontendCode = "OK" =>
    \A i \in DOMAIN found : found[i].parse = "sound" /\ found[i].valid

(* Whatever the order in which sources are found, added and generated: when *)
(* the frontend returns OK, the output of every source file it met is what   *)
(* that file compiles to.                                                  *)
OkCompilesWhatWasFound ==
  frontendCode = "OK" /\ stage = "start" =>
    \A i \in DOMAIN found : /\ found[i].name \in DOMAIN output
                            /\ output[found[i].name] = Compiled(found[i])

(* The lines of VM files as the frontend writes them, of classes with a      *)
(* subroutine, are translated once each, in order, file by file, although    *)
(* the VM parser is a line ahead and the last line is translated behind the  *)
(* loop (backend.c:27-36); and no file is left out.                         *)
WellFormed(lines) == lines # <<>> /\ \A i \in DOMAIN lines : lines[i].form = "good"

Preamble == IF library = "present" THEN <<Library>> ELSE <<>>

TranslatesEveryLine ==
  backendCode = "OK" /\ (\A name \in DOMAIN output : WellFormed(output[name])) =>
    /\ assembly = Preamble \o FlattenSeq([i \in DOMAIN translated |-> output[translated[i]]])
    /\ IsInjective(translated)
    /\ base = Directory /\ ~broken => ToSet(translated) = DOMAIN output

(* A call ends, in spite of directories that contain themselves and of       *)
(* whatever fails, provided that parsing each source file that it meets       *)
(* returns, and that no VM file has a line that the VM parser cannot get      *)
(* past. Neither can be left out: the parser of compiler_parser_internal.c    *)
(* stays in its loop on some erroneous files (VariablesReturn of Parser).     *)
AllGood == \A name \in DOMAIN output : \A i \in DOMAIN output[name] : output[name][i].form = "good"

ParsingReturns == \A i \in DOMAIN found : found[i].parse # "endless"

Exits == AllGood => <>(exitCode # "RUNNING" \/ ~ParsingReturns)

=============================================================================
