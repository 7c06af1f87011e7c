----------------------------- MODULE FileUtils -----------------------------
(***************************************************************************)
(* What the drivers do with files (jackc/core/file-utils).                  *)
(*                                                                         *)
(* jackc_dir_iterator is a walk over a directory and those below it: the    *)
(* stack of the directories that are open, each as the entries that readdir *)
(* has still to return, in whatever order; the last one is looked at.      *)
(*                                                                         *)
(* An entry is a record with a kind:                                       *)
(*   file       with its extension, ext, and what the reader knows of it    *)
(*   dir        with its name, dir (a link may lead to a directory above)   *)
(*   locked     a directory that opendir refuses                           *)
(*   dangling   an entry that stat refuses, such as a link to nothing       *)
(*                                                                         *)
(* The frontend writes VM files to the output directory, and the backend    *)
(* reads them: by name, the lines that the VM parser finds in a file.  A    *)
(* line is good; bad, when parsing it sets the parser's status; or junk,    *)
(* when it starts with a character that neither starts a word nor is        *)
(* skipped.                                                                *)
(***************************************************************************)
EXTENDS Integers, Sequences

CONSTANTS MaxDirDepth   (* MAX_DIR_DEPTH                                     *)

ASSUME DirIteratorAssumption == MaxDirDepth \in Nat \ {0}

Closed == <<>>

Create(entries) == <<entries>>

Remaining(iter) == iter[Len(iter)]

Without(iter, entry) == [iter EXCEPT ![Len(iter)] = @ \ {entry}]

(* Entries that end the walk, whatever is still to be visited. *)
EndsWalk(iter, entry) ==
  \/ entry.kind = "dangling"
  \/ entry.kind \in {"dir", "locked"} /\ Len(iter) = MaxDirDepth

HandsOut(entry, extension) == entry.kind = "file" /\ entry.ext = extension

(* The walk goes on behind the entry, or inside it. *)
Past(iter, entry, disk) ==
  IF entry.kind = "dir" THEN Append(Without(iter, entry), disk[entry.dir])
                        ELSE Without(iter, entry)

(* Mutant: the stack is not popped. *)
LeaveStays(iter) == IF Len(iter) = 1 THEN Closed ELSE iter

(* The last directory has no entries left: on with the one above it.  The   *)
(* walk is Closed when there is none (FILE_EXHAUSTED_DIR).                  *)
Leave(iter) == SubSeq(iter, 1, Len(iter) - 1)

VARIABLE output         (* the VM files                                      *)

Lines == [of : STRING, n : Nat, form : {"good", "bad", "junk"}]

(* A file that is opened to be written is emptied first, if it exists. *)
Written(name, lines) ==
  [f \in DOMAIN output \cup {name} |-> IF f = name THEN lines ELSE output[f]]
=============================================================================
