------------------------------ MODULE MCJackc ------------------------------
(***************************************************************************)
(* Small source trees for Jackc: a library directory, a source directory     *)
(* and one below it.                                                       *)
(***************************************************************************)
EXTENDS Jackc

File(name, class, parse, valid, lines) ==
  [kind |-> "file", ext |-> "jack", name |-> name, class |-> class, parse |-> parse,
   valid |-> valid, main |-> class = "Main", lines |-> lines]

Sound(name, lines) == File(name, name, "sound", TRUE, lines)

Main == Sound("Main", 2)
Sys == Sound("Sys", 1)

(* One file with each of the mistakes a driver has to deal with, and two    *)
(* files and two classes of the same name.                                 *)
Others ==
  {Sound("A", 3), Sound("A", 0), File("A", "A", "recovered", TRUE, 1), File("A", "A", "failed", TRUE, 1),
   File("A", "A", "unreadable", TRUE, 1), File("A", "A", "endless", TRUE, 1), File("A", "A", "sound", FALSE, 1),
   File("Main", "B", "sound", TRUE, 1), File("B", "Main", "sound", TRUE, 1), Main,
   [kind |-> "file", ext |-> "txt", name |-> "A"]}

Dangling == [kind |-> "dangling"]
Locked == [kind |-> "locked"]
Dir(dir) == [kind |-> "dir", dir |-> dir]

Tree(lib, src, sub) == [d \in {"lib", "src", "sub"} |->
                          CASE d = "lib" -> lib [] d = "src" -> src [] OTHER -> sub]

(* Two files beside Main, or one that is all there is; links to nothing, to  *)
(* the directory above, and directories that cannot be opened.              *)
Trees ==
  {Tree({Sys}, {Main, Dir("sub")} \cup {f}, {g}) : f \in Others, g \in Others}
  \cup {Tree({f}, {}, {}) : f \in Others}
  \cup {Tree({Sys}, {Main, Dir("sub"), l}, {Sound("A", 1), m}) :
          l \in {Dangling, Locked, Dir("src")}, m \in {Dangling, Locked, Dir("src")}}

Paths == {<<Dir("lib"), Dir("src")>>, <<[kind |-> "null"], Dir("src")>>, <<Locked, Main>>}

Line(of, n, form) == [of |-> of, n |-> n, form |-> form]

Left(lines) == [name \in {"A", "Old"} |-> IF name = "Old" THEN lines ELSE <<Line("A", 7, "good")>>]

(* What earlier compilations, or another program, left in the directory. *)
Leftover ==
  {[name \in {} |-> <<>>], Left(<<>>), Left(<<Line("Old", 1, "good"), Line("Old", 2, "good")>>),
   Left(<<Line("Old", 1, "good"), Line("Old", 2, "bad"), Line("Old", 3, "good")>>),
   Left(<<Line("Old", 1, "good"), Line("Old", 2, "good"), Line("Old", 3, "bad"), Line("Old", 4, "good")>>),
   Left(<<Line("Old", 1, "bad"), Line("Old", 2, "good")>>),
   Left(<<Line("Old", 1, "good"), Line("Old", 2, "junk")>>)}

Call(which, tree, given, files, from) ==
  [tool |-> which, disk |-> tree, paths |-> given, output |-> files, base |-> from]

Empty == [name \in {} |-> <<>>]

SmallCalls ==
  {Call("jackc", tree, p, Empty, Directory) : tree \in Trees, p \in Paths}
  \cup {Call("jackc", Tree({Sys}, {Main}, {}), <<Dir("lib"), Dir("src")>>, files, Directory) : files \in Leftover}
  \cup {Call("frontend", Tree({Sys}, {Main, f}, {}), <<Dir("src"), Dir("lib")>>, Empty, Directory) : f \in Others}
  \cup {Call("backend", Tree({}, {}, {}), <<>>, files, b) : files \in Leftover, b \in {Directory, "Old"}}
=============================================================================
