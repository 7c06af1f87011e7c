---------------------------- MODULE JackcProofs ----------------------------
(***************************************************************************)
(* Proofs about the tools, for every disk, every list of input paths and     *)
(* everything the output directory may hold.                                *)
(***************************************************************************)
EXTENDS Jackc, SequenceTheorems, WellFoundedInduction, TLAPS

-----------------------------------------------------------------------------
(* The frontend's part of the inductive invariant *)

Parses == {"sound", "recovered", "failed", "unreadable", "endless"}

OnDisk == UNION Range(disk)

AllEntries == UNION {Entries(call) : call \in Calls}

FileNames == {entry.name : entry \in {e \in AllEntries : e.kind = "file"}}

ParsedFile(entry) ==
  entry.kind = "file" /\ entry.parse \in Parses /\ entry.class \in STRING /\ entry.lines \in Nat

(* What is still to be met is on the disk. *)
InputsSound ==
  /\ paths \in Seq(AllEntries) /\ OnDisk \subseteq AllEntries
  /\ iter \in Seq(SUBSET OnDisk)
  /\ \A entry \in OnDisk : /\ entry.kind = "dir" => entry.dir \in DOMAIN disk
                           /\ HandsOut(entry, "jack") => ParsedFile(entry)
  /\ \A i \in DOMAIN paths : /\ paths[i].kind = "dir" => paths[i].dir \in DOMAIN disk
                             /\ paths[i].kind = "file" => ParsedFile(paths[i])

(* A file that was met is kept, or its error is, or it is still parsed. *)
NothingForgotten ==
  /\ found \in Seq(AllEntries) /\ sources \in Seq(AllEntries)
  /\ \A i \in DOMAIN found :
       /\ ParsedFile(found[i])
       /\ found[i].parse \in {"sound", "recovered"} => \E j \in DOMAIN sources : sources[j] = found[i]
       /\ found[i].parse \in {"recovered", "failed"} => syntaxError
       /\ found[i].parse = "unreadable" => failedToOpen
       /\ found[i].parse = "endless" => pass = "parsing"
  /\ \A j \in DOMAIN sources : ParsedFile(sources[j])

HasGenerated == frontendCode \in {"OK", "FAILED_TO_GENERATE_VM_CODE"}

PassesInOrder ==
  /\ pass = "returned" <=> frontendCode # Running
  /\ pass \in {"registry", "semantic", "generate"} \/ HasGenerated => ~syntaxError /\ ~failedToOpen
  /\ pass \in {"semantic", "generate"} \/ HasGenerated => ClassesDistinct
  /\ pass = "generate" \/ HasGenerated => ~IsSemanticallyInvalid

(* generate_vm_code has taken the sources up to this one. *)
Taken == Len(sources) - Len(ungenerated)

GeneratedSoFar ==
  /\ pass = "generate" \/ HasGenerated =>
       /\ ungenerated \in Seq(AllEntries) /\ Taken \in 0..Len(sources)
       /\ \A i \in DOMAIN ungenerated : ungenerated[i] = sources[Taken + i]
       /\ \A i \in DOMAIN written : \E j \in 1..Taken : written[i] = sources[j].name
       /\ stage = "start" /\ ~genError =>
            \A j \in 1..Taken : /\ sources[j].name \in DOMAIN output
                                /\ output[sources[j].name] = Compiled(sources[j])
  /\ pass = "generate" \/ HasGenerated \/ (written = <<>> /\ ~genError)
  /\ written \in Seq(FileNames) /\ IsInjective(written)
  /\ frontendCode = "OK" => ~genError /\ ungenerated = <<>>

BackendWaits ==
  /\ tool \in {"jackc", "frontend", "backend"}
  /\ stage # "start" => tool = "backend" \/ frontendCode = "OK"
  /\ tool = "backend" => frontendCode = Running /\ pass = "collect"

FrontendInv ==
  InputsSound /\ NothingForgotten /\ PassesInOrder /\ GeneratedSoFar /\ BackendWaits

-----------------------------------------------------------------------------
(* The backend's part *)

AllWellFormed == \A name \in DOMAIN output : WellFormed(output[name])

TextOf(names) == FlattenSeq([i \in DOMAIN names |-> output[names[i]]])

(* The parser of a well-formed file of which k - 1 lines are translated. *)
LookingAhead(lines, k) ==
  VmParser(SubSeq(lines, k + 2, Len(lines)), lines[k],
           IF k < Len(lines) THEN lines[k + 1] ELSE Dummy, TRUE)

InsideFile ==
  LET open  == translated[Len(translated)]
      lines == output[open]
  IN /\ translated # <<>>
     /\ \E k \in 1..Len(lines) :
          /\ parser = LookingAhead(lines, k)
          /\ assembly = Preamble \o TextOf(SubSeq(translated, 1, Len(translated) - 1))
                                 \o SubSeq(lines, 1, k - 1)

TextSound ==
  /\ \A name \in DOMAIN output : output[name] \in Seq(Lines)
  /\ stage = "start" => assembly = <<>>
  /\ stage \in {"open", "single"} => assembly = Preamble
  /\ AllWellFormed => /\ stage # "last"
                      /\ stage = "lines" => InsideFile
                      /\ stage \in {"files", "finalize"} \/ backendCode = "OK" =>
                           assembly = Preamble \o TextOf(translated)

FilesSound ==
  /\ translated \in Seq(DOMAIN output) /\ IsInjective(translated)
  /\ \A i \in DOMAIN translated : translated[i] \notin unread
  /\ unread \subseteq DOMAIN output
  /\ stage \in {"start", "open", "single"} => translated = <<>> /\ unread = {} /\ ~hadError
  /\ stage = "returned" <=> backendCode # "RUNNING"
  /\ stage \in {"open", "files"} => base = Directory
  /\ stage = "single" => base # Directory
  /\ backendCode = "OK" => ~hadError
  /\ base = Directory /\ (stage \in {"files", "lines", "last", "finalize"} \/ backendCode = "OK") =>
       \/ hadError
       \/ /\ ToSet(translated) \cup unread = DOMAIN output
          /\ stage = "finalize" \/ backendCode = "OK" => broken \/ unread = {}

BackendInv == TextSound /\ FilesSound

IInv == FrontendInv /\ BackendInv

-----------------------------------------------------------------------------
(* Induction and definition by recursion, stated of sets and functions: the theorems   *)
(* of the library take an operator.                                         *)

(* A set that holds 0, and the successor of every number it holds, holds      *)
(* every number.                                                            *)
LEMMA SetInduction ==
  ASSUME NEW S, 0 \in S, \A n \in Nat : n \in S => n + 1 \in S
  PROVE  Nat \subseteq S
<1> DEFINE T == Nat \ S
<1>1. SUFFICES ASSUME T # {} PROVE FALSE
  OBVIOUS
<1>2. PICK x \in T : \A y \in T : ~ (<<y, x>> \in OpToRel(<, Nat))
  BY <1>1, WFMin, NatLessThanWellFounded
<1>3. \A y \in T : ~ (y < x)
  BY <1>2 DEF OpToRel
<1>4. x # 0 /\ x \in Nat /\ x \notin S
  OBVIOUS
<1>5. x - 1 \in Nat /\ x - 1 < x /\ (x - 1) + 1 = x
  BY <1>4
<1>6. x - 1 \in S
  BY <1>3, <1>5
<1>7. x \in S
  BY <1>5, <1>6
<1> QED
  BY <1>4, <1>7

(* f is defined by recursion on its argument: from x0, by the step G. *)
IsRecursion(f, X, x0, n, G) ==
  f \in [0..n -> X] /\ f[0] = x0 /\ \A i \in 1..n : f[i] = G[<<i, f[i - 1]>>]

(* There is a function for every such definition. *)
LEMMA RecursionExists ==
  ASSUME NEW X, NEW x0 \in X, NEW n \in Nat, NEW G \in [(1..n) \X X -> X]
  PROVE  \E f : IsRecursion(f, X, x0, n, G)
<1> DEFINE Upto(m) == \E f \in [0..m -> X] : f[0] = x0 /\ \A i \in 1..m : f[i] = G[<<i, f[i - 1]>>]
           S == {m \in Nat : m <= n => Upto(m)}
<1>1. 0 \in S
  <2> DEFINE f == [i \in 0..0 |-> x0]
  <2>1. f \in [0..0 -> X] /\ f[0] = x0 /\ 1..0 = {}
    OBVIOUS
  <2> QED
    BY <2>1
<1>2. ASSUME NEW m \in Nat, m \in S PROVE m + 1 \in S
  <2>1. SUFFICES ASSUME m + 1 <= n PROVE Upto(m + 1)
    OBVIOUS
  <2>2. PICK f \in [0..m -> X] : f[0] = x0 /\ \A i \in 1..m : f[i] = G[<<i, f[i - 1]>>]
    BY <1>2, <2>1
  <2> DEFINE g == [i \in 0..m + 1 |-> IF i = m + 1 THEN G[<<m + 1, f[m]>>] ELSE f[i]]
  <2>3. g \in [0..m + 1 -> X]
    BY <2>1, <2>2
  <2>4. \A i \in 0..m : g[i] = f[i]
    OBVIOUS
  <2>5. g[m + 1] = G[<<m + 1, f[m]>>]
    OBVIOUS
  <2> HIDE DEF g
  <2>6. ASSUME NEW i \in 1..m + 1 PROVE g[i] = G[<<i, g[i - 1]>>]
    <3>1. CASE i = m + 1
      BY <3>1, <2>4, <2>5
    <3>2. CASE i # m + 1
      BY <3>2, <2>2, <2>4
    <3> QED
      BY <3>1, <3>2
  <2> QED
    BY <2>2, <2>3, <2>4, <2>6
<1> HIDE DEF S
<1>3. n \in S
  BY <1>1, <1>2, SetInduction
<1>4. PICK h \in [0..n -> X] : h[0] = x0 /\ \A i \in 1..n : h[i] = G[<<i, h[i - 1]>>]
  BY <1>3 DEF S
<1>5. IsRecursion(h, X, x0, n, G)
  BY <1>4 DEF IsRecursion
<1> QED
  BY <1>5

-----------------------------------------------------------------------------
(* Concatenating a sequence of sequences *)

(* The function of FlattenSeq, of a sequence that is not empty. *)
Flattened(ss) ==
  CHOOSE f : f = [i \in 1..Len(ss) |-> IF i = 1 THEN ss[i] ELSE f[i - 1] \o ss[i]]

(* FlattenSeq applies a function that its definition does define. *)
LEMMA FlattenDefined ==
  ASSUME NEW E, NEW ss \in Seq(Seq(E)), ss # <<>>
  PROVE  /\ FlattenSeq(ss) = Flattened(ss)[Len(ss)]
         /\ \A i \in 1..Len(ss) :
              Flattened(ss)[i] = IF i = 1 THEN ss[i] ELSE Flattened(ss)[i - 1] \o ss[i]
<1>0. Len(ss) \in Nat
  BY EmptySeq
<1>1. Len(ss) \in Nat \ {0} /\ \A i \in 1..Len(ss) : ss[i] \in Seq(E)
  BY EmptySeq, ElementOfSeq
<1> DEFINE H == [p \in (1..Len(ss)) \X Seq(E) |-> IF p[1] = 1 THEN ss[p[1]] ELSE p[2] \o ss[p[1]]]
<1>2. H \in [(1..Len(ss)) \X Seq(E) -> Seq(E)]
  BY <1>1, ConcatProperties
<1>3. \A i \in 1..Len(ss), s \in Seq(E) : H[<<i, s>>] = IF i = 1 THEN ss[i] ELSE s \o ss[i]
  OBVIOUS
<1>4. <<>> \in Seq(E)
  BY EmptySeq
<1> HIDE DEF H
<1> DEFINE len == Len(ss)
           Y == Seq(E)
           none == <<>>
<1>a. len \in Nat /\ none \in Y /\ H \in [(1..len) \X Y -> Y]
  BY <1>0, <1>2, <1>4
<1> HIDE DEF len, Y, none
<1>b. PICK f : IsRecursion(f, Y, none, len, H)
  BY <1>a, RecursionExists
<1>5. f \in [0..Len(ss) -> Seq(E)] /\ \A i \in 1..Len(ss) : f[i] = H[<<i, f[i - 1]>>]
  BY <1>b DEF IsRecursion, len, Y
<1> DEFINE g == [i \in 1..Len(ss) |-> f[i]]
<1>6. g = [i \in 1..Len(ss) |-> IF i = 1 THEN ss[i] ELSE g[i - 1] \o ss[i]]
  <2>1. ASSUME NEW i \in 1..Len(ss) PROVE f[i] = IF i = 1 THEN ss[i] ELSE f[i - 1] \o ss[i]
    <3>1. i - 1 \in 0..Len(ss)
      BY <1>1
    <3>2. f[i - 1] \in Seq(E)
      BY <3>1, <1>5
    <3> QED
      BY <1>3, <1>5, <3>2
  <2>2. ASSUME NEW i \in 1..Len(ss), i # 1 PROVE g[i - 1] = f[i - 1]
    BY <1>1, <2>2
  <2> HIDE DEF g
  <2>3. \A i \in 1..Len(ss) : (IF i = 1 THEN ss[i] ELSE g[i - 1] \o ss[i]) = f[i]
    BY <2>1, <2>2
  <2> QED
    BY <2>3 DEF g
<1> HIDE DEF g
<1>7. Flattened(ss) = [i \in 1..Len(ss) |-> IF i = 1 THEN ss[i] ELSE Flattened(ss)[i - 1] \o ss[i]]
  BY <1>6 DEF Flattened
<1>8. FlattenSeq(ss) = Flattened(ss)[Len(ss)]
  BY <1>1 DEF FlattenSeq, Flattened
<1>9. ASSUME NEW i \in 1..Len(ss)
      PROVE  Flattened(ss)[i] = IF i = 1 THEN ss[i] ELSE Flattened(ss)[i - 1] \o ss[i]
  BY <1>7
<1> QED
  BY <1>8, <1>9
(* FlattenSeq of one sequence more is what it was, and that sequence. *)
LEMMA FlattenStep ==
  ASSUME NEW E, NEW ss \in Seq(Seq(E)), NEW s \in Seq(E)
  PROVE  FlattenSeq(ss) \in Seq(E) /\ FlattenSeq(Append(ss, s)) = FlattenSeq(ss) \o s
<1> DEFINE m == Len(ss)
           tt == Append(ss, s)
<1>1. m \in Nat /\ \A i \in 1..m : ss[i] \in Seq(E)
  BY EmptySeq, ElementOfSeq
<1>2. tt \in Seq(Seq(E)) /\ tt # <<>> /\ Len(tt) = m + 1 /\ tt[m + 1] = s
      /\ \A i \in 1..m : tt[i] = ss[i]
  BY AppendProperties
<1> HIDE DEF tt
<1>3. /\ FlattenSeq(tt) = Flattened(tt)[m + 1]
      /\ \A i \in 1..m + 1 : Flattened(tt)[i] = IF i = 1 THEN tt[i] ELSE Flattened(tt)[i - 1] \o tt[i]
  BY <1>2, FlattenDefined
<1>4. CASE ss = <<>>
  <2>1. m = 0
    BY <1>4
  <2>2. FlattenSeq(tt) = s
    BY <1>1, <1>2, <1>3, <2>1
  <2>3. FlattenSeq(ss) = <<>> /\ <<>> \in Seq(E)
    BY <1>4, <2>1, EmptySeq DEF FlattenSeq
  <2> QED
    BY <2>2, <2>3, ConcatEmptySeq DEF tt
<1>5. CASE ss # <<>>
  <2>1. m # 0
    BY <1>5, EmptySeq
  <2>2. /\ FlattenSeq(ss) = Flattened(ss)[m]
        /\ \A i \in 1..m : Flattened(ss)[i] = IF i = 1 THEN ss[i] ELSE Flattened(ss)[i - 1] \o ss[i]
    BY <1>5, FlattenDefined
  <2> DEFINE S == {i \in Nat : i + 1 \in 1..m => /\ Flattened(ss)[i + 1] = Flattened(tt)[i + 1]
                                              /\ Flattened(ss)[i + 1] \in Seq(E)}
  <2>3. 0 \in S
    BY <1>1, <1>2, <1>3, <2>1, <2>2
  <2>4. ASSUME NEW i \in Nat, i \in S PROVE i + 1 \in S
    <3>1. SUFFICES ASSUME i + 2 \in 1..m
                   PROVE  /\ Flattened(ss)[i + 2] = Flattened(tt)[i + 2]
                          /\ Flattened(ss)[i + 2] \in Seq(E)
      OBVIOUS
    <3>2. /\ i + 1 \in 1..m /\ i + 2 \in 1..m + 1 /\ i + 2 # 1 /\ (i + 2) - 1 = i + 1
      BY <1>1, <3>1
    <3>3. Flattened(ss)[i + 1] = Flattened(tt)[i + 1] /\ Flattened(ss)[i + 1] \in Seq(E)
      BY <2>4, <3>2
    <3>4. Flattened(ss)[i + 2] = Flattened(ss)[i + 1] \o ss[i + 2]
      BY <2>2, <3>1, <3>2
    <3>5. Flattened(tt)[i + 2] = Flattened(tt)[i + 1] \o tt[i + 2]
      BY <1>3, <3>2
    <3>6. tt[i + 2] = ss[i + 2] /\ ss[i + 2] \in Seq(E)
      BY <1>1, <1>2, <3>1
    <3> QED
      BY <3>3, <3>4, <3>5, <3>6, ConcatProperties
  <2> HIDE DEF S
  <2>5. Nat \subseteq S
    BY <2>3, <2>4, SetInduction
  <2>6. m - 1 \in Nat /\ (m - 1) + 1 = m /\ m \in 1..m
    BY <1>1, <2>1
  <2>7. Flattened(ss)[m] = Flattened(tt)[m] /\ Flattened(ss)[m] \in Seq(E)
    BY <2>5, <2>6 DEF S
  <2>8. FlattenSeq(tt) = Flattened(tt)[m] \o s
    <3>1. m + 1 \in 1..m + 1 /\ m + 1 # 1 /\ (m + 1) - 1 = m
      BY <1>1, <2>1
    <3> QED
      BY <1>2, <1>3, <3>1
  <2> QED
    BY <2>2, <2>7, <2>8 DEF tt
<1> QED
  BY <1>4, <1>5

-----------------------------------------------------------------------------
(* Initial states *)

LEMMA InitFrontend == Init => FrontendInv
<1> SUFFICES ASSUME Init PROVE FrontendInv
  OBVIOUS
<1>1. PICK call \in Calls : /\ tool = call.tool /\ disk = call.disk /\ paths = call.paths
                            /\ output = call.output /\ base = call.base
  BY DEF Init
<1>2. /\ iter = <<>> /\ sources = <<>> /\ found = <<>> /\ written = <<>> /\ ungenerated = <<>>
      /\ syntaxError = FALSE /\ failedToOpen = FALSE /\ genError = FALSE
      /\ pass = "collect" /\ frontendCode = Running /\ stage = "start"
  BY DEF Init, FrontendInit, BackendInit, Closed
<1>3. /\ call.tool \in {"jackc", "frontend", "backend"}
      /\ paths \in Seq(Range(paths))
      /\ \A entry \in Range(paths) \cup OnDisk :
           /\ entry.kind = "dir" => entry.dir \in DOMAIN disk
           /\ entry.kind = "file" /\ (entry.ext = "jack" \/ entry \in Range(paths)) => ParsedFile(entry)
  BY <1>1, JackcAssumption DEF Entries, OnDisk, ParsedFile, Parses
<1>4. Range(paths) \subseteq AllEntries /\ OnDisk \subseteq AllEntries
  BY <1>1 DEF AllEntries, Entries, OnDisk
<1>5. InputsSound
  <2>1. paths \in Seq(AllEntries)
    BY <1>3, <1>4, SeqMonotonic
  <2>2. \A i \in DOMAIN paths : paths[i] \in Range(paths)
    BY DEF Range
  <2>3. iter \in Seq(SUBSET OnDisk)
    BY <1>2, EmptySeq
  <2> QED
    BY <1>3, <1>4, <2>1, <2>2, <2>3 DEF InputsSound, HandsOut
<1>6. NothingForgotten
  BY <1>2, EmptySeq DEF NothingForgotten
<1>7. PassesInOrder
  BY <1>2 DEF PassesInOrder, HasGenerated, Running
<1>8. GeneratedSoFar
  BY <1>2, EmptySeq DEF GeneratedSoFar, HasGenerated, Running, IsInjective
<1>9. BackendWaits
  BY <1>1, <1>2, <1>3 DEF BackendWaits
<1> QED
  BY <1>5, <1>6, <1>7, <1>8, <1>9 DEF FrontendInv

-----------------------------------------------------------------------------
(* Collecting *)

LEMMA HandleSourceKeeps ==
  ASSUME NothingForgotten, NEW source \in AllEntries, ParsedFile(source), HandleSource(source)
  PROVE  NothingForgotten'
<1>1. /\ found \in Seq(AllEntries) /\ sources \in Seq(AllEntries)
      /\ Len(found) \in Nat /\ DOMAIN found = 1..Len(found)
      /\ Len(sources) \in Nat /\ DOMAIN sources = 1..Len(sources)
  BY LenProperties DEF NothingForgotten
<1>2. /\ found' \in Seq(AllEntries) /\ DOMAIN found' = 1..Len(found) + 1
      /\ \A i \in 1..Len(found) : found'[i] = found[i]
      /\ found'[Len(found) + 1] = source
  BY <1>1, AppendProperties, LenProperties DEF HandleSource
<1>3. <<source>> \in Seq(AllEntries) /\ Len(<<source>>) = 1 /\ <<source>>[1] = source
  OBVIOUS
<1>4. source.parse \in {"sound", "recovered"} =>
        /\ sources' \in Seq(AllEntries) /\ DOMAIN sources' = 1..Len(sources) + 1
        /\ sources'[1] = source
        /\ \A j \in 1..Len(sources) : sources'[j + 1] = sources[j]
  BY <1>1, <1>3, ConcatProperties, LenProperties DEF HandleSource
<1>5. source.parse \notin {"sound", "recovered"} => sources' = sources
  BY DEF HandleSource
<1>6. sources' \in Seq(AllEntries)
  BY <1>1, <1>4, <1>5
<1>7. \A j \in DOMAIN sources' : ParsedFile(sources'[j])
  <2>1. CASE source.parse \in {"sound", "recovered"}
    <3> SUFFICES ASSUME NEW j \in 1..Len(sources) + 1 PROVE ParsedFile(sources'[j])
      BY <1>4, <2>1
    <3>1. CASE j = 1
      BY <1>4, <2>1, <3>1
    <3>2. CASE j # 1
      <4>1. j - 1 \in 1..Len(sources) /\ (j - 1) + 1 = j
        BY <1>1, <3>2
      <4>2. sources'[j] = sources[j - 1]
        BY <1>4, <2>1, <4>1
      <4> QED
        BY <1>1, <4>1, <4>2 DEF NothingForgotten
    <3> QED
      BY <3>1, <3>2
  <2>2. CASE source.parse \notin {"sound", "recovered"}
    BY <1>5, <2>2 DEF NothingForgotten
  <2> QED
    BY <2>1, <2>2
<1>8. \A j \in DOMAIN sources : \E k \in DOMAIN sources' : sources'[k] = sources[j]
  <2>1. CASE source.parse \in {"sound", "recovered"}
    <3>1. \A j \in 1..Len(sources) : j + 1 \in 1..Len(sources) + 1
      BY <1>1
    <3> QED
      BY <1>1, <1>4, <2>1, <3>1
  <2>2. CASE source.parse \notin {"sound", "recovered"}
    BY <1>5, <2>2
  <2> QED
    BY <2>1, <2>2
<1>9. ASSUME NEW i \in DOMAIN found'
      PROVE  /\ ParsedFile(found'[i])
             /\ found'[i].parse \in {"sound", "recovered"} => \E j \in DOMAIN sources' : sources'[j] = found'[i]
             /\ found'[i].parse \in {"recovered", "failed"} => syntaxError'
             /\ found'[i].parse = "unreadable" => failedToOpen'
             /\ found'[i].parse = "endless" => pass' = "parsing"
  <2>1. CASE i \in 1..Len(found)
    <3>1. found'[i] = found[i] /\ i \in DOMAIN found
      BY <1>1, <1>2, <2>1
    <3>2. found[i].parse \in {"sound", "recovered"} => \E j \in DOMAIN sources' : sources'[j] = found[i]
      <4>1. SUFFICES ASSUME found[i].parse \in {"sound", "recovered"}
                     PROVE  \E j \in DOMAIN sources' : sources'[j] = found[i]
        OBVIOUS
      <4>2. PICK j \in DOMAIN sources : sources[j] = found[i]
        BY <3>1, <4>1 DEF NothingForgotten
      <4> QED
        BY <1>8, <4>2
    <3>3. /\ ParsedFile(found[i])
          /\ found[i].parse \in {"recovered", "failed"} => syntaxError
          /\ found[i].parse = "unreadable" => failedToOpen
          /\ found[i].parse = "endless" => pass = "parsing"
      BY <3>1 DEF NothingForgotten
    <3>4. /\ (syntaxError => syntaxError') /\ (failedToOpen => failedToOpen')
          /\ pass = "parsing" => pass' = "parsing"
      BY DEF HandleSource
    <3> QED
      BY <3>1, <3>2, <3>3, <3>4
  <2>2. CASE i = Len(found) + 1
    <3>1. found'[i] = source
      BY <1>2, <2>2
    <3>2. source.parse \in {"sound", "recovered"} => \E j \in DOMAIN sources' : sources'[j] = source
      <4>1. 1 \in 1..Len(sources) + 1
        BY <1>1
      <4> QED
        BY <1>4, <4>1
    <3> QED
      BY <3>1, <3>2 DEF HandleSource
  <2> QED
    BY <1>1, <1>2, <2>1, <2>2
<1> QED
  BY <1>2, <1>6, <1>7, <1>9 DEF NothingForgotten

LEMMA NoSourceKeeps == NothingForgotten /\ NoSource => NothingForgotten'
BY DEF NothingForgotten, NoSource

(* While sources are collected nothing but what was met changes. *)
LEMMA CollectingKeeps ==
  ASSUME FrontendInv, tool # "backend", Collecting, pass' \in {pass, "parsing"},
         UNCHANGED <<backendVars, tool>>
  PROVE  PassesInOrder' /\ GeneratedSoFar' /\ BackendWaits'
<1>1. /\ pass = "collect" /\ frontendCode = Running /\ ~HasGenerated
      /\ written = <<>> /\ ~genError
  BY DEF FrontendInv, PassesInOrder, GeneratedSoFar, Collecting, HasGenerated, Running
<1>2. UNCHANGED <<frontendCode, written, genError, stage, tool>> /\ pass' \in {"collect", "parsing"}
  BY <1>1 DEF Collecting, backendVars
<1> QED
  BY <1>1, <1>2 DEF FrontendInv, PassesInOrder, GeneratedSoFar, BackendWaits, HasGenerated, Running

LEMMA IterFacts ==
  ASSUME InputsSound, iter # Closed
  PROVE  Len(iter) \in 1..Len(iter) /\ Remaining(iter) \in SUBSET OnDisk
<1>1. iter \in Seq(SUBSET OnDisk)
  BY DEF InputsSound
<1>2. Len(iter) \in Nat \ {0}
  BY <1>1, EmptySeq DEF Closed
<1>3. Len(iter) \in 1..Len(iter)
  BY <1>2
<1> QED
  BY <1>1, <1>3, ElementOfSeq DEF Remaining

LEMMA HeadOfPaths ==
  ASSUME InputsSound, paths # <<>>
  PROVE  /\ Head(paths) \in AllEntries
         /\ Head(paths).kind = "dir" => Head(paths).dir \in DOMAIN disk
         /\ Head(paths).kind = "file" => ParsedFile(Head(paths))
<1>1. paths \in Seq(AllEntries)
  BY DEF InputsSound
<1>2. Len(paths) \in Nat \ {0} /\ DOMAIN paths = 1..Len(paths)
  BY <1>1, EmptySeq, LenProperties
<1>3. 1 \in DOMAIN paths /\ paths[1] \in AllEntries
  BY <1>1, <1>2, ElementOfSeq
<1>4. Head(paths) = paths[1]
  BY <1>1, HeadTailProperties
<1>5. /\ paths[1].kind = "dir" => paths[1].dir \in DOMAIN disk
      /\ paths[1].kind = "file" => ParsedFile(paths[1])
  BY <1>3 DEF InputsSound
<1> QED
  BY <1>3, <1>4, <1>5

(* The next path is taken. *)
LEMMA TailKeeps ==
  ASSUME InputsSound, paths # <<>>, paths' = Tail(paths), disk' = disk, iter' \in Seq(SUBSET OnDisk)
  PROVE  InputsSound'
<1>1. paths \in Seq(AllEntries)
  BY DEF InputsSound
<1>2. /\ paths' \in Seq(AllEntries) /\ Len(paths') = Len(paths) - 1 /\ Len(paths) \in Nat
      /\ \A i \in 1..Len(paths) - 1 : paths'[i] = paths[i + 1]
      /\ DOMAIN paths' = 1..Len(paths') /\ DOMAIN paths = 1..Len(paths)
  BY <1>1, HeadTailProperties, LenProperties
<1>3. \A i \in DOMAIN paths' : i + 1 \in DOMAIN paths /\ paths'[i] = paths[i + 1]
  BY <1>2
<1>4. OnDisk' = OnDisk
  BY DEF OnDisk
<1> QED
  BY <1>2, <1>3, <1>4 DEF InputsSound, HandsOut

LEMMA SkipPathKeeps ==
  ASSUME FrontendInv, tool # "backend", SkipPath, UNCHANGED <<backendVars, tool>>
  PROVE  FrontendInv'
<1>1. InputsSound'
  BY TailKeeps DEF FrontendInv, InputsSound, SkipPath, Collecting
<1> QED
  BY <1>1, CollectingKeeps, NoSourceKeeps DEF FrontendInv, SkipPath, NoSource

LEMMA SourcePathKeeps ==
  ASSUME FrontendInv, tool # "backend", SourcePath, UNCHANGED <<backendVars, tool>>
  PROVE  FrontendInv'
<1>1. InputsSound'
  BY TailKeeps DEF FrontendInv, InputsSound, SourcePath, Collecting
<1>2. Head(paths) \in AllEntries /\ ParsedFile(Head(paths))
  <2>1. InputsSound /\ paths # <<>> /\ Head(paths).kind = "file"
    BY DEF FrontendInv, SourcePath
  <2> QED
    BY <2>1, HeadOfPaths
<1>3. NothingForgotten'
  BY <1>2, HandleSourceKeeps DEF FrontendInv, SourcePath
<1> QED
  BY <1>1, <1>3, CollectingKeeps DEF FrontendInv, SourcePath, HandleSource

LEMMA OpenPathKeeps ==
  ASSUME FrontendInv, tool # "backend", OpenPath, UNCHANGED <<backendVars, tool>>
  PROVE  FrontendInv'
<1>1. Head(paths).dir \in DOMAIN disk
  <2>1. InputsSound /\ paths # <<>> /\ Head(paths).kind = "dir"
    BY DEF FrontendInv, OpenPath
  <2> QED
    BY <2>1, HeadOfPaths
<1>2. disk[Head(paths).dir] \in SUBSET OnDisk
  BY <1>1 DEF OnDisk, Range
<1>3. iter' \in Seq(SUBSET OnDisk)
  BY <1>2 DEF OpenPath, Create
<1>4. InputsSound'
  BY <1>3, TailKeeps DEF FrontendInv, OpenPath, Collecting
<1> QED
  BY <1>4, CollectingKeeps, NoSourceKeeps DEF FrontendInv, OpenPath, NoSource

LEMMA IterKeeps ==
  ASSUME InputsSound, iter' \in Seq(SUBSET OnDisk), UNCHANGED <<paths, disk>>
  PROVE  InputsSound'
BY DEF InputsSound, OnDisk

LEMMA ReadEntryKeeps ==
  ASSUME FrontendInv, tool # "backend", ReadEntry, UNCHANGED <<backendVars, tool>>
  PROVE  FrontendInv'
<1>1. iter # Closed /\ InputsSound /\ NothingForgotten /\ UNCHANGED <<paths, disk>>
  BY DEF FrontendInv, ReadEntry, Collecting
<1>2. PICK entry \in Remaining(iter) :
        IF EndsWalk(iter, entry) THEN iter' = Closed /\ NoSource
        ELSE /\ iter' = Past(iter, entry, disk)
             /\ IF HandsOut(entry, "jack") THEN HandleSource(entry) ELSE NoSource
  BY DEF ReadEntry
<1>3. /\ entry \in OnDisk /\ entry \in AllEntries
      /\ entry.kind = "dir" => entry.dir \in DOMAIN disk
      /\ HandsOut(entry, "jack") => ParsedFile(entry)
  <2>1. entry \in OnDisk
    BY <1>1, IterFacts
  <2> QED
    BY <1>1, <2>1 DEF InputsSound
<1>4. iter' \in Seq(SUBSET OnDisk)
  <2>1. CASE EndsWalk(iter, entry)
    BY <1>2, <2>1, EmptySeq DEF Closed
  <2>2. CASE ~EndsWalk(iter, entry)
    <3>1. Len(iter) \in 1..Len(iter) /\ iter[Len(iter)] \ {entry} \in SUBSET OnDisk
      BY <1>1, IterFacts DEF Remaining
    <3>2. Without(iter, entry) \in Seq(SUBSET OnDisk)
      BY <1>1, <3>1, ExceptSeq DEF Without, InputsSound
    <3>3. entry.kind = "dir" => disk[entry.dir] \in SUBSET OnDisk
      BY <1>3 DEF OnDisk, Range
    <3> QED
      BY <1>2, <2>2, <3>2, <3>3, AppendProperties DEF Past
  <2> QED
    BY <2>1, <2>2
<1>5. InputsSound'
  BY <1>1, <1>4, IterKeeps
<1>6. NothingForgotten'
  <2>1. CASE ~EndsWalk(iter, entry) /\ HandsOut(entry, "jack")
    BY <1>1, <1>2, <1>3, <2>1, HandleSourceKeeps
  <2>2. CASE ~(~EndsWalk(iter, entry) /\ HandsOut(entry, "jack"))
    BY <1>1, <1>2, <2>2, NoSourceKeeps
  <2> QED
    BY <2>1, <2>2
<1>7. pass' \in {pass, "parsing"}
  BY <1>2 DEF HandleSource, NoSource
<1> QED
  BY <1>5, <1>6, <1>7, CollectingKeeps DEF FrontendInv, ReadEntry

LEMMA LeaveDirKeeps ==
  ASSUME FrontendInv, tool # "backend", LeaveDir, UNCHANGED <<backendVars, tool>>
  PROVE  FrontendInv'
<1>1. InputsSound /\ Len(iter) \in 1..Len(iter) /\ UNCHANGED <<paths, disk>>
  BY IterFacts DEF FrontendInv, LeaveDir, Collecting
<1>2. iter' \in Seq(SUBSET OnDisk)
  <2>1. \A i \in 1..Len(iter) - 1 : iter[i] \in SUBSET OnDisk
    BY <1>1, ElementOfSeq DEF InputsSound
  <2> QED
    BY <1>1, <2>1, SubSeqProperties DEF LeaveDir, Leave, InputsSound
<1>3. InputsSound'
  BY <1>1, <1>2, IterKeeps
<1> QED
  BY <1>3, CollectingKeeps, NoSourceKeeps DEF FrontendInv, LeaveDir, NoSource

-----------------------------------------------------------------------------
(* The passes *)

LEMMA MetKeeps ==
  ASSUME InputsSound, NothingForgotten,
         UNCHANGED <<disk, paths, iter, sources, syntaxError, failedToOpen, found>>,
         pass' = pass \/ pass # "parsing"
  PROVE  InputsSound' /\ NothingForgotten'
BY DEF InputsSound, NothingForgotten, OnDisk

LEMMA EndCollectKeeps ==
  ASSUME FrontendInv, tool # "backend", EndCollect, UNCHANGED <<backendVars, tool>>
  PROVE  FrontendInv'
<1>1. /\ pass = "collect" /\ frontendCode = Running /\ ~HasGenerated /\ written = <<>> /\ ~genError
      /\ UNCHANGED <<disk, paths, iter, sources, syntaxError, failedToOpen, ungenerated, genError,
                    output, found, written, stage, tool>>
  BY DEF FrontendInv, PassesInOrder, GeneratedSoFar, EndCollect, HasGenerated, Running, backendVars
<1>2. \/ pass' = "returned" /\ frontendCode' \in {"SYNTAX_ERROR", "NO_SOURCE_FILES", "FAILED_TO_OPEN_SOURCE_FILE"}
      \/ pass' = "registry" /\ frontendCode' = Running /\ ~syntaxError /\ ~failedToOpen
  BY <1>1 DEF EndCollect, Return, Goto
<1>3. ~HasGenerated' /\ pass' \notin {"collect", "semantic", "generate"}
  BY <1>2 DEF HasGenerated, Running
<1>4. PassesInOrder'
  BY <1>1, <1>2, <1>3 DEF PassesInOrder, Running
<1>5. GeneratedSoFar'
  BY <1>1, <1>2, <1>3 DEF FrontendInv, GeneratedSoFar, Running
<1>6. BackendWaits'
  BY <1>1, <1>2 DEF FrontendInv, BackendWaits, EndCollect, Running
<1> QED
  BY <1>1, <1>4, <1>5, <1>6, MetKeeps DEF FrontendInv

LEMMA BuildRegistryKeeps ==
  ASSUME FrontendInv, tool # "backend", BuildRegistry, UNCHANGED <<backendVars, tool>>
  PROVE  FrontendInv'
<1>1. /\ pass = "registry" /\ frontendCode = Running /\ ~HasGenerated /\ written = <<>> /\ ~genError
      /\ ~syntaxError /\ ~failedToOpen
      /\ UNCHANGED <<disk, paths, iter, sources, syntaxError, failedToOpen, ungenerated, genError,
                    output, found, written, stage, tool>>
  BY DEF FrontendInv, PassesInOrder, GeneratedSoFar, BuildRegistry, HasGenerated, Running, backendVars
<1>2. \/ pass' = "returned" /\ frontendCode' = "SYMBOL_TABLE_BUILD_ERROR"
      \/ pass' = "semantic" /\ frontendCode' = Running /\ ClassesDistinct
  BY <1>1 DEF BuildRegistry, Return, Goto
<1>3. ~HasGenerated' /\ pass' \notin {"collect", "generate"}
  BY <1>2 DEF HasGenerated, Running
<1>4. ClassesDistinct' <=> ClassesDistinct
  BY <1>1 DEF ClassesDistinct
<1>5. PassesInOrder'
  BY <1>1, <1>2, <1>3, <1>4 DEF PassesInOrder, Running
<1>6. GeneratedSoFar'
  BY <1>1, <1>2, <1>3 DEF FrontendInv, GeneratedSoFar, Running
<1>7. BackendWaits'
  BY <1>1, <1>2 DEF FrontendInv, BackendWaits, Running
<1> QED
  BY <1>1, <1>5, <1>6, <1>7, MetKeeps DEF FrontendInv

LEMMA CheckSemanticsKeeps ==
  ASSUME FrontendInv, tool # "backend", CheckSemantics, UNCHANGED <<backendVars, tool>>
  PROVE  FrontendInv'
<1>1. /\ pass = "semantic" /\ frontendCode = Running /\ ~HasGenerated /\ written = <<>> /\ ~genError
      /\ ~syntaxError /\ ~failedToOpen /\ ClassesDistinct
      /\ UNCHANGED <<disk, paths, iter, sources, syntaxError, failedToOpen, genError, output,
                    found, written, stage, tool>>
  BY DEF FrontendInv, PassesInOrder, GeneratedSoFar, CheckSemantics, HasGenerated, Running, backendVars
<1>2. \/ pass' = "returned" /\ frontendCode' = "SEMANTICALLY_INVALID"
      \/ pass' = "generate" /\ frontendCode' = Running /\ ~IsSemanticallyInvalid /\ ungenerated' = sources
  BY <1>1 DEF CheckSemantics, Return, Goto
<1>3. ~HasGenerated' /\ pass' \notin {"collect", "registry", "semantic"}
  BY <1>2 DEF HasGenerated, Running
<1>4. (ClassesDistinct' <=> ClassesDistinct) /\ (IsSemanticallyInvalid' <=> IsSemanticallyInvalid)
  BY <1>1 DEF ClassesDistinct, IsSemanticallyInvalid
<1>5. PassesInOrder'
  BY <1>1, <1>2, <1>3, <1>4 DEF PassesInOrder, Running
<1>6. GeneratedSoFar'
  <2>1. CASE pass' = "generate"
    <3>1. sources \in Seq(AllEntries) /\ Len(sources) \in Nat /\ DOMAIN sources = 1..Len(sources)
      BY LenProperties DEF FrontendInv, NothingForgotten
    <3>2. ungenerated' = sources /\ sources' = sources /\ Taken' = 0
      BY <1>1, <1>2, <2>1, <3>1 DEF Taken
    <3>3. \A i \in DOMAIN ungenerated' : ungenerated'[i] = sources'[Taken' + i]
      BY <3>1, <3>2
    <3>4. Taken' \in 0..Len(sources') /\ 1..Taken' = {} /\ DOMAIN written' = {}
      BY <1>1, <3>1, <3>2
    <3> QED
      BY <1>1, <1>3, <2>1, <3>1, <3>2, <3>3, <3>4 DEF FrontendInv, GeneratedSoFar, HasGenerated
  <2>2. CASE pass' # "generate"
    BY <1>1, <1>2, <1>3, <2>2 DEF FrontendInv, GeneratedSoFar, Running
  <2> QED
    BY <2>1, <2>2
<1>7. BackendWaits'
  BY <1>1, <1>2 DEF FrontendInv, BackendWaits, Running
<1> QED
  BY <1>1, <1>5, <1>6, <1>7, MetKeeps DEF FrontendInv

(* Files of one compilation have different names. *)
LEMMA NamesDiffer ==
  ASSUME PassesInOrder, pass = "generate",
         NEW i \in DOMAIN sources, NEW j \in DOMAIN sources, sources[i].name = sources[j].name
  PROVE  i = j
BY DEF PassesInOrder, ClassesDistinct, IsSemanticallyInvalid

LEMMA GenerateFileKeeps ==
  ASSUME FrontendInv, tool # "backend", GenerateFile, UNCHANGED <<backendVars, tool>>
  PROVE  FrontendInv'
<1>1. /\ pass = "generate" /\ frontendCode = Running /\ ~HasGenerated /\ ungenerated # <<>>
      /\ ungenerated' = Tail(ungenerated)
      /\ UNCHANGED <<disk, paths, iter, sources, syntaxError, failedToOpen, pass, frontendCode,
                    found, stage, tool>>
  BY DEF FrontendInv, PassesInOrder, GenerateFile, HasGenerated, Running, backendVars
<1> DEFINE source == Head(ungenerated)
<1>2. /\ sources \in Seq(AllEntries) /\ Len(sources) \in Nat /\ DOMAIN sources = 1..Len(sources)
      /\ \A j \in DOMAIN sources : ParsedFile(sources[j])
  BY LenProperties DEF FrontendInv, NothingForgotten
<1>3. /\ ungenerated \in Seq(AllEntries) /\ Taken \in 0..Len(sources)
      /\ \A i \in DOMAIN ungenerated : ungenerated[i] = sources[Taken + i]
      /\ \A i \in DOMAIN written : \E j \in 1..Taken : written[i] = sources[j].name
      /\ written \in Seq(FileNames) /\ IsInjective(written)
  BY <1>1 DEF FrontendInv, GeneratedSoFar
<1>4. /\ Len(ungenerated) \in Nat \ {0} /\ DOMAIN ungenerated = 1..Len(ungenerated)
      /\ Len(ungenerated') = Len(ungenerated) - 1 /\ DOMAIN ungenerated' = 1..Len(ungenerated) - 1
      /\ ungenerated' \in Seq(AllEntries) /\ source = ungenerated[1]
      /\ \A i \in 1..Len(ungenerated) - 1 : ungenerated'[i] = ungenerated[i + 1]
  BY <1>1, <1>3, HeadTailProperties, LenProperties, EmptySeq
<1>5. Taken' = Taken + 1 /\ Taken + 1 \in 1..Len(sources) /\ source = sources[Taken + 1]
  <2>1. Taken = Len(sources) - Len(ungenerated) /\ Taken' = Len(sources) - (Len(ungenerated) - 1)
    BY <1>1, <1>4 DEF Taken
  <2>2. Taken' = Taken + 1 /\ Taken + 1 \in 1..Len(sources)
    BY <1>2, <1>3, <1>4, <2>1
  <2>3. ungenerated[1] = sources[Taken + 1]
    <3>1. 1 \in DOMAIN ungenerated
      BY <1>4
    <3> QED
      BY <1>3, <3>1
  <2> QED
    BY <1>4, <2>2, <2>3
<1> HIDE DEF source
<1>6. ASSUME NEW i \in DOMAIN ungenerated' PROVE ungenerated'[i] = sources[Taken' + i]
  <2>1. i \in 1..Len(ungenerated) - 1 /\ i + 1 \in DOMAIN ungenerated
    BY <1>4
  <2>2. ungenerated'[i] = sources[Taken + (i + 1)]
    BY <1>3, <1>4, <2>1
  <2>3. Taken + (i + 1) = Taken' + i
    BY <1>3, <1>4, <1>5, <2>1
  <2> QED
    BY <2>2, <2>3
<1>7. \A j \in 1..Taken : j \in DOMAIN sources /\ sources[j].name # source.name
  BY <1>1, <1>2, <1>3, <1>5, NamesDiffer DEF FrontendInv
<1>8. \/ /\ output' = Written(source.name, Compiled(source)) /\ genError' = genError
         /\ written' = Append(written, source.name)
      \/ genError' = TRUE /\ output' = output /\ written' = written
  BY DEF GenerateFile, source
<1>9. ~HasGenerated'
  BY <1>1 DEF HasGenerated
<1>10. PassesInOrder'
  BY <1>1, <1>9 DEF FrontendInv, PassesInOrder, ClassesDistinct, IsSemanticallyInvalid
<1>11. BackendWaits'
  BY <1>1 DEF FrontendInv, BackendWaits
<1>12. /\ written' \in Seq(FileNames) /\ IsInjective(written')
       /\ \A i \in DOMAIN written' : \E j \in 1..Taken' : written'[i] = sources[j].name
  <2>1. CASE written' = written
    BY <1>3, <1>5, <2>1
  <2>2. CASE written' = Append(written, source.name)
    <3>1. source \in AllEntries /\ source.kind = "file"
      BY <1>2, <1>5, ElementOfSeq DEF ParsedFile
    <3>2. source.name \in FileNames
      BY <3>1 DEF FileNames
    <3>3. Len(written) \in Nat /\ DOMAIN written = 1..Len(written)
      BY <1>3, LenProperties
    <3>4. /\ written' \in Seq(FileNames) /\ DOMAIN written' = 1..Len(written) + 1
          /\ \A i \in 1..Len(written) : written'[i] = written[i]
          /\ written'[Len(written) + 1] = source.name
      BY <1>3, <2>2, <3>2, AppendProperties, LenProperties
    <3>5. \A i \in 1..Len(written) : written[i] # source.name
      BY <1>3, <1>7, <3>3
    <3>6. IsInjective(written')
      BY <1>3, <3>3, <3>4, <3>5 DEF IsInjective
    <3>7. \A i \in DOMAIN written' : \E j \in 1..Taken' : written'[i] = sources[j].name
      <4>1. SUFFICES ASSUME NEW i \in 1..Len(written) + 1
                     PROVE  \E j \in 1..Taken' : written'[i] = sources[j].name
        BY <3>4
      <4>2. CASE i = Len(written) + 1
        BY <1>3, <1>5, <3>4, <4>2
      <4>3. CASE i \in 1..Len(written)
        <5>1. PICK j \in 1..Taken : written[i] = sources[j].name
          BY <1>3, <3>3, <4>3
        <5>2. j \in 1..Taken'
          BY <1>3, <1>5
        <5> QED
          BY <3>4, <4>3, <5>1, <5>2
      <4> QED
        BY <3>3, <4>2, <4>3
    <3> QED
      BY <3>4, <3>6, <3>7
  <2> QED
    BY <1>8, <2>1, <2>2
<1>13. ASSUME stage' = "start", ~genError', NEW j \in 1..Taken'
       PROVE  /\ sources[j].name \in DOMAIN output'
              /\ output'[sources[j].name] = Compiled(sources[j])
  <2>1. /\ output' = [f \in DOMAIN output \cup {source.name} |->
                       IF f = source.name THEN Compiled(source) ELSE output[f]]
        /\ ~genError
    BY <1>8, <1>13 DEF Written
  <2>2. CASE j = Taken + 1
    BY <1>5, <2>1, <2>2
  <2>3. CASE j \in 1..Taken
    <3>1. /\ sources[j].name \in DOMAIN output
          /\ output[sources[j].name] = Compiled(sources[j])
      BY <1>1, <1>13, <2>1, <2>3 DEF FrontendInv, GeneratedSoFar
    <3> QED
      BY <1>7, <2>1, <2>3, <3>1
  <2> QED
    BY <1>3, <1>5, <2>2, <2>3
<1>14. Taken' \in 0..Len(sources)
  BY <1>2, <1>5
<1>15. GeneratedSoFar'
  BY <1>1, <1>4, <1>6, <1>9, <1>12, <1>13, <1>14 DEF GeneratedSoFar, Compiled, Running
<1> QED
  BY <1>1, <1>10, <1>11, <1>15, MetKeeps DEF FrontendInv

LEMMA EndGenerateKeeps ==
  ASSUME FrontendInv, tool # "backend", EndGenerate, UNCHANGED <<backendVars, tool>>
  PROVE  FrontendInv'
<1>1. /\ pass = "generate" /\ frontendCode = Running /\ ~HasGenerated /\ ungenerated = <<>>
      /\ pass' = "returned" /\ frontendCode' = IF genError THEN "FAILED_TO_GENERATE_VM_CODE" ELSE "OK"
      /\ UNCHANGED <<disk, paths, iter, sources, syntaxError, failedToOpen, ungenerated, genError,
                    output, found, written, stage, tool>>
  BY DEF FrontendInv, PassesInOrder, EndGenerate, Return, HasGenerated, Running, backendVars
<1>2. HasGenerated' /\ frontendCode' # Running
  BY <1>1 DEF HasGenerated, Running
<1>3. PassesInOrder'
  BY <1>1, <1>2 DEF FrontendInv, PassesInOrder, ClassesDistinct, IsSemanticallyInvalid
<1>4. GeneratedSoFar'
  <2>1. Taken' = Taken
    BY <1>1 DEF Taken
  <2> QED
    BY <1>1, <1>2, <2>1 DEF FrontendInv, GeneratedSoFar, Compiled
<1>5. BackendWaits'
  <2>1. stage = "start"
    BY <1>1 DEF FrontendInv, BackendWaits, Running
  <2> QED
    BY <1>1, <2>1 DEF FrontendInv, BackendWaits
<1> QED
  BY <1>1, <1>3, <1>4, <1>5, MetKeeps DEF FrontendInv

-----------------------------------------------------------------------------
(* The frontend's part is an invariant. *)

LEMMA CompileKeepsFrontend == FrontendInv /\ Compile => FrontendInv'
<1> SUFFICES ASSUME FrontendInv, Compile PROVE FrontendInv'
  OBVIOUS
<1>1. tool # "backend" /\ UNCHANGED <<backendVars, tool>> /\ FrontendNext
  BY DEF Compile
<1>2. CASE SkipPath
  BY <1>1, <1>2, SkipPathKeeps
<1>3. CASE SourcePath
  BY <1>1, <1>3, SourcePathKeeps
<1>4. CASE OpenPath
  BY <1>1, <1>4, OpenPathKeeps
<1>5. CASE ReadEntry
  BY <1>1, <1>5, ReadEntryKeeps
<1>6. CASE LeaveDir
  BY <1>1, <1>6, LeaveDirKeeps
<1>7. CASE EndCollect
  BY <1>1, <1>7, EndCollectKeeps
<1>8. CASE BuildRegistry
  BY <1>1, <1>8, BuildRegistryKeeps
<1>9. CASE CheckSemantics
  BY <1>1, <1>9, CheckSemanticsKeeps
<1>10. CASE GenerateFile
  BY <1>1, <1>10, GenerateFileKeeps
<1>11. CASE EndGenerate
  BY <1>1, <1>11, EndGenerateKeeps
<1> QED
  BY <1>1, <1>2, <1>3, <1>4, <1>5, <1>6, <1>7, <1>8, <1>9, <1>10, <1>11 DEF FrontendNext

(* No step of the backend leads back to its start. *)
LEMMA BackendStarted == BackendNext => stage' # "start"
BY DEF BackendNext, BackendReturn, Refuse, Bootstrap, OpenDirectory, OpenSingle, OpenNext, OpenVmFile,
       TranslateLine, TranslateLast, AssertLineRead, EndFiles, Finalize

LEMMA TranslateKeepsFrontend == FrontendInv /\ Translate => FrontendInv'
<1> SUFFICES ASSUME FrontendInv, Translate PROVE FrontendInv'
  OBVIOUS
<1>1. /\ stage' # "start" /\ (tool = "backend" \/ frontendCode = "OK")
      /\ UNCHANGED <<disk, paths, iter, sources, syntaxError, failedToOpen, pass, ungenerated,
                    genError, frontendCode, found, written, tool>>
  BY BackendStarted DEF Translate
<1>2. PassesInOrder'
  BY <1>1 DEF FrontendInv, PassesInOrder, HasGenerated, ClassesDistinct, IsSemanticallyInvalid
<1>3. GeneratedSoFar'
  <2>1. Taken' = Taken
    BY <1>1 DEF Taken
  <2> QED
    BY <1>1, <2>1 DEF FrontendInv, GeneratedSoFar, HasGenerated
<1>4. BackendWaits'
  BY <1>1 DEF FrontendInv, BackendWaits
<1> QED
  BY <1>1, <1>2, <1>3, <1>4, MetKeeps DEF FrontendInv

LEMMA QuietKeepsFrontend ==
  ASSUME FrontendInv, UNCHANGED <<frontendVars, stage, tool>>
  PROVE  FrontendInv'
<1>1. UNCHANGED <<disk, paths, iter, sources, syntaxError, failedToOpen, pass, ungenerated,
                  genError, frontendCode, output, found, written, stage, tool>>
  BY DEF frontendVars
<1>2. PassesInOrder' /\ BackendWaits'
  BY <1>1 DEF FrontendInv, PassesInOrder, HasGenerated, ClassesDistinct, IsSemanticallyInvalid, BackendWaits
<1>3. GeneratedSoFar'
  <2>1. Taken' = Taken
    BY <1>1 DEF Taken
  <2> QED
    BY <1>1, <2>1 DEF FrontendInv, GeneratedSoFar, HasGenerated, Compiled
<1> QED
  BY <1>1, <1>2, <1>3, MetKeeps DEF FrontendInv

LEMMA StepKeepsFrontend == FrontendInv /\ [Next]_vars => FrontendInv'
<1> SUFFICES ASSUME FrontendInv, [Next]_vars PROVE FrontendInv'
  OBVIOUS
<1>1. CASE FrontendExits \/ BackendExits \/ UNCHANGED vars
  BY <1>1, QuietKeepsFrontend DEF FrontendExits, BackendExits, vars, backendVars
<1> QED
  BY <1>1, CompileKeepsFrontend, TranslateKeepsFrontend DEF Next

THEOREM FrontendSound == Spec => []FrontendInv
<1>1. Init => FrontendInv
  BY InitFrontend
<1>2. FrontendInv /\ [Next]_vars => FrontendInv'
  BY StepKeepsFrontend
<1> QED
  BY <1>1, <1>2, PTL DEF Spec

(* Whatever the directories hold and in whatever order they are read, the    *)
(* frontend does not write one VM file over another of the same compilation. *)
THEOREM NoOutputTwice == Spec => []OneSourcePerOutput
<1>1. FrontendInv => OneSourcePerOutput
  BY DEF FrontendInv, GeneratedSoFar, OneSourcePerOutput
<1> QED
  BY <1>1, FrontendSound, PTL

(* What is written, or handed to the backend, comes of files that were all   *)
(* read, parsed and checked without an error.                               *)
THEOREM OnlySoundPrograms == Spec => []WritesOnlySoundPrograms
<1>1. FrontendInv => WritesOnlySoundPrograms
  <2> SUFFICES ASSUME FrontendInv, written # <<>> \/ frontendCode = "OK", NEW i \in DOMAIN found
               PROVE  found[i].parse = "sound" /\ found[i].valid
    BY DEF WritesOnlySoundPrograms
  <2>1. pass = "generate" \/ HasGenerated
    BY DEF FrontendInv, GeneratedSoFar, HasGenerated
  <2>2. ~syntaxError /\ ~failedToOpen /\ ~IsSemanticallyInvalid /\ pass # "parsing"
    BY <2>1 DEF FrontendInv, PassesInOrder, HasGenerated, Running
  <2>3. found[i].parse = "sound" /\ \E j \in DOMAIN sources : sources[j] = found[i]
    BY <2>2 DEF FrontendInv, NothingForgotten, ParsedFile, Parses
  <2> QED
    BY <2>2, <2>3 DEF IsSemanticallyInvalid
<1> QED
  BY <1>1, FrontendSound, PTL

(* When the frontend returns OK the directory holds what every source file    *)
(* compiles to, whatever was in it before.                                  *)
THEOREM OkIsComplete == Spec => []OkCompilesWhatWasFound
<1>1. FrontendInv => OkCompilesWhatWasFound
  <2> SUFFICES ASSUME FrontendInv, frontendCode = "OK", stage = "start", NEW i \in DOMAIN found
               PROVE  found[i].name \in DOMAIN output /\ output[found[i].name] = Compiled(found[i])
    BY DEF OkCompilesWhatWasFound
  <2>1. HasGenerated /\ ~genError /\ ungenerated = <<>>
    BY DEF FrontendInv, GeneratedSoFar, HasGenerated
  <2>2. ~syntaxError /\ ~failedToOpen /\ pass # "parsing"
    BY <2>1 DEF FrontendInv, PassesInOrder, HasGenerated, Running
  <2>3. PICK j \in DOMAIN sources : sources[j] = found[i]
    BY <2>2 DEF FrontendInv, NothingForgotten, ParsedFile, Parses
  <2>4. DOMAIN sources = 1..Len(sources) /\ Len(sources) \in Nat
    BY LenProperties DEF FrontendInv, NothingForgotten
  <2>5. Taken = Len(sources)
    BY <2>1, <2>4, EmptySeq DEF Taken
  <2> QED
    BY <2>1, <2>3, <2>4, <2>5 DEF FrontendInv, GeneratedSoFar
<1> QED
  BY <1>1, FrontendSound, PTL

-----------------------------------------------------------------------------
(* What the VM parser does with good lines *)

GoodLines == {line \in Lines : line.form = "good"}

LEMMA GoodIsNotDummy == ASSUME NEW line \in GoodLines PROVE line # Dummy /\ line # Zeros
<1>1. line.form = "good"
  BY DEF GoodLines
<1>2. Dummy.form = "dummy" /\ Zeros.form = "zeros"
  BY DEF Dummy, Zeros
<1> QED
  BY <1>1, <1>2

LEMMA AdvanceOverGood ==
  ASSUME NEW r \in Seq(GoodLines), NEW c, NEW d
  PROVE  /\ r = <<>> => Advance(VmParser(r, c, d, TRUE)) = {VmParser(<<>>, d, Dummy, TRUE)}
         /\ r # <<>> => Advance(VmParser(r, c, d, TRUE)) = {VmParser(Tail(r), d, Head(r), TRUE)}
<1> DEFINE p == VmParser(r, c, d, TRUE)
<1>0. p.rest = r /\ p.next = d /\ p.valid = TRUE
  BY DEF VmParser
<1> HIDE DEF p
<1>1. CASE r = <<>>
  BY <1>0, <1>1, Zenon DEF Advance, p
<1>2. CASE r # <<>>
  <2>1. Head(r).form = "good"
    BY <1>2, HeadTailProperties DEF GoodLines
  <2>2. Head(r).form # "junk"
    BY <2>1
  <2>3. Advance(p) = {VmParser(Tail(r), d, Head(r), TRUE)}
    BY <1>0, <1>2, <2>1, <2>2, Zenon DEF Advance
  <2> QED
    BY <1>2, <2>3 DEF p
<1> QED
  BY <1>1, <1>2

(* A stretch of the lines of a file. *)
LEMMA Stretch ==
  ASSUME NEW E, NEW lines \in Seq(E), NEW m \in Nat \ {0}
  PROVE  /\ SubSeq(lines, m, Len(lines)) \in Seq(E)
         /\ SubSeq(lines, m, Len(lines)) = <<>> <=> m > Len(lines)
         /\ m <= Len(lines) => /\ Head(SubSeq(lines, m, Len(lines))) = lines[m]
                              /\ Tail(SubSeq(lines, m, Len(lines))) = SubSeq(lines, m + 1, Len(lines))
<1> DEFINE n == Len(lines)
           part == SubSeq(lines, m, n)
<1>1. n \in Nat
  BY LenProperties
<1>2. \A i \in m..n : lines[i] \in E
  <2>1. \A i \in m..n : i \in 1..n
    BY <1>1
  <2> QED
    BY <2>1, ElementOfSeq
<1>3. part \in Seq(E) /\ Len(part) = IF m <= n THEN n - m + 1 ELSE 0
  BY <1>1, <1>2, SubSeqProperties
<1>4. m > n => part = <<>>
  BY <1>1, SubSeqEmpty
<1>5. m <= n => m \in 1..n /\ n \in m..n
  BY <1>1
<1>6. m <= n => Head(part) = lines[m] /\ Tail(part) = SubSeq(lines, m + 1, n)
  BY <1>5, HeadTailOfSubSeq
<1> HIDE DEF part, n
<1>7. m <= n => Len(part) # 0
  BY <1>1, <1>3
<1>8. m <= n => part # <<>>
  BY <1>7, EmptySeq
<1>9. m > n \/ m <= n
  BY <1>1
<1>10. ~(m > n /\ m <= n)
  BY <1>1
<1> QED
  BY <1>3, <1>4, <1>6, <1>8, <1>9, <1>10 DEF part, n

(* The parser of a well-formed file that is opened looks at its second line. *)
LEMMA InitializedGood ==
  ASSUME NEW lines \in Seq(GoodLines), lines # <<>>
  PROVE  Len(lines) \in Nat \ {0} /\ Initialized(lines) = {LookingAhead(lines, 1)}
<1> DEFINE n == Len(lines)
           ahead == VmParser(Tail(lines), Zeros, Head(lines), TRUE)
<1>1. n \in Nat \ {0} /\ Head(lines) = lines[1] /\ Tail(lines) = SubSeq(lines, 2, n)
  BY EmptySeq, TailIsSubSeq
<1>2. Advance(Unread(lines)) = {ahead}
  BY AdvanceOverGood DEF Unread
<1>3. Initialized(lines) = Advance(ahead)
  <2>1. ahead.valid = TRUE
    BY DEF VmParser
  <2> HIDE DEF ahead
  <2> QED
    BY <1>2, <2>1 DEF Initialized
<1>4. /\ Tail(lines) \in Seq(GoodLines) /\ (Tail(lines) = <<>> <=> 2 > n)
      /\ 2 <= n => Head(Tail(lines)) = lines[2] /\ Tail(Tail(lines)) = SubSeq(lines, 2 + 1, n)
  <2>1. 2 \in Nat \ {0}
    OBVIOUS
  <2> QED
    BY <1>1, <2>1, Stretch
<1>5. /\ 2 > n => Advance(ahead) = {VmParser(<<>>, Head(lines), Dummy, TRUE)}
      /\ ~(2 > n) => Advance(ahead) = {VmParser(Tail(Tail(lines)), Head(lines), Head(Tail(lines)), TRUE)}
  <2> DEFINE rest == Tail(lines)
  <2>1. rest \in Seq(GoodLines) /\ (rest = <<>> <=> 2 > n)
    BY <1>4
  <2> HIDE DEF rest, n
  <2>2. /\ rest = <<>> => Advance(VmParser(rest, Zeros, Head(lines), TRUE))
                          = {VmParser(<<>>, Head(lines), Dummy, TRUE)}
        /\ rest # <<>> => Advance(VmParser(rest, Zeros, Head(lines), TRUE))
                          = {VmParser(Tail(rest), Head(lines), Head(rest), TRUE)}
    BY <2>1, AdvanceOverGood
  <2> QED
    BY <2>1, <2>2 DEF rest
<1>6. n \in Int
  BY <1>1
<1>7. 3 > n => SubSeq(lines, 3, n) = <<>>
  BY <1>6, SubSeqEmpty
<1> HIDE DEF n, ahead
<1>8. CASE 2 > n
  <2>1. 3 > n /\ ~(1 < n) /\ 1 + 2 = 3
    BY <1>1, <1>8
  <2>2. LookingAhead(lines, 1) = VmParser(<<>>, Head(lines), Dummy, TRUE)
    BY <1>1, <1>7, <2>1 DEF LookingAhead, n
  <2> QED
    BY <1>1, <1>3, <1>5, <1>8, <2>2 DEF n
<1>9. CASE ~(2 > n)
  <2>1. 2 <= n /\ 1 < n /\ 1 + 2 = 3 /\ 2 + 1 = 3 /\ 1 + 1 = 2
    BY <1>1, <1>9
  <2>2. LookingAhead(lines, 1) = VmParser(Tail(Tail(lines)), Head(lines), Head(Tail(lines)), TRUE)
    BY <1>1, <1>4, <2>1 DEF LookingAhead, n
  <2> QED
    BY <1>1, <1>3, <1>5, <1>9, <2>2 DEF n
<1> QED
  BY <1>8, <1>9

(* Inside the file the line that was read ahead becomes the current one. *)
LEMMA AdvanceInside ==
  ASSUME NEW lines \in Seq(GoodLines), NEW k \in Nat \ {0}, k < Len(lines)
  PROVE  Advance(LookingAhead(lines, k)) = {LookingAhead(lines, k + 1)}
<1> DEFINE rest == SubSeq(lines, k + 2, Len(lines))
           n == Len(lines)
<1>1. n \in Nat /\ k < n
  BY LenProperties
<1>2. LookingAhead(lines, k) = VmParser(rest, lines[k], lines[k + 1], TRUE)
  BY DEF LookingAhead
<1>3. /\ rest \in Seq(GoodLines) /\ (rest = <<>> <=> k + 2 > n)
      /\ k + 2 <= n => Head(rest) = lines[k + 2] /\ Tail(rest) = SubSeq(lines, (k + 2) + 1, n)
  <2>1. k + 2 \in Nat \ {0}
    OBVIOUS
  <2> QED
    BY <2>1, Stretch
<1>4. /\ k + 2 > n => Advance(VmParser(rest, lines[k], lines[k + 1], TRUE))
                       = {VmParser(<<>>, lines[k + 1], Dummy, TRUE)}
      /\ ~(k + 2 > n) => Advance(VmParser(rest, lines[k], lines[k + 1], TRUE))
                          = {VmParser(Tail(rest), lines[k + 1], Head(rest), TRUE)}
  <2> HIDE DEF rest, n
  <2>1. \A c, d : /\ rest = <<>> => Advance(VmParser(rest, c, d, TRUE)) = {VmParser(<<>>, d, Dummy, TRUE)}
                  /\ rest # <<>> => Advance(VmParser(rest, c, d, TRUE)) = {VmParser(Tail(rest), d, Head(rest), TRUE)}
    BY <1>3, AdvanceOverGood
  <2> QED
    BY <1>3, <2>1
<1>5. (k + 1) + 2 \in Int /\ n \in Int
  BY <1>1
<1>6. (k + 1) + 2 > n => SubSeq(lines, (k + 1) + 2, n) = <<>>
  BY <1>5, SubSeqEmpty
<1> HIDE DEF rest, n
<1>7. CASE k + 2 > n
  <2>1. ~(k + 1 < n) /\ (k + 1) + 2 > n
    BY <1>1, <1>7
  <2>2. LookingAhead(lines, k + 1) = VmParser(<<>>, lines[k + 1], Dummy, TRUE)
    BY <1>6, <2>1 DEF LookingAhead, n
  <2> QED
    BY <1>2, <1>4, <1>7, <2>2
<1>8. CASE ~(k + 2 > n)
  <2>1. k + 2 <= n /\ k + 1 < n /\ (k + 2) + 1 = (k + 1) + 2 /\ (k + 1) + 1 = k + 2
    BY <1>1, <1>8
  <2>2. LookingAhead(lines, k + 1) = VmParser(Tail(rest), lines[k + 1], Head(rest), TRUE)
    BY <1>3, <2>1 DEF LookingAhead, n
  <2> QED
    BY <1>2, <1>4, <1>8, <2>2
<1> QED
  BY <1>7, <1>8

-----------------------------------------------------------------------------
(* The text of the files translated *)

OutputTyped == \A name \in DOMAIN output : output[name] \in Seq(Lines)

LEMMA TextOfNone == TextOf(<<>>) = <<>>
<1>1. [i \in DOMAIN <<>> |-> output[<<>>[i]]] = <<>>
  OBVIOUS
<1> QED
  BY <1>1 DEF TextOf, FlattenSeq

LEMMA TextOfAppend ==
  ASSUME OutputTyped, NEW names \in Seq(DOMAIN output), NEW f \in DOMAIN output
  PROVE  /\ TextOf(names) \in Seq(Lines)
         /\ TextOf(Append(names, f)) = TextOf(names) \o output[f]
<1> DEFINE n == Len(names)
           texts == [i \in 1..n |-> output[names[i]]]
           longer == Append(names, f)
<1>1. n \in Nat /\ DOMAIN names = 1..n /\ \A i \in 1..n : names[i] \in DOMAIN output
  BY LenProperties, ElementOfSeq
<1>2. /\ DOMAIN longer = 1..n + 1 /\ longer[n + 1] = f
      /\ \A i \in 1..n : longer[i] = names[i]
  BY AppendProperties, LenProperties
<1>3. output[f] \in Seq(Lines)
  BY DEF OutputTyped
<1>4. texts \in Seq(Seq(Lines)) /\ Len(texts) = n
  <2>1. \A i \in 1..n : output[names[i]] \in Seq(Lines)
    BY <1>1 DEF OutputTyped
  <2>2. texts \in [1..n -> Seq(Lines)]
    BY <2>1
  <2>3. texts \in Seq(Seq(Lines))
    BY <1>1, <2>2, SeqDef
  <2> QED
    BY <1>1, <2>2, <2>3, LenProperties
<1>5. [i \in DOMAIN longer |-> output[longer[i]]] = Append(texts, output[f])
  <2> DEFINE all == [i \in 1..n + 1 |-> output[longer[i]]]
             appended == Append(texts, output[f])
  <2>1. /\ appended \in Seq(Seq(Lines)) /\ DOMAIN appended = 1..n + 1
        /\ appended[n + 1] = output[f] /\ \A i \in 1..n : appended[i] = texts[i]
    BY <1>3, <1>4, AppendProperties, LenProperties
  <2>2. ASSUME NEW i \in 1..n + 1 PROVE all[i] = appended[i]
    <3>1. CASE i = n + 1
      BY <1>2, <2>1, <3>1
    <3>2. CASE i \in 1..n
      BY <1>2, <2>1, <3>2
    <3> QED
      BY <1>1, <3>1, <3>2
  <2>3. appended \in [1..n + 1 -> Seq(Lines)]
    BY <2>1, LenProperties
  <2> HIDE DEF appended
  <2>4. all = appended
    BY <2>2, <2>3
  <2> QED
    BY <1>2, <2>4 DEF appended
<1>6. TextOf(names) = FlattenSeq(texts)
  BY <1>1 DEF TextOf
<1>7. TextOf(longer) = FlattenSeq(Append(texts, output[f]))
  BY <1>5 DEF TextOf
<1> QED
  BY <1>3, <1>4, <1>6, <1>7, FlattenStep

Emittable == Lines \cup {Library}

LEMMA PreambleType == Preamble \in Seq(Emittable)
<1>1. Library \in Emittable
  BY DEF Emittable
<1>2. <<Library>> \in Seq(Emittable) /\ <<>> \in Seq(Emittable)
  BY <1>1, EmptySeq
<1> QED
  BY <1>2 DEF Preamble

(* One line more, behind what is emitted of the file. *)
LEMMA EmitLine ==
  ASSUME NEW E, NEW before \in Seq(E), NEW lines \in Seq(E), NEW k \in 1..Len(lines)
  PROVE  (before \o SubSeq(lines, 1, k - 1)) \o <<lines[k]>> = before \o SubSeq(lines, 1, k)
<1> DEFINE n == Len(lines)
<1>1. n \in Nat /\ k \in 1..n
  BY LenProperties
<1>2. 1 \in 1..n /\ k \in 1..n /\ k - 1 \in Int /\ (\A i \in 1..k - 1 : i \in 1..n)
  BY <1>1
<1>3. SubSeq(lines, 1, k) = SubSeq(lines, 1, k - 1) \o <<lines[k]>>
  <2>1. k \in 1..n
    BY <1>1
  <2> QED
    BY <1>2, <2>1, SubSeqRecursiveSecond
<1>4. \A i \in 1..k - 1 : lines[i] \in E
  BY <1>2, ElementOfSeq
<1>5. SubSeq(lines, 1, k - 1) \in Seq(E)
  BY <1>2, <1>4, SubSeqProperties
<1>6. lines[k] \in E
  BY ElementOfSeq
<1>7. <<lines[k]>> \in Seq(E)
  BY <1>6
<1> DEFINE some == SubSeq(lines, 1, k - 1)
           line == <<lines[k]>>
<1>8. some \in Seq(E) /\ line \in Seq(E)
  BY <1>5, <1>7
<1> HIDE DEF some, line
<1>9. (before \o some) \o line = before \o (some \o line)
  BY <1>8, ConcatAssociative
<1> QED
  BY <1>3, <1>9 DEF some, line

-----------------------------------------------------------------------------
(* The steps of the backend *)

LEMMA WellFormedLines ==
  ASSUME OutputTyped, AllWellFormed, NEW name \in DOMAIN output
  PROVE  output[name] \in Seq(GoodLines) /\ output[name] # <<>>
<1> DEFINE lines == output[name]
<1>1. lines \in Seq(Lines) /\ lines # <<>> /\ \A i \in DOMAIN lines : lines[i].form = "good"
  BY DEF OutputTyped, AllWellFormed, WellFormed
<1> HIDE DEF lines
<1>2. Len(lines) \in Nat /\ DOMAIN lines = 1..Len(lines) /\ lines \in [1..Len(lines) -> Lines]
  BY <1>1, LenProperties
<1>3. \A i \in 1..Len(lines) : lines[i] \in GoodLines
  BY <1>1, <1>2 DEF GoodLines
<1>4. lines \in [1..Len(lines) -> GoodLines]
  BY <1>2, <1>3
<1>5. lines \in Seq(GoodLines)
  BY <1>2, <1>4, SeqDef
<1> QED
  BY <1>1, <1>5 DEF lines

(* Before a file is opened. *)
LEMMA RefuseKeeps ==
  ASSUME BackendInv, Refuse \/ Bootstrap \/ OpenDirectory
  PROVE  BackendInv'
<1>1. /\ UNCHANGED <<output, base, broken, library, parser, hadError, translated>>
      /\ translated = <<>> /\ unread = {} /\ ~hadError /\ backendCode = "RUNNING"
  BY DEF BackendInv, FilesSound, Refuse, Bootstrap, OpenDirectory
<1>2. \A name \in DOMAIN output' : output'[name] \in Seq(Lines)
  BY <1>1 DEF BackendInv, TextSound
<1>3. Preamble' = Preamble
  BY <1>1 DEF Preamble
<1>4. CASE stage' = "returned"
  <2>1. backendCode' \notin {"RUNNING", "OK"} /\ unread' = {}
    BY <1>1, <1>4 DEF Refuse, Bootstrap, OpenDirectory, BackendReturn
  <2>2. TextSound'
    BY <1>2, <1>4, <2>1 DEF TextSound
  <2> QED
    BY <1>1, <1>4, <2>1, <2>2 DEF BackendInv, FilesSound
<1>5. CASE Bootstrap
  <2>1. /\ stage' \in {"open", "single"} /\ assembly' = Preamble /\ backendCode' = "RUNNING" /\ unread' = {}
        /\ stage' = "open" <=> base = Directory
    BY <1>1, <1>5 DEF Bootstrap, Preamble
  <2>2. TextSound'
    BY <1>2, <1>3, <2>1 DEF TextSound
  <2>3. stage' \notin {"start", "files", "lines", "last", "finalize", "returned"}
    BY <2>1
  <2>4. FilesSound'
    BY <1>1, <2>1, <2>3 DEF BackendInv, FilesSound
  <2> QED
    BY <2>2, <2>4 DEF BackendInv
<1>6. CASE OpenDirectory /\ stage' # "returned"
  <2>1. /\ stage' = "files" /\ unread' = DOMAIN output /\ backendCode' = "RUNNING"
        /\ stage = "open" /\ assembly' = assembly /\ base = Directory
    BY <1>1, <1>6 DEF OpenDirectory, BackendReturn, BackendInv, FilesSound
  <2>2. assembly = Preamble
    BY <2>1 DEF BackendInv, TextSound
  <2>3. Preamble \o TextOf(<<>>) = Preamble
    BY TextOfNone, PreambleType, ConcatEmptySeq
  <2>4. assembly' = Preamble' \o TextOf(translated)'
    BY <1>1, <1>3, <2>1, <2>2, <2>3 DEF TextOf
  <2>5. TextSound'
    BY <1>2, <2>1, <2>4 DEF TextSound
  <2>6. ToSet(translated') = {}
    BY <1>1 DEF ToSet
  <2>7. ToSet(translated') \cup unread' = DOMAIN output'
    BY <1>1, <2>1, <2>6
  <2>8. /\ translated' \in Seq(DOMAIN output') /\ IsInjective(translated')
        /\ DOMAIN translated' = {}
    BY <1>1, EmptySeq DEF IsInjective
  <2>9. FilesSound'
    BY <1>1, <2>1, <2>7, <2>8 DEF FilesSound
  <2> QED
    BY <2>5, <2>9 DEF BackendInv
<1> QED
  BY <1>4, <1>5, <1>6 DEF Refuse, BackendReturn

LEMMA OpenVmFileKeepsText ==
  ASSUME BackendInv, NEW name, OpenVmFile(name), UNCHANGED <<library, assembly>>,
         stage = "files" \/ stage = "single", stage = "files" => name \in DOMAIN output
  PROVE  TextSound'
<1>1. OutputTyped /\ translated \in Seq(DOMAIN output) /\ backendCode = "RUNNING"
  BY DEF BackendInv, TextSound, FilesSound, OutputTyped
<1>2. /\ stage' = "lines" /\ backendCode' = "RUNNING"
      /\ output' = IF name \in DOMAIN output THEN output ELSE Written(name, <<>>)
      /\ name \in DOMAIN output' /\ translated' = Append(translated, name)
      /\ parser' \in Initialized(output'[name])
  BY <1>1 DEF OpenVmFile, Written
<1>3. OutputTyped'
  BY <1>1, <1>2, EmptySeq DEF OutputTyped, Written
<1>4. ASSUME AllWellFormed' PROVE InsideFile'
  <2>1. output' = output /\ name \in DOMAIN output
    <3>1. output'[name] # <<>>
      BY <1>2, <1>4 DEF AllWellFormed, WellFormed
    <3> QED
      BY <1>2, <3>1 DEF Written
  <2>2. AllWellFormed
    BY <1>4, <2>1 DEF AllWellFormed
  <2> DEFINE lines == output[name]
             n == Len(translated)
  <2>3. lines \in Seq(GoodLines) /\ lines # <<>>
    BY <1>1, <2>1, <2>2, WellFormedLines
  <2>4. Len(lines) \in Nat \ {0} /\ Initialized(lines) = {LookingAhead(lines, 1)}
    BY <2>3, InitializedGood
  <2>5. assembly = Preamble \o TextOf(translated)
    <3>1. CASE stage = "files"
      BY <2>2, <3>1 DEF BackendInv, TextSound
    <3>2. CASE stage = "single"
      <4>1. assembly = Preamble /\ translated = <<>>
        BY <3>2 DEF BackendInv, TextSound, FilesSound
      <4> QED
        BY <4>1, TextOfNone, PreambleType, ConcatEmptySeq
    <3> QED
      BY <3>1, <3>2
  <2>6. /\ translated' # <<>> /\ Len(translated') = n + 1 /\ translated'[n + 1] = name /\ n \in Nat
        /\ SubSeq(translated', 1, (n + 1) - 1) = translated
    <3>1. n \in Nat
      BY <1>1, LenProperties
    <3>2. /\ translated' \in Seq(DOMAIN output) /\ translated' # <<>> /\ Len(translated') = n + 1
          /\ translated'[n + 1] = name /\ \A i \in 1..n : translated'[i] = translated[i]
      BY <1>1, <1>2, <2>1, AppendProperties
    <3>3. (n + 1) - 1 = n
      BY <3>1
    <3>4. SubSeq(translated', 1, n) = translated
      <4>1. \A i \in 1..n : translated'[i] \in DOMAIN output
        BY <1>1, <3>2, ElementOfSeq
      <4>2. /\ SubSeq(translated', 1, n) \in Seq(DOMAIN output)
            /\ Len(SubSeq(translated', 1, n)) = IF 1 <= n THEN n - 1 + 1 ELSE 0
            /\ \A i \in 1..n - 1 + 1 : SubSeq(translated', 1, n)[i] = translated'[1 + i - 1]
        BY <3>1, <4>1, SubSeqProperties
      <4> DEFINE front == SubSeq(translated', 1, n)
      <4> HIDE DEF front
      <4>3. Len(front) = n /\ \A i \in 1..n : front[i] = translated[i]
        BY <3>1, <3>2, <4>2 DEF front
      <4> QED
        BY <1>1, <4>2, <4>3, SeqEqual DEF front
    <3> QED
      BY <3>1, <3>2, <3>3, <3>4
  <2>7. /\ SubSeq(lines, 1, 1 - 1) = <<>>
        /\ Preamble \o TextOf(translated) \in Seq(Emittable)
    <3>1. TextOf(translated) \in Seq(Emittable)
      BY <1>1, <2>1, TextOfAppend, SeqMonotonic DEF Emittable
    <3> QED
      BY <3>1, PreambleType, ConcatProperties, SubSeqEmpty
  <2>8. assembly = Preamble \o TextOf(SubSeq(translated', 1, (n + 1) - 1)) \o SubSeq(lines, 1, 1 - 1)
    BY <2>5, <2>6, <2>7, ConcatEmptySeq
  <2>9. parser' = LookingAhead(lines, 1)
    BY <1>2, <2>1, <2>4
  <2>10. 1 \in 1..Len(lines)
    BY <2>4
  <2> QED
    BY <2>1, <2>6, <2>8, <2>9, <2>10 DEF InsideFile, Preamble, TextOf, LookingAhead
<1> QED
  BY <1>2, <1>3, <1>4 DEF TextSound, OutputTyped

LEMMA OpenVmFileKeepsFiles ==
  ASSUME BackendInv, NEW name, OpenVmFile(name), UNCHANGED <<base, broken>>,
         \/ stage = "single" /\ unread' = unread
         \/ stage = "files" /\ name \in unread /\ unread' = unread \ {name}
  PROVE  FilesSound'
<1> DEFINE n == Len(translated)
<1>1. /\ translated \in Seq(DOMAIN output) /\ IsInjective(translated) /\ backendCode = "RUNNING"
      /\ \A i \in DOMAIN translated : translated[i] \notin unread
      /\ unread \subseteq DOMAIN output
  BY DEF BackendInv, FilesSound
<1>2. n \in Nat /\ DOMAIN translated = 1..n
  BY <1>1, LenProperties
<1>3. /\ stage' = "lines" /\ backendCode' = "RUNNING" /\ hadError' = hadError
      /\ DOMAIN output \subseteq DOMAIN output' /\ name \in DOMAIN output'
      /\ name \in DOMAIN output => output' = output
      /\ translated' = Append(translated, name)
  BY <1>1 DEF OpenVmFile, Written
<1>4. /\ translated' \in Seq(DOMAIN output') /\ DOMAIN translated' = 1..n + 1
      /\ \A i \in 1..n : translated'[i] = translated[i]
      /\ translated'[n + 1] = name
  <2>1. translated \in Seq(DOMAIN output')
    BY <1>1, <1>3, SeqMonotonic
  <2> QED
    BY <1>3, <2>1, AppendProperties, LenProperties
<1>5. CASE stage = "single"
  <2>1. translated = <<>> /\ unread = {} /\ base # Directory /\ unread' = {} /\ ~hadError
    BY <1>5 DEF BackendInv, FilesSound
  <2>2. n = 0
    BY <2>1, EmptySeq
  <2>3. DOMAIN translated' = {1}
    BY <1>4, <2>2
  <2>4. IsInjective(translated')
    BY <2>3 DEF IsInjective
  <2> QED
    BY <1>3, <1>4, <2>1, <2>4 DEF FilesSound
<1>6. CASE stage = "files"
  <2>1. name \in unread /\ unread' = unread \ {name} /\ base = Directory /\ output' = output
    BY <1>1, <1>3, <1>6 DEF BackendInv, FilesSound
  <2>2. \A i \in 1..n : translated[i] # name
    BY <1>1, <1>2, <2>1
  <2>3. IsInjective(translated')
    BY <1>1, <1>2, <1>4, <2>2 DEF IsInjective
  <2>4. \A i \in DOMAIN translated' : translated'[i] \notin unread'
    BY <1>1, <1>2, <1>4, <2>1
  <2>5. hadError \/ ToSet(translated) \cup unread = DOMAIN output
    BY <1>6, <2>1 DEF BackendInv, FilesSound
  <2>6. ToSet(translated') = ToSet(translated) \cup {name}
    <3>1. ASSUME NEW i \in 1..n + 1 PROVE translated'[i] \in ToSet(translated) \cup {name}
      BY <1>2, <1>4, <3>1 DEF ToSet
    <3>2. ASSUME NEW i \in 1..n PROVE translated[i] \in ToSet(translated')
      <4>1. i \in 1..n + 1 /\ translated'[i] = translated[i]
        BY <1>2, <1>4
      <4> QED
        BY <1>4, <4>1 DEF ToSet
    <3>3. name \in ToSet(translated')
      <4>1. n + 1 \in 1..n + 1
        BY <1>2
      <4> QED
        BY <1>4, <4>1 DEF ToSet
    <3> QED
      BY <1>2, <1>4, <3>1, <3>2, <3>3 DEF ToSet
  <2>7. hadError' \/ ToSet(translated') \cup unread' = DOMAIN output'
    BY <1>3, <2>1, <2>5, <2>6
  <2>8. unread' \subseteq DOMAIN output'
    BY <1>1, <2>1
  <2> QED
    BY <1>3, <1>4, <2>1, <2>3, <2>4, <2>7, <2>8 DEF FilesSound
<1> QED
  BY <1>5, <1>6

LEMMA OpenKeeps == ASSUME BackendInv, OpenSingle \/ OpenNext PROVE BackendInv'
<1>1. CASE OpenSingle /\ OpenVmFile(base)
  <2>1. stage = "single" /\ UNCHANGED <<base, broken, library, unread, assembly>>
    BY <1>1 DEF OpenSingle
  <2> QED
    BY <1>1, <2>1, OpenVmFileKeepsText, OpenVmFileKeepsFiles DEF BackendInv
<1>2. CASE OpenSingle /\ ~OpenVmFile(base)
  <2>1. /\ stage' = "returned" /\ backendCode' = "FAILED_TO_OPEN_SOURCE_FILE"
        /\ UNCHANGED <<base, broken, library, unread, assembly, output, parser, translated, hadError>>
    BY <1>2 DEF OpenSingle, BackendReturn, VmFileRefused
  <2> QED
    BY <2>1 DEF BackendInv, FilesSound, TextSound
<1>3. CASE OpenNext
  <2>1. stage = "files" /\ UNCHANGED <<base, broken, library, assembly>>
    BY <1>3 DEF OpenNext
  <2>2. PICK name \in unread :
          /\ unread' = unread \ {name}
          /\ \/ OpenVmFile(name)
             \/ hadError' = TRUE /\ VmFileRefused /\ UNCHANGED <<stage, backendCode>>
    BY <1>3 DEF OpenNext
  <2>3. CASE OpenVmFile(name)
    <3>1. name \in DOMAIN output
      BY DEF BackendInv, FilesSound
    <3> QED
      BY <2>1, <2>2, <2>3, <3>1, OpenVmFileKeepsText, OpenVmFileKeepsFiles DEF BackendInv
  <2>4. CASE ~OpenVmFile(name)
    <3>1. hadError' = TRUE /\ UNCHANGED <<output, parser, translated, stage, backendCode>>
      BY <2>2, <2>4 DEF VmFileRefused
    <3>2. FilesSound'
      BY <2>1, <2>2, <3>1 DEF BackendInv, FilesSound
    <3>3. (AllWellFormed' <=> AllWellFormed) /\ Preamble' = Preamble /\ TextOf(translated)' = TextOf(translated)
      BY <2>1, <3>1 DEF AllWellFormed, Preamble, TextOf
    <3>4. TextSound'
      BY <2>1, <3>1, <3>3 DEF BackendInv, TextSound
    <3> QED
      BY <3>2, <3>4 DEF BackendInv
  <2> QED
    BY <2>3, <2>4
<1> QED
  BY <1>1, <1>2, <1>3

(* In a well-formed file the current line is one of the file's, and the next *)
(* one is a dummy exactly behind the last.                                  *)
LEMMA InsideFacts ==
  ASSUME BackendInv, AllWellFormed, stage = "lines",
         NEW open, open = translated[Len(translated)], NEW lines, lines = output[open]
  PROVE  /\ translated # <<>> /\ open \in DOMAIN output
         /\ lines \in Seq(GoodLines) /\ Len(lines) \in Nat \ {0}
         /\ \E k \in 1..Len(lines) :
              /\ parser = LookingAhead(lines, k)
              /\ assembly = Preamble \o TextOf(SubSeq(translated, 1, Len(translated) - 1)) \o SubSeq(lines, 1, k - 1)
              /\ HasMoreLines(parser) <=> k < Len(lines)
              /\ Emitted(parser.current) = {<<lines[k]>>}
<1>1. InsideFile /\ translated \in Seq(DOMAIN output) /\ OutputTyped
  BY DEF BackendInv, TextSound, FilesSound, OutputTyped
<1>2. translated # <<>>
  BY <1>1 DEF InsideFile
<1>3. open \in DOMAIN output
  <2>1. Len(translated) \in 1..Len(translated)
    BY <1>1, <1>2, EmptySeq
  <2> QED
    BY <1>1, <2>1, ElementOfSeq
<1>4. lines \in Seq(GoodLines) /\ lines # <<>>
  BY <1>1, <1>3, WellFormedLines
<1>5. Len(lines) \in Nat \ {0}
  BY <1>4, EmptySeq
<1>6. PICK k \in 1..Len(lines) :
        /\ parser = LookingAhead(lines, k)
        /\ assembly = Preamble \o TextOf(SubSeq(translated, 1, Len(translated) - 1)) \o SubSeq(lines, 1, k - 1)
  BY <1>1 DEF InsideFile
<1>7. parser.current = lines[k] /\ parser.next = IF k < Len(lines) THEN lines[k + 1] ELSE Dummy
  BY <1>6 DEF LookingAhead, VmParser
<1>8. lines[k] \in GoodLines /\ (k < Len(lines) => lines[k + 1] \in GoodLines)
  <2>1. k < Len(lines) => k + 1 \in 1..Len(lines)
    BY <1>5
  <2> QED
    BY <1>4, <2>1, ElementOfSeq
<1>9. HasMoreLines(parser) <=> k < Len(lines)
  BY <1>7, <1>8, GoodIsNotDummy DEF HasMoreLines
<1>10. Emitted(parser.current) = {<<lines[k]>>}
  BY <1>7, <1>8, GoodIsNotDummy DEF Emitted
<1> QED
  BY <1>2, <1>3, <1>4, <1>5, <1>6, <1>9, <1>10

LEMMA BeforeFileType ==
  ASSUME BackendInv, translated # <<>>
  PROVE  LET front == SubSeq(translated, 1, Len(translated) - 1) IN
         /\ Preamble \o TextOf(front) \in Seq(Emittable)
         /\ TextOf(translated) \in Seq(Emittable)
         /\ TextOf(translated) = TextOf(front) \o output[translated[Len(translated)]]
<1> DEFINE n == Len(translated)
           front == SubSeq(translated, 1, n - 1)
<1>1. OutputTyped /\ translated \in Seq(DOMAIN output)
  BY DEF BackendInv, TextSound, FilesSound, OutputTyped
<1>2. n \in Nat \ {0} /\ n \in 1..n
  BY <1>1, EmptySeq
<1>3. 1 \in 1..n /\ n \in 1..n /\ n - 1 \in Int /\ \A i \in 1..n - 1 : i \in 1..n
  BY <1>2
<1>4. translated[n] \in DOMAIN output /\ front \in Seq(DOMAIN output)
  <2>1. \A i \in 1..n - 1 : translated[i] \in DOMAIN output
    BY <1>1, <1>3, ElementOfSeq
  <2> QED
    BY <1>1, <1>3, <2>1, ElementOfSeq, SubSeqProperties
<1>5. translated = Append(front, translated[n])
  <2>1. SubSeq(translated, 1, n) = SubSeq(translated, 1, n - 1) \o <<translated[n]>>
    BY <1>1, <1>3, SubSeqRecursiveSecond
  <2>2. SubSeq(translated, 1, n) = translated
    BY <1>1, SubSeqFull
  <2> HIDE DEF front, n
  <2>3. front \o <<translated[n]>> = Append(front, translated[n])
    BY <1>4, AppendIsConcat
  <2> QED
    BY <2>1, <2>2, <2>3 DEF front, n
<1> HIDE DEF front, n
<1>6. /\ TextOf(front) \in Seq(Lines) /\ output[translated[n]] \in Seq(Lines)
      /\ TextOf(translated) = TextOf(front) \o output[translated[n]]
  BY <1>1, <1>4, <1>5, TextOfAppend DEF OutputTyped
<1>7. TextOf(translated) \in Seq(Lines)
  BY <1>1, <1>4, TextOfAppend
<1>8. Lines \subseteq Emittable
  BY DEF Emittable
<1>9. TextOf(front) \in Seq(Emittable) /\ TextOf(translated) \in Seq(Emittable)
  BY <1>6, <1>7, <1>8, SeqMonotonic
<1> QED
  BY <1>6, <1>9, PreambleType, ConcatProperties DEF front, n

LEMMA TranslateLineKeeps == ASSUME BackendInv, TranslateLine PROVE BackendInv'
<1>1. /\ stage = "lines" /\ HasMoreLines(parser) /\ parser' \in Advance(parser)
      /\ stage' = IF parser'.valid THEN "lines" ELSE "last"
      /\ UNCHANGED <<output, base, broken, library, unread, hadError, backendCode, translated>>
      /\ \E code \in Emitted(parser.current) : assembly' = assembly \o code
  BY DEF TranslateLine
<1>2. FilesSound'
  BY <1>1 DEF BackendInv, FilesSound
<1>3. (AllWellFormed' <=> AllWellFormed) /\ Preamble' = Preamble /\ backendCode # "OK"
  BY <1>1 DEF AllWellFormed, Preamble, BackendInv, FilesSound
<1>4. ASSUME AllWellFormed PROVE stage' = "lines" /\ InsideFile'
  <2> DEFINE open == translated[Len(translated)]
             lines == output[open]
             before == Preamble \o TextOf(SubSeq(translated, 1, Len(translated) - 1))
  <2>1. translated # <<>> /\ open \in DOMAIN output /\ lines \in Seq(GoodLines) /\ Len(lines) \in Nat \ {0}
    BY <1>1, <1>4, InsideFacts
  <2>2. PICK k \in 1..Len(lines) :
          /\ parser = LookingAhead(lines, k) /\ assembly = before \o SubSeq(lines, 1, k - 1)
          /\ k < Len(lines) /\ Emitted(parser.current) = {<<lines[k]>>}
    BY <1>1, <1>4, InsideFacts
  <2>3. before \in Seq(Emittable)
    BY <2>1, BeforeFileType
  <2>4. lines \in Seq(Emittable)
    BY <2>1, SeqMonotonic DEF Emittable, GoodLines
  <2> HIDE DEF lines, before
  <2>5. k \in Nat \ {0} /\ k + 1 \in 1..Len(lines) /\ (k + 1) - 1 = k
    BY <2>1, <2>2
  <2>6. parser' = LookingAhead(lines, k + 1)
    BY <1>1, <2>1, <2>2, <2>5, AdvanceInside
  <2>7. stage' = "lines"
    BY <1>1, <2>6 DEF LookingAhead, VmParser
  <2>a. assembly' = assembly \o <<lines[k]>> /\ assembly = before \o SubSeq(lines, 1, k - 1)
    BY <1>1, <2>2
  <2>b. k \in 1..Len(lines)
    OBVIOUS
  <2>c. (before \o SubSeq(lines, 1, k - 1)) \o <<lines[k]>> = before \o SubSeq(lines, 1, k)
    BY <2>3, <2>4, <2>b, EmitLine
  <2>8. assembly' = before \o SubSeq(lines, 1, (k + 1) - 1)
    BY <2>5, <2>a, <2>c
  <2> QED
    BY <1>1, <1>3, <2>1, <2>5, <2>6, <2>7, <2>8 DEF InsideFile, TextOf, LookingAhead, lines, before
<1>5. TextSound'
  BY <1>1, <1>3, <1>4 DEF BackendInv, TextSound
<1> QED
  BY <1>2, <1>5 DEF BackendInv

LEMMA TranslateLastKeeps == ASSUME BackendInv, TranslateLast PROVE BackendInv'
<1>1. /\ stage = "last" \/ (stage = "lines" /\ ~HasMoreLines(parser))
      /\ stage' = IF base = Directory THEN "files" ELSE "finalize"
      /\ UNCHANGED <<output, base, broken, library, unread, hadError, backendCode, translated>>
      /\ \E code \in Emitted(parser.current) : assembly' = assembly \o code
  BY DEF TranslateLast
<1>2. FilesSound'
  BY <1>1 DEF BackendInv, FilesSound
<1>3. (AllWellFormed' <=> AllWellFormed) /\ Preamble' = Preamble /\ TextOf(translated)' = TextOf(translated)
  BY <1>1 DEF AllWellFormed, Preamble, TextOf
<1>4. ASSUME AllWellFormed PROVE assembly' = Preamble \o TextOf(translated)
  <2> DEFINE open == translated[Len(translated)]
             lines == output[open]
             front == TextOf(SubSeq(translated, 1, Len(translated) - 1))
  <2>1. stage = "lines" /\ ~HasMoreLines(parser)
    BY <1>1, <1>4 DEF BackendInv, TextSound
  <2>2. translated # <<>> /\ open \in DOMAIN output /\ lines \in Seq(GoodLines) /\ Len(lines) \in Nat \ {0}
    BY <2>1, <1>4, InsideFacts
  <2>3. PICK k \in 1..Len(lines) :
          /\ assembly = (Preamble \o front) \o SubSeq(lines, 1, k - 1)
          /\ ~(k < Len(lines)) /\ Emitted(parser.current) = {<<lines[k]>>}
    BY <2>1, <1>4, InsideFacts
  <2>4. k = Len(lines)
    BY <2>2, <2>3
  <2>5. Preamble \o front \in Seq(Emittable) /\ TextOf(translated) = front \o lines /\ front \in Seq(Emittable)
    <3>1. OutputTyped /\ translated \in Seq(DOMAIN output)
      BY DEF BackendInv, TextSound, FilesSound, OutputTyped
    <3>2. SubSeq(translated, 1, Len(translated) - 1) \in Seq(DOMAIN output)
      <4>1. Len(translated) - 1 \in Int /\ \A i \in 1..Len(translated) - 1 : i \in 1..Len(translated)
        BY <3>1, LenProperties
      <4>2. \A i \in 1..Len(translated) - 1 : translated[i] \in DOMAIN output
        BY <3>1, <4>1, ElementOfSeq
      <4> QED
        BY <4>1, <4>2, SubSeqProperties
    <3>3. front \in Seq(Emittable)
      BY <2>2, <3>1, <3>2, TextOfAppend, SeqMonotonic DEF Emittable
    <3> QED
      BY <2>2, <3>3, BeforeFileType
  <2>6. lines \in Seq(Emittable)
    BY <2>2, SeqMonotonic DEF Emittable, GoodLines
  <2> HIDE DEF lines, front
  <2>a. assembly' = assembly \o <<lines[k]>> /\ assembly = (Preamble \o front) \o SubSeq(lines, 1, k - 1)
    BY <1>1, <2>3
  <2>b. k \in 1..Len(lines)
    OBVIOUS
  <2>c. ((Preamble \o front) \o SubSeq(lines, 1, k - 1)) \o <<lines[k]>> = (Preamble \o front) \o SubSeq(lines, 1, k)
    BY <2>5, <2>6, <2>b, EmitLine
  <2>7. assembly' = (Preamble \o front) \o SubSeq(lines, 1, Len(lines))
    BY <2>4, <2>a, <2>c
  <2>8. SubSeq(lines, 1, Len(lines)) = lines
    BY <2>6, SubSeqFull
  <2>9. (Preamble \o front) \o lines = Preamble \o (front \o lines)
    BY <2>5, <2>6, PreambleType, ConcatAssociative
  <2> QED
    BY <2>5, <2>7, <2>8, <2>9
<1>5. TextSound'
  BY <1>1, <1>3, <1>4 DEF BackendInv, TextSound
<1> QED
  BY <1>2, <1>5 DEF BackendInv

(* At the end of a file, and behind the last. *)
LEMMA EndKeeps == ASSUME BackendInv, AssertLineRead \/ EndFiles \/ Finalize PROVE BackendInv'
<1>1. UNCHANGED <<output, base, broken, library, unread, parser, assembly, hadError, translated>>
  BY DEF AssertLineRead, EndFiles, Finalize
<1>2. /\ (AllWellFormed' <=> AllWellFormed) /\ Preamble' = Preamble /\ TextOf(translated)' = TextOf(translated)
      /\ \A name \in DOMAIN output' : output'[name] \in Seq(Lines)
  BY <1>1 DEF AllWellFormed, Preamble, TextOf, BackendInv, TextSound
<1>3. CASE AssertLineRead
  <2>1. stage' = "returned" /\ backendCode' = "ASSERTION_ERROR"
    BY <1>3 DEF AssertLineRead, BackendReturn
  <2> QED
    BY <1>1, <1>2, <2>1 DEF BackendInv, TextSound, FilesSound
<1>4. CASE EndFiles
  <2>1. stage = "files" /\ stage' = "finalize" /\ backendCode' = backendCode /\ (unread = {} \/ broken)
    BY <1>4 DEF EndFiles
  <2>2. TextSound'
    BY <1>1, <1>2, <2>1 DEF BackendInv, TextSound
  <2>3. FilesSound'
    BY <1>1, <2>1 DEF BackendInv, FilesSound
  <2> QED
    BY <2>2, <2>3 DEF BackendInv
<1>5. CASE Finalize
  <2>1. /\ stage = "finalize" /\ stage' = "returned"
        /\ backendCode' = CASE translated = <<>> /\ ~hadError -> "NO_SOURCE_FILES"
                            [] hadError -> "CODE_GEN_FAILED"
                            [] OTHER -> "OK"
    BY <1>5 DEF Finalize, BackendReturn
  <2>2. backendCode' # "RUNNING" /\ (backendCode' = "OK" => ~hadError)
    BY <2>1
  <2>3. TextSound'
    BY <1>1, <1>2, <2>1 DEF BackendInv, TextSound
  <2>4. FilesSound'
    BY <1>1, <2>1, <2>2 DEF BackendInv, FilesSound
  <2> QED
    BY <2>3, <2>4 DEF BackendInv
<1> QED
  BY <1>3, <1>4, <1>5

LEMMA TranslateKeepsBackend == ASSUME BackendInv, BackendNext PROVE BackendInv'
BY RefuseKeeps, OpenKeeps, TranslateLineKeeps, TranslateLastKeeps, EndKeeps DEF BackendNext

(* The frontend writes lines, and only before the backend starts. *)
LEMMA GenerateKeepsOutput ==
  ASSUME FrontendInv, OutputTyped, GenerateFile
  PROVE  OutputTyped'
<1> DEFINE source == Head(ungenerated)
<1>1. pass = "generate" /\ ungenerated # <<>>
  BY DEF GenerateFile
<1>2. ungenerated \in Seq(AllEntries) /\ Taken \in 0..Len(sources)
      /\ \A i \in DOMAIN ungenerated : ungenerated[i] = sources[Taken + i]
  BY <1>1 DEF FrontendInv, GeneratedSoFar
<1>3. ParsedFile(source)
  <2>1. Len(ungenerated) \in Nat \ {0} /\ Len(sources) \in Nat /\ DOMAIN sources = 1..Len(sources)
        /\ DOMAIN ungenerated = 1..Len(ungenerated)
    BY <1>1, <1>2, EmptySeq, LenProperties DEF FrontendInv, NothingForgotten
  <2>2. 1 \in DOMAIN ungenerated /\ source = ungenerated[1]
    BY <1>1, <1>2, <2>1, HeadTailProperties
  <2>3. Taken + 1 \in DOMAIN sources
    BY <1>2, <2>1 DEF Taken
  <2>4. \A j \in DOMAIN sources : ParsedFile(sources[j])
    BY DEF FrontendInv, NothingForgotten
  <2>5. source = sources[Taken + 1]
    BY <1>2, <2>2
  <2> HIDE DEF source
  <2> QED
    BY <2>3, <2>4, <2>5
<1>4. Compiled(source) \in Seq(Lines)
  <2>1. source.class \in STRING /\ source.lines \in Nat
    BY <1>3 DEF ParsedFile
  <2> HIDE DEF source
  <2>2. Compiled(source) \in [1..source.lines -> Lines]
    BY <2>1 DEF Compiled, Lines
  <2> QED
    BY <2>1, <2>2, SeqDef
<1>5. output' = output \/ output' = Written(source.name, Compiled(source))
  BY DEF GenerateFile
<1> HIDE DEF source
<1> QED
  BY <1>4, <1>5 DEF OutputTyped, Written

LEMMA CompileKeepsBackend == ASSUME FrontendInv, BackendInv, Compile PROVE BackendInv'
<1>1. stage = "start"
  <2>1. tool # "backend" /\ pass # "returned"
    BY DEF Compile, FrontendNext, Collecting, SkipPath, SourcePath, OpenPath, ReadEntry, LeaveDir,
           EndCollect, BuildRegistry, CheckSemantics, GenerateFile, EndGenerate
  <2> QED
    BY <2>1 DEF FrontendInv, BackendWaits, PassesInOrder, Running
<1>2. OutputTyped'
  <2>1. OutputTyped
    BY DEF BackendInv, TextSound, OutputTyped
  <2>2. GenerateFile \/ output' = output
    BY DEF Compile, FrontendNext, Collecting, SkipPath, SourcePath, OpenPath, ReadEntry, LeaveDir,
           EndCollect, BuildRegistry, CheckSemantics, EndGenerate
  <2> QED
    BY <2>1, <2>2, GenerateKeepsOutput DEF OutputTyped
<1>3. UNCHANGED <<base, broken, library, stage, unread, parser, assembly, hadError, backendCode, translated>>
  BY DEF Compile, backendVars
<1>4. translated = <<>> /\ unread = {} /\ ~hadError /\ backendCode = "RUNNING" /\ assembly = <<>>
  BY <1>1 DEF BackendInv, TextSound, FilesSound
<1>5. TextSound'
  BY <1>1, <1>2, <1>3, <1>4 DEF TextSound, OutputTyped
<1>6. FilesSound'
  <2>1. translated' \in Seq(DOMAIN output') /\ IsInjective(translated')
    BY <1>3, <1>4, EmptySeq DEF IsInjective
  <2> QED
    BY <1>1, <1>3, <1>4, <2>1 DEF FilesSound
<1> QED
  BY <1>5, <1>6 DEF BackendInv

LEMMA InitBackend == Init => BackendInv
<1> SUFFICES ASSUME Init PROVE BackendInv
  OBVIOUS
<1>1. PICK call \in Calls : output = call.output
  BY DEF Init
<1>2. \A name \in DOMAIN output : output[name] \in Seq(Lines)
  BY <1>1, JackcAssumption
<1>3. stage = "start" /\ unread = {} /\ assembly = <<>> /\ hadError = FALSE
      /\ backendCode = "RUNNING" /\ translated = <<>>
  BY DEF Init, BackendInit
<1>4. TextSound
  BY <1>2, <1>3 DEF TextSound
<1>5. translated \in Seq(DOMAIN output) /\ IsInjective(translated)
  BY <1>3, EmptySeq DEF IsInjective
<1> QED
  BY <1>3, <1>4, <1>5 DEF BackendInv, FilesSound

LEMMA QuietKeepsBackend ==
  ASSUME BackendInv, UNCHANGED <<output, backendVars>>
  PROVE  BackendInv'
<1>1. UNCHANGED <<output, base, broken, library, stage, unread, parser, assembly, hadError,
                  backendCode, translated>>
  BY DEF backendVars
<1> QED
  BY <1>1 DEF BackendInv, TextSound, FilesSound, AllWellFormed, InsideFile, TextOf, LookingAhead, Preamble

LEMMA StepKeepsBackend == FrontendInv /\ BackendInv /\ [Next]_vars => BackendInv'
<1> SUFFICES ASSUME FrontendInv, BackendInv, [Next]_vars PROVE BackendInv'
  OBVIOUS
<1>1. CASE Compile
  BY <1>1, CompileKeepsBackend
<1>2. CASE Translate
  BY <1>2, TranslateKeepsBackend DEF Translate
<1>3. CASE FrontendExits \/ BackendExits \/ UNCHANGED vars
  BY <1>3, QuietKeepsBackend DEF FrontendExits, BackendExits, vars, frontendVars
<1> QED
  BY <1>1, <1>2, <1>3 DEF Next

THEOREM ToolsSound == Spec => []IInv
<1>1. Init => IInv
  BY InitFrontend, InitBackend DEF IInv
<1>2. IInv /\ [Next]_vars => IInv'
  BY StepKeepsFrontend, StepKeepsBackend DEF IInv
<1> QED
  BY <1>1, <1>2, PTL DEF Spec

(* The assembly that the backend leaves when it returns OK is the library   *)
(* and every line of every file that was opened, once and in order, although *)
(* the VM parser runs ahead of the translation; and no file of the directory *)
(* is left out unless the walk was broken off.                              *)
THEOREM NoLineLost == Spec => []TranslatesEveryLine
<1>1. IInv => TranslatesEveryLine
  <2> SUFFICES ASSUME IInv, backendCode = "OK", AllWellFormed
               PROVE  /\ assembly = Preamble \o TextOf(translated)
                      /\ IsInjective(translated)
                      /\ base = Directory /\ ~broken => ToSet(translated) = DOMAIN output
    BY DEF TranslatesEveryLine, AllWellFormed, TextOf
  <2> QED
    BY DEF IInv, BackendInv, TextSound, FilesSound
<1> QED
  BY <1>1, ToolsSound, PTL

=============================================================================
