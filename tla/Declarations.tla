---------------------------- MODULE Declarations ----------------------------
(***************************************************************************)
(* What the frontend does with the declarations of a program: the three    *)
(* passes over the parsed classes that share the symbol table and the      *)
(* function registry.                                                      *)
(*                                                                         *)
(*   registry   build_function_registry: signatures of every class         *)
(*   semantic   is_semantically_invalid: a fresh chain of scopes per file  *)
(*   codegen    generate_vm_code: ONE root scope shared by all the files,  *)
(*              reset between classes; register_var asserts that every     *)
(*              insertion succeeds because the program was accepted        *)
(*                                                                         *)
(* A subroutine's body is abstracted to the set of variables it refers to. *)
(* Every reference the code generator emits is recorded, with the frame    *)
(* the `function' line it belongs to asks for.                             *)
(***************************************************************************)
EXTENDS SymbolTable, FiniteSets, TLC

CONSTANTS Programs,              (* class lists the parser may hand over      *)
          This,                  (* the name "this": a keyword, never declared*)
          EntryClass, EntrySub   (* "Main" and "main"                         *)

BasicTypes == {"int", "char", "boolean"}

(* What the parser builds: declarations carry the kind of their place, and  *)
(* a class is not named by a keyword.                                      *)
VarDecls(kinds) == [kind : kinds, name : Names \ {This}, type : STRING]

Lists(kinds) == Seq(VarDecls(kinds))

Subs == [name : STRING, kind : {"function", "method", "constructor"}, native : BOOLEAN,
         params : Lists({"arg"}), locals : Lists({"local"}), uses : SUBSET Names]

Classes == [name : STRING \ (BasicTypes \cup {"void"}), filename : STRING, vars : Lists({"static", "field"}),
            subs : Seq(Subs)]

ASSUME ProgramsAssumption ==
  /\ This \in Names
  /\ \A p \in Programs : p \in Seq(Classes) /\ p # <<>>

VARIABLES program,    (* the source files' classes, in list order             *)
          registry,   (* class name -> subroutine name -> signature           *)
          pass,       (* "registry", "semantic", "codegen" or how it ended    *)
          file,       (* index of the class being visited                     *)
          stage,      (* what of it is being visited                          *)
          sub, decl,  (* indices of the subroutine and the declaration        *)
          chain,      (* ctx->symtab: the scopes, innermost last              *)
          redeclared, (* had_redeclaration                                    *)
          invalid,    (* is_invalid                                           *)
          genError,   (* had_error of the code generator                      *)
          refs        (* history: the variable references emitted so far      *)

vars == <<program, registry, pass, file, stage, sub, decl, chain, redeclared,
          invalid, genError, refs>>

Stages == {"class", "classVars", "subs", "subVars", "body"}

Class == program[file]

Sub == Class.subs[sub]

(* A duplicated subroutine name overwrites the earlier signature: the last *)
(* declaration of a name wins.                                             *)
LastNamed(cls, m) ==
  CHOOSE k \in DOMAIN cls.subs :
    /\ cls.subs[k].name = m
    /\ \A j \in DOMAIN cls.subs : cls.subs[j].name = m => j <= k

SignatureOf(s) ==
  [kind |-> s.kind, nArgs |-> Len(s.params), nLocals |-> Len(s.locals)]

MethodsOf(cls) ==
  [m \in {cls.subs[k].name : k \in DOMAIN cls.subs} |->
     SignatureOf(cls.subs[LastNamed(cls, m)])]

(* ctx->sub_signature and ctx->subroutine_signature *)
Signature == registry[Class.name][Sub.name]

(* The declarations a stage registers, in the order of the visits. *)
Pending ==
  IF stage = "classVars" THEN Class.vars ELSE Sub.params \o Sub.locals

VarDecl == Pending[decl]

FieldCount(cls) == Cardinality({k \in DOMAIN cls.vars : cls.vars[k].kind = "field"})

-----------------------------------------------------------------------------
(* Names of classes are the only types that may be undeclared. *)
IsClassType(t) == t \notin BasicTypes \cup {"void"}

(* register_var of the semantic pass refuses void and unknown classes. *)
IllTyped(v) ==
  \/ v.type = "void"
  \/ IsClassType(v.type) /\ v.type \notin DOMAIN registry

(* Mutant of IsValidVar: names of the class's subroutines are let through.  *)
IsValidVarUnshadowed(n) == Find(chain, n) # Absent

(* is_valid_var_or_diagnostic: declared, and no subroutine of the class.   *)
IsValidVar(n) ==
  /\ Find(chain, n) # Absent
  /\ n \notin DOMAIN registry[Class.name]

(* The checks made after each file's traversal and after the last one.     *)
WrongFilename == Class.filename # Class.name

NoEntryPoint ==
  ~ (EntryClass \in DOMAIN registry /\ EntrySub \in DOMAIN registry[EntryClass])

-----------------------------------------------------------------------------
Init ==
  /\ program \in Programs
  /\ registry = <<>>
  /\ pass = "registry"
  /\ file = 1
  /\ stage = "class"
  /\ sub = 1
  /\ decl = 1
  /\ chain = <<>>
  /\ redeclared = FALSE
  /\ invalid = FALSE
  /\ genError = FALSE
  /\ refs = {}

(* ast_function_registry_build_traversal on one class; after the last one   *)
(* the frontend stops if any class was declared twice.                     *)
RegisterClass ==
  /\ pass = "registry"
  /\ IF Class.name \in DOMAIN registry
     THEN /\ redeclared' = TRUE
          /\ UNCHANGED registry
     ELSE /\ registry' = [c \in DOMAIN registry \cup {Class.name} |->
                            IF c = Class.name THEN MethodsOf(Class) ELSE registry[c]]
          /\ UNCHANGED redeclared
  /\ IF file < Len(program)
     THEN file' = file + 1 /\ UNCHANGED pass
     ELSE /\ file' = 1
          /\ pass' = IF redeclared' THEN "redeclaration" ELSE "semantic"
  /\ UNCHANGED <<program, stage, sub, decl, chain, invalid, genError, refs>>

(* semantic_validity_enter_class *)
SemEnterClass ==
  /\ pass = "semantic" /\ stage = "class"
  /\ chain' = PushScope(chain)
  /\ stage' = "classVars"
  /\ decl' = 1
  /\ UNCHANGED <<program, registry, pass, file, sub, redeclared, invalid, genError, refs>>

(* Mutant of SemDeclare: a redefinition is reported, but the program stays valid. *)
SemDeclareLenient ==
  /\ pass = "semantic" /\ stage \in {"classVars", "subVars"}
  /\ decl <= Len(Pending)
  /\ decl' = decl + 1
  /\ invalid' = (invalid \/ IllTyped(VarDecl))
  /\ chain' = IF IllTyped(VarDecl) THEN chain
              ELSE Insert(chain, VarDecl.name, VarDecl.kind)
  /\ UNCHANGED <<program, registry, pass, file, stage, sub, redeclared, genError, refs>>

SemDeclare ==
  /\ pass = "semantic" /\ stage \in {"classVars", "subVars"}
  /\ decl <= Len(Pending)
  /\ decl' = decl + 1
  /\ IF IllTyped(VarDecl)
     THEN /\ invalid' = TRUE
          /\ UNCHANGED chain
     ELSE /\ invalid' = (invalid \/ InsertFails(chain, VarDecl.name))
          /\ chain' = Insert(chain, VarDecl.name, VarDecl.kind)
  /\ UNCHANGED <<program, registry, pass, file, stage, sub, redeclared, genError, refs>>

(* No declaration of the class or of the subroutine is left. *)
DeclarationsDone ==
  /\ pass \in {"semantic", "codegen"} /\ stage \in {"classVars", "subVars"}
  /\ decl > Len(Pending)
  /\ stage' = IF stage = "classVars" THEN "subs" ELSE "body"
  /\ sub' = IF stage = "classVars" THEN 1 ELSE sub
  /\ decl' = 1
  /\ UNCHANGED <<program, registry, pass, file, chain, redeclared, invalid, genError, refs>>

SemEnterSub ==
  /\ pass = "semantic" /\ stage = "subs" /\ sub <= Len(Class.subs)
  /\ chain' = PushScope(chain)
  /\ stage' = "subVars"
  /\ UNCHANGED <<program, registry, pass, file, sub, decl, redeclared, invalid, genError, refs>>

(* The statements, and sym_table_pop at the end of visit_subroutine. *)
SemBody ==
  /\ pass = "semantic" /\ stage = "body"
  /\ invalid' = (invalid \/ \E n \in Sub.uses : ~ IsValidVar(n))
  /\ chain' = PopScope(chain)
  /\ stage' = "subs"
  /\ sub' = sub + 1
  /\ UNCHANGED <<program, registry, pass, file, decl, redeclared, genError, refs>>

(* The class's scope is popped and the file name compared; the last file is *)
(* followed by the entry point check and, for a valid program, by the code  *)
(* generator with a root scope of its own.                                  *)
SemLeaveClass ==
  /\ pass = "semantic" /\ stage = "subs" /\ sub > Len(Class.subs)
  /\ sub' = 1
  /\ IF file < Len(program)
     THEN /\ invalid' = (invalid \/ WrongFilename)
          /\ chain' = PopScope(chain)
          /\ file' = file + 1
          /\ stage' = "class"
          /\ UNCHANGED pass
     ELSE /\ invalid' = (invalid \/ WrongFilename \/ NoEntryPoint)
          /\ chain' = IF invalid' THEN PopScope(chain) ELSE PushScope(PopScope(chain))
          /\ file' = 1
          /\ stage' = "classVars"
          /\ pass' = IF invalid' THEN "invalid" ELSE "codegen"
  /\ UNCHANGED <<program, registry, decl, redeclared, genError, refs>>

(* register_var of the code generator: a failed insertion is an assertion.  *)
GenDeclare ==
  /\ pass = "codegen" /\ stage \in {"classVars", "subVars"}
  /\ decl <= Len(Pending)
  /\ decl' = decl + 1
  /\ IF VarDecl.type = "void" \/ InsertFails(chain, VarDecl.name)
     THEN pass' = "aborted" /\ UNCHANGED chain
     ELSE chain' = Insert(chain, VarDecl.name, VarDecl.kind) /\ UNCHANGED pass
  /\ UNCHANGED <<program, registry, file, stage, sub, redeclared, invalid, genError, refs>>

(* Mutant of GenEnterSub: `this' is not registered as a method's argument 0. *)
GenEnterSubWithoutThis ==
  /\ pass = "codegen" /\ stage = "subs" /\ sub <= Len(Class.subs)
  /\ sub' = IF Sub.native THEN sub + 1 ELSE sub
  /\ chain' = IF Sub.native THEN chain ELSE PushScope(chain)
  /\ stage' = IF Sub.native THEN stage ELSE "subVars"
  /\ UNCHANGED <<program, registry, pass, file, decl, redeclared, invalid, genError, refs>>

(* A native subroutine is skipped; a method's scope starts with `this'. *)
GenEnterSub ==
  /\ pass = "codegen" /\ stage = "subs" /\ sub <= Len(Class.subs)
  /\ IF Sub.native
     THEN /\ sub' = sub + 1
          /\ UNCHANGED <<stage, chain>>
     ELSE /\ chain' = IF Signature.kind = "method"
                      THEN Insert(PushScope(chain), This, "arg")
                      ELSE PushScope(chain)
          /\ stage' = "subVars"
          /\ UNCHANGED sub
  /\ UNCHANGED <<program, registry, pass, file, decl, redeclared, invalid, genError, refs>>

(* Mutant of Frame: the implicit `this' of a method is not counted. *)
FrameWithoutThis ==
  [locals |-> Signature.nLocals, args |-> Signature.nArgs, fields |-> FieldCount(Class)]

(* What the emitted `function' line and its callers reserve. *)
Frame ==
  [locals |-> Signature.nLocals,
   args   |-> Signature.nArgs + (IF Signature.kind = "method" THEN 1 ELSE 0),
   fields |-> FieldCount(Class)]

Reference(n) ==
  [file |-> file, sub |-> sub, name |-> n, frame |-> Frame,
   kind |-> Find(chain, n).kind, idx |-> Find(chain, n).idx]

GenBody ==
  /\ pass = "codegen" /\ stage = "body"
  /\ genError' = (genError \/ \E n \in Sub.uses : Find(chain, n) = Absent)
  /\ refs' = refs \cup {Reference(n) : n \in {m \in Sub.uses : Find(chain, m) # Absent}}
  /\ chain' = PopScope(chain)
  /\ stage' = "subs"
  /\ sub' = sub + 1
  /\ UNCHANGED <<program, registry, pass, file, decl, redeclared, invalid>>

(* sym_table_reset_local_state closes the class. *)
GenLeaveClass ==
  /\ pass = "codegen" /\ stage = "subs" /\ sub > Len(Class.subs)
  /\ chain' = [chain EXCEPT ![Len(chain)] = ResetLocalState(@)]
  /\ sub' = 1
  /\ IF file < Len(program)
     THEN /\ file' = file + 1
          /\ stage' = "classVars"
          /\ UNCHANGED pass
     ELSE /\ pass' = "done"
          /\ UNCHANGED <<file, stage>>
  /\ UNCHANGED <<program, registry, decl, redeclared, invalid, genError, refs>>

(* The frontend has returned: nothing else happens. *)
Ended == {"redeclaration", "invalid", "aborted", "done"}

Finished ==
  /\ pass \in Ended
  /\ UNCHANGED vars

Next ==
  \/ RegisterClass
  \/ SemEnterClass \/ SemEnterSub \/ SemDeclare \/ SemBody \/ SemLeaveClass
  \/ GenEnterSub \/ GenDeclare \/ GenBody \/ GenLeaveClass
  \/ DeclarationsDone
  \/ Finished

Spec == Init /\ [][Next]_vars

-----------------------------------------------------------------------------
(* What the passes should agree on, read off the program text alone.       *)

DistinctNames(list) ==
  \A i, j \in DOMAIN list : list[i].name = list[j].name => i = j

NamesOf(list) == {list[i].name : i \in DOMAIN list}

WellTyped(list) ==
  \A i \in DOMAIN list : list[i].type \in BasicTypes \cup NamesOf(program)

WellFormedSub(cls, s) ==
  /\ DistinctNames(s.params \o s.locals)
  /\ WellTyped(s.params \o s.locals)
  /\ s.uses \subseteq NamesOf(cls.vars) \cup NamesOf(s.params \o s.locals)
  /\ s.uses \cap NamesOf(cls.subs) = {}

WellFormedClass(cls) ==
  /\ cls.filename = cls.name
  /\ DistinctNames(cls.vars)
  /\ WellTyped(cls.vars)
  /\ \A k \in DOMAIN cls.subs : WellFormedSub(cls, cls.subs[k])

WellFormed ==
  /\ DistinctNames(program)
  /\ \A f \in DOMAIN program : WellFormedClass(program[f])
  /\ \E f \in DOMAIN program :
       program[f].name = EntryClass /\ EntrySub \in NamesOf(program[f].subs)

(* How many declarations of a list are of kind k, among the first n. *)
Count(list, k, n) == Cardinality({i \in 1..n : list[i].kind = k})

StaticsOf(f) == {f} \X {i \in DOMAIN program[f].vars : program[f].vars[i].kind = "static"}

StaticsBefore(f) == Cardinality(UNION {StaticsOf(g) : g \in 1..f-1})

(* The slot a reference must denote: the innermost declaration's place     *)
(* among those of its kind, after `this' in a method and after the statics *)
(* of the earlier classes.                                                 *)
IsSlotOf(r) ==
  LET cls   == program[r.file]
      s     == cls.subs[r.sub]
      own   == s.params \o s.locals
      list  == IF r.name \in NamesOf(own) THEN own ELSE cls.vars
      place == CHOOSE i \in DOMAIN list : list[i].name = r.name
      kind  == list[place].kind
      base  == CASE kind = "arg" /\ s.kind = "method" -> 1
                 [] kind = "static" -> StaticsBefore(r.file)
                 [] OTHER -> 0
  IN  r.kind = kind /\ r.idx = base + Count(list, kind, place - 1)

(* The body that a reference stands in has its own signature: no subroutine *)
(* of the same name follows in the class, which no pass would object to and *)
(* whose signature both would be compiled with.                            *)
HasOwnSignature(r) ==
  LastNamed(program[r.file], program[r.file].subs[r.sub].name) = r.sub

-----------------------------------------------------------------------------
(* Properties *)

(* The registers of the traversals: the visit never runs past the last file. *)
TypeOK ==
  /\ pass \in {"registry", "semantic", "codegen"} \cup Ended
  /\ file \in 1..Len(program)
  /\ stage \in Stages
  /\ sub \in Nat \ {0} /\ decl \in Nat \ {0}
  /\ chain \in Seq(Scopes)
  /\ redeclared \in BOOLEAN /\ invalid \in BOOLEAN /\ genError \in BOOLEAN

(* The code generator never runs into what the semantic pass should have    *)
(* kept out: register_var's assertion and its `should not happen' errors.  *)
AcceptedNeverFails == pass # "aborted" /\ ~ genError

(* The passes over the declarations accept exactly the well-formed programs *)
(* (subroutine names aside: no pass compares them).                        *)
AcceptsExactlyWellFormed ==
  /\ pass = "done" => WellFormed
  /\ pass \in {"redeclaration", "invalid"} => ~ WellFormed

(* Every reference the code generator emits denotes the variable that the   *)
(* program text declares innermost, at the slot its segment gives it.      *)
ResolvesToDeclaration == \A r \in refs : HasOwnSignature(r) => IsSlotOf(r)

(* No two static variables of the whole program share a slot, although the  *)
(* classes are compiled one after the other with a table that is reset.    *)
NoStaticAliasing ==
  \A r, t \in refs :
    r.kind = "static" /\ t.kind = "static" /\ r.idx = t.idx
      => r.file = t.file /\ r.name = t.name

(* The segment indices a body uses stay inside what the `function' line, the *)
(* callers and the constructor's Memory.alloc reserve for it.              *)
SlotInsideFrame ==
  \A r \in refs :
    /\ HasOwnSignature(r) => /\ r.kind = "local" => r.idx < r.frame.locals
                             /\ r.kind = "arg"   => r.idx < r.frame.args
    /\ r.kind = "field" => r.idx < r.frame.fields

=============================================================================
