------------------------- MODULE DeclarationsProofs -------------------------
(***************************************************************************)
(* What the passes over the declarations guarantee for every set of        *)
(* programs.                                                               *)
(*                                                                         *)
(* First, NoStaticAliasing: however many classes are compiled one after    *)
(* the other over the shared root scope, no two static variables are given *)
(* the same slot.  A scope never hands out an index twice (ScopeSound),    *)
(* and the reset between classes forgets the names but keeps the statics'  *)
(* counter; so every static slot emitted so far lies below the counter,    *)
(* those of earlier classes below every static token now in the table, and *)
(* those of the current class are the tokens now in the table (IInv).      *)
(*                                                                         *)
(* Then, that the three passes agree (AInv): while nothing was wrong, the  *)
(* scopes hold exactly the declarations visited, each at the place the     *)
(* text gives it, and what was visited is well formed; the first thing the *)
(* semantic pass objects to shows that the program is not.  So the code    *)
(* generator meets the scopes that the semantic pass accepted, its         *)
(* assertions hold, and what it emits denotes the declarations.            *)
(***************************************************************************)
EXTENDS Declarations, SequenceTheorems, FiniteSetTheorems, TLAPS

Root == chain[1]

(* The scopes open at each stage of a visit. *)
Depth == CASE stage = "class" -> 0
           [] stage \in {"classVars", "subs"} -> 1
           [] stage \in {"subVars", "body"} -> 2

Control ==
  /\ program \in Programs
  /\ pass \in {"registry", "semantic", "codegen"} \cup Ended
  /\ file \in 1..Len(program)
  /\ sub \in Nat \ {0}
  /\ decl \in Nat \ {0}
  /\ stage \in Stages
  /\ pass = "registry" => stage = "class"
  /\ pass = "codegen" => stage # "class"
  /\ stage \in {"subVars", "body"} => sub \in 1..Len(Class.subs)

ChainShape == chain \in Seq(Scopes) /\ (pass \notin Ended => Len(chain) = Depth)

Flags == redeclared \in BOOLEAN /\ invalid \in BOOLEAN /\ genError \in BOOLEAN

(* Within a scope the static tokens have distinct indices below the counter. *)
ScopeSound(s) ==
  /\ \A n \in Names : s.tokens[n].kind = "static" =>
                        s.tokens[n].idx < s.next["static"]
  /\ \A n, m \in Names :
       /\ s.tokens[n].kind = "static" /\ s.tokens[m].kind = "static"
       /\ s.tokens[n].idx = s.tokens[m].idx
       => n = m

NoStatics(s) == \A n \in Names : s.tokens[n].kind # "static"

RootSound ==
  pass = "codegen" =>
    /\ ScopeSound(Root)
    /\ Len(chain) = 2 => NoStatics(chain[2])

(* How the static slots emitted so far relate to the root scope. *)
EmittedBelow ==
  pass = "codegen" =>
    \A r \in refs : r.kind = "static" =>
      /\ r.idx \in Nat /\ r.idx < Root.next["static"]
      /\ r.name \in Names
      /\ r.file \in Nat /\ r.file <= file
      /\ r.file = file => Root.tokens[r.name] = [kind |-> "static", idx |-> r.idx]
      /\ r.file < file => \A n \in Names : Root.tokens[n].kind = "static" =>
                                             r.idx < Root.tokens[n].idx

NothingEmittedYet == pass \in {"registry", "semantic"} => refs = {}

IInv == /\ Control /\ Flags /\ ChainShape /\ RootSound /\ EmittedBelow
        /\ NothingEmittedYet /\ NoStaticAliasing

-----------------------------------------------------------------------------
(* The symbol table's operators on scopes. *)

LEMMA TokenFields ==
  ASSUME NEW s \in Scopes, NEW n \in Names
  PROVE  /\ s.tokens \in [Names -> Tokens \cup {Absent}]
         /\ s.next \in [Kinds -> Nat]
         /\ s.tokens[n] \in Tokens \cup {Absent}
         /\ s.tokens[n].idx \in Nat
         /\ s.tokens[n].kind = "static" => s.tokens[n] \in Tokens
BY DEF Scopes, Tokens, Absent, Kinds

LEMMA NewScopeSound ==
  NewScope \in Scopes /\ ScopeSound(NewScope) /\ NoStatics(NewScope)
BY DEF NewScope, NoTokens, Scopes, Tokens, Absent, Kinds, ScopeSound, NoStatics

LEMMA AddTokenSound ==
  ASSUME NEW s \in Scopes, NEW n \in Names, NEW k \in Kinds,
         ~ ExistsLocal(s, n)
  PROVE  /\ AddToken(s, n, k) \in Scopes
         /\ ScopeSound(s) => ScopeSound(AddToken(s, n, k))
         /\ NoStatics(s) /\ k # "static" => NoStatics(AddToken(s, n, k))
<1> DEFINE a == AddToken(s, n, k)
<1>1. /\ s.tokens \in [Names -> Tokens \cup {Absent}]
      /\ s.next \in [Kinds -> Nat]
  BY DEF Scopes
<1>2. a = [tokens |-> a.tokens, next |-> a.next]
  BY DEF AddToken
<1>3. /\ a.tokens = [s.tokens EXCEPT ![n] = [kind |-> k, idx |-> s.next[k]]]
      /\ a.next = [s.next EXCEPT ![k] = s.next[k] + 1]
  BY DEF AddToken
<1>4. [kind |-> k, idx |-> s.next[k]] \in Tokens
  BY <1>1 DEF Tokens
<1>5. /\ a.tokens \in [Names -> Tokens \cup {Absent}]
      /\ a.next \in [Kinds -> Nat]
  BY <1>1, <1>3, <1>4
<1>6. a \in Scopes
  BY <1>2, <1>5 DEF Scopes
<1>7. ASSUME ScopeSound(s) PROVE ScopeSound(a)
  <2>1. "static" \in Kinds
    BY DEF Kinds
  <2>1a. s.next["static"] \in Nat /\ \A j \in Nat : ~ (j = s.next["static"] /\ j < s.next["static"])
    BY <2>1, <1>1
  <2>1b. \A j \in Names : ~ (/\ s.tokens[j].idx = s.next["static"]
                             /\ s.tokens[j].idx < s.next["static"])
    BY <2>1a, TokenFields
  <2>2. ASSUME NEW m \in Names, a.tokens[m].kind = "static"
        PROVE  a.tokens[m].idx < a.next["static"]
    <3>1. CASE m = n
      BY <3>1, <2>1, <2>2, <1>1, <1>3
    <3>2. CASE m # n
      <4>1. a.tokens[m] = s.tokens[m] /\ s.tokens[m].idx < s.next["static"]
        BY <3>2, <2>2, <1>1, <1>3, <1>7 DEF ScopeSound
      <4>2. a.next["static"] >= s.next["static"]
        BY <2>1, <1>1, <1>3
      <4> QED BY <4>1, <4>2, <2>1, <1>1, <1>5, TokenFields
    <3> QED BY <3>1, <3>2
  <2>3. ASSUME NEW m \in Names, NEW l \in Names,
               a.tokens[m].kind = "static", a.tokens[l].kind = "static",
               a.tokens[m].idx = a.tokens[l].idx
        PROVE  m = l
    <3>1. CASE m # n /\ l # n
      BY <3>1, <2>3, <1>1, <1>3, <1>7 DEF ScopeSound
    <3>2. CASE m = n /\ l # n
      <4>1. a.tokens[m].idx = s.next["static"]
        BY <3>2, <2>3, <1>1, <1>3
      <4>2. a.tokens[l].idx < s.next["static"]
        BY <3>2, <2>3, <1>1, <1>3, <1>7 DEF ScopeSound
      <4>3. a.tokens[l] = s.tokens[l]
        BY <3>2, <1>1, <1>3
      <4> QED BY <4>1, <4>2, <4>3, <2>3, <2>1b
    <3>3. CASE m # n /\ l = n
      <4>1. a.tokens[l].idx = s.next["static"]
        BY <3>3, <2>3, <1>1, <1>3
      <4>2. a.tokens[m].idx < s.next["static"]
        BY <3>3, <2>3, <1>1, <1>3, <1>7 DEF ScopeSound
      <4>3. a.tokens[m] = s.tokens[m]
        BY <3>3, <1>1, <1>3
      <4> QED BY <4>1, <4>2, <4>3, <2>3, <2>1b
    <3> QED BY <3>1, <3>2, <3>3
  <2> QED BY <2>2, <2>3 DEF ScopeSound
<1>8. ASSUME NoStatics(s), k # "static" PROVE NoStatics(a)
  <2> SUFFICES ASSUME NEW m \in Names PROVE a.tokens[m].kind # "static"
    BY DEF NoStatics
  <2>1. CASE m = n
    BY <2>1, <1>8, <1>1, <1>3
  <2>2. CASE m # n
    BY <2>2, <1>8, <1>1, <1>3 DEF NoStatics
  <2> QED BY <2>1, <2>2
<1> QED BY <1>6, <1>7, <1>8

(* The reset keeps the statics' counter and forgets every name. *)
LEMMA ResetSound ==
  ASSUME NEW s \in Scopes
  PROVE  /\ ResetLocalState(s) \in Scopes
         /\ ScopeSound(ResetLocalState(s))
         /\ NoStatics(ResetLocalState(s))
         /\ ResetLocalState(s).next["static"] = s.next["static"]
BY DEF ResetLocalState, NoTokens, Scopes, Tokens, Absent, Kinds, ScopeSound, NoStatics

(* The chain's operators. *)

LEMMA PushShape ==
  ASSUME NEW c \in Seq(Scopes)
  PROVE  /\ PushScope(c) \in Seq(Scopes)
         /\ Len(PushScope(c)) = Len(c) + 1
         /\ \A i \in 1..Len(c) : PushScope(c)[i] = c[i]
         /\ PushScope(c)[Len(c) + 1] = NewScope
BY NewScopeSound DEF PushScope

LEMMA PopShape ==
  ASSUME NEW c \in Seq(Scopes), Len(c) >= 1
  PROVE  /\ PopScope(c) \in Seq(Scopes)
         /\ Len(PopScope(c)) = Len(c) - 1
         /\ \A i \in 1..(Len(c) - 1) : PopScope(c)[i] = c[i]
<1> DEFINE n == Len(c) - 1
<1>1. 1 \in Int /\ n \in Nat /\ \A i \in 1..n : c[i] \in Scopes
  OBVIOUS
<1>2. PopScope(c) = SubSeq(c, 1, n)
  BY DEF PopScope
<1>3. /\ SubSeq(c, 1, n) \in Seq(Scopes)
      /\ \A i \in 1..n : SubSeq(c, 1, n)[i] = c[i]
  OBVIOUS
<1>4. Len(SubSeq(c, 1, n)) = n
  <2> HIDE DEF n
  <2>1. Len(SubSeq(c, 1, n)) = IF 1 <= n THEN n - 1 + 1 ELSE 0
    BY <1>1, SubSeqProperties
  <2> QED BY <2>1, <1>1
<1> QED BY <1>2, <1>3, <1>4

(* Out of a subroutine's scope, into the class's. *)
LEMMA PopToRoot ==
  ASSUME NEW c \in Seq(Scopes), Len(c) = 2
  PROVE  PopScope(c) \in Seq(Scopes) /\ Len(PopScope(c)) = 1 /\ PopScope(c)[1] = c[1]
<1>1. Len(c) >= 1 /\ 1 \in 1..(Len(c) - 1) /\ Len(c) - 1 = 1
  OBVIOUS
<1> QED
  BY <1>1, PopShape

LEMMA InsertShape ==
  ASSUME NEW c \in Seq(Scopes), Len(c) >= 1, NEW n \in Names, NEW k \in Kinds
  PROVE  /\ Insert(c, n, k) \in Seq(Scopes)
         /\ Len(Insert(c, n, k)) = Len(c)
         /\ \A i \in 1..(Len(c) - 1) : Insert(c, n, k)[i] = c[i]
         /\ InsertFails(c, n) => Insert(c, n, k) = c
         /\ ~ InsertFails(c, n) => Insert(c, n, k)[Len(c)] = AddToken(c[Len(c)], n, k)
<1>1. Len(c) \in 1..Len(c) /\ c[Len(c)] \in Scopes
  OBVIOUS
<1>2. CASE InsertFails(c, n)
  <2>1. Insert(c, n, k) = c
    BY <1>1, <1>2 DEF Insert, InsertFails
  <2> QED BY <2>1, <1>1, <1>2
<1>3. CASE ~ InsertFails(c, n)
  <2>1. AddToken(c[Len(c)], n, k) \in Scopes
    BY <1>1, <1>3, AddTokenSound DEF InsertFails
  <2>2. Insert(c, n, k) = [c EXCEPT ![Len(c)] = AddToken(c[Len(c)], n, k)]
    BY <1>1, <1>3 DEF Insert, InsertFails
  <2> QED BY <2>1, <2>2, <1>1, <1>3
<1> QED BY <1>2, <1>3

(* With no statics in the subroutine's scope, a static is the root's. *)
LEMMA FindStatic ==
  ASSUME NEW c \in Seq(Scopes), Len(c) = 2, NoStatics(c[2]),
         NEW n \in Names, Find(c, n).kind = "static"
  PROVE  Find(c, n) = c[1].tokens[n]
<1> DEFINE K == Knowing(c, n)
           top == CHOOSE d \in K : \A e \in K : e <= d
<1>1. K \subseteq {1, 2}
  BY DEF Knowing
<1>2. CASE K = {}
  BY <1>2 DEF Find, Absent
<1>3. CASE K # {}
  <2>1. \E d \in K : \A e \in K : e <= d
    <3>1. CASE 2 \in K
      BY <3>1, <1>1
    <3>2. CASE 2 \notin K
      BY <3>2, <1>1, <1>3
    <3> QED BY <3>1, <3>2
  <2>2. top \in K
    BY <2>1
  <2>3. Find(c, n) = c[top].tokens[n]
    BY <1>3 DEF Find
  <2>4. top # 2
    BY <2>3 DEF NoStatics
  <2> QED BY <2>2, <2>3, <2>4, <1>1
<1> QED BY <1>2, <1>3

-----------------------------------------------------------------------------
(* What is pending: names of the program, and no static below the class. *)

LEMMA ElementType ==
  ASSUME NEW S, NEW s \in Seq(S), NEW i \in 1..Len(s)
  PROVE  s[i] \in S
OBVIOUS

LEMMA WiderElements ==
  ASSUME NEW S, NEW T, S \subseteq T, NEW s \in Seq(S)
  PROVE  s \in Seq(T)
OBVIOUS

LEMMA ClassType ==
  ASSUME ProgramsAssumption, Control
  PROVE  Class \in Classes /\ program \in Seq(Classes) /\ Len(program) >= 1
<1>1. program \in Seq(Classes) /\ file \in 1..Len(program)
  BY DEF ProgramsAssumption, Control
<1>2. program[file] \in Classes
  BY <1>1, ElementType
<1> QED BY <1>1, <1>2 DEF Class

LEMMA SubType ==
  ASSUME ProgramsAssumption, Control, sub \in 1..Len(Class.subs)
  PROVE  Sub \in Subs
<1>1. Class.subs \in Seq(Subs)
  BY ClassType DEF Classes
<1> QED BY <1>1, ElementType DEF Sub

LEMMA PendingType ==
  ASSUME ProgramsAssumption, Control, stage \in {"classVars", "subVars"},
         decl <= Len(Pending)
  PROVE  /\ VarDecl.name \in Names
         /\ VarDecl.kind \in Kinds
         /\ stage = "subVars" => VarDecl.kind # "static"
<1>1. decl \in Nat \ {0}
  BY DEF Control
<1>2. CASE stage = "classVars"
  <2>1. Class.vars \in Seq(VarDecls({"static", "field"}))
    BY ClassType DEF Classes, Lists
  <2>2. Pending = Class.vars
    BY <1>2 DEF Pending
  <2>3. VarDecl \in VarDecls({"static", "field"})
    <3>1. decl \in 1..Len(Class.vars)
      BY <1>1, <2>1, <2>2
    <3> QED BY <3>1, <2>1, <2>2, ElementType DEF VarDecl
  <2> QED BY <2>3, <1>2 DEF Kinds, VarDecls
<1>3. CASE stage = "subVars"
  <2>1. Sub \in Subs
    BY <1>3, SubType DEF Control
  <2>2. /\ Sub.params \in Seq(VarDecls({"arg"}))
        /\ Sub.locals \in Seq(VarDecls({"local"}))
    BY <2>1 DEF Subs, Lists
  <2>3. Pending = Sub.params \o Sub.locals
    BY <1>3 DEF Pending
  <2>4. /\ Sub.params \in Seq(VarDecls({"arg", "local"}))
        /\ Sub.locals \in Seq(VarDecls({"arg", "local"}))
    <3>1. /\ VarDecls({"arg"}) \subseteq VarDecls({"arg", "local"})
          /\ VarDecls({"local"}) \subseteq VarDecls({"arg", "local"})
      BY DEF VarDecls
    <3> QED BY <2>2, <3>1, WiderElements
  <2>5. Pending \in Seq(VarDecls({"arg", "local"}))
    BY <2>3, <2>4
  <2>6. decl \in 1..Len(Pending)
    BY <1>1, <2>5
  <2>7. VarDecl \in VarDecls({"arg", "local"})
    BY <2>5, <2>6, ElementType DEF VarDecl
  <2> QED BY <2>7, <1>3 DEF Kinds, VarDecls
<1> QED BY <1>2, <1>3
-----------------------------------------------------------------------------
(* The invariant is inductive. *)

LEMMA InitIInv == Init => IInv
<1> SUFFICES ASSUME Init PROVE IInv
  OBVIOUS
<1>1. program \in Seq(Classes) /\ program # <<>>
  BY ProgramsAssumption DEF Init
<1>2. 1 \in 1..Len(program)
  BY <1>1
<1>3. Control
  BY <1>2 DEF Init, Control, Stages
<1>4. chain \in Seq(Scopes) /\ Len(chain) = 0
  BY DEF Init
<1>5. ChainShape
  BY <1>4 DEF Init, ChainShape, Depth
<1>6. Flags
  BY DEF Init, Flags
<1>7. RootSound /\ EmittedBelow
  BY DEF Init, RootSound, EmittedBelow
<1>8. NothingEmittedYet /\ NoStaticAliasing
  BY DEF Init, NothingEmittedYet, NoStaticAliasing
<1> QED BY <1>3, <1>5, <1>6, <1>7, <1>8 DEF IInv

(* The steps before code generation emit nothing: only Control, Flags and  *)
(* the chain's shape are at stake.                                         *)
LEMMA QuietStep ==
  ASSUME IInv, Control', Flags', ChainShape', UNCHANGED refs,
         pass \in {"registry", "semantic"}, pass' # "codegen"
  PROVE  IInv'
BY DEF IInv, RootSound, EmittedBelow, NothingEmittedYet, NoStaticAliasing

LEMMA SubsLength ==
  ASSUME Control PROVE Len(Class.subs) \in Nat
<1>1. Class \in Classes
  BY ClassType, ProgramsAssumption
<1> QED BY <1>1 DEF Classes

LEMMA RegisterClassStep == IInv /\ RegisterClass => IInv'
<1> SUFFICES ASSUME IInv, RegisterClass PROVE IInv'
  OBVIOUS
<1>1. /\ pass' \in {"registry", "redeclaration", "semantic"}
      /\ stage = "class" /\ UNCHANGED <<program, stage, sub, decl, chain, invalid, genError, refs>>
      /\ file' \in 1..Len(program)
      /\ pass = "registry"
  BY DEF RegisterClass, IInv, Control
<1>2. Control'
  BY <1>1 DEF IInv, Control, Ended
<1>3. Flags'
  BY DEF RegisterClass, IInv, Flags
<1>4. ChainShape'
  BY <1>1 DEF IInv, ChainShape, Depth, Ended
<1> QED BY <1>1, <1>2, <1>3, <1>4, QuietStep

LEMMA SemEnterStep == IInv /\ (SemEnterClass \/ SemEnterSub) => IInv'
<1> SUFFICES ASSUME IInv, SemEnterClass \/ SemEnterSub PROVE IInv'
  OBVIOUS
<1>1. /\ pass = "semantic" /\ pass' = "semantic" /\ UNCHANGED refs
      /\ chain' = PushScope(chain)
      /\ chain \in Seq(Scopes) /\ Len(chain) = Depth
  BY DEF SemEnterClass, SemEnterSub, IInv, ChainShape, Ended
<1>2. Control'
  <2>1. Len(Class.subs) \in Nat
    BY SubsLength DEF IInv
  <2> QED BY <2>1 DEF SemEnterClass, SemEnterSub, IInv, Control, Stages, Class
<1>3. Flags'
  BY DEF SemEnterClass, SemEnterSub, IInv, Flags
<1>4. Depth' = Depth + 1
  BY DEF SemEnterClass, SemEnterSub, Depth
<1>5. ChainShape'
  BY <1>1, <1>4, PushShape DEF ChainShape
<1> QED BY <1>1, <1>2, <1>3, <1>5, QuietStep

LEMMA SemDeclareStep == IInv /\ SemDeclare => IInv'
<1> SUFFICES ASSUME IInv, SemDeclare PROVE IInv'
  OBVIOUS
<1>1. /\ pass = "semantic" /\ stage \in {"classVars", "subVars"}
      /\ decl <= Len(Pending) /\ decl' = decl + 1
      /\ UNCHANGED <<program, pass, file, stage, sub, redeclared, genError, refs>>
  BY DEF SemDeclare
<1>2. chain \in Seq(Scopes) /\ Len(chain) = Depth /\ Len(chain) >= 1
  BY <1>1 DEF IInv, ChainShape, Depth, Ended
<1>3. VarDecl.name \in Names /\ VarDecl.kind \in Kinds
  BY <1>1, PendingType, ProgramsAssumption DEF IInv
<1>4. chain' \in Seq(Scopes) /\ Len(chain') = Len(chain)
  <2>1. chain' \in {chain, Insert(chain, VarDecl.name, VarDecl.kind)}
    BY DEF SemDeclare
  <2> QED BY <2>1, <1>2, <1>3, InsertShape
<1>5. Control'
  BY <1>1 DEF IInv, Control, Class
<1>6. Flags'
  BY DEF SemDeclare, IInv, Flags
<1>7. ChainShape'
  BY <1>1, <1>2, <1>4 DEF ChainShape, Depth
<1> QED BY <1>1, <1>5, <1>6, <1>7, QuietStep

LEMMA SemBodyStep == IInv /\ SemBody => IInv'
<1> SUFFICES ASSUME IInv, SemBody PROVE IInv'
  OBVIOUS
<1>1. /\ pass = "semantic" /\ stage = "body" /\ stage' = "subs"
      /\ chain' = PopScope(chain) /\ sub' = sub + 1
      /\ UNCHANGED <<program, pass, file, decl, redeclared, genError, refs>>
  BY DEF SemBody
<1>2. chain \in Seq(Scopes) /\ Len(chain) = 2
  BY <1>1 DEF IInv, ChainShape, Depth, Ended
<1>3. Control'
  BY <1>1 DEF IInv, Control, Stages
<1>4. Flags'
  BY DEF SemBody, IInv, Flags
<1>5. ChainShape'
  <2>1. chain' \in Seq(Scopes) /\ Len(chain') = 1
    <3>1. Len(chain) >= 1
      BY <1>2
    <3>2. PopScope(chain) \in Seq(Scopes) /\ Len(PopScope(chain)) = Len(chain) - 1
      BY <1>2, <3>1, PopShape
    <3> QED BY <1>1, <1>2, <3>2
  <2>2. Depth' = 1
    BY <1>1 DEF Depth
  <2> QED BY <2>1, <2>2 DEF ChainShape
<1> QED BY <1>1, <1>3, <1>4, <1>5, QuietStep

(* The one step into the code generator: its root scope is a new one. *)
LEMMA SemLeaveClassStep == IInv /\ SemLeaveClass => IInv'
<1> SUFFICES ASSUME IInv, SemLeaveClass PROVE IInv'
  OBVIOUS
<1>1. /\ pass = "semantic" /\ stage = "subs" /\ sub' = 1
      /\ UNCHANGED <<program, decl, redeclared, genError, refs>>
      /\ refs = {} /\ file' \in 1..Len(program)
  BY DEF SemLeaveClass, IInv, NothingEmittedYet, Control
<1>2. chain \in Seq(Scopes) /\ Len(chain) = 1
  BY <1>1 DEF IInv, ChainShape, Depth, Ended
<1>3. PopScope(chain) \in Seq(Scopes) /\ Len(PopScope(chain)) = 0
  BY <1>2, PopShape
<1>4. /\ PushScope(PopScope(chain)) \in Seq(Scopes)
      /\ Len(PushScope(PopScope(chain))) = 1
      /\ PushScope(PopScope(chain))[1] = NewScope
  <2> DEFINE c == PopScope(chain)
  <2>1. c \in Seq(Scopes) /\ Len(c) = 0
    BY <1>3
  <2> HIDE DEF c
  <2>2. /\ PushScope(c) \in Seq(Scopes) /\ Len(PushScope(c)) = Len(c) + 1
        /\ PushScope(c)[Len(c) + 1] = NewScope
    BY <2>1, PushShape
  <2>3. /\ PushScope(c) \in Seq(Scopes) /\ Len(PushScope(c)) = 1
        /\ PushScope(c)[1] = NewScope
    BY <2>1, <2>2
  <2> QED BY <2>3 DEF c
<1>5. Flags'
  BY DEF SemLeaveClass, IInv, Flags
<1>6. \/ pass' = "semantic" /\ stage' = "class" /\ chain' = PopScope(chain)
      \/ pass' = "invalid" /\ stage' = "classVars" /\ chain' = PopScope(chain)
      \/ pass' = "codegen" /\ stage' = "classVars" /\ chain' = PushScope(PopScope(chain))
  BY <1>1 DEF SemLeaveClass
<1>7. Control'
  BY <1>1, <1>6 DEF IInv, Control, Stages, Ended
<1>8. ChainShape'
  BY <1>3, <1>4, <1>6 DEF ChainShape, Depth, Ended
<1>9. RootSound'
  BY <1>4, <1>6, NewScopeSound DEF RootSound, Root
<1>10. EmittedBelow' /\ NothingEmittedYet' /\ NoStaticAliasing'
  BY <1>1 DEF EmittedBelow, NothingEmittedYet, NoStaticAliasing
<1> QED BY <1>5, <1>7, <1>8, <1>9, <1>10 DEF IInv

LEMMA DeclarationsDoneStep == IInv /\ DeclarationsDone => IInv'
<1> SUFFICES ASSUME IInv, DeclarationsDone PROVE IInv'
  OBVIOUS
<1>1. UNCHANGED <<program, registry, pass, file, chain, redeclared, invalid, genError, refs>>
  BY DEF DeclarationsDone
<1>2. Control'
  BY <1>1 DEF DeclarationsDone, IInv, Control, Stages, Class
<1>3. Depth' = Depth
  BY DEF DeclarationsDone, Depth
<1> QED BY <1>1, <1>2, <1>3 DEF IInv, Flags, ChainShape, RootSound, Root, EmittedBelow,
                                NothingEmittedYet, NoStaticAliasing

(* A method's first name, `this', is an argument: no static. *)
LEMMA GenEnterSubStep == IInv /\ GenEnterSub => IInv'
<1> SUFFICES ASSUME IInv, GenEnterSub PROVE IInv'
  OBVIOUS
<1>1. /\ pass = "codegen" /\ stage = "subs" /\ sub <= Len(Class.subs)
      /\ UNCHANGED <<program, registry, pass, file, decl, redeclared, invalid, genError, refs>>
  BY DEF GenEnterSub
<1>2. chain \in Seq(Scopes) /\ Len(chain) = 1
  BY <1>1 DEF IInv, ChainShape, Depth, Ended
<1>3. Control'
  <2>1. Len(Class.subs) \in Nat
    BY SubsLength DEF IInv
  <2> QED BY <1>1, <2>1 DEF GenEnterSub, IInv, Control, Stages, Class
<1>4. CASE UNCHANGED <<chain, stage>>
  BY <1>1, <1>3, <1>4 DEF IInv, Flags, ChainShape, Depth, RootSound, Root, EmittedBelow,
                          NothingEmittedYet, NoStaticAliasing
<1>5. CASE ~ UNCHANGED <<chain, stage>>
  <2>1. /\ stage' = "subVars"
        /\ chain' \in {PushScope(chain), Insert(PushScope(chain), This, "arg")}
    BY <1>5 DEF GenEnterSub
  <2> DEFINE c == PushScope(chain)
  <2>2. /\ c \in Seq(Scopes) /\ Len(c) = 2 /\ c[1] = chain[1] /\ c[2] = NewScope
    <3>1. /\ c \in Seq(Scopes) /\ Len(c) = Len(chain) + 1
          /\ \A i \in 1..Len(chain) : c[i] = chain[i]
          /\ c[Len(chain) + 1] = NewScope
      BY <1>2, PushShape
    <3> HIDE DEF c
    <3>2. Len(chain) + 1 = 2 /\ 1 \in 1..Len(chain)
      BY <1>2
    <3> QED BY <3>1, <3>2
  <2> HIDE DEF c
  <2>3. ~ InsertFails(c, This) /\ ~ ExistsLocal(c[2], This)
    BY <2>2, ProgramsAssumption DEF InsertFails, ExistsLocal, NewScope, NoTokens
  <2>4. This \in Names /\ "arg" \in Kinds
    BY ProgramsAssumption DEF Kinds
  <2>5. /\ Insert(c, This, "arg") \in Seq(Scopes)
        /\ Len(Insert(c, This, "arg")) = 2
        /\ Insert(c, This, "arg")[1] = c[1]
        /\ Insert(c, This, "arg")[2] = AddToken(c[2], This, "arg")
    <3>1. Len(c) >= 1 /\ 1 \in 1..(Len(c) - 1)
      BY <2>2
    <3>2. /\ Insert(c, This, "arg") \in Seq(Scopes)
          /\ Len(Insert(c, This, "arg")) = Len(c)
          /\ \A i \in 1..(Len(c) - 1) : Insert(c, This, "arg")[i] = c[i]
          /\ Insert(c, This, "arg")[Len(c)] = AddToken(c[Len(c)], This, "arg")
      BY <2>2, <2>3, <2>4, <3>1, InsertShape
    <3> QED BY <2>2, <3>1, <3>2
  <2>6. NewScope \in Scopes /\ NoStatics(NewScope)
    BY NewScopeSound
  <2>7. NoStatics(AddToken(c[2], This, "arg"))
    BY <2>2, <2>3, <2>4, <2>6, AddTokenSound
  <2>8. /\ chain' \in Seq(Scopes) /\ Len(chain') = 2
        /\ chain'[1] = chain[1] /\ NoStatics(chain'[2])
    BY <2>1, <2>2, <2>5, <2>6, <2>7 DEF c
  <2>9. ChainShape'
    <3>1. Depth' = 2
      BY <2>1 DEF Depth
    <3> QED BY <2>8, <3>1 DEF ChainShape
  <2>10. RootSound'
    BY <1>1, <2>8 DEF IInv, RootSound, Root
  <2>11. EmittedBelow'
    BY <1>1, <2>8 DEF IInv, EmittedBelow, Root
  <2> QED BY <1>1, <1>3, <2>9, <2>10, <2>11 DEF IInv, Flags, NothingEmittedYet, NoStaticAliasing
<1> QED BY <1>4, <1>5

(* A static gets the counter's value: above everything emitted before. *)
LEMMA GenDeclareStep == IInv /\ GenDeclare => IInv'
<1> SUFFICES ASSUME IInv, GenDeclare PROVE IInv'
  OBVIOUS
<1>1. /\ pass = "codegen" /\ stage \in {"classVars", "subVars"}
      /\ decl <= Len(Pending) /\ decl' = decl + 1
      /\ UNCHANGED <<program, file, stage, sub, redeclared, invalid, genError, refs>>
      /\ pass' \in {"codegen", "aborted"}
  BY DEF GenDeclare
<1>2. chain \in Seq(Scopes) /\ Len(chain) = Depth /\ Len(chain) \in {1, 2}
  BY <1>1 DEF IInv, ChainShape, Depth, Ended
<1>3. Control'
  BY <1>1 DEF IInv, Control, Class, Ended
<1>4. Flags' /\ NothingEmittedYet' /\ NoStaticAliasing'
  BY <1>1 DEF IInv, Flags, NothingEmittedYet, NoStaticAliasing
<1>5. CASE UNCHANGED chain
  <2>1. pass' = "aborted" \/ pass' = pass
    BY <1>1
  <2>2. ChainShape'
    BY <1>1, <1>2, <1>5 DEF ChainShape, Depth
  <2> QED BY <1>1, <1>3, <1>4, <1>5, <2>2 DEF IInv, RootSound, Root, EmittedBelow
<1>6. CASE ~ UNCHANGED chain
  <2> DEFINE n == VarDecl.name
             k == VarDecl.kind
             top == chain[Len(chain)]
  <2>1. pass' = "codegen" /\ ~ InsertFails(chain, n) /\ chain' = Insert(chain, n, k)
    BY <1>1, <1>6 DEF GenDeclare
  <2>2. n \in Names /\ k \in Kinds /\ (stage = "subVars" => k # "static")
    BY <1>1, PendingType, ProgramsAssumption DEF IInv
  <2> HIDE DEF n, k
  <2>3. top \in Scopes /\ ~ ExistsLocal(top, n)
    BY <1>2, <2>1 DEF InsertFails
  <2>4. /\ chain' \in Seq(Scopes) /\ Len(chain') = Len(chain)
        /\ \A i \in 1..(Len(chain) - 1) : chain'[i] = chain[i]
        /\ chain'[Len(chain)] = AddToken(top, n, k)
    BY <1>2, <2>1, <2>2, InsertShape
  <2>5. ChainShape'
    BY <1>1, <1>2, <2>4 DEF ChainShape, Depth
  <2>6. CASE Len(chain) = 2
    <3>1. stage = "subVars" /\ Root' = Root /\ chain'[2] = AddToken(chain[2], n, k)
      BY <1>1, <1>2, <2>4, <2>6 DEF Depth, Root
    <3>2. NoStatics(chain[2]) /\ ScopeSound(Root)
      BY <1>1, <2>6 DEF IInv, RootSound
    <3>3. NoStatics(AddToken(chain[2], n, k))
      BY <2>2, <2>3, <2>6, <3>1, <3>2, AddTokenSound
    <3>4. RootSound'
      BY <3>1, <3>2, <3>3 DEF RootSound
    <3>5. EmittedBelow'
      BY <1>1, <3>1 DEF IInv, EmittedBelow
    <3> QED BY <1>3, <1>4, <2>5, <3>4, <3>5 DEF IInv
  <2>7. CASE Len(chain) = 1
    <3>1. Root' = AddToken(Root, n, k) /\ Root \in Scopes /\ ~ ExistsLocal(Root, n)
          /\ Len(chain') = 1
      BY <2>3, <2>4, <2>7 DEF Root
    <3>2. ScopeSound(Root)
      BY <1>1 DEF IInv, RootSound
    <3>3. RootSound'
      BY <3>1, <3>2, <2>2, AddTokenSound DEF RootSound
    <3>4. EmittedBelow'
      <4> SUFFICES ASSUME NEW r \in refs, r.kind = "static"
                   PROVE  /\ r.idx \in Nat /\ r.idx < Root'.next["static"]
                          /\ r.name \in Names
                          /\ r.file \in Nat /\ r.file <= file
                          /\ r.file = file =>
                               Root'.tokens[r.name] = [kind |-> "static", idx |-> r.idx]
                          /\ r.file < file =>
                               \A m \in Names : Root'.tokens[m].kind = "static" =>
                                                  r.idx < Root'.tokens[m].idx
        BY <1>1 DEF EmittedBelow
      <4>1. /\ r.idx \in Nat /\ r.idx < Root.next["static"]
            /\ r.name \in Names
            /\ r.file \in Nat /\ r.file <= file
            /\ r.file = file => Root.tokens[r.name] = [kind |-> "static", idx |-> r.idx]
            /\ r.file < file => \A m \in Names : Root.tokens[m].kind = "static" =>
                                                   r.idx < Root.tokens[m].idx
        BY <1>1 DEF IInv, EmittedBelow
      <4>2. "static" \in Kinds
        BY DEF Kinds
      <4>3. /\ Root.tokens \in [Names -> Tokens \cup {Absent}]
            /\ Root.next \in [Kinds -> Nat]
            /\ Root'.tokens = [Root.tokens EXCEPT ![n] = [kind |-> k, idx |-> Root.next[k]]]
            /\ Root'.next = [Root.next EXCEPT ![k] = Root.next[k] + 1]
        BY <3>1, <2>2, TokenFields DEF AddToken
      <4>4. Root'.next["static"] \in {Root.next["static"], Root.next["static"] + 1}
        BY <4>2, <4>3
      <4>5. r.idx < Root'.next["static"]
        BY <4>1, <4>2, <4>3, <4>4
      <4>6. ASSUME r.file = file
            PROVE  Root'.tokens[r.name] = [kind |-> "static", idx |-> r.idx]
        <5>1. Root.tokens[r.name] # Absent
          BY <4>1, <4>6 DEF Absent
        <5>2. r.name # n
          BY <5>1, <3>1 DEF ExistsLocal
        <5> QED BY <5>2, <4>1, <4>3, <4>6
      <4>7. ASSUME r.file < file, NEW m \in Names, Root'.tokens[m].kind = "static"
            PROVE  r.idx < Root'.tokens[m].idx
        <5>1. CASE m = n
          BY <5>1, <4>1, <4>3, <4>7, <2>2
        <5>2. CASE m # n
          BY <5>2, <4>1, <4>3, <4>7
        <5> QED BY <5>1, <5>2
      <4> QED BY <4>1, <4>5, <4>6, <4>7
    <3> QED BY <1>3, <1>4, <2>5, <3>3, <3>4 DEF IInv
  <2> QED BY <1>2, <2>6, <2>7
<1> QED BY <1>5, <1>6

(* What a body emits: only the statics of the root are statics. *)
LEMMA GenBodyStep == IInv /\ GenBody => IInv'
<1> SUFFICES ASSUME IInv, GenBody PROVE IInv'
  OBVIOUS
<1>1. /\ pass = "codegen" /\ stage = "body" /\ stage' = "subs" /\ sub' = sub + 1
      /\ chain' = PopScope(chain)
      /\ UNCHANGED <<program, registry, pass, file, decl, redeclared, invalid>>
      /\ genError' = (genError \/ \E n \in Sub.uses : Find(chain, n) = Absent)
  BY DEF GenBody
<1>2. chain \in Seq(Scopes) /\ Len(chain) = 2 /\ Len(chain) >= 1
  BY <1>1 DEF IInv, ChainShape, Depth, Ended
<1>3. Control' /\ Flags' /\ NothingEmittedYet'
  BY <1>1 DEF IInv, Control, Stages, Flags, NothingEmittedYet
<1>4. chain' \in Seq(Scopes) /\ Len(chain') = 1 /\ chain'[1] = chain[1]
  <2>1. /\ PopScope(chain) \in Seq(Scopes) /\ Len(PopScope(chain)) = Len(chain) - 1
        /\ \A i \in 1..(Len(chain) - 1) : PopScope(chain)[i] = chain[i]
    BY <1>2, PopShape
  <2>2. Len(chain) - 1 = 1 /\ 1 \in 1..(Len(chain) - 1)
    BY <1>2
  <2> QED BY <1>1, <2>1, <2>2
<1>5. ChainShape'
  <2>1. Depth' = 1
    BY <1>1 DEF Depth
  <2> QED BY <1>4, <2>1 DEF ChainShape
<1>6. Root' = Root /\ Root \in Scopes
  BY <1>2, <1>4, ElementType DEF Root
<1>7. ScopeSound(Root) /\ NoStatics(chain[2])
  BY <1>1, <1>2 DEF IInv, RootSound
<1>8. RootSound'
  BY <1>4, <1>6, <1>7 DEF RootSound
<1>9. Sub \in Subs /\ Sub.uses \subseteq Names /\ file \in Nat
  <2>1. sub \in 1..Len(Class.subs)
    BY <1>1 DEF IInv, Control
  <2>2. Sub \in Subs
    BY <2>1, SubType, ProgramsAssumption DEF IInv
  <2>3. file \in Nat
    BY DEF IInv, Control
  <2> QED BY <2>2, <2>3 DEF Subs
<1> DEFINE News(r) == /\ r.file = file /\ r.name \in Names /\ r.idx \in Nat
                      /\ r.idx < Root.next["static"]
                      /\ Root.tokens[r.name] = [kind |-> "static", idx |-> r.idx]
<1>10. ASSUME NEW r \in refs', r.kind = "static", r \notin refs
       PROVE  News(r)
  <2>1. PICK n \in Sub.uses : r = Reference(n)
    BY <1>10 DEF GenBody
  <2>2. /\ n \in Names /\ r.file = file /\ r.name = n
        /\ r.kind = Find(chain, n).kind /\ r.idx = Find(chain, n).idx
    BY <2>1, <1>9 DEF Reference
  <2>3. Find(chain, n) = Root.tokens[n]
    BY <2>2, <1>2, <1>7, <1>10, FindStatic DEF Root
  <2>4. Root.tokens[n] \in Tokens /\ Root.tokens[n].idx \in Nat
    BY <2>2, <2>3, <1>6, <1>10, TokenFields
  <2>5. Root.tokens[n] = [kind |-> Root.tokens[n].kind, idx |-> Root.tokens[n].idx]
    BY <2>4 DEF Tokens
  <2>6. Root.tokens[n].idx < Root.next["static"]
    BY <2>2, <2>3, <1>7, <1>10 DEF ScopeSound
  <2> QED BY <2>2, <2>3, <2>4, <2>5, <2>6, <1>10
<1>11. \A r \in refs : r.kind = "static" =>
         /\ r.idx \in Nat /\ r.idx < Root.next["static"]
         /\ r.name \in Names
         /\ r.file \in Nat /\ r.file <= file
         /\ r.file = file => Root.tokens[r.name] = [kind |-> "static", idx |-> r.idx]
         /\ r.file < file => \A n \in Names : Root.tokens[n].kind = "static" =>
                                               r.idx < Root.tokens[n].idx
  BY <1>1 DEF IInv, EmittedBelow
<1>12. EmittedBelow'
  <2> SUFFICES ASSUME NEW r \in refs', r.kind = "static"
               PROVE  /\ r.idx \in Nat /\ r.idx < Root.next["static"]
                      /\ r.name \in Names
                      /\ r.file \in Nat /\ r.file <= file
                      /\ r.file = file => Root.tokens[r.name] = [kind |-> "static", idx |-> r.idx]
                      /\ r.file < file => \A n \in Names : Root.tokens[n].kind = "static" =>
                                                            r.idx < Root.tokens[n].idx
    BY <1>1, <1>6 DEF EmittedBelow
  <2>1. CASE r \in refs
    BY <2>1, <1>11
  <2>2. CASE r \notin refs
    BY <2>2, <1>9, <1>10
  <2> QED BY <2>1, <2>2
<1>13. NoStaticAliasing'
  <2> SUFFICES ASSUME NEW r \in refs', NEW t \in refs', r.kind = "static",
                      t.kind = "static", r.idx = t.idx
               PROVE  r.file = t.file /\ r.name = t.name
    BY DEF NoStaticAliasing
  <2>1. ASSUME NEW p \in refs, NEW q \in refs', p.kind = "static", q.kind = "static",
               q \notin refs, p.idx = q.idx
        PROVE  p.file = q.file /\ p.name = q.name
    <3>1. News(q)
      BY <2>1, <1>10
    <3>2. /\ p.name \in Names /\ p.file \in Nat /\ p.file <= file
          /\ p.file = file => Root.tokens[p.name] = [kind |-> "static", idx |-> p.idx]
          /\ p.file < file => p.idx < Root.tokens[q.name].idx
      BY <2>1, <3>1, <1>11
    <3>3. ~ (p.file < file)
      BY <3>1, <3>2, <2>1
    <3>4. p.file = file
      BY <3>2, <3>3, <1>9
    <3> QED BY <3>1, <3>2, <3>4, <2>1, <1>7 DEF ScopeSound
  <2>2. CASE r \in refs /\ t \in refs
    BY <2>2 DEF IInv, NoStaticAliasing
  <2>3. CASE r \in refs /\ t \notin refs
    BY <2>1, <2>3
  <2>4. CASE r \notin refs /\ t \in refs
    BY <2>1, <2>4
  <2>5. CASE r \notin refs /\ t \notin refs
    <3>1. News(r) /\ News(t)
      BY <2>5, <1>10
    <3> QED BY <3>1, <1>7 DEF ScopeSound
  <2> QED BY <2>2, <2>3, <2>4, <2>5
<1> QED BY <1>3, <1>5, <1>8, <1>12, <1>13 DEF IInv

(* The reset: no static is left, and the counter is above all of them. *)
LEMMA GenLeaveClassStep == IInv /\ GenLeaveClass => IInv'
<1> SUFFICES ASSUME IInv, GenLeaveClass PROVE IInv'
  OBVIOUS
<1>1. /\ pass = "codegen" /\ stage = "subs" /\ sub' = 1
      /\ UNCHANGED <<program, registry, decl, redeclared, invalid, genError, refs>>
      /\ chain' = [chain EXCEPT ![Len(chain)] = ResetLocalState(chain[Len(chain)])]
      /\ \/ /\ file < Len(program) /\ file' = file + 1 /\ stage' = "classVars"
            /\ pass' = "codegen"
         \/ pass' = "done" /\ UNCHANGED <<file, stage>>
  BY DEF GenLeaveClass
<1>2. chain \in Seq(Scopes) /\ Len(chain) = 1 /\ Root \in Scopes
  BY <1>1 DEF IInv, ChainShape, Depth, Ended, Root
<1>3. Control'
  BY <1>1 DEF IInv, Control, Stages, Ended
<1>4. Flags' /\ NothingEmittedYet' /\ NoStaticAliasing'
  BY <1>1 DEF IInv, Flags, NothingEmittedYet, NoStaticAliasing
<1>5. /\ ResetLocalState(Root) \in Scopes /\ ScopeSound(ResetLocalState(Root))
      /\ NoStatics(ResetLocalState(Root))
      /\ ResetLocalState(Root).next["static"] = Root.next["static"]
  BY <1>2, ResetSound
<1>6. /\ chain' \in Seq(Scopes) /\ Len(chain') = 1
      /\ Root' = ResetLocalState(Root)
  <2>1. chain' = [chain EXCEPT ![1] = ResetLocalState(Root)]
    BY <1>1, <1>2 DEF Root
  <2> DEFINE e == ResetLocalState(Root)
  <2>2. e \in Scopes /\ chain' = [chain EXCEPT ![1] = e]
    BY <2>1, <1>5
  <2> HIDE DEF e
  <2>3. chain' \in Seq(Scopes) /\ Len(chain') = Len(chain) /\ chain'[1] = e
    BY <2>2, <1>2
  <2> QED BY <2>3, <1>2 DEF Root, e
<1>7. ChainShape'
  BY <1>1, <1>6 DEF ChainShape, Depth, Ended
<1>8. RootSound'
  BY <1>5, <1>6 DEF RootSound
<1>9. EmittedBelow'
  <2> SUFFICES ASSUME pass' = "codegen", NEW r \in refs, r.kind = "static"
               PROVE  /\ r.idx \in Nat /\ r.idx < Root'.next["static"]
                      /\ r.name \in Names
                      /\ r.file \in Nat /\ r.file <= file' /\ r.file # file'
                      /\ \A n \in Names : Root'.tokens[n].kind # "static"
    BY <1>1 DEF EmittedBelow
  <2>1. r.idx \in Nat /\ r.idx < Root.next["static"] /\ r.name \in Names
        /\ r.file \in Nat /\ r.file <= file
    BY <1>1 DEF IInv, EmittedBelow
  <2>2. file \in Nat /\ file' = file + 1
    BY <1>1 DEF IInv, Control
  <2> QED BY <2>1, <2>2, <1>5, <1>6 DEF NoStatics
<1> QED BY <1>3, <1>4, <1>7, <1>8, <1>9 DEF IInv

LEMMA StutterStep == IInv /\ UNCHANGED vars => IInv'
BY DEF vars, IInv, Control, Class, Flags, ChainShape, Depth, RootSound, Root, EmittedBelow,
       NothingEmittedYet, NoStaticAliasing

LEMMA InductiveStep == IInv /\ [Next]_vars => IInv'
BY RegisterClassStep, SemEnterStep, SemDeclareStep, SemBodyStep, SemLeaveClassStep,
   DeclarationsDoneStep, GenEnterSubStep, GenDeclareStep, GenBodyStep, GenLeaveClassStep,
   StutterStep DEF Next, Finished

THEOREM Inductive == Spec => []IInv
BY InitIInv, InductiveStep, PTL DEF Spec

(* The three passes keep to their control, and the chain of scopes to its  *)
(* type, whatever program the parser hands over.                           *)
THEOREM TypeCorrect == Spec => []TypeOK
<1>1. IInv => TypeOK
  BY DEF IInv, Control, Flags, ChainShape, TypeOK
<1> QED BY <1>1, Inductive, PTL

(* No two static variables of a program share a slot: for every program,   *)
(* every number of classes and every order of declarations.                *)
THEOREM StaticsNeverAlias == Spec => []NoStaticAliasing
<1>1. IInv => NoStaticAliasing
  BY DEF IInv
<1> QED BY <1>1, Inductive, PTL

-----------------------------------------------------------------------------
(* The second invariant: what the passes have established so far.  As long  *)
(* as nothing was wrong, the scopes hold exactly the declarations visited,   *)
(* and what was visited is well formed; the first thing that is wrong shows *)
(* that the program is not.                                                 *)

Own(s) == s.params \o s.locals

DistinctUpTo(list, n) == \A i, j \in 1..n : list[i].name = list[j].name => i = j

TypedUpTo(list, n) == \A i \in 1..n : list[i].type \in BasicTypes \cup NamesOf(program)

(* A scope in which the first n declarations of a list are made. *)
Follows(scope, list, n, base) ==
  /\ scope.next = [k \in Kinds |-> base[k] + Count(list, k, n)]
  /\ \A i \in 1..n :
       scope.tokens[list[i].name] =
         [kind |-> list[i].kind, idx |-> base[list[i].kind] + Count(list, list[i].kind, i - 1)]
  /\ \A x \in Names \ {This} : (\A i \in 1..n : list[i].name # x) => scope.tokens[x] = Absent

OfClass == IF stage = "classVars" THEN decl - 1 ELSE Len(Class.vars)

OfSub == IF stage = "subVars" THEN decl - 1 ELSE Len(Own(Sub))

StaticBase == StaticsBefore(file)

RootBase ==
  [k \in Kinds |-> IF pass = "codegen" /\ k = "static" THEN StaticBase ELSE 0]

SubBase ==
  [k \in Kinds |-> IF pass = "codegen" /\ Signature.kind = "method" /\ k = "arg" THEN 1 ELSE 0]

Visiting == pass \in {"semantic", "codegen"}

Places ==
  Visiting =>
    /\ stage \in {"subs", "body"} => decl = 1
    /\ stage \in {"classVars", "subVars"} => decl <= Len(Pending) + 1
    /\ stage = "subs" => sub <= Len(Class.subs) + 1

RegistryMatches ==
  /\ pass = "registry" =>
       /\ DOMAIN registry = {program[f].name : f \in 1..file - 1}
       /\ ~redeclared => DistinctUpTo(program, file - 1)
       /\ redeclared => ~DistinctNames(program)
       /\ \A f \in 1..file - 1 : ~redeclared => registry[program[f].name] = MethodsOf(program[f])
  /\ pass = "redeclaration" => ~DistinctNames(program)
  /\ pass \notin {"registry", "redeclaration"} =>
       /\ DistinctNames(program)
       /\ DOMAIN registry = NamesOf(program)
       /\ \A f \in DOMAIN program : registry[program[f].name] = MethodsOf(program[f])

RootFollows == Follows(chain[1], Class.vars, OfClass, RootBase)

SubFollows == Follows(chain[2], Own(Sub), OfSub, SubBase)

ScopesFollow ==
  Visiting /\ ~invalid =>
    /\ stage # "class" => RootFollows
    /\ stage \in {"subVars", "body"} => SubFollows

(* The semantic pass does not declare `this'. *)
ThisUnknown ==
  pass = "semantic" => \A d \in DOMAIN chain : chain[d].tokens[This] = Absent

ClassesChecked == \A f \in 1..file - 1 : WellFormedClass(program[f])

VarsChecked == DistinctUpTo(Class.vars, OfClass) /\ TypedUpTo(Class.vars, OfClass)

SubsChecked == \A k \in 1..sub - 1 : WellFormedSub(Class, Class.subs[k])

OwnChecked == DistinctUpTo(Own(Sub), OfSub) /\ TypedUpTo(Own(Sub), OfSub)

CheckedSoFar ==
  pass = "semantic" /\ ~invalid =>
    /\ ClassesChecked
    /\ stage # "class" => VarsChecked
    /\ stage \in {"subs", "subVars", "body"} => SubsChecked
    /\ stage \in {"subVars", "body"} => OwnChecked

Verdict ==
  /\ pass = "registry" => ~invalid
  /\ invalid => ~WellFormed
  /\ pass = "invalid" => invalid
  /\ pass \in {"codegen", "done"} => ~invalid /\ WellFormed
  /\ AcceptedNeverFails

ReferencesRight ==
  /\ pass = "codegen" => IsFiniteSet(UNION {StaticsOf(g) : g \in 1..file - 1})
  /\ ResolvesToDeclaration /\ SlotInsideFrame

AInv ==
  /\ Places /\ RegistryMatches /\ ScopesFollow /\ ThisUnknown /\ CheckedSoFar
  /\ Verdict /\ ReferencesRight

-----------------------------------------------------------------------------
(* Counting the declarations of a kind *)

LEMMA CountStep ==
  ASSUME NEW list, NEW k, NEW n \in Nat
  PROVE  /\ Count(list, k, n) \in Nat
         /\ Count(list, k, 0) = 0
         /\ Count(list, k, n + 1) = Count(list, k, n) + (IF list[n + 1].kind = k THEN 1 ELSE 0)
<1> DEFINE S(m) == {i \in 1..m : list[i].kind = k}
<1>1. IsFiniteSet(S(n)) /\ Cardinality(S(n)) \in Nat
  <2>1. IsFiniteSet(1..n)
    BY FS_Interval
  <2> QED
    BY <2>1, FS_Subset, FS_CardinalityType
<1>2. S(0) = {}
  OBVIOUS
<1>c. /\ Count(list, k, n) = Cardinality(S(n)) /\ Count(list, k, n + 1) = Cardinality(S(n + 1))
      /\ Count(list, k, 0) = Cardinality(S(0))
  BY DEF Count
<1>3. CASE list[n + 1].kind = k
  <2>1. S(n + 1) = S(n) \cup {n + 1} /\ n + 1 \notin S(n)
    BY <1>3
  <2>2. Cardinality(S(n) \cup {n + 1}) = Cardinality(S(n)) + 1
    BY <1>1, <2>1, FS_AddElement
  <2>3. Cardinality(S(0)) = 0
    BY <1>2, FS_EmptySet
  <2>4. Cardinality(S(n + 1)) = Cardinality(S(n)) + 1
    BY <2>1, <2>2
  <2> HIDE DEF S
  <2> QED
    BY <1>1, <1>3, <1>c, <2>3, <2>4
<1>4. CASE list[n + 1].kind # k
  <2>1. S(n + 1) = S(n)
    BY <1>4
  <2>2. Cardinality(S(0)) = 0
    BY <1>2, FS_EmptySet
  <2>3. Cardinality(S(n + 1)) = Cardinality(S(n))
    BY <2>1
  <2> HIDE DEF S
  <2> QED
    BY <1>1, <1>4, <1>c, <2>2, <2>3
<1> QED
  BY <1>3, <1>4

(* A declaration of the kind is not yet among those before it. *)
LEMMA CountLess ==
  ASSUME NEW list, NEW n \in Nat, NEW i \in 1..n
  PROVE  Count(list, list[i].kind, i - 1) < Count(list, list[i].kind, n)
<1> DEFINE S(m) == {j \in 1..m : list[j].kind = list[i].kind}
<1>1. IsFiniteSet(S(n)) /\ Cardinality(S(n)) \in Nat
  <2>1. IsFiniteSet(1..n)
    BY FS_Interval
  <2> QED
    BY <2>1, FS_Subset, FS_CardinalityType
<1>2. S(i - 1) \in SUBSET S(n) /\ i \in S(n) /\ i \notin S(i - 1)
  OBVIOUS
<1>3. /\ Cardinality(S(i - 1)) <= Cardinality(S(n)) /\ Cardinality(S(i - 1)) # Cardinality(S(n))
      /\ IsFiniteSet(S(i - 1))
  BY <1>1, <1>2, FS_Subset
<1>4. Cardinality(S(i - 1)) \in Nat
  BY <1>3, FS_CardinalityType
<1> QED
  BY <1>1, <1>3, <1>4 DEF Count

LEMMA CountNone ==
  ASSUME NEW list, NEW n \in Nat, NEW k, \A i \in 1..n : list[i].kind # k
  PROVE  Count(list, k, n) = 0
<1>1. {i \in 1..n : list[i].kind = k} = {}
  OBVIOUS
<1> QED
  BY <1>1, FS_EmptySet DEF Count

(* The parameters and locals of a subroutine. *)
LEMMA OwnType ==
  ASSUME NEW s \in Subs
  PROVE  /\ Own(s) \in Seq(VarDecls({"arg", "local"}))
         /\ Len(Own(s)) = Len(s.params) + Len(s.locals)
         /\ Count(Own(s), "arg", Len(Own(s))) = Len(s.params)
         /\ Count(Own(s), "local", Len(Own(s))) = Len(s.locals)
<1> DEFINE p == Len(s.params)
           l == Len(s.locals)
           own == Own(s)
<1>1. s.params \in Seq(VarDecls({"arg"})) /\ s.locals \in Seq(VarDecls({"local"}))
  BY DEF Subs, Lists
<1>2. p \in Nat /\ l \in Nat
  BY <1>1
<1>3. /\ s.params \in Seq(VarDecls({"arg", "local"}))
      /\ s.locals \in Seq(VarDecls({"arg", "local"}))
  <2>1. /\ VarDecls({"arg"}) \subseteq VarDecls({"arg", "local"})
        /\ VarDecls({"local"}) \subseteq VarDecls({"arg", "local"})
    BY DEF VarDecls
  <2> QED
    BY <1>1, <2>1, WiderElements
<1>4. /\ own \in Seq(VarDecls({"arg", "local"})) /\ Len(own) = p + l
      /\ \A i \in 1..p : own[i] = s.params[i]
      /\ \A i \in p + 1..p + l : own[i] = s.locals[i - p]
  <2> DEFINE D == VarDecls({"arg", "local"})
             a == s.params
             b == s.locals
  <2>1. a \in Seq(D) /\ b \in Seq(D)
    BY <1>3
  <2> HIDE DEF D, a, b
  <2>2. /\ a \o b \in Seq(D) /\ Len(a \o b) = Len(a) + Len(b)
        /\ \A i \in 1..Len(a) + Len(b) : (a \o b)[i] = IF i <= Len(a) THEN a[i] ELSE b[i - Len(a)]
        /\ Len(a) \in Nat /\ Len(b) \in Nat
    BY <2>1, ConcatProperties, LenProperties
  <2>3. /\ \A i \in 1..Len(a) : (a \o b)[i] = a[i]
        /\ \A i \in Len(a) + 1..Len(a) + Len(b) : (a \o b)[i] = b[i - Len(a)]
    <3> DEFINE m == Len(a)
               n == Len(b)
               ab == a \o b
    <3>1. m \in Nat /\ n \in Nat /\ \A i \in 1..m + n : ab[i] = IF i <= m THEN a[i] ELSE b[i - m]
      BY <2>2
    <3> HIDE DEF m, n, ab
    <3>2. (\A i \in 1..m : ab[i] = a[i]) /\ \A i \in m + 1..m + n : ab[i] = b[i - m]
      BY <3>1
    <3> QED
      BY <3>2 DEF m, n, ab
  <2> QED
    BY <2>2, <2>3 DEF Own, D, a, b
<1> HIDE DEF own, p, l
<1>5. ASSUME NEW i \in 1..p PROVE own[i].kind = "arg"
  <2>1. s.params[i] \in VarDecls({"arg"})
    BY <1>1, ElementType DEF p
  <2> QED
    BY <1>4, <2>1 DEF VarDecls, p
<1>6. ASSUME NEW i \in p + 1..p + l PROVE own[i].kind = "local"
  <2>1. i - p \in 1..l
    BY <1>2
  <2>2. s.locals[i - p] \in VarDecls({"local"})
    BY <1>1, <2>1, ElementType DEF l
  <2> QED
    BY <1>4, <2>2 DEF VarDecls, p
<1>7. {i \in 1..p + l : own[i].kind = "arg"} = 1..p
  BY <1>2, <1>5, <1>6
<1>8. {i \in 1..p + l : own[i].kind = "local"} = p + 1..p + l
  BY <1>2, <1>5, <1>6
<1>9. Cardinality(1..p) = p
  BY <1>2, FS_Interval
<1>10. Cardinality(p + 1..p + l) = l
  <2>1. Cardinality(p + 1..p + l) = IF p + 1 > p + l THEN 0 ELSE (p + l) - (p + 1) + 1
    BY <1>2, FS_Interval
  <2> QED
    BY <1>2, <2>1
<1> QED
  BY <1>4, <1>7, <1>8, <1>9, <1>10 DEF Count, own, p, l

-----------------------------------------------------------------------------
(* Scopes that follow a list of declarations *)

LEMMA FollowsNothing ==
  ASSUME NEW list, NEW base, base = [k \in Kinds |-> 0]
  PROVE  Follows(NewScope, list, 0, base)
<1>1. NewScope.next = [k \in Kinds |-> base[k] + Count(list, k, 0)]
  <2>1. \A k \in Kinds : Count(list, k, 0) = 0
    BY CountStep
  <2> QED
    BY <2>1 DEF NewScope
<1>2. \A x \in Names : NewScope.tokens[x] = Absent
  BY DEF NewScope, NoTokens
<1> QED
  BY <1>1, <1>2 DEF Follows

(* A method's scope starts with `this', the first of its arguments. *)
LEMMA FollowsThis ==
  ASSUME NEW list, NEW base, base = [k \in Kinds |-> IF k = "arg" THEN 1 ELSE 0], This \in Names
  PROVE  Follows(AddToken(NewScope, This, "arg"), list, 0, base)
<1> DEFINE s == AddToken(NewScope, This, "arg")
<1>1. s.next = [k \in Kinds |-> base[k] + Count(list, k, 0)]
  <2>1. \A k \in Kinds : Count(list, k, 0) = 0
    BY CountStep
  <2>2. s.next = [k \in Kinds |-> IF k = "arg" THEN 1 ELSE 0]
    BY DEF AddToken, NewScope, Kinds
  <2> QED
    BY <2>1, <2>2
<1>2. \A x \in Names \ {This} : s.tokens[x] = Absent
  BY DEF AddToken, NewScope, NoTokens
<1> HIDE DEF s
<1> QED
  BY <1>1, <1>2 DEF Follows, s

(* One declaration more: the scope knows its name exactly if the list had    *)
(* it before, and otherwise follows the list by one more.                   *)
LEMMA FollowsNext ==
  ASSUME NEW scope \in Scopes, NEW K \in SUBSET Kinds, NEW list \in Seq(VarDecls(K)), NEW n \in Nat,
         n + 1 \in 1..Len(list), NEW base \in [Kinds -> Nat], Follows(scope, list, n, base),
         DistinctUpTo(list, n)
  PROVE  /\ ExistsLocal(scope, list[n + 1].name) <=> ~DistinctUpTo(list, n + 1)
         /\ ~ExistsLocal(scope, list[n + 1].name) =>
              Follows(AddToken(scope, list[n + 1].name, list[n + 1].kind), list, n + 1, base)
<1> DEFINE new == list[n + 1].name
           kind == list[n + 1].kind
           s == AddToken(scope, new, kind)
<1>1. /\ \A i \in 1..n + 1 : list[i].name \in Names \ {This} /\ list[i].kind \in Kinds
      /\ \A i \in 1..n + 1 : i \in 1..Len(list)
  <2>1. ASSUME NEW i \in 1..n + 1 PROVE i \in 1..Len(list)
    OBVIOUS
  <2>2. ASSUME NEW i \in 1..n + 1 PROVE list[i] \in VarDecls(K)
    BY <2>1, ElementType
  <2> QED
    BY <2>1, <2>2 DEF VarDecls
<1>2. new \in Names \ {This} /\ kind \in Kinds
  BY <1>1
<1>3. ExistsLocal(scope, new) <=> \E i \in 1..n : list[i].name = new
  <2>1. ASSUME NEW i \in 1..n, list[i].name = new PROVE scope.tokens[new] # Absent
    <3>0. scope.tokens[new] = [kind |-> list[i].kind, idx |-> base[list[i].kind] + Count(list, list[i].kind, i - 1)]
      BY <2>1 DEF Follows
    <3>1. scope.tokens[new].kind = list[i].kind /\ list[i].kind \in Kinds
      BY <1>1, <3>0
    <3> QED
      BY <3>1 DEF Absent, Kinds
  <2>2. ASSUME \A i \in 1..n : list[i].name # new PROVE scope.tokens[new] = Absent
    BY <1>2, <2>2 DEF Follows
  <2> QED
    BY <2>1, <2>2 DEF ExistsLocal
<1>4. DistinctUpTo(list, n + 1) <=> \A i \in 1..n : list[i].name # new
  BY DEF DistinctUpTo
<1>5. ASSUME ~ExistsLocal(scope, new) PROVE Follows(s, list, n + 1, base)
  <2>1. /\ scope.tokens \in [Names -> Tokens \cup {Absent}] /\ scope.next \in [Kinds -> Nat]
        /\ scope.next = [k \in Kinds |-> base[k] + Count(list, k, n)]
    BY DEF Scopes, Follows
  <2>2. /\ s.tokens = [scope.tokens EXCEPT ![new] = [kind |-> kind, idx |-> scope.next[kind]]]
        /\ s.next = [scope.next EXCEPT ![kind] = scope.next[kind] + 1]
    BY DEF AddToken
  <2> HIDE DEF s, new, kind
  <2>3. s.next = [k \in Kinds |-> base[k] + Count(list, k, n + 1)]
    <3>1. \A k \in Kinds : /\ Count(list, k, n) \in Nat
                           /\ Count(list, k, n + 1) = Count(list, k, n) + (IF kind = k THEN 1 ELSE 0)
      BY CountStep DEF kind
    <3>2. \A k \in Kinds : s.next[k] = base[k] + Count(list, k, n + 1)
      BY <1>2, <2>1, <2>2, <3>1
    <3> QED
      BY <2>1, <2>2, <3>2
  <2>4. ASSUME NEW i \in 1..n + 1
        PROVE  s.tokens[list[i].name] =
                 [kind |-> list[i].kind, idx |-> base[list[i].kind] + Count(list, list[i].kind, i - 1)]
    <3>1. CASE i = n + 1
      <4>1. s.tokens[new] = [kind |-> kind, idx |-> base[kind] + Count(list, kind, n)]
        BY <1>2, <2>1, <2>2
      <4>2. i - 1 = n
        BY <3>1
      <4> QED
        BY <3>1, <4>1, <4>2 DEF new, kind
    <3>2. CASE i # n + 1
      <4>1. i \in 1..n /\ list[i].name # new /\ list[i].name \in Names
        BY <1>1, <1>3, <1>5, <3>2
      <4>2. s.tokens[list[i].name] = scope.tokens[list[i].name]
        BY <1>2, <2>1, <2>2, <4>1
      <4> QED
        BY <4>1, <4>2 DEF Follows
    <3> QED
      BY <3>1, <3>2
  <2>5. ASSUME NEW x \in Names \ {This}, \A i \in 1..n + 1 : list[i].name # x
        PROVE  s.tokens[x] = Absent
    <3>1. x # new /\ \A i \in 1..n : list[i].name # x
      BY <2>5 DEF new
    <3>2. s.tokens[x] = scope.tokens[x]
      BY <1>2, <2>1, <2>2, <3>1
    <3> QED
      BY <3>1, <3>2 DEF Follows
  <2> QED
    BY <2>3, <2>4, <2>5 DEF Follows
<1> QED
  BY <1>3, <1>4, <1>5

(* A name is looked up in the innermost scope that knows it. *)
LEMMA FindInnermost ==
  ASSUME NEW c \in Seq(Scopes), Len(c) = 2, NEW n \in Names
  PROVE  Find(c, n) = IF ExistsLocal(c[2], n) THEN c[2].tokens[n]
                      ELSE IF ExistsLocal(c[1], n) THEN c[1].tokens[n] ELSE Absent
<1> DEFINE K == Knowing(c, n)
           top == CHOOSE d \in K : \A e \in K : e <= d
<1>1. K = {d \in {1, 2} : ExistsLocal(c[d], n)}
  BY DEF Knowing
<1>2. K # {} => /\ top \in K /\ \A e \in K : e <= top
                /\ Find(c, n) = c[top].tokens[n]
  <2>1. K # {} => \E d \in K : \A e \in K : e <= d
    <3>1. CASE 2 \in K
      BY <1>1, <3>1
    <3>2. CASE 2 \notin K
      BY <1>1, <3>2
    <3> QED
      BY <3>1, <3>2
  <2> QED
    BY <2>1 DEF Find
<1> HIDE DEF top
<1>3. CASE ExistsLocal(c[2], n)
  <2>1. 2 \in K
    BY <1>1, <1>3
  <2>2. top = 2
    BY <1>1, <1>2, <2>1
  <2> QED
    BY <1>2, <1>3, <2>1, <2>2
<1>4. CASE ~ExistsLocal(c[2], n) /\ ExistsLocal(c[1], n)
  <2>1. 1 \in K /\ 2 \notin K
    BY <1>1, <1>4
  <2>2. top = 1
    BY <1>1, <1>2, <2>1
  <2> QED
    BY <1>2, <1>4, <2>1, <2>2
<1>5. CASE ~ExistsLocal(c[2], n) /\ ~ExistsLocal(c[1], n)
  <2>1. K = {}
    BY <1>1, <1>5
  <2> QED
    BY <1>5, <2>1 DEF Find
<1> QED
  BY <1>3, <1>4, <1>5

-----------------------------------------------------------------------------
(* What holds of the program that is visited *)

LEMMA ClassParts ==
  ASSUME Control
  PROVE  /\ program \in Seq(Classes) /\ Len(program) \in Nat /\ DOMAIN program = 1..Len(program)
         /\ file \in 1..Len(program)
         /\ Class \in Classes /\ Class = program[file]
         /\ Class.vars \in Seq(VarDecls({"static", "field"})) /\ Len(Class.vars) \in Nat
         /\ DOMAIN Class.vars = 1..Len(Class.vars)
         /\ Class.subs \in Seq(Subs) /\ Len(Class.subs) \in Nat
         /\ DOMAIN Class.subs = 1..Len(Class.subs)
         /\ This \in Names
<1>1. Class \in Classes /\ program \in Seq(Classes) /\ Len(program) >= 1 /\ This \in Names
  BY ClassType, ProgramsAssumption
<1>2. Class.vars \in Seq(VarDecls({"static", "field"})) /\ Class.subs \in Seq(Subs)
  BY <1>1 DEF Classes, Lists
<1> QED
  BY <1>1, <1>2, LenProperties DEF Control, Class

LEMMA SubParts ==
  ASSUME Control, sub \in 1..Len(Class.subs)
  PROVE  /\ Sub \in Subs /\ Own(Sub) \in Seq(VarDecls({"arg", "local"})) /\ Len(Own(Sub)) \in Nat
         /\ DOMAIN Own(Sub) = 1..Len(Own(Sub)) /\ Sub.uses \subseteq Names
<1>1. Sub \in Subs
  BY SubType, ProgramsAssumption
<1>2. Own(Sub) \in Seq(VarDecls({"arg", "local"}))
  BY <1>1, OwnType
<1> QED
  BY <1>1, <1>2, LenProperties DEF Subs

(* What the last lists say of the whole program. *)
LEMMA IllFormed ==
  ASSUME Control, ~WellFormedClass(Class)
  PROVE  ~WellFormed
BY ClassParts DEF WellFormed

LEMMA IllFormedVars ==
  ASSUME Control, ~DistinctNames(Class.vars) \/ ~WellTyped(Class.vars)
  PROVE  ~WellFormed
BY IllFormed DEF WellFormedClass

LEMMA IllFormedSub ==
  ASSUME Control, sub \in 1..Len(Class.subs), ~WellFormedSub(Class, Sub)
  PROVE  ~WellFormed
<1>1. ~WellFormedClass(Class)
  BY ClassParts DEF WellFormedClass, Sub
<1> QED
  BY <1>1, IllFormed

LEMMA DistinctWhole ==
  ASSUME NEW S, NEW list \in Seq(S)
  PROVE  /\ DistinctNames(list) <=> DistinctUpTo(list, Len(list))
         /\ WellTyped(list) <=> TypedUpTo(list, Len(list))
         /\ \A n \in 0..Len(list) : /\ DistinctNames(list) => DistinctUpTo(list, n)
                                    /\ WellTyped(list) => TypedUpTo(list, n)
<1>1. Len(list) \in Nat /\ DOMAIN list = 1..Len(list)
  BY LenProperties
<1>2. ASSUME NEW n \in 0..Len(list) PROVE \A i \in 1..n : i \in 1..Len(list)
  BY <1>1
<1> QED
  BY <1>1, <1>2 DEF DistinctNames, DistinctUpTo, WellTyped, TypedUpTo

(* What is said of the text alone stays as it is. *)
LEMMA SameSlots ==
  ASSUME program' = program, NEW r
  PROVE  (HasOwnSignature(r)' <=> HasOwnSignature(r)) /\ (IsSlotOf(r)' <=> IsSlotOf(r))
<1>1. ASSUME NEW g PROVE StaticsOf(g)' = StaticsOf(g)
  BY DEF StaticsOf
<1>2. (UNION {StaticsOf(g) : g \in 1..r.file - 1})' = UNION {StaticsOf(g) : g \in 1..r.file - 1}
  BY <1>1
<1>3. StaticsBefore(r.file)' = StaticsBefore(r.file)
  BY <1>2 DEF StaticsBefore
<1> QED
  BY <1>3 DEF HasOwnSignature, IsSlotOf

LEMMA SameVerdict ==
  ASSUME program' = program
  PROVE  /\ WellFormed' <=> WellFormed
         /\ UNCHANGED refs /\ ResolvesToDeclaration /\ SlotInsideFrame =>
              ResolvesToDeclaration' /\ SlotInsideFrame'
<1>1. WellFormed' <=> WellFormed
  BY DEF WellFormed, WellFormedClass, WellFormedSub, WellTyped
<1>2. ASSUME UNCHANGED refs, ResolvesToDeclaration PROVE ResolvesToDeclaration'
  BY <1>2, SameSlots DEF ResolvesToDeclaration
<1>3. ASSUME UNCHANGED refs, SlotInsideFrame PROVE SlotInsideFrame'
  BY <1>3 DEF SlotInsideFrame, HasOwnSignature
<1> QED
  BY <1>1, <1>2, <1>3

LEMMA InitAInv == Init => AInv
<1> SUFFICES ASSUME Init PROVE AInv
  OBVIOUS
<1>1. /\ registry = <<>> /\ pass = "registry" /\ file = 1 /\ redeclared = FALSE /\ invalid = FALSE
      /\ genError = FALSE /\ refs = {}
  BY DEF Init
<1>2. 1..file - 1 = {} /\ DOMAIN registry = {}
  BY <1>1
<1>3. RegistryMatches
  BY <1>1, <1>2 DEF RegistryMatches, DistinctUpTo
<1>4. Places /\ ScopesFollow /\ ThisUnknown /\ CheckedSoFar
  BY <1>1 DEF Places, Visiting, ScopesFollow, ThisUnknown, CheckedSoFar
<1>5. Verdict /\ ReferencesRight
  BY <1>1 DEF Verdict, AcceptedNeverFails, ReferencesRight, ResolvesToDeclaration, SlotInsideFrame
<1> QED
  BY <1>3, <1>4, <1>5 DEF AInv

LEMMA RegisterClassKeeps == ASSUME IInv, AInv, RegisterClass PROVE AInv'
<1>1. /\ pass = "registry" /\ stage = "class" /\ refs = {} /\ ~invalid
      /\ UNCHANGED <<program, stage, sub, decl, chain, invalid, genError, refs>>
  BY DEF RegisterClass, IInv, Control, NothingEmittedYet, AInv, Verdict
<1>2. /\ program \in Seq(Classes) /\ Len(program) \in Nat /\ DOMAIN program = 1..Len(program)
      /\ file \in 1..Len(program) /\ Class = program[file]
  BY ClassParts DEF IInv
<1>3. /\ DOMAIN registry = {program[f].name : f \in 1..file - 1}
      /\ ~redeclared => DistinctUpTo(program, file - 1)
      /\ redeclared => ~DistinctNames(program)
      /\ \A f \in 1..file - 1 : ~redeclared => registry[program[f].name] = MethodsOf(program[f])
  BY <1>1 DEF AInv, RegistryMatches
<1>4. 1..file = 1..file - 1 \cup {file} /\ file \notin 1..file - 1
  BY <1>2
<1>5. /\ DOMAIN registry' = {program[f].name : f \in 1..file}
      /\ ~redeclared' => DistinctUpTo(program, file)
      /\ redeclared' => ~DistinctNames(program)
      /\ ~redeclared' => \A f \in 1..file : registry'[program[f].name] = MethodsOf(program[f])
  <2>1. CASE Class.name \in DOMAIN registry
    <3>1. redeclared' = TRUE /\ registry' = registry
      BY <2>1 DEF RegisterClass
    <3>2. PICK f \in 1..file - 1 : program[f].name = Class.name
      BY <1>3, <2>1
    <3>3. f \in DOMAIN program /\ file \in DOMAIN program /\ f # file
      BY <1>2
    <3>4. ~DistinctNames(program)
      BY <1>2, <3>2, <3>3 DEF DistinctNames
    <3> QED
      BY <1>2, <1>3, <1>4, <2>1, <3>1, <3>4
  <2>2. CASE Class.name \notin DOMAIN registry
    <3>1. /\ redeclared' = redeclared
          /\ registry' = [c \in DOMAIN registry \cup {Class.name} |->
                            IF c = Class.name THEN MethodsOf(Class) ELSE registry[c]]
      BY <2>2 DEF RegisterClass
    <3>2. \A f \in 1..file - 1 : program[f].name # Class.name /\ program[f].name \in DOMAIN registry
      BY <1>3, <2>2
    <3>3. DOMAIN registry' = {program[f].name : f \in 1..file}
      BY <1>2, <1>3, <1>4, <3>1
    <3>4. ~redeclared' => DistinctUpTo(program, file)
      BY <1>2, <1>3, <1>4, <3>1, <3>2 DEF DistinctUpTo
    <3>5. ASSUME ~redeclared', NEW f \in 1..file
          PROVE  registry'[program[f].name] = MethodsOf(program[f])
      <4>1. CASE f = file
        BY <1>2, <3>1, <4>1
      <4>2. CASE f # file
        <5>1. f \in 1..file - 1
          BY <1>4, <4>2
        <5> QED
          BY <1>3, <3>1, <3>2, <3>5, <5>1
      <4> QED
        BY <4>1, <4>2
    <3> QED
      BY <1>3, <3>1, <3>3, <3>4, <3>5
  <2> QED
    BY <2>1, <2>2
<1>6. RegistryMatches' /\ pass' # "aborted"
  <2>1. CASE file < Len(program)
    <3>1. file' = file + 1 /\ pass' = "registry" /\ file' - 1 = file
      BY <1>1, <1>2, <2>1 DEF RegisterClass
    <3> QED
      BY <1>1, <1>5, <3>1 DEF RegistryMatches
  <2>2. CASE ~(file < Len(program))
    <3>1. /\ file = Len(program)
          /\ pass' = IF redeclared' THEN "redeclaration" ELSE "semantic"
      BY <1>2, <2>2 DEF RegisterClass
    <3>2. ~redeclared' => /\ DistinctNames(program)
                          /\ DOMAIN registry' = NamesOf(program)
                          /\ \A f \in DOMAIN program : registry'[program[f].name] = MethodsOf(program[f])
      BY <1>2, <1>5, <3>1 DEF DistinctNames, DistinctUpTo, NamesOf
    <3> QED
      BY <1>1, <1>5, <3>1, <3>2 DEF RegistryMatches
  <2> QED
    BY <2>1, <2>2
<1>7. pass' \in {"registry", "redeclaration", "semantic"} /\ (pass' = "semantic" => file' = 1)
  BY <1>1 DEF RegisterClass
<1>8. Places' /\ ScopesFollow'
  BY <1>1, <1>7 DEF Places, Visiting, ScopesFollow, AInv
<1>9. ThisUnknown'
  <2>1. DOMAIN chain = {}
    BY <1>1 DEF IInv, ChainShape, Depth, Ended
  <2> QED
    BY <1>1, <2>1 DEF ThisUnknown
<1>10. CheckedSoFar'
  <2>1. pass' = "semantic" => ClassesChecked'
    <3>1. file' = 1 => 1..file' - 1 = {}
      OBVIOUS
    <3> QED
      BY <1>7, <3>1 DEF ClassesChecked
  <2> QED
    BY <1>1, <2>1 DEF CheckedSoFar
<1>11. Verdict'
  BY <1>1, <1>7 DEF AInv, Verdict, AcceptedNeverFails
<1>12. ReferencesRight'
  BY <1>1, <1>7, SameVerdict DEF AInv, ReferencesRight
<1> QED
  BY <1>6, <1>8, <1>9, <1>10, <1>11, <1>12 DEF AInv

LEMMA StaticBaseKept ==
  ASSUME UNCHANGED <<program, file>>
  PROVE  /\ StaticBase' = StaticBase
         /\ (UNION {StaticsOf(g) : g \in 1..file - 1})' = UNION {StaticsOf(g) : g \in 1..file - 1}
<1>1. ASSUME NEW g PROVE StaticsOf(g)' = StaticsOf(g)
  BY DEF StaticsOf
<1>2. (UNION {StaticsOf(g) : g \in 1..file - 1})' = UNION {StaticsOf(g) : g \in 1..file - 1}
  BY <1>1
<1> QED
  BY <1>2 DEF StaticBase, StaticsBefore

(* The steps inside a class whose emission, if any, was looked at apart. *)
LEMMA InsideAClass ==
  ASSUME AInv, Visiting, UNCHANGED <<program, registry, pass, file, redeclared>>
  PROVE  /\ RegistryMatches'
         /\ invalid' = invalid /\ ~genError' => Verdict'
         /\ (invalid' => ~WellFormed) /\ pass = "semantic" /\ genError' = genError => Verdict'
         /\ UNCHANGED refs => ReferencesRight'
         /\ UNCHANGED chain => ThisUnknown'
         /\ ClassesChecked => ClassesChecked'
<1>1. RegistryMatches'
  BY DEF AInv, RegistryMatches, Visiting
<1>2. ASSUME invalid' = invalid /\ ~genError' PROVE Verdict'
  BY <1>2, SameVerdict DEF AInv, Verdict, AcceptedNeverFails
<1>3. ASSUME (invalid' => ~WellFormed), pass = "semantic", genError' = genError PROVE Verdict'
  BY <1>3, SameVerdict DEF AInv, Verdict, AcceptedNeverFails
<1>4. ASSUME UNCHANGED refs PROVE ReferencesRight'
  BY <1>4, SameVerdict, StaticBaseKept DEF AInv, ReferencesRight
<1>5. ASSUME UNCHANGED chain PROVE ThisUnknown'
  BY <1>5 DEF AInv, ThisUnknown
<1>6. ASSUME ClassesChecked PROVE ClassesChecked'
  BY <1>6 DEF ClassesChecked, WellFormedClass, WellFormedSub, WellTyped
<1> QED
  BY <1>1, <1>2, <1>3, <1>4, <1>5, <1>6

LEMMA SemEnterClassKeeps == ASSUME IInv, AInv, SemEnterClass PROVE AInv'
<1>1. /\ pass = "semantic" /\ stage = "class" /\ stage' = "classVars" /\ decl' = 1
      /\ chain' = PushScope(chain)
      /\ UNCHANGED <<program, registry, pass, file, sub, redeclared, invalid, genError, refs>>
  BY DEF SemEnterClass
<1>2. chain \in Seq(Scopes) /\ Len(chain) = 0
  BY <1>1 DEF IInv, ChainShape, Depth, Ended
<1>3. chain' \in Seq(Scopes) /\ Len(chain') = 1 /\ chain'[1] = NewScope /\ DOMAIN chain' = {1}
  <2>1. chain' \in Seq(Scopes) /\ Len(chain') = Len(chain) + 1 /\ chain'[Len(chain) + 1] = NewScope
    BY <1>1, <1>2, PushShape
  <2>2. chain' \in Seq(Scopes) /\ Len(chain') = 1 /\ chain'[1] = NewScope
    BY <1>2, <2>1
  <2> QED
    BY <2>2, LenProperties
<1>4. Visiting /\ Visiting'
  BY <1>1 DEF Visiting
<1>5. OfClass' = 0 /\ RootBase' = [k \in Kinds |-> 0]
  BY <1>1 DEF OfClass, RootBase
<1>6. RootFollows'
  BY <1>3, <1>5, FollowsNothing DEF RootFollows
<1>7. VarsChecked'
  BY <1>5 DEF VarsChecked, DistinctUpTo, TypedUpTo
<1>8. Places'
  <2>1. Class' = Class /\ Len(Class.vars) \in Nat
    BY <1>1, ClassParts DEF Class, IInv
  <2> QED
    BY <1>1, <2>1 DEF Places, Pending
<1>9. ThisUnknown'
  BY <1>3, ProgramsAssumption DEF ThisUnknown, NewScope, NoTokens
<1>10. CheckedSoFar'
  BY <1>1, <1>4, <1>7, InsideAClass DEF AInv, CheckedSoFar
<1>11. Verdict'
  BY <1>1, <1>4, InsideAClass DEF AInv, Verdict, AcceptedNeverFails
<1> QED
  BY <1>1, <1>4, <1>6, <1>8, <1>9, <1>10, <1>11, InsideAClass DEF AInv, ScopesFollow

(* While the class's variables or a subroutine's are declared, and none was *)
(* wrong yet: the scope to declare in.                                     *)
PendingBase == IF stage = "classVars" THEN RootBase ELSE SubBase

LEMMA BaseTypes ==
  ASSUME IInv, AInv, Visiting
  PROVE  /\ pass = "codegen" => StaticBase \in Nat
         /\ RootBase \in [Kinds -> Nat] /\ SubBase \in [Kinds -> Nat]
<1>1. pass = "codegen" => StaticBase \in Nat
  BY FS_CardinalityType DEF AInv, ReferencesRight, StaticBase, StaticsBefore
<1> QED
  BY <1>1 DEF RootBase, SubBase

LEMMA DeclareNext ==
  ASSUME IInv, AInv, Visiting, ~invalid, stage \in {"classVars", "subVars"}, decl <= Len(Pending)
  PROVE  /\ chain \in Seq(Scopes) /\ Len(chain) \in {1, 2}
         /\ Len(chain) = 1 <=> stage = "classVars"
         /\ VarDecl.name \in Names \ {This} /\ VarDecl.kind \in Kinds
         /\ decl \in 1..Len(Pending)
         /\ DistinctUpTo(Pending, decl - 1)
         /\ InsertFails(chain, VarDecl.name) <=> ~DistinctUpTo(Pending, decl)
         /\ ~InsertFails(chain, VarDecl.name) =>
              Follows(AddToken(chain[Len(chain)], VarDecl.name, VarDecl.kind), Pending, decl, PendingBase)
<1>1. chain \in Seq(Scopes) /\ Len(chain) = Depth /\ decl \in Nat \ {0} /\ Control
  BY DEF IInv, ChainShape, Control, Visiting, Ended
<1>2. /\ Len(chain) \in {1, 2} /\ (Len(chain) = 1 <=> stage = "classVars")
      /\ chain[Len(chain)] \in Scopes
  <2>1. Len(chain) \in {1, 2} /\ (Len(chain) = 1 <=> stage = "classVars")
    BY <1>1 DEF Depth
  <2> QED
    BY <1>1, <2>1, ElementType
<1>3. PICK K \in SUBSET Kinds : Pending \in Seq(VarDecls(K))
  <2>1. CASE stage = "classVars"
    BY <1>1, <2>1, ClassParts DEF Pending, Kinds
  <2>2. CASE stage = "subVars"
    <3>1. Pending = Own(Sub) /\ Own(Sub) \in Seq(VarDecls({"arg", "local"}))
      BY <1>1, <2>2, SubParts DEF Pending, Own, Control
    <3> QED
      BY <3>1 DEF Kinds
  <2> QED
    BY <2>1, <2>2
<1>4. decl \in 1..Len(Pending) /\ decl - 1 \in Nat /\ (decl - 1) + 1 = decl /\ decl - 1 \in 0..Len(Pending)
  <2>1. Len(Pending) \in Nat
    BY <1>3, LenProperties
  <2> QED
    BY <1>1, <2>1
<1>5. VarDecl.name \in Names \ {This} /\ VarDecl.kind \in Kinds
  <2>1. VarDecl \in VarDecls(K)
    BY <1>3, <1>4, ElementType DEF VarDecl
  <2> QED
    BY <2>1 DEF VarDecls
<1>6. DistinctUpTo(Pending, decl - 1)
  <2>1. CASE pass = "semantic"
    BY <2>1 DEF AInv, CheckedSoFar, VarsChecked, OwnChecked, OfClass, OfSub, Pending, Own
  <2>2. CASE pass = "codegen"
    <3>1. WellFormedClass(Class) /\ Class = program[file]
      BY <1>1, <2>2, ClassParts DEF AInv, Verdict, WellFormed
    <3>2. DistinctNames(Pending)
      <4>1. CASE stage = "classVars"
        BY <3>1, <4>1 DEF WellFormedClass, Pending
      <4>2. CASE stage = "subVars"
        BY <1>1, <3>1, <4>2, ClassParts DEF WellFormedClass, WellFormedSub, Pending, Sub, Control
      <4> QED
        BY <4>1, <4>2
    <3> QED
      BY <1>3, <1>4, <3>2, DistinctWhole
  <2> QED
    BY <2>1, <2>2 DEF Visiting
<1>7. Follows(chain[Len(chain)], Pending, decl - 1, PendingBase)
  <2>1. CASE stage = "classVars"
    BY <1>2, <2>1 DEF AInv, ScopesFollow, RootFollows, OfClass, Pending, PendingBase
  <2>2. CASE stage = "subVars"
    BY <1>2, <2>2 DEF AInv, ScopesFollow, SubFollows, OfSub, Pending, PendingBase, Own
  <2> QED
    BY <2>1, <2>2
<1>8. PendingBase \in [Kinds -> Nat]
  BY BaseTypes DEF PendingBase
<1>9. /\ ExistsLocal(chain[Len(chain)], VarDecl.name) <=> ~DistinctUpTo(Pending, decl)
      /\ ~ExistsLocal(chain[Len(chain)], VarDecl.name) =>
           Follows(AddToken(chain[Len(chain)], VarDecl.name, VarDecl.kind), Pending, decl, PendingBase)
  <2> DEFINE scope == chain[Len(chain)]
             list == Pending
             n == decl - 1
             base == PendingBase
  <2>1. /\ scope \in Scopes /\ list \in Seq(VarDecls(K)) /\ n \in Nat /\ n + 1 \in 1..Len(list)
        /\ base \in [Kinds -> Nat] /\ Follows(scope, list, n, base) /\ DistinctUpTo(list, n)
    BY <1>2, <1>3, <1>4, <1>6, <1>7, <1>8
  <2>2. n + 1 = decl /\ VarDecl = list[n + 1]
    BY <1>4 DEF VarDecl
  <2> HIDE DEF scope, list, n, base
  <2>3. /\ ExistsLocal(scope, list[n + 1].name) <=> ~DistinctUpTo(list, n + 1)
        /\ ~ExistsLocal(scope, list[n + 1].name) =>
             Follows(AddToken(scope, list[n + 1].name, list[n + 1].kind), list, n + 1, base)
    BY <2>1, FollowsNext
  <2> QED
    BY <2>2, <2>3 DEF scope, list, base
<1> QED
  BY <1>1, <1>2, <1>4, <1>5, <1>6, <1>9 DEF InsertFails

LEMMA BasesKept ==
  ASSUME UNCHANGED <<program, registry, pass, file, sub>>
  PROVE  RootBase' = RootBase /\ SubBase' = SubBase
BY StaticBaseKept DEF RootBase, SubBase, Signature, Class, Sub

LEMMA PlacesAfter ==
  ASSUME Control, Visiting, stage \in {"classVars", "subVars"}, decl <= Len(Pending), decl' = decl + 1,
         UNCHANGED <<program, file, stage, sub>>
  PROVE  Places'
<1>1. Pending' = Pending /\ decl \in Nat
  BY DEF Pending, Class, Sub, Control
<1>2. Len(Pending) \in Int
  <2>1. CASE stage = "classVars"
    BY <2>1, ClassParts DEF Pending
  <2>2. CASE stage = "subVars"
    BY <2>2, SubParts DEF Pending, Own, Control
  <2> QED
    BY <2>1, <2>2
<1>3. decl' <= Len(Pending') + 1
  BY <1>1, <1>2
<1> QED
  BY <1>3 DEF Places

LEMMA OneOrTwo == ASSUME NEW n \in {1, 2} PROVE n >= 1 /\ (n # 1 => n = 2 /\ 1 \in 1..(n - 1))
OBVIOUS

LEMMA InsertKeepsScopes ==
  ASSUME IInv, AInv, Visiting, ~invalid, stage \in {"classVars", "subVars"}, decl <= Len(Pending),
         ~InsertFails(chain, VarDecl.name), chain' = Insert(chain, VarDecl.name, VarDecl.kind),
         decl' = decl + 1, UNCHANGED <<program, registry, pass, file, stage, sub>>
  PROVE  RootFollows' /\ (stage = "subVars" => SubFollows')
<1>1. /\ chain \in Seq(Scopes) /\ Len(chain) \in {1, 2}
      /\ Len(chain) = 1 <=> stage = "classVars"
      /\ VarDecl.name \in Names \ {This} /\ VarDecl.kind \in Kinds
      /\ Follows(AddToken(chain[Len(chain)], VarDecl.name, VarDecl.kind), Pending, decl, PendingBase)
      /\ decl \in Nat
  BY DeclareNext DEF IInv, Control
<1> DEFINE top == AddToken(chain[Len(chain)], VarDecl.name, VarDecl.kind)
<1>2. /\ chain' \in Seq(Scopes) /\ Len(chain') = Len(chain) /\ chain'[Len(chain)] = top
      /\ \A i \in 1..(Len(chain) - 1) : chain'[i] = chain[i]
  <2>1. Len(chain) >= 1
    BY <1>1, OneOrTwo
  <2> QED
    BY <1>1, <2>1, InsertShape
<1>3. Class' = Class /\ Sub' = Sub /\ Own(Sub)' = Own(Sub) /\ decl' - 1 = decl
  BY <1>1 DEF Class, Sub, Own
<1>4. RootBase' = RootBase /\ SubBase' = SubBase
  BY BasesKept
<1>5. CASE stage = "classVars"
  <2>1. chain'[1] = top /\ Pending = Class.vars /\ PendingBase = RootBase /\ OfClass' = decl
    BY <1>1, <1>2, <1>3, <1>5 DEF Pending, PendingBase, OfClass
  <2> HIDE DEF top
  <2>2. Follows(top, Class.vars, decl, RootBase)
    BY <1>1, <2>1 DEF top
  <2> QED
    BY <1>3, <1>4, <1>5, <2>1, <2>2 DEF RootFollows
<1>6. CASE stage = "subVars"
  <2>1. /\ chain'[2] = top /\ Pending = Own(Sub) /\ PendingBase = SubBase /\ OfSub' = decl
        /\ chain'[1] = chain[1] /\ OfClass' = OfClass
    <3>1. Len(chain) = 2 /\ 1 \in 1..(Len(chain) - 1)
      <4>1. Len(chain) # 1
        BY <1>1, <1>6
      <4> QED
        BY <1>1, <4>1, OneOrTwo
    <3> QED
      BY <1>2, <1>3, <1>6, <3>1 DEF Pending, PendingBase, OfSub, OfClass, Own
  <2> HIDE DEF top
  <2>2. Follows(top, Own(Sub), decl, SubBase)
    BY <1>1, <2>1 DEF top
  <2>3. RootFollows
    BY <1>6 DEF AInv, ScopesFollow
  <2> QED
    BY <1>3, <1>4, <1>6, <2>1, <2>2, <2>3 DEF RootFollows, SubFollows
<1> QED
  BY <1>5, <1>6

LEMMA PendingName ==
  ASSUME Control, stage \in {"classVars", "subVars"}, decl <= Len(Pending)
  PROVE  VarDecl.name \in Names \ {This} /\ VarDecl.kind \in Kinds /\ decl \in 1..Len(Pending)
<1>1. PICK K \in SUBSET Kinds : Pending \in Seq(VarDecls(K))
  <2>1. CASE stage = "classVars"
    BY <2>1, ClassParts DEF Pending, Kinds
  <2>2. CASE stage = "subVars"
    <3>1. Pending = Own(Sub) /\ Own(Sub) \in Seq(VarDecls({"arg", "local"}))
      BY <2>2, SubParts DEF Pending, Own, Control
    <3> QED
      BY <3>1 DEF Kinds
  <2> QED
    BY <2>1, <2>2
<1>2. decl \in 1..Len(Pending)
  BY <1>1, LenProperties DEF Control
<1>3. VarDecl \in VarDecls(K)
  BY <1>1, <1>2, ElementType DEF VarDecl
<1> QED
  BY <1>2, <1>3 DEF VarDecls

LEMMA InsertKeepsThisUnknown ==
  ASSUME IInv, AInv, pass = "semantic", stage \in {"classVars", "subVars"}, decl <= Len(Pending),
         chain' = Insert(chain, VarDecl.name, VarDecl.kind), UNCHANGED pass
  PROVE  ThisUnknown'
<1> SUFFICES ASSUME NEW d \in DOMAIN chain' PROVE chain'[d].tokens[This] = Absent
  BY DEF ThisUnknown
<1> DEFINE n == Len(chain)
           top == AddToken(chain[n], VarDecl.name, VarDecl.kind)
<1>1. chain \in Seq(Scopes) /\ n \in {1, 2} /\ DOMAIN chain = 1..n /\ n \in DOMAIN chain
  <2>1. chain \in Seq(Scopes) /\ n = Depth
    BY DEF IInv, ChainShape, Ended
  <2>2. n \in {1, 2}
    BY <2>1 DEF Depth
  <2> QED
    BY <2>1, <2>2, LenProperties
<1>2. VarDecl.name \in Names \ {This} /\ VarDecl.kind \in Kinds
  BY PendingName DEF IInv
<1>3. /\ chain' \in Seq(Scopes) /\ Len(chain') = n /\ \A i \in 1..(n - 1) : chain'[i] = chain[i]
      /\ chain' = chain \/ chain'[n] = top
  <2>1. n >= 1
    BY <1>1
  <2> QED
    BY <1>1, <1>2, <2>1, InsertShape
<1> HIDE DEF n
<1>4. d \in 1..n
  BY <1>3, LenProperties
<1>5. \A i \in 1..n : chain[i].tokens[This] = Absent
  BY <1>1 DEF AInv, ThisUnknown
<1>6. CASE chain' = chain \/ d # n
  BY <1>1, <1>3, <1>4, <1>5, <1>6
<1>7. CASE chain'[n] = top /\ d = n
  <2>1. chain[n] \in Scopes /\ chain[n].tokens[This] = Absent
    BY <1>1, <1>5, ElementType DEF n
  <2>2. chain[n].tokens \in [Names -> Tokens \cup {Absent}] /\ This \in Names
    BY <2>1, ProgramsAssumption DEF Scopes
  <2>3. top.tokens[This] = chain[n].tokens[This]
    BY <1>2, <2>2 DEF AddToken
  <2> QED
    BY <1>7, <2>1, <2>3
<1> QED
  BY <1>3, <1>6, <1>7

(* What makes a declaration ill typed makes the program ill formed. *)
LEMMA TypesAgree ==
  ASSUME IInv, AInv, pass = "semantic", stage \in {"classVars", "subVars"}, decl \in 1..Len(Pending)
  PROVE  /\ IllTyped(VarDecl) <=> VarDecl.type \notin BasicTypes \cup NamesOf(program)
         /\ IllTyped(VarDecl) => ~WellTyped(Pending)
<1>1. DOMAIN registry = NamesOf(program)
  BY DEF AInv, RegistryMatches
<1>2. "void" \notin NamesOf(program) /\ NamesOf(program) \cap BasicTypes = {}
  <2>1. /\ program \in Seq(Classes) /\ DOMAIN program = 1..Len(program)
    BY ClassParts DEF IInv
  <2>2. ASSUME NEW f \in DOMAIN program PROVE program[f].name \notin BasicTypes \cup {"void"}
    <3>1. program[f] \in Classes
      BY <2>1, ElementType
    <3> QED
      BY <3>1 DEF Classes
  <2> QED
    BY <2>2 DEF NamesOf
<1>3. "void" \notin BasicTypes
  BY DEF BasicTypes
<1>4. IllTyped(VarDecl) <=> VarDecl.type \notin BasicTypes \cup NamesOf(program)
  BY <1>1, <1>2, <1>3 DEF IllTyped, IsClassType
<1>5. decl \in DOMAIN Pending
  <2>1. CASE stage = "classVars"
    BY <2>1, ClassParts DEF Pending, IInv
  <2>2. CASE stage = "subVars"
    BY <2>2, SubParts DEF Pending, Own, IInv, Control
  <2> QED
    BY <2>1, <2>2
<1> QED
  BY <1>4, <1>5 DEF WellTyped, VarDecl

LEMMA PendingIllFormed ==
  ASSUME Control, stage \in {"classVars", "subVars"}, ~WellTyped(Pending) \/ ~DistinctNames(Pending)
  PROVE  ~WellFormed
<1>1. CASE stage = "classVars"
  BY <1>1, IllFormedVars DEF Pending
<1>2. CASE stage = "subVars"
  <2>1. sub \in 1..Len(Class.subs)
    BY <1>2 DEF Control
  <2>2. ~WellFormedSub(Class, Sub)
    BY <1>2 DEF WellFormedSub, Pending
  <2> QED
    BY <2>1, <2>2, IllFormedSub
<1> QED
  BY <1>1, <1>2

LEMMA SemDeclareKeeps == ASSUME IInv, AInv, SemDeclare PROVE AInv'
<1>1. /\ pass = "semantic" /\ stage \in {"classVars", "subVars"} /\ decl <= Len(Pending)
      /\ decl' = decl + 1
      /\ UNCHANGED <<program, registry, pass, file, stage, sub, redeclared, genError, refs>>
      /\ Control /\ decl \in Nat
  BY DEF SemDeclare, IInv, Control
<1>2. Visiting /\ Visiting'
  BY <1>1 DEF Visiting
<1>3. Places'
  BY <1>1, <1>2, PlacesAfter
<1>4. (chain' = chain \/ chain' = Insert(chain, VarDecl.name, VarDecl.kind)) /\ (invalid => invalid')
  BY DEF SemDeclare
<1>5. CASE invalid
  <2>1. invalid' /\ ~WellFormed
    BY <1>4, <1>5 DEF AInv, Verdict
  <2>2. Verdict'
    BY <1>1, <1>2, <2>1, InsideAClass
  <2>3. ScopesFollow' /\ CheckedSoFar'
    BY <2>1 DEF ScopesFollow, CheckedSoFar
  <2>4. ThisUnknown'
    <3>1. CASE chain' = chain
      BY <1>1, <1>2, <3>1, InsideAClass
    <3>2. CASE chain' = Insert(chain, VarDecl.name, VarDecl.kind)
      BY <1>1, <3>2, InsertKeepsThisUnknown
    <3> QED
      BY <1>4, <3>1, <3>2
  <2> QED
    BY <1>1, <1>2, <1>3, <2>2, <2>3, <2>4, InsideAClass DEF AInv
<1>6. CASE ~invalid
  <2>1. /\ DistinctUpTo(Pending, decl - 1) /\ decl \in 1..Len(Pending)
        /\ InsertFails(chain, VarDecl.name) <=> ~DistinctUpTo(Pending, decl)
    BY <1>1, <1>2, <1>6, DeclareNext
  <2>2. /\ IllTyped(VarDecl) <=> VarDecl.type \notin BasicTypes \cup NamesOf(program)
        /\ IllTyped(VarDecl) => ~WellTyped(Pending)
    BY <1>1, <2>1, TypesAgree
  <2>3. \E S : Pending \in Seq(S)
    <3>1. CASE stage = "classVars"
      BY <1>1, <3>1, ClassParts DEF Pending
    <3>2. CASE stage = "subVars"
      BY <1>1, <3>2, SubParts DEF Pending, Own, Control
    <3> QED
      BY <1>1, <3>1, <3>2
  <2>4. CASE IllTyped(VarDecl) \/ InsertFails(chain, VarDecl.name)
    <3>1. ~WellTyped(Pending) \/ ~DistinctNames(Pending)
      <4>1. CASE IllTyped(VarDecl)
        BY <2>2, <4>1
      <4>2. CASE InsertFails(chain, VarDecl.name)
        <5>1. decl \in 0..Len(Pending)
          BY <1>1, <2>1
        <5> QED
          BY <2>1, <2>3, <4>2, <5>1, DistinctWhole
      <4> QED
        BY <2>4, <4>1, <4>2
    <3>2. ~WellFormed
      BY <1>1, <3>1, PendingIllFormed
    <3>3. Verdict'
      BY <1>1, <1>2, <3>2, InsideAClass
    <3>4. invalid' /\ chain' = chain
      <4>1. CASE IllTyped(VarDecl)
        BY <4>1 DEF SemDeclare
      <4>2. CASE ~IllTyped(VarDecl)
        <5>1. InsertFails(chain, VarDecl.name) /\ chain' = Insert(chain, VarDecl.name, VarDecl.kind)
          BY <2>4, <4>2 DEF SemDeclare
        <5>2. chain \in Seq(Scopes) /\ Len(chain) >= 1 /\ VarDecl.name \in Names /\ VarDecl.kind \in Kinds
          BY <1>1, <1>2, <1>6, DeclareNext, OneOrTwo
        <5>3. chain' = chain
          BY <5>1, <5>2, InsertShape
        <5> QED
          BY <4>2, <5>1, <5>3 DEF SemDeclare
      <4> QED
        BY <4>1, <4>2
    <3>5. ScopesFollow' /\ CheckedSoFar'
      BY <3>4 DEF ScopesFollow, CheckedSoFar
    <3> QED
      BY <1>1, <1>2, <1>3, <3>3, <3>4, <3>5, InsideAClass DEF AInv
  <2>5. CASE ~IllTyped(VarDecl) /\ ~InsertFails(chain, VarDecl.name)
    <3>1. ~invalid' /\ chain' = Insert(chain, VarDecl.name, VarDecl.kind)
      BY <1>6, <2>5 DEF SemDeclare
    <3>2. RootFollows' /\ (stage = "subVars" => SubFollows') /\ ThisUnknown'
      BY <1>1, <1>2, <1>6, <2>5, <3>1, InsertKeepsScopes, InsertKeepsThisUnknown
    <3>3. DistinctUpTo(Pending, decl) /\ TypedUpTo(Pending, decl)
      <4>1. TypedUpTo(Pending, decl - 1)
        BY <1>1, <1>6 DEF AInv, CheckedSoFar, VarsChecked, OwnChecked, OfClass, OfSub, Pending, Own
      <4>2. \A i \in 1..decl : i = decl \/ i \in 1..decl - 1
        BY <1>1
      <4> QED
        BY <2>1, <2>2, <2>5, <4>1, <4>2 DEF TypedUpTo, VarDecl
    <3>4. /\ stage = "classVars" => VarsChecked'
          /\ stage = "subVars" => OwnChecked'
      <4>1. Class' = Class /\ Own(Sub)' = Own(Sub) /\ decl' - 1 = decl
        BY <1>1 DEF Class, Sub, Own
      <4>2. ASSUME stage = "classVars" PROVE VarsChecked'
        <5>1. Pending = Class.vars /\ OfClass' = decl
          BY <1>1, <4>1, <4>2 DEF Pending, OfClass
        <5> QED
          BY <1>1, <3>3, <4>1, <5>1 DEF VarsChecked, TypedUpTo
      <4>3. ASSUME stage = "subVars" PROVE OwnChecked'
        <5>1. Pending = Own(Sub) /\ OfSub' = decl
          BY <1>1, <4>1, <4>3 DEF Pending, OfSub, Own
        <5> QED
          BY <1>1, <3>3, <4>1, <5>1 DEF OwnChecked, TypedUpTo
      <4> QED
        BY <4>2, <4>3
    <3>5. /\ stage = "subVars" => VarsChecked' /\ SubsChecked'
      <4>1. ASSUME stage = "subVars" PROVE VarsChecked /\ SubsChecked /\ OfClass' = OfClass
        BY <1>1, <1>6, <4>1 DEF AInv, CheckedSoFar, OfClass, Class
      <4> QED
        BY <1>1, <4>1 DEF VarsChecked, SubsChecked, TypedUpTo, WellFormedSub, WellTyped, Class
    <3>6. CheckedSoFar'
      BY <1>1, <1>2, <1>6, <3>4, <3>5, InsideAClass DEF AInv, CheckedSoFar
    <3>7. Verdict'
      BY <1>1, <1>2, <3>1, InsideAClass
    <3> QED
      BY <1>1, <1>2, <1>3, <3>2, <3>6, <3>7, InsideAClass DEF AInv, ScopesFollow
  <2> QED
    BY <2>4, <2>5
<1> QED
  BY <1>5, <1>6

LEMMA DeclarationsDoneKeeps == ASSUME IInv, AInv, DeclarationsDone PROVE AInv'
<1>1. /\ Visiting /\ Visiting' /\ stage \in {"classVars", "subVars"} /\ decl > Len(Pending) /\ decl' = 1
      /\ stage' = IF stage = "classVars" THEN "subs" ELSE "body"
      /\ sub' = IF stage = "classVars" THEN 1 ELSE sub
      /\ UNCHANGED <<program, registry, pass, file, chain, redeclared, invalid, genError, refs>>
      /\ Control /\ decl \in Nat /\ decl <= Len(Pending) + 1
  BY DEF DeclarationsDone, IInv, Control, Visiting, AInv, Places
<1>2. RegistryMatches' /\ Verdict' /\ ReferencesRight' /\ ThisUnknown' /\ (ClassesChecked => ClassesChecked')
  BY <1>1, InsideAClass DEF AInv, Verdict, AcceptedNeverFails
<1>3. Class' = Class
  BY <1>1 DEF Class
<1>4. CASE stage = "classVars"
  <2>1. /\ stage' = "subs" /\ sub' = 1 /\ Pending = Class.vars
        /\ Len(Class.vars) \in Nat /\ Len(Class.subs) \in Nat
    BY <1>1, <1>4, ClassParts DEF Pending
  <2>2. decl - 1 = Len(Class.vars)
    BY <1>1, <2>1
  <2>3. OfClass' = OfClass
    BY <1>3, <1>4, <2>1, <2>2 DEF OfClass
  <2>4. RootBase' = RootBase
    BY <1>1, StaticBaseKept DEF RootBase
  <2>5. Places'
    BY <1>1, <1>3, <2>1 DEF Places
  <2>6. ScopesFollow'
    <3>1. ~invalid => RootFollows
      BY <1>1, <1>4 DEF AInv, ScopesFollow
    <3> QED
      BY <1>1, <1>3, <2>1, <2>3, <2>4, <3>1 DEF ScopesFollow, RootFollows
  <2>7. CheckedSoFar'
    <3>1. pass = "semantic" /\ ~invalid => ClassesChecked /\ VarsChecked
      BY <1>4 DEF AInv, CheckedSoFar
    <3>2. VarsChecked => VarsChecked'
      BY <1>1, <1>3, <2>3 DEF VarsChecked, TypedUpTo
    <3>3. SubsChecked'
      BY <2>1 DEF SubsChecked
    <3> QED
      BY <1>1, <1>2, <2>1, <3>1, <3>2, <3>3 DEF CheckedSoFar
  <2> QED
    BY <1>2, <2>5, <2>6, <2>7 DEF AInv
<1>5. CASE stage = "subVars"
  <2>1. /\ stage' = "body" /\ sub' = sub /\ Pending = Own(Sub) /\ Len(Own(Sub)) \in Nat
        /\ Sub' = Sub /\ Own(Sub)' = Own(Sub)
    BY <1>1, <1>3, <1>5, SubParts DEF Pending, Own, Sub, Control
  <2>2. decl - 1 = Len(Own(Sub))
    BY <1>1, <2>1
  <2>3. OfClass' = OfClass /\ OfSub' = OfSub
    BY <1>3, <1>5, <2>1, <2>2 DEF OfClass, OfSub
  <2>4. RootBase' = RootBase /\ SubBase' = SubBase
    BY <1>1, <2>1, BasesKept
  <2>5. Places'
    BY <1>1, <2>1 DEF Places
  <2>6. ScopesFollow'
    <3>1. ~invalid => RootFollows /\ SubFollows
      BY <1>1, <1>5 DEF AInv, ScopesFollow
    <3> QED
      BY <1>1, <1>3, <2>1, <2>3, <2>4, <3>1 DEF ScopesFollow, RootFollows, SubFollows
  <2>7. CheckedSoFar'
    <3>1. pass = "semantic" /\ ~invalid => ClassesChecked /\ VarsChecked /\ SubsChecked /\ OwnChecked
      BY <1>5 DEF AInv, CheckedSoFar
    <3>2. (VarsChecked => VarsChecked') /\ (OwnChecked => OwnChecked')
      BY <1>1, <1>3, <2>1, <2>3 DEF VarsChecked, OwnChecked, TypedUpTo
    <3>3. SubsChecked => SubsChecked'
      BY <1>1, <1>3, <2>1 DEF SubsChecked, WellFormedSub, WellTyped
    <3> QED
      BY <1>1, <1>2, <2>1, <3>1, <3>2, <3>3 DEF CheckedSoFar
  <2> QED
    BY <1>2, <2>5, <2>6, <2>7 DEF AInv
<1> QED
  BY <1>1, <1>4, <1>5

LEMMA SemEnterSubKeeps == ASSUME IInv, AInv, SemEnterSub PROVE AInv'
<1>1. /\ pass = "semantic" /\ Visiting /\ Visiting' /\ stage = "subs" /\ stage' = "subVars"
      /\ sub <= Len(Class.subs) /\ chain' = PushScope(chain) /\ decl = 1
      /\ UNCHANGED <<program, registry, pass, file, sub, decl, redeclared, invalid, genError, refs>>
      /\ Control
  BY DEF SemEnterSub, IInv, Visiting, AInv, Places
<1>2. RegistryMatches' /\ Verdict' /\ ReferencesRight' /\ (ClassesChecked => ClassesChecked')
  BY <1>1, InsideAClass DEF AInv, Verdict, AcceptedNeverFails
<1>3. chain \in Seq(Scopes) /\ Len(chain) = 1
  BY <1>1 DEF IInv, ChainShape, Depth, Ended
<1>4. /\ chain' \in Seq(Scopes) /\ Len(chain') = 2 /\ chain'[1] = chain[1] /\ chain'[2] = NewScope
      /\ DOMAIN chain' = {1, 2} /\ DOMAIN chain = {1}
  <2>1. /\ chain' \in Seq(Scopes) /\ Len(chain') = Len(chain) + 1 /\ chain'[Len(chain) + 1] = NewScope
        /\ \A i \in 1..Len(chain) : chain'[i] = chain[i]
    BY <1>1, <1>3, PushShape
  <2>2. chain' \in Seq(Scopes) /\ Len(chain') = 2 /\ chain'[1] = chain[1] /\ chain'[2] = NewScope
    BY <1>3, <2>1
  <2> QED
    BY <1>3, <2>2, LenProperties
<1>5. Class' = Class /\ Sub' = Sub /\ Own(Sub)' = Own(Sub) /\ sub \in 1..Len(Class.subs)
  <2>1. Len(Class.subs) \in Nat
    BY <1>1, ClassParts
  <2> QED
    BY <1>1, <2>1 DEF Class, Sub, Own, Control
<1>6. OfClass' = OfClass /\ OfSub' = 0
  BY <1>1, <1>5 DEF OfClass, OfSub
<1>7. RootBase' = RootBase /\ SubBase' = [k \in Kinds |-> 0]
  BY <1>1, BasesKept DEF SubBase
<1>8. Places'
  <2>1. Pending' = Own(Sub) /\ Len(Own(Sub)) \in Nat
    BY <1>1, <1>5, SubParts DEF Pending, Own
  <2> QED
    BY <1>1, <2>1 DEF Places
<1>9. ScopesFollow'
  <2>1. SubFollows'
    BY <1>4, <1>6, <1>7, FollowsNothing DEF SubFollows
  <2>2. ~invalid => RootFollows
    BY <1>1 DEF AInv, ScopesFollow
  <2> QED
    BY <1>1, <1>4, <1>5, <1>6, <1>7, <2>1, <2>2 DEF ScopesFollow, RootFollows
<1>10. ThisUnknown'
  <2>1. NewScope.tokens[This] = Absent
    BY ProgramsAssumption DEF NewScope, NoTokens
  <2>2. chain[1].tokens[This] = Absent
    BY <1>1, <1>4 DEF AInv, ThisUnknown
  <2> QED
    BY <1>4, <2>1, <2>2 DEF ThisUnknown
<1>11. CheckedSoFar'
  <2>1. ~invalid => ClassesChecked /\ VarsChecked /\ SubsChecked
    BY <1>1 DEF AInv, CheckedSoFar
  <2>2. VarsChecked => VarsChecked'
    BY <1>1, <1>5, <1>6 DEF VarsChecked, TypedUpTo
  <2>3. SubsChecked => SubsChecked'
    BY <1>1, <1>5 DEF SubsChecked, WellFormedSub, WellTyped
  <2>4. OwnChecked'
    BY <1>6 DEF OwnChecked, DistinctUpTo, TypedUpTo
  <2> QED
    BY <1>1, <1>2, <2>1, <2>2, <2>3, <2>4 DEF CheckedSoFar
<1> QED
  BY <1>2, <1>8, <1>9, <1>10, <1>11 DEF AInv

(* A name is known to a scope that follows a whole list exactly if it is in  *)
(* the list.                                                               *)
LEMMA KnownNames ==
  ASSUME NEW K \in SUBSET Kinds, NEW list \in Seq(VarDecls(K)), NEW scope, NEW base,
         Follows(scope, list, Len(list), base), NEW x \in Names \ {This}
  PROVE  ExistsLocal(scope, x) <=> x \in NamesOf(list)
<1>1. Len(list) \in Nat /\ DOMAIN list = 1..Len(list)
  BY LenProperties
<1>2. ASSUME x \in NamesOf(list) PROVE ExistsLocal(scope, x)
  <2>1. PICK i \in 1..Len(list) : list[i].name = x
    BY <1>1, <1>2 DEF NamesOf
  <2>2. list[i].kind \in Kinds
    <3>1. list[i] \in VarDecls(K)
      BY <2>1, ElementType
    <3> QED
      BY <3>1 DEF VarDecls
  <2>3. scope.tokens[x] = [kind |-> list[i].kind, idx |-> base[list[i].kind] + Count(list, list[i].kind, i - 1)]
    BY <2>1 DEF Follows
  <2>4. scope.tokens[x].kind \in Kinds
    BY <2>2, <2>3
  <2> QED
    BY <2>4 DEF ExistsLocal, Absent, Kinds
<1>3. ASSUME x \notin NamesOf(list) PROVE ~ExistsLocal(scope, x)
  BY <1>1, <1>3 DEF NamesOf, Follows, ExistsLocal
<1> QED
  BY <1>2, <1>3

(* At a body both scopes hold all that is declared. *)
LEMMA AtBody ==
  ASSUME IInv, AInv, Visiting, ~invalid, stage = "body"
  PROVE  /\ chain \in Seq(Scopes) /\ Len(chain) = 2 /\ sub \in 1..Len(Class.subs)
         /\ Follows(chain[1], Class.vars, Len(Class.vars), RootBase)
         /\ Follows(chain[2], Own(Sub), Len(Own(Sub)), SubBase)
         /\ \A n \in Names \ {This} :
              /\ ExistsLocal(chain[1], n) <=> n \in NamesOf(Class.vars)
              /\ ExistsLocal(chain[2], n) <=> n \in NamesOf(Own(Sub))
              /\ Find(chain, n) # Absent <=> n \in NamesOf(Class.vars) \cup NamesOf(Own(Sub))
<1>1. chain \in Seq(Scopes) /\ Len(chain) = 2 /\ Control /\ sub \in 1..Len(Class.subs)
  BY DEF IInv, ChainShape, Depth, Ended, Visiting, Control
<1>2. /\ Follows(chain[1], Class.vars, Len(Class.vars), RootBase)
      /\ Follows(chain[2], Own(Sub), Len(Own(Sub)), SubBase)
  BY DEF AInv, ScopesFollow, RootFollows, SubFollows, OfClass, OfSub
<1>3. ASSUME NEW n \in Names \ {This}
      PROVE  /\ ExistsLocal(chain[1], n) <=> n \in NamesOf(Class.vars)
             /\ ExistsLocal(chain[2], n) <=> n \in NamesOf(Own(Sub))
  <2>1. Class.vars \in Seq(VarDecls({"static", "field"})) /\ {"static", "field"} \in SUBSET Kinds
    BY <1>1, ClassParts DEF Kinds
  <2>2. Own(Sub) \in Seq(VarDecls({"arg", "local"})) /\ {"arg", "local"} \in SUBSET Kinds
    BY <1>1, SubParts DEF Kinds
  <2> QED
    BY <1>2, <2>1, <2>2, KnownNames
<1>4. ASSUME NEW n \in Names \ {This}
      PROVE  Find(chain, n) # Absent <=> n \in NamesOf(Class.vars) \cup NamesOf(Own(Sub))
  BY <1>1, <1>3, FindInnermost DEF ExistsLocal
<1> QED
  BY <1>1, <1>2, <1>3, <1>4

(* The registry knows the subroutines of the class. *)
LEMMA OwnMethods ==
  ASSUME IInv, AInv, Visiting
  PROVE  registry[Class.name] = MethodsOf(Class) /\ DOMAIN registry[Class.name] = NamesOf(Class.subs)
<1>1. registry[Class.name] = MethodsOf(Class)
  BY ClassParts DEF AInv, RegistryMatches, Visiting, IInv
<1> QED
  BY <1>1 DEF MethodsOf, NamesOf

(* `this' is nowhere declared. *)
LEMMA ThisUndeclared ==
  ASSUME Control
  PROVE  /\ This \notin NamesOf(Class.vars)
         /\ sub \in 1..Len(Class.subs) => This \notin NamesOf(Own(Sub))
<1>1. This \notin NamesOf(Class.vars)
  <2>1. ASSUME NEW i \in DOMAIN Class.vars PROVE Class.vars[i].name # This
    <3>1. Class.vars[i] \in VarDecls({"static", "field"})
      BY ClassParts, ElementType
    <3> QED
      BY <3>1 DEF VarDecls
  <2> QED
    BY <2>1 DEF NamesOf
<1>2. ASSUME sub \in 1..Len(Class.subs) PROVE This \notin NamesOf(Own(Sub))
  <2>1. ASSUME NEW i \in DOMAIN Own(Sub) PROVE Own(Sub)[i].name # This
    <3>1. Own(Sub)[i] \in VarDecls({"arg", "local"})
      BY <1>2, SubParts, ElementType
    <3> QED
      BY <3>1 DEF VarDecls
  <2> QED
    BY <2>1 DEF NamesOf
<1> QED
  BY <1>1, <1>2

(* The verdict on a body is the verdict on the text of its subroutine. *)
LEMMA BodyVerdict ==
  ASSUME IInv, AInv, pass = "semantic", ~invalid, stage = "body"
  PROVE  (\A n \in Sub.uses : IsValidVar(n)) <=> WellFormedSub(Class, Sub)
<1>1. /\ Control /\ Visiting /\ sub \in 1..Len(Class.subs)
      /\ Sub.uses \subseteq Names /\ Own(Sub) \in Seq(VarDecls({"arg", "local"}))
  BY SubParts DEF IInv, Control, Visiting
<1>2. OwnChecked
  BY DEF AInv, CheckedSoFar
<1>3. DistinctNames(Own(Sub)) /\ WellTyped(Own(Sub))
  BY <1>1, <1>2, DistinctWhole DEF OwnChecked, OfSub
<1>4. WellFormedSub(Class, Sub) <=>
        \A n \in Sub.uses : n \in NamesOf(Class.vars) \cup NamesOf(Own(Sub)) /\ n \notin NamesOf(Class.subs)
  BY <1>3 DEF WellFormedSub, Own
<1>5. ASSUME NEW n \in Sub.uses
      PROVE  IsValidVar(n) <=> n \in NamesOf(Class.vars) \cup NamesOf(Own(Sub)) /\ n \notin NamesOf(Class.subs)
  <2>1. DOMAIN registry[Class.name] = NamesOf(Class.subs)
    BY <1>1, OwnMethods
  <2>2. CASE n # This
    <3>1. Find(chain, n) # Absent <=> n \in NamesOf(Class.vars) \cup NamesOf(Own(Sub))
      BY <1>1, <2>2, AtBody
    <3> QED
      BY <2>1, <3>1 DEF IsValidVar
  <2>3. CASE n = This
    <3>1. n \notin NamesOf(Class.vars) \cup NamesOf(Own(Sub))
      BY <1>1, <2>3, ThisUndeclared
    <3>2. Find(chain, n) = Absent
      <4>1. Knowing(chain, n) = {}
        BY <2>3 DEF AInv, ThisUnknown, Knowing, ExistsLocal
      <4> QED
        BY <4>1 DEF Find
    <3> QED
      BY <3>1, <3>2 DEF IsValidVar
  <2> QED
    BY <2>2, <2>3
<1> QED
  BY <1>4, <1>5

LEMMA SemBodyKeeps == ASSUME IInv, AInv, SemBody PROVE AInv'
<1>1. /\ pass = "semantic" /\ Visiting /\ Visiting' /\ stage = "body" /\ stage' = "subs" /\ decl = 1
      /\ invalid' = (invalid \/ \E n \in Sub.uses : ~IsValidVar(n))
      /\ chain' = PopScope(chain) /\ sub' = sub + 1
      /\ UNCHANGED <<program, registry, pass, file, decl, redeclared, genError, refs>>
      /\ Control /\ sub \in 1..Len(Class.subs)
  BY DEF SemBody, IInv, Control, Visiting, AInv, Places
<1>2. /\ RegistryMatches' /\ ReferencesRight' /\ (ClassesChecked => ClassesChecked')
      /\ (invalid' => ~WellFormed) => Verdict'
  BY <1>1, InsideAClass
<1>3. /\ chain \in Seq(Scopes) /\ chain' \in Seq(Scopes) /\ Len(chain') = 1 /\ chain'[1] = chain[1]
      /\ DOMAIN chain' = {1} /\ DOMAIN chain = {1, 2}
  <2>1. chain \in Seq(Scopes) /\ Len(chain) = 2
    BY <1>1 DEF IInv, ChainShape, Depth, Ended
  <2>2. chain' \in Seq(Scopes) /\ Len(chain') = 1 /\ chain'[1] = chain[1]
    BY <1>1, <2>1, PopToRoot
  <2> QED
    BY <2>1, <2>2, LenProperties
<1>4. Class' = Class /\ OfClass' = OfClass
  BY <1>1 DEF Class, OfClass
<1>5. RootBase' = RootBase
  BY <1>1, StaticBaseKept DEF RootBase
<1>6. Places'
  <2>1. Len(Class.subs) \in Nat
    BY <1>1, ClassParts
  <2> QED
    BY <1>1, <1>4, <2>1 DEF Places
<1>7. ScopesFollow'
  <2>1. ~invalid => RootFollows
    BY <1>1 DEF AInv, ScopesFollow
  <2> QED
    BY <1>1, <1>3, <1>4, <1>5, <2>1 DEF ScopesFollow, RootFollows
<1>8. ThisUnknown'
  BY <1>1, <1>3 DEF AInv, ThisUnknown
<1>9. invalid' => ~WellFormed
  <2>1. CASE invalid
    BY <2>1 DEF AInv, Verdict
  <2>2. CASE ~invalid
    BY <1>1, <2>2, BodyVerdict, IllFormedSub
  <2> QED
    BY <2>1, <2>2
<1>10. CheckedSoFar'
  <2>1. ~invalid' => WellFormedSub(Class, Sub) /\ ClassesChecked /\ VarsChecked /\ SubsChecked
    BY <1>1, BodyVerdict DEF AInv, CheckedSoFar
  <2>2. VarsChecked => VarsChecked'
    BY <1>1, <1>4 DEF VarsChecked, TypedUpTo
  <2>3. WellFormedSub(Class, Sub) /\ SubsChecked => SubsChecked'
    <3>1. \A k \in 1..sub' - 1 : k = sub \/ k \in 1..sub - 1
      BY <1>1
    <3>2. ASSUME NEW k PROVE WellFormedSub(Class, Class.subs[k])' <=> WellFormedSub(Class, Class.subs[k])
      BY <1>1, <1>4 DEF WellFormedSub, WellTyped
    <3> QED
      BY <3>1, <3>2 DEF SubsChecked, Sub
  <2> QED
    BY <1>1, <1>2, <2>1, <2>2, <2>3 DEF CheckedSoFar
<1> QED
  BY <1>2, <1>6, <1>7, <1>8, <1>9, <1>10 DEF AInv

(* The verdict on a class is the verdict on its text. *)
LEMMA ClassVerdict ==
  ASSUME IInv, AInv, pass = "semantic", ~invalid, stage = "subs", sub > Len(Class.subs)
  PROVE  WellFormedClass(Class) <=> ~WrongFilename
<1>1. /\ Control /\ sub \in Nat
      /\ Class.vars \in Seq(VarDecls({"static", "field"}))
      /\ DOMAIN Class.subs = 1..Len(Class.subs) /\ Len(Class.subs) \in Nat
  BY ClassParts DEF IInv, Control
<1>2. VarsChecked /\ SubsChecked
  BY DEF AInv, CheckedSoFar
<1>3. DistinctNames(Class.vars) /\ WellTyped(Class.vars)
  BY <1>1, <1>2, DistinctWhole DEF VarsChecked, OfClass
<1>4. \A k \in DOMAIN Class.subs : k \in 1..sub - 1
  BY <1>1
<1> QED
  BY <1>2, <1>3, <1>4 DEF WellFormedClass, WrongFilename, SubsChecked

LEMMA EntryVerdict ==
  ASSUME IInv, AInv, Visiting
  PROVE  NoEntryPoint <=> ~ \E f \in DOMAIN program :
           program[f].name = EntryClass /\ EntrySub \in NamesOf(program[f].subs)
<1>1. /\ DOMAIN registry = NamesOf(program)
      /\ \A f \in DOMAIN program : registry[program[f].name] = MethodsOf(program[f])
  BY DEF AInv, RegistryMatches, Visiting
<1>2. \A cls : DOMAIN MethodsOf(cls) = NamesOf(cls.subs)
  BY DEF MethodsOf, NamesOf
<1>3. EntryClass \in DOMAIN registry <=> \E f \in DOMAIN program : program[f].name = EntryClass
  BY <1>1 DEF NamesOf
<1>4. ASSUME NEW f \in DOMAIN program, program[f].name = EntryClass
      PROVE  DOMAIN registry[EntryClass] = NamesOf(program[f].subs)
  BY <1>1, <1>2, <1>4
<1> QED
  BY <1>3, <1>4 DEF NoEntryPoint

LEMMA SemLeaveClassKeeps == ASSUME IInv, AInv, SemLeaveClass PROVE AInv'
<1>1. /\ pass = "semantic" /\ Visiting /\ stage = "subs" /\ sub > Len(Class.subs) /\ sub' = 1 /\ decl = 1
      /\ refs = {} /\ ~genError
      /\ UNCHANGED <<program, registry, decl, redeclared, genError, refs>>
      /\ Control
  BY DEF SemLeaveClass, IInv, Visiting, AInv, Places, NothingEmittedYet, Verdict, AcceptedNeverFails
<1>2. /\ program \in Seq(Classes) /\ Len(program) \in Nat /\ DOMAIN program = 1..Len(program)
      /\ file \in 1..Len(program) /\ Class = program[file]
  BY <1>1, ClassParts
<1>3. pass' # "registry" /\ pass' # "redeclaration"
  BY <1>1 DEF SemLeaveClass
<1>4. RegistryMatches'
  BY <1>1, <1>3 DEF AInv, RegistryMatches
<1>5. WrongFilename => ~WellFormed
  <2>1. WrongFilename => ~WellFormedClass(Class)
    BY DEF WrongFilename, WellFormedClass
  <2> QED
    BY <1>1, <2>1, IllFormed
<1>6. NoEntryPoint => ~WellFormed
  BY <1>1, EntryVerdict DEF WellFormed
<1>7. invalid => ~WellFormed
  BY DEF AInv, Verdict
<1>8. ResolvesToDeclaration' /\ SlotInsideFrame'
  BY <1>1 DEF ResolvesToDeclaration, SlotInsideFrame
<1>9. WellFormed' <=> WellFormed
  BY <1>1, SameVerdict
<1>10. \A c : WellFormedClass(c)' <=> WellFormedClass(c)
  BY <1>1 DEF WellFormedClass, WellFormedSub, WellTyped
<1>11. chain \in Seq(Scopes) /\ Len(chain) = 1
  BY <1>1 DEF IInv, ChainShape, Depth, Ended
<1>12. PopScope(chain) \in Seq(Scopes) /\ Len(PopScope(chain)) = 0
  <2>1. Len(chain) >= 1 /\ Len(chain) - 1 = 0
    BY <1>11
  <2> QED
    BY <1>11, <2>1, PopShape
<1>13. CASE file < Len(program)
  <2>1. /\ invalid' = (invalid \/ WrongFilename) /\ chain' = PopScope(chain) /\ file' = file + 1
        /\ stage' = "class" /\ pass' = pass
    BY <1>13 DEF SemLeaveClass
  <2>2. Verdict'
    BY <1>1, <1>5, <1>7, <1>9, <2>1 DEF Verdict, AcceptedNeverFails
  <2>3. Places' /\ ScopesFollow' /\ ReferencesRight'
    BY <1>1, <1>8, <2>1 DEF Places, ScopesFollow, ReferencesRight
  <2>4. ThisUnknown'
    <3>1. DOMAIN chain' = {}
      BY <1>12, <2>1
    <3> QED
      BY <3>1 DEF ThisUnknown
  <2>5. CheckedSoFar'
    <3>1. ~invalid' => ClassesChecked /\ WellFormedClass(program[file])
      BY <1>1, <1>2, <2>1, ClassVerdict DEF AInv, CheckedSoFar
    <3>2. \A f \in 1..file' - 1 : f = file \/ f \in 1..file - 1
      BY <1>2, <2>1
    <3>3. ~invalid' => ClassesChecked'
      BY <1>1, <1>10, <3>1, <3>2 DEF ClassesChecked
    <3> QED
      BY <2>1, <3>3 DEF CheckedSoFar
  <2> QED
    BY <1>4, <2>2, <2>3, <2>4, <2>5 DEF AInv
<1>14. CASE ~(file < Len(program))
  <2>1. /\ invalid' = (invalid \/ WrongFilename \/ NoEntryPoint) /\ file' = 1 /\ stage' = "classVars"
        /\ chain' = IF invalid' THEN PopScope(chain) ELSE PushScope(PopScope(chain))
        /\ pass' = IF invalid' THEN "invalid" ELSE "codegen"
    BY <1>14 DEF SemLeaveClass
  <2>2. ~invalid' => WellFormed
    <3>1. ~invalid' => /\ ClassesChecked /\ WellFormedClass(program[file])
                       /\ \E f \in DOMAIN program :
                            program[f].name = EntryClass /\ EntrySub \in NamesOf(program[f].subs)
      BY <1>1, <1>2, <2>1, ClassVerdict, EntryVerdict DEF AInv, CheckedSoFar
    <3>2. \A f \in DOMAIN program : f = file \/ f \in 1..file - 1
      BY <1>2, <1>14
    <3>3. DistinctNames(program)
      BY <1>1 DEF AInv, RegistryMatches
    <3> QED
      BY <3>1, <3>2, <3>3 DEF ClassesChecked, WellFormed
  <2>3. invalid' \in BOOLEAN
    BY <2>1
  <2>4. Verdict'
    BY <1>1, <1>5, <1>6, <1>7, <1>9, <2>1, <2>2 DEF Verdict, AcceptedNeverFails
  <2>5. ThisUnknown' /\ CheckedSoFar'
    BY <2>1 DEF ThisUnknown, CheckedSoFar
  <2>6. Places'
    <3>1. Pending' = program[1].vars /\ Len(program[1].vars) \in Nat
      <4>1. program[1] \in Classes
        BY <1>2, ElementType
      <4> QED
        BY <1>1, <2>1, <4>1 DEF Pending, Class, Classes, Lists
    <3> QED
      BY <1>1, <2>1, <3>1 DEF Places
  <2>7. (UNION {StaticsOf(g) : g \in 1..file - 1})' = {}
    BY <2>1
  <2>8. ReferencesRight'
    BY <1>8, <2>7, FS_EmptySet DEF ReferencesRight
  <2>9. ScopesFollow'
    <3> SUFFICES ASSUME Visiting', ~invalid' PROVE RootFollows'
      BY <2>1 DEF ScopesFollow
    <3>1. chain'[1] = NewScope
      <4> DEFINE c == PopScope(chain)
      <4>1. c \in Seq(Scopes) /\ Len(c) = 0
        BY <1>12
      <4> HIDE DEF c
      <4>2. PushScope(c)[Len(c) + 1] = NewScope
        BY <4>1, PushShape
      <4> QED
        BY <2>1, <4>1, <4>2 DEF c
    <3>2. OfClass' = 0
      BY <1>1, <2>1 DEF OfClass
    <3>3. RootBase' = [k \in Kinds |-> 0]
      <4>1. StaticBase' = 0
        BY <2>7, FS_EmptySet DEF StaticBase, StaticsBefore
      <4> QED
        BY <4>1 DEF RootBase
    <3> QED
      BY <3>1, <3>2, <3>3, FollowsNothing DEF RootFollows
  <2> QED
    BY <1>4, <2>4, <2>5, <2>6, <2>8, <2>9 DEF AInv
<1> QED
  BY <1>13, <1>14

-----------------------------------------------------------------------------
(* The code generator on an accepted program *)

(* The scope of a subroutine, with `this' for a method. *)
LEMMA SubScope ==
  ASSUME NEW c0 \in Seq(Scopes), Len(c0) = 1
  PROVE  LET c == PushScope(c0)
         IN  /\ c[1] = c0[1] /\ c[2] = NewScope
             /\ Insert(c, This, "arg")[1] = c0[1]
             /\ Insert(c, This, "arg")[2] = AddToken(NewScope, This, "arg")
<1> DEFINE c == PushScope(c0)
<1>1. c \in Seq(Scopes) /\ Len(c) = 2 /\ c[1] = c0[1] /\ c[2] = NewScope
  <2>1. /\ c \in Seq(Scopes) /\ Len(c) = Len(c0) + 1
        /\ \A i \in 1..Len(c0) : c[i] = c0[i]
        /\ c[Len(c0) + 1] = NewScope
    BY PushShape
  <2> HIDE DEF c
  <2>2. Len(c0) + 1 = 2 /\ 1 \in 1..Len(c0)
    OBVIOUS
  <2> QED
    BY <2>1, <2>2
<1> HIDE DEF c
<1>2. ~InsertFails(c, This) /\ This \in Names /\ "arg" \in Kinds
  BY <1>1, ProgramsAssumption DEF InsertFails, ExistsLocal, NewScope, NoTokens, Kinds
<1>3. Insert(c, This, "arg")[1] = c[1] /\ Insert(c, This, "arg")[2] = AddToken(c[2], This, "arg")
  <2>1. Len(c) >= 1 /\ 1 \in 1..(Len(c) - 1)
    BY <1>1
  <2>2. /\ \A i \in 1..(Len(c) - 1) : Insert(c, This, "arg")[i] = c[i]
        /\ Insert(c, This, "arg")[Len(c)] = AddToken(c[Len(c)], This, "arg")
    BY <1>1, <1>2, <2>1, InsertShape
  <2> QED
    BY <1>1, <2>1, <2>2
<1> QED
  BY <1>1, <1>3 DEF c

LEMMA GenEnterSubKeeps == ASSUME IInv, AInv, GenEnterSub PROVE AInv'
<1>1. /\ pass = "codegen" /\ Visiting /\ Visiting' /\ stage = "subs" /\ sub <= Len(Class.subs) /\ decl = 1
      /\ ~invalid /\ ~genError
      /\ UNCHANGED <<program, registry, pass, file, decl, redeclared, invalid, genError, refs>>
      /\ Control /\ sub \in Nat \ {0}
  BY DEF GenEnterSub, IInv, Control, Visiting, AInv, Places, Verdict, AcceptedNeverFails
<1>2. /\ RegistryMatches' /\ ReferencesRight' /\ Verdict'
  BY <1>1, InsideAClass
<1>3. ThisUnknown' /\ CheckedSoFar'
  BY <1>1 DEF ThisUnknown, CheckedSoFar
<1>4. Len(Class.subs) \in Nat /\ Class' = Class /\ sub \in 1..Len(Class.subs)
  BY <1>1, ClassParts DEF Class
<1>5. RootFollows
  BY <1>1 DEF AInv, ScopesFollow
<1>6. CASE Sub.native
  <2>1. sub' = sub + 1 /\ stage' = stage /\ chain' = chain
    BY <1>6 DEF GenEnterSub
  <2>2. RootBase' = RootBase /\ OfClass' = OfClass
    BY <1>1, <1>4, <2>1, StaticBaseKept DEF RootBase, OfClass
  <2>3. ScopesFollow'
    BY <1>1, <1>4, <1>5, <2>1, <2>2 DEF ScopesFollow, RootFollows
  <2>4. Places'
    BY <1>1, <1>4, <2>1 DEF Places
  <2> QED
    BY <1>2, <1>3, <2>3, <2>4 DEF AInv
<1>7. CASE ~Sub.native
  <2>1. /\ sub' = sub /\ stage' = "subVars"
        /\ chain' = IF Signature.kind = "method" THEN Insert(PushScope(chain), This, "arg")
                    ELSE PushScope(chain)
    BY <1>7 DEF GenEnterSub
  <2>2. chain \in Seq(Scopes) /\ Len(chain) = 1
    BY <1>1 DEF IInv, ChainShape, Depth, Ended
  <2>3. /\ chain'[1] = chain[1]
        /\ chain'[2] = IF Signature.kind = "method" THEN AddToken(NewScope, This, "arg") ELSE NewScope
    BY <2>1, <2>2, SubScope
  <2>4. RootBase' = RootBase /\ SubBase' = SubBase /\ Own(Sub)' = Own(Sub) /\ OfClass' = OfClass /\ OfSub' = 0
    BY <1>1, <1>4, <2>1, BasesKept DEF OfClass, OfSub, Own, Sub
  <2>5. Follows(chain'[2], Own(Sub), 0, SubBase)
    <3>1. CASE Signature.kind = "method"
      <4>1. SubBase = [k \in Kinds |-> IF k = "arg" THEN 1 ELSE 0]
        BY <1>1, <3>1 DEF SubBase
      <4> QED
        BY <2>3, <3>1, <4>1, FollowsThis, ProgramsAssumption
    <3>2. CASE Signature.kind # "method"
      <4>1. SubBase = [k \in Kinds |-> 0]
        BY <3>2 DEF SubBase
      <4> QED
        BY <2>3, <3>2, <4>1, FollowsNothing
    <3> QED
      BY <3>1, <3>2
  <2>6. ScopesFollow'
    BY <1>4, <1>5, <2>3, <2>4, <2>5 DEF ScopesFollow, RootFollows, SubFollows
  <2>7. Places'
    <3>1. Pending' = Own(Sub) /\ Len(Own(Sub)) \in Nat
      BY <1>1, <1>4, <2>1, SubParts DEF Pending, Own, Sub
    <3> QED
      BY <1>1, <2>1, <3>1 DEF Places
  <2> QED
    BY <1>2, <1>3, <2>6, <2>7 DEF AInv
<1> QED
  BY <1>6, <1>7

(* What an accepted program declares is distinct and typed. *)
LEMMA PendingWellFormed ==
  ASSUME Control, WellFormed, stage \in {"classVars", "subVars"}
  PROVE  DistinctNames(Pending) /\ WellTyped(Pending)
<1>1. WellFormedClass(Class)
  BY ClassParts DEF WellFormed
<1>2. CASE stage = "classVars"
  BY <1>1, <1>2 DEF WellFormedClass, Pending
<1>3. CASE stage = "subVars"
  BY <1>1, <1>3, ClassParts DEF WellFormedClass, WellFormedSub, Pending, Sub, Control
<1> QED
  BY <1>2, <1>3

(* No class is called "void". *)
LEMMA VoidIsNoClass == ASSUME Control PROVE "void" \notin BasicTypes \cup NamesOf(program)
<1>1. program \in Seq(Classes)
  BY ClassParts
<1>2. ASSUME NEW f \in DOMAIN program PROVE program[f].name # "void"
  <2>1. program[f] \in Classes
    BY <1>1, ElementType
  <2> QED
    BY <2>1 DEF Classes
<1> QED
  BY <1>2 DEF NamesOf, BasicTypes

LEMMA GenDeclareKeeps == ASSUME IInv, AInv, GenDeclare PROVE AInv'
<1>1. /\ pass = "codegen" /\ Visiting /\ stage \in {"classVars", "subVars"} /\ decl <= Len(Pending)
      /\ decl' = decl + 1 /\ ~invalid /\ ~genError /\ WellFormed
      /\ UNCHANGED <<program, registry, file, stage, sub, redeclared, invalid, genError, refs>>
      /\ Control
  BY DEF GenDeclare, IInv, Visiting, AInv, Verdict, AcceptedNeverFails
<1>2. decl \in 1..Len(Pending) /\ (InsertFails(chain, VarDecl.name) <=> ~DistinctUpTo(Pending, decl))
  BY <1>1, DeclareNext
<1>3. \E S : Pending \in Seq(S)
  <2>1. CASE stage = "classVars"
    BY <1>1, <2>1, ClassParts DEF Pending
  <2>2. CASE stage = "subVars"
    BY <1>1, <2>2, SubParts DEF Pending, Own, Control
  <2> QED
    BY <1>1, <2>1, <2>2
<1>4. DistinctUpTo(Pending, decl) /\ TypedUpTo(Pending, Len(Pending))
  <2>1. DistinctNames(Pending) /\ WellTyped(Pending)
    BY <1>1, PendingWellFormed
  <2>2. decl \in 0..Len(Pending)
    BY <1>2
  <2> QED
    BY <1>3, <2>1, <2>2, DistinctWhole
<1>5. VarDecl.type # "void"
  BY <1>1, <1>2, <1>4, VoidIsNoClass DEF TypedUpTo, VarDecl
<1>6. ~InsertFails(chain, VarDecl.name)
  BY <1>2, <1>4
<1>7. chain' = Insert(chain, VarDecl.name, VarDecl.kind) /\ pass' = pass
  BY <1>5, <1>6 DEF GenDeclare
<1>8. RootFollows' /\ (stage = "subVars" => SubFollows')
  BY <1>1, <1>6, <1>7, InsertKeepsScopes
<1>9. Places'
  BY <1>1, PlacesAfter
<1>10. ThisUnknown' /\ CheckedSoFar'
  BY <1>1, <1>7 DEF ThisUnknown, CheckedSoFar
<1>11. RegistryMatches' /\ ReferencesRight' /\ Verdict'
  BY <1>1, <1>7, InsideAClass
<1> QED
  BY <1>1, <1>8, <1>9, <1>10, <1>11 DEF AInv, ScopesFollow

(* The body's own signature, where no later subroutine has its name. *)
LEMMA OwnSignature ==
  ASSUME IInv, AInv, Visiting, sub \in 1..Len(Class.subs), LastNamed(Class, Sub.name) = sub
  PROVE  /\ Signature.kind = Sub.kind
         /\ Signature.nArgs = Len(Sub.params) /\ Signature.nLocals = Len(Sub.locals)
<1>1. DOMAIN Class.subs = 1..Len(Class.subs)
  BY ClassParts DEF IInv
<1>2. Sub.name \in {Class.subs[k].name : k \in DOMAIN Class.subs}
  BY <1>1 DEF Sub
<1>3. registry[Class.name] = MethodsOf(Class)
  BY OwnMethods
<1>4. Signature = SignatureOf(Sub)
  BY <1>2, <1>3 DEF Signature, MethodsOf, Sub
<1> QED
  BY <1>4 DEF SignatureOf

(* The slot of a name that the list of a scope declares. *)
LEMMA SlotOf ==
  ASSUME NEW K \in SUBSET Kinds, NEW list \in Seq(VarDecls(K)), NEW scope, NEW base \in [Kinds -> Nat],
         Follows(scope, list, Len(list), base), NEW n \in NamesOf(list),
         NEW place, place = (CHOOSE i \in DOMAIN list : list[i].name = n),
         NEW kind, kind = list[place].kind
  PROVE  /\ kind \in K
         /\ scope.tokens[n].kind = kind
         /\ scope.tokens[n].idx = base[kind] + Count(list, kind, place - 1)
         /\ Count(list, kind, place - 1) \in Nat /\ Count(list, kind, Len(list)) \in Nat
         /\ Count(list, kind, place - 1) < Count(list, kind, Len(list))
<1>1. Len(list) \in Nat /\ DOMAIN list = 1..Len(list)
  BY LenProperties
<1>2. place \in 1..Len(list) /\ list[place].name = n
  BY <1>1 DEF NamesOf
<1>3. list[place] \in VarDecls(K)
  BY <1>2, ElementType
<1>4. kind \in K
  BY <1>3 DEF VarDecls
<1>5. scope.tokens[n] = [kind |-> kind, idx |-> base[kind] + Count(list, kind, place - 1)]
  BY <1>2 DEF Follows
<1>6. place - 1 \in Nat
  BY <1>1, <1>2
<1>7. Count(list, kind, place - 1) \in Nat /\ Count(list, kind, Len(list)) \in Nat
  BY <1>1, <1>6, CountStep
<1>8. Count(list, kind, place - 1) < Count(list, kind, Len(list))
  BY <1>1, <1>2, CountLess
<1> QED
  BY <1>4, <1>5, <1>7, <1>8

(* A reference to a parameter or a local variable. *)
LEMMA OwnReference ==
  ASSUME IInv, AInv, pass = "codegen", stage = "body", NEW n \in Names \ {This}, n \in NamesOf(Own(Sub)),
         HasOwnSignature(Reference(n))
  PROVE  /\ IsSlotOf(Reference(n))
         /\ Reference(n).kind = "local" => Reference(n).idx < Frame.locals
         /\ Reference(n).kind = "arg"   => Reference(n).idx < Frame.args
         /\ Reference(n).kind # "field"
<1> DEFINE r == Reference(n)
           own == Own(Sub)
           place == CHOOSE i \in DOMAIN own : own[i].name = n
           kind == own[place].kind
           before == Count(own, kind, place - 1)
<1>1. /\ Visiting /\ ~invalid /\ Control /\ sub \in 1..Len(Class.subs)
      /\ own \in Seq(VarDecls({"arg", "local"})) /\ Sub \in Subs
  BY SubParts DEF Visiting, IInv, Control, AInv, Verdict
<1>2. /\ r.file = file /\ r.sub = sub /\ r.name = n
      /\ r.kind = Find(chain, n).kind /\ r.idx = Find(chain, n).idx
  BY DEF Reference
<1>3. /\ Follows(chain[2], own, Len(own), SubBase)
      /\ ExistsLocal(chain[2], n)
      /\ Find(chain, n) = IF ExistsLocal(chain[2], n) THEN chain[2].tokens[n]
                          ELSE IF ExistsLocal(chain[1], n) THEN chain[1].tokens[n] ELSE Absent
  BY <1>1, AtBody, FindInnermost
<1>4. SubBase \in [Kinds -> Nat]
  BY <1>1, BaseTypes
<1>5. /\ kind \in {"arg", "local"} /\ r.kind = kind /\ r.idx = SubBase[kind] + before
      /\ before \in Nat /\ before < Count(own, kind, Len(own))
  <2> DEFINE K == {"arg", "local"}
             scope == chain[2]
             base == SubBase
  <2>1. /\ K \in SUBSET Kinds /\ own \in Seq(VarDecls(K)) /\ base \in [Kinds -> Nat]
        /\ Follows(scope, own, Len(own), base) /\ n \in NamesOf(own)
        /\ Find(chain, n) = scope.tokens[n]
    BY <1>1, <1>3, <1>4 DEF Kinds
  <2>2. place = (CHOOSE i \in DOMAIN own : own[i].name = n) /\ kind = own[place].kind
    OBVIOUS
  <2> HIDE DEF K, scope, base, own, place, kind
  <2>3. /\ kind \in K /\ scope.tokens[n].kind = kind
        /\ scope.tokens[n].idx = base[kind] + Count(own, kind, place - 1)
        /\ Count(own, kind, place - 1) \in Nat
        /\ Count(own, kind, place - 1) < Count(own, kind, Len(own))
    BY <2>1, <2>2, SlotOf
  <2> HIDE DEF r
  <2> QED
    BY <1>2, <2>1, <2>3 DEF K, base
<1>6. /\ Signature.kind = Sub.kind /\ Signature.nArgs = Len(Sub.params)
      /\ Signature.nLocals = Len(Sub.locals)
  <2>1. LastNamed(Class, Sub.name) = sub
    BY <1>2 DEF HasOwnSignature, Class, Sub
  <2> QED
    BY <1>1, <2>1, OwnSignature
<1>7. /\ Count(own, "arg", Len(own)) = Signature.nArgs /\ Count(own, "local", Len(own)) = Signature.nLocals
  BY <1>1, <1>6, OwnType
<1>8. SubBase[kind] = IF Sub.kind = "method" /\ kind = "arg" THEN 1 ELSE 0
  BY <1>5, <1>6 DEF SubBase, Kinds
<1>9. /\ Frame.locals = Signature.nLocals
      /\ Frame.args = Signature.nArgs + (IF Signature.kind = "method" THEN 1 ELSE 0)
  BY DEF Frame
<1>10. IsSlotOf(r)
  <2>1. /\ program[r.file].subs[r.sub] = Sub
        /\ Sub.params \o Sub.locals = own
    BY <1>2 DEF Sub, Class, Own
  <2> HIDE DEF own, r, before
  <2>2. r.name \in NamesOf(own) /\ r.name = n
    BY <1>2 DEF own
  <2> HIDE DEF place, kind
  <2>3. kind # "static" /\ r.kind = kind
        /\ r.idx = (IF kind = "arg" /\ Sub.kind = "method" THEN 1 ELSE 0) + before
    BY <1>5, <1>8
  <2> QED
    BY <2>1, <2>2, <2>3 DEF IsSlotOf, place, kind, before
<1>11. /\ r.kind = "local" => r.idx < Frame.locals
       /\ r.kind = "arg"   => r.idx < Frame.args
       /\ r.kind # "field"
  <2> HIDE DEF r, before, kind, own
  <2>1. CASE kind = "local"
    BY <1>5, <1>7, <1>8, <1>9, <2>1
  <2>2. CASE kind = "arg"
    <3>1. Signature.nArgs \in Nat
      <4>1. Sub.params \in Seq(VarDecls({"arg"}))
        BY <1>1 DEF Subs, Lists
      <4> QED
        BY <1>6, <4>1
    <3>2. before < Signature.nArgs
      BY <1>5, <1>7, <2>2
    <3>3. SubBase[kind] = IF Signature.kind = "method" THEN 1 ELSE 0
      BY <1>6, <1>8, <2>2
    <3>4. before + SubBase[kind] < Signature.nArgs + SubBase[kind] /\ r.idx = before + SubBase[kind]
      BY <1>5, <3>1, <3>2, <3>3
    <3> QED
      BY <1>5, <1>9, <2>2, <3>3, <3>4
  <2> QED
    BY <1>5, <2>1, <2>2
<1> QED
  BY <1>10, <1>11

(* A reference to a variable of the class. *)
LEMMA ClassReference ==
  ASSUME IInv, AInv, pass = "codegen", stage = "body", NEW n \in Names \ {This},
         n \notin NamesOf(Own(Sub)), n \in NamesOf(Class.vars)
  PROVE  /\ IsSlotOf(Reference(n))
         /\ Reference(n).kind \notin {"local", "arg"}
         /\ Reference(n).kind = "field" => Reference(n).idx < Frame.fields
<1> DEFINE r == Reference(n)
           list == Class.vars
           place == CHOOSE i \in DOMAIN list : list[i].name = n
           kind == list[place].kind
           before == Count(list, kind, place - 1)
<1>1. /\ Visiting /\ ~invalid /\ Control
      /\ list \in Seq(VarDecls({"static", "field"})) /\ DOMAIN list = 1..Len(list)
  BY ClassParts DEF Visiting, IInv, AInv, Verdict
<1>2. /\ r.file = file /\ r.sub = sub /\ r.name = n
      /\ r.kind = Find(chain, n).kind /\ r.idx = Find(chain, n).idx
  BY DEF Reference
<1>3. /\ Follows(chain[1], list, Len(list), RootBase)
      /\ ~ExistsLocal(chain[2], n) /\ ExistsLocal(chain[1], n)
      /\ Find(chain, n) = IF ExistsLocal(chain[2], n) THEN chain[2].tokens[n]
                          ELSE IF ExistsLocal(chain[1], n) THEN chain[1].tokens[n] ELSE Absent
  BY <1>1, AtBody, FindInnermost
<1>4. RootBase \in [Kinds -> Nat]
  BY <1>1, BaseTypes
<1>5. /\ kind \in {"static", "field"} /\ r.kind = kind /\ r.idx = RootBase[kind] + before
      /\ before \in Nat /\ before < Count(list, kind, Len(list))
  <2> DEFINE K == {"static", "field"}
             scope == chain[1]
             base == RootBase
  <2>1. /\ K \in SUBSET Kinds /\ list \in Seq(VarDecls(K)) /\ base \in [Kinds -> Nat]
        /\ Follows(scope, list, Len(list), base) /\ n \in NamesOf(list)
        /\ Find(chain, n) = scope.tokens[n]
    BY <1>1, <1>3, <1>4 DEF Kinds
  <2>2. place = (CHOOSE i \in DOMAIN list : list[i].name = n) /\ kind = list[place].kind
    OBVIOUS
  <2> HIDE DEF K, scope, base, list, place, kind
  <2>3. /\ kind \in K /\ scope.tokens[n].kind = kind
        /\ scope.tokens[n].idx = base[kind] + Count(list, kind, place - 1)
        /\ Count(list, kind, place - 1) \in Nat
        /\ Count(list, kind, place - 1) < Count(list, kind, Len(list))
    BY <2>1, <2>2, SlotOf
  <2> HIDE DEF r
  <2> QED
    BY <1>2, <2>1, <2>3 DEF K, base
<1>6. RootBase[kind] = IF kind = "static" THEN StaticsBefore(file) ELSE 0
  BY <1>5 DEF RootBase, Kinds, StaticBase
<1>7. Frame.fields = Count(list, "field", Len(list))
  BY <1>1 DEF Frame, FieldCount, Count
<1>8. IsSlotOf(r)
  <2>1. program[r.file].vars = list
    BY <1>2 DEF Class
  <2>2. program[r.file].subs[r.sub] = Sub
    BY <1>2 DEF Sub, Class
  <2> HIDE DEF list, r, before
  <2>3. r.name \notin NamesOf(Sub.params \o Sub.locals) /\ r.name = n
    BY <1>2 DEF Own
  <2> HIDE DEF place, kind
  <2>4. kind # "arg" /\ r.kind = kind /\ r.idx = (IF kind = "static" THEN StaticsBefore(r.file) ELSE 0) + before
    BY <1>2, <1>5, <1>6
  <2> QED
    BY <2>1, <2>2, <2>3, <2>4 DEF IsSlotOf, place, kind, before
<1>9. /\ r.kind \notin {"local", "arg"}
      /\ r.kind = "field" => r.idx < Frame.fields
  <2> HIDE DEF r, before, kind, list
  <2> QED
    BY <1>5, <1>6, <1>7
<1> QED
  BY <1>8, <1>9

(* Whatever its signature, no parameter and no local is a field. *)
LEMMA OwnField ==
  ASSUME IInv, AInv, pass = "codegen", stage = "body", NEW n \in Names \ {This}, n \in NamesOf(Own(Sub))
  PROVE  Reference(n).kind # "field"
<1> DEFINE place == CHOOSE i \in DOMAIN Own(Sub) : Own(Sub)[i].name = n
<1>1. /\ Visiting /\ ~invalid /\ Control /\ sub \in 1..Len(Class.subs)
      /\ Own(Sub) \in Seq(VarDecls({"arg", "local"})) /\ DOMAIN Own(Sub) = 1..Len(Own(Sub))
  BY SubParts DEF Visiting, IInv, Control, AInv, Verdict
<1>2. /\ Follows(chain[2], Own(Sub), Len(Own(Sub)), SubBase) /\ ExistsLocal(chain[2], n)
      /\ Find(chain, n) = IF ExistsLocal(chain[2], n) THEN chain[2].tokens[n]
                          ELSE IF ExistsLocal(chain[1], n) THEN chain[1].tokens[n] ELSE Absent
  BY <1>1, AtBody, FindInnermost
<1>3. place \in 1..Len(Own(Sub)) /\ Own(Sub)[place].name = n
  BY <1>1 DEF NamesOf
<1>4. Own(Sub)[place].kind \in {"arg", "local"}
  <2>1. Own(Sub)[place] \in VarDecls({"arg", "local"})
    BY <1>1, <1>3, ElementType
  <2> QED
    BY <2>1 DEF VarDecls
<1> HIDE DEF place
<1>5. chain[2].tokens[n].kind = Own(Sub)[place].kind
  <2>1. \E i : chain[2].tokens[n] = [kind |-> Own(Sub)[place].kind, idx |-> i]
    BY <1>2, <1>3 DEF Follows
  <2> QED
    BY <2>1
<1> QED
  BY <1>2, <1>4, <1>5 DEF Reference

LEMMA GenBodyKeeps == ASSUME IInv, AInv, GenBody PROVE AInv'
<1>1. /\ pass = "codegen" /\ Visiting /\ Visiting' /\ stage = "body" /\ stage' = "subs" /\ decl = 1
      /\ ~invalid /\ ~genError /\ WellFormed
      /\ genError' = (genError \/ \E n \in Sub.uses : Find(chain, n) = Absent)
      /\ refs' = refs \cup {Reference(n) : n \in {m \in Sub.uses : Find(chain, m) # Absent}}
      /\ chain' = PopScope(chain) /\ sub' = sub + 1
      /\ UNCHANGED <<program, registry, pass, file, decl, redeclared, invalid>>
      /\ Control /\ sub \in 1..Len(Class.subs)
  BY DEF GenBody, IInv, Control, Visiting, AInv, Places, Verdict, AcceptedNeverFails
<1>2. \A n \in Sub.uses : /\ n \in Names \ {This}
                          /\ n \in NamesOf(Class.vars) \cup NamesOf(Own(Sub))
                          /\ Find(chain, n) # Absent
  <2>1. WellFormedSub(Class, Sub)
    BY <1>1, ClassParts DEF WellFormed, WellFormedClass, Sub
  <2>2. Sub.uses \subseteq NamesOf(Class.vars) \cup NamesOf(Own(Sub))
    BY <2>1 DEF WellFormedSub, Own
  <2>3. Sub.uses \subseteq Names \ {This}
    BY <1>1, <2>2, SubParts, ThisUndeclared
  <2> QED
    BY <1>1, <2>2, <2>3, AtBody
<1>3. ~genError'
  BY <1>1, <1>2
<1>4. RegistryMatches' /\ Verdict'
  BY <1>1, <1>3, InsideAClass
<1>5. ReferencesRight'
  <2>1. \A n : Reference(n).frame = Frame /\ Reference(n).sub = sub
    BY DEF Reference
  <2>2. ASSUME NEW n \in Sub.uses
        PROVE  /\ HasOwnSignature(Reference(n)) =>
                    /\ IsSlotOf(Reference(n))
                    /\ Reference(n).kind = "local" => Reference(n).idx < Frame.locals
                    /\ Reference(n).kind = "arg"   => Reference(n).idx < Frame.args
               /\ Reference(n).kind = "field" => Reference(n).idx < Frame.fields
    <3>1. CASE n \notin NamesOf(Own(Sub))
      BY <1>1, <1>2, <3>1, ClassReference
    <3>2. CASE n \in NamesOf(Own(Sub))
      BY <1>1, <1>2, <3>2, OwnReference, OwnField
    <3> QED
      BY <3>1, <3>2
  <2>3. \A r \in refs' : r \in refs \/ \E n \in Sub.uses : r = Reference(n)
    BY <1>1
  <2>4. ResolvesToDeclaration /\ SlotInsideFrame
    BY DEF AInv, ReferencesRight
  <2>5. ASSUME NEW r \in refs'
        PROVE  /\ HasOwnSignature(r) => /\ IsSlotOf(r)
                                        /\ r.kind = "local" => r.idx < r.frame.locals
                                        /\ r.kind = "arg"   => r.idx < r.frame.args
               /\ r.kind = "field" => r.idx < r.frame.fields
    BY <2>1, <2>2, <2>3, <2>4 DEF ResolvesToDeclaration, SlotInsideFrame
  <2>6. ResolvesToDeclaration'
    BY <1>1, <2>5, SameSlots DEF ResolvesToDeclaration
  <2>7. SlotInsideFrame'
    <3>1. \A r : HasOwnSignature(r)' <=> HasOwnSignature(r)
      BY <1>1, SameSlots
    <3> QED
      BY <2>5, <3>1 DEF SlotInsideFrame, HasOwnSignature
  <2> QED
    BY <1>1, <2>6, <2>7, StaticBaseKept DEF AInv, ReferencesRight
<1>6. /\ chain \in Seq(Scopes) /\ chain' \in Seq(Scopes) /\ Len(chain') = 1 /\ chain'[1] = chain[1]
  <2>1. chain \in Seq(Scopes) /\ Len(chain) = 2
    BY <1>1 DEF IInv, ChainShape, Depth, Ended
  <2> QED
    BY <1>1, <2>1, PopToRoot
<1>7. Class' = Class /\ OfClass' = OfClass
  BY <1>1 DEF Class, OfClass
<1>8. RootBase' = RootBase
  BY <1>1, StaticBaseKept DEF RootBase
<1>9. Places'
  <2>1. Len(Class.subs) \in Nat
    BY <1>1, ClassParts
  <2> QED
    BY <1>1, <1>7, <2>1 DEF Places
<1>10. ScopesFollow'
  <2>1. RootFollows
    BY <1>1 DEF AInv, ScopesFollow
  <2> QED
    BY <1>1, <1>6, <1>7, <1>8, <2>1 DEF ScopesFollow, RootFollows
<1>11. ThisUnknown' /\ CheckedSoFar'
  BY <1>1 DEF ThisUnknown, CheckedSoFar
<1> QED
  BY <1>4, <1>5, <1>9, <1>10, <1>11 DEF AInv

-----------------------------------------------------------------------------
(* From one class to the next: the statics of the class come on top *)

LEMMA StaticsAdd ==
  ASSUME Control, IsFiniteSet(UNION {StaticsOf(g) : g \in 1..file - 1})
  PROVE  /\ IsFiniteSet(UNION {StaticsOf(g) : g \in 1..file})
         /\ StaticsBefore(file + 1) = StaticsBefore(file) + Count(Class.vars, "static", Len(Class.vars))
<1> DEFINE U == UNION {StaticsOf(g) : g \in 1..file - 1}
           D == {i \in 1..Len(Class.vars) : Class.vars[i].kind = "static"}
           S == StaticsOf(file)
<1>1. file \in Nat \ {0} /\ Len(Class.vars) \in Nat /\ DOMAIN Class.vars = 1..Len(Class.vars)
  BY ClassParts
<1>2. S = {file} \X D
  BY <1>1 DEF StaticsOf, Class
<1>3. IsFiniteSet(D) /\ Cardinality(D) \in Nat
  <2> DEFINE n == Len(Class.vars)
  <2>1. IsFiniteSet(1..n)
    <3>1. n \in Nat
      BY <1>1
    <3> HIDE DEF n
    <3> QED
      BY <3>1, FS_Interval
  <2> QED
    BY <2>1, FS_Subset, FS_CardinalityType
<1>4. IsFiniteSet(S) /\ Cardinality(S) = Cardinality(D)
  <2>1. IsFiniteSet({file}) /\ Cardinality({file}) = 1
    BY FS_Singleton
  <2> HIDE DEF D, S
  <2>2. IsFiniteSet({file} \X D) /\ Cardinality({file} \X D) = Cardinality({file}) * Cardinality(D)
    BY <1>3, <2>1, FS_Product
  <2> QED
    BY <1>2, <1>3, <2>1, <2>2
<1>5. U \cap S = {}
  <2>1. ASSUME NEW x \in U, x \in S PROVE FALSE
    <3>1. PICK g \in 1..file - 1 : x \in StaticsOf(g)
      BY <2>1
    <3>2. x[1] = g /\ x[1] = file
      BY <2>1, <3>1 DEF StaticsOf
    <3> QED
      BY <1>1, <3>1, <3>2
  <2> QED
    BY <2>1
<1>6. UNION {StaticsOf(g) : g \in 1..file} = U \cup S
  <2>1. 1..file = 1..file - 1 \cup {file}
    BY <1>1
  <2> QED
    BY <2>1
<1>7. (file + 1) - 1 = file
  BY <1>1
<1> HIDE DEF U, S, D
<1>8. IsFiniteSet(U)
  BY DEF U
<1>9. IsFiniteSet(U \cup S) /\ Cardinality(U \cup S) = Cardinality(U) + Cardinality(S)
  <2>1. /\ IsFiniteSet(U \cup S)
        /\ Cardinality(U \cup S) = Cardinality(U) + Cardinality(S) - Cardinality(U \cap S)
    BY <1>4, <1>8, FS_Union
  <2>2. Cardinality(U \cap S) = 0 /\ Cardinality(U) \in Nat /\ Cardinality(S) \in Nat
    BY <1>4, <1>5, <1>8, FS_EmptySet, FS_CardinalityType
  <2> QED
    BY <2>1, <2>2
<1> QED
  BY <1>4, <1>6, <1>7, <1>9 DEF StaticsBefore, Count, U, D

LEMMA GenLeaveClassKeeps == ASSUME IInv, AInv, GenLeaveClass PROVE AInv'
<1>1. /\ pass = "codegen" /\ Visiting /\ stage = "subs" /\ decl = 1 /\ sub' = 1
      /\ ~invalid /\ ~genError /\ WellFormed
      /\ chain' = [chain EXCEPT ![Len(chain)] = ResetLocalState(@)]
      /\ UNCHANGED <<program, registry, decl, redeclared, invalid, genError, refs>>
      /\ Control /\ RootFollows
  BY DEF GenLeaveClass, IInv, Visiting, AInv, Places, Verdict, AcceptedNeverFails, ScopesFollow
<1>2. \/ file < Len(program) /\ file' = file + 1 /\ stage' = "classVars" /\ pass' = "codegen"
      \/ pass' = "done" /\ file' = file
  BY <1>1 DEF GenLeaveClass
<1>3. RegistryMatches'
  BY <1>1, <1>2 DEF AInv, RegistryMatches
<1>4. Verdict'
  BY <1>1, <1>2, SameVerdict DEF Verdict, AcceptedNeverFails
<1>5. ThisUnknown' /\ CheckedSoFar'
  BY <1>2 DEF ThisUnknown, CheckedSoFar
<1>6. ResolvesToDeclaration' /\ SlotInsideFrame'
  BY <1>1, SameVerdict DEF AInv, ReferencesRight
<1>7. CASE pass' = "done"
  <2>1. Places' /\ ScopesFollow' /\ ReferencesRight'
    BY <1>6, <1>7 DEF Places, ScopesFollow, Visiting, ReferencesRight
  <2> QED
    BY <1>3, <1>4, <1>5, <2>1 DEF AInv
<1>8. CASE file < Len(program) /\ file' = file + 1 /\ stage' = "classVars" /\ pass' = "codegen"
  <2>1. /\ program \in Seq(Classes) /\ Len(program) \in Nat /\ file \in 1..Len(program)
        /\ Class.vars \in Seq(VarDecls({"static", "field"})) /\ Len(Class.vars) \in Nat
    BY <1>1, ClassParts
  <2>2. /\ IsFiniteSet(UNION {StaticsOf(g) : g \in 1..file})
        /\ StaticsBefore(file + 1) = StaticsBefore(file) + Count(Class.vars, "static", Len(Class.vars))
    BY <1>1, StaticsAdd DEF AInv, ReferencesRight
  <2>3. (UNION {StaticsOf(g) : g \in 1..file - 1})' = UNION {StaticsOf(g) : g \in 1..file' - 1}
    <3>1. ASSUME NEW g PROVE StaticsOf(g)' = StaticsOf(g)
      BY <1>1 DEF StaticsOf
    <3> QED
      BY <3>1
  <2>4. ReferencesRight'
    <3>1. file' - 1 = file
      BY <1>8, <2>1
    <3> QED
      BY <1>6, <2>2, <2>3, <3>1 DEF ReferencesRight
  <2>5. StaticBase' = StaticBase + Count(Class.vars, "static", Len(Class.vars))
    BY <1>8, <2>2, <2>3 DEF StaticBase, StaticsBefore
  <2>6. Places'
    <3>1. Len(Pending') \in Nat
      <4>1. program[file + 1] \in Classes
        <5>1. file + 1 \in 1..Len(program)
          BY <1>8, <2>1
        <5> QED
          BY <2>1, <5>1, ElementType
      <4> QED
        BY <1>1, <1>8, <4>1 DEF Pending, Class, Classes, Lists
    <3> QED
      BY <1>1, <1>8, <3>1 DEF Places
  <2>7. chain'[1] = ResetLocalState(chain[1])
    <3>1. chain \in Seq(Scopes) /\ Len(chain) = 1
      BY <1>1 DEF IInv, ChainShape, Depth, Ended
    <3>2. DOMAIN chain = {1}
      BY <3>1, LenProperties
    <3> QED
      BY <1>1, <3>1, <3>2
  <2>8. ScopesFollow'
    <3> DEFINE next == ResetLocalState(chain[1]).next
    <3>1. OfClass' = 0
      BY <1>1, <1>8 DEF OfClass
    <3>2. /\ RootBase' = [k \in Kinds |-> IF k = "static" THEN StaticBase' ELSE 0]
          /\ RootBase = [k \in Kinds |-> IF k = "static" THEN StaticBase ELSE 0]
      BY <1>1, <1>8 DEF RootBase
    <3>3. chain[1].next = [k \in Kinds |-> RootBase[k] + Count(Class.vars, k, Len(Class.vars))]
      BY <1>1 DEF RootFollows, Follows, OfClass
    <3>4. Count(Class.vars, "arg", Len(Class.vars)) = 0
      <4>1. \A i \in 1..Len(Class.vars) : Class.vars[i].kind # "arg"
        <5>1. ASSUME NEW i \in 1..Len(Class.vars) PROVE Class.vars[i] \in VarDecls({"static", "field"})
          BY <2>1, ElementType
        <5> QED
          BY <5>1 DEF VarDecls
      <4> QED
        BY <2>1, <4>1, CountNone
    <3>5. next = RootBase'
      <4>1. next = [chain[1].next EXCEPT !["field"] = 0, !["local"] = 0]
        BY DEF ResetLocalState
      <4> HIDE DEF next
      <4>2. next = [k \in Kinds |-> IF k \in {"field", "local"} THEN 0 ELSE chain[1].next[k]]
        BY <3>3, <4>1
      <4>3. chain[1].next["arg"] = 0 /\ chain[1].next["static"] = StaticBase'
        BY <2>5, <3>2, <3>3, <3>4 DEF Kinds
      <4> QED
        BY <3>2, <4>2, <4>3 DEF Kinds
    <3>6. \A x \in Names : chain'[1].tokens[x] = Absent
      BY <2>7 DEF ResetLocalState, NoTokens
    <3>7. \A list, k : Count(list, k, 0) = 0
      BY CountStep
    <3>8. StaticBase' \in Nat
      BY <2>4, FS_CardinalityType, <1>8 DEF ReferencesRight, StaticBase, StaticsBefore
    <3>9. chain'[1].next = [k \in Kinds |-> RootBase'[k] + Count((Class.vars)', k, 0)]
      <4>1. \A k \in Kinds : RootBase'[k] + Count((Class.vars)', k, 0) = RootBase'[k]
        BY <3>2, <3>7, <3>8
      <4> QED
        BY <2>7, <3>2, <3>5, <4>1
    <3> QED
      BY <1>8, <3>1, <3>6, <3>7, <3>9 DEF ScopesFollow, RootFollows, Follows
  <2> QED
    BY <1>3, <1>4, <1>5, <2>4, <2>6, <2>8 DEF AInv
<1> QED
  BY <1>2, <1>7, <1>8

-----------------------------------------------------------------------------
(* The second invariant is one, on top of the first. *)

LEMMA StutterKeeps == ASSUME IInv, AInv, UNCHANGED vars PROVE AInv'
<1>1. UNCHANGED <<program, registry, pass, file, stage, sub, decl, chain, redeclared, invalid, genError, refs>>
  BY DEF vars
<1>2. Class' = Class /\ Sub' = Sub /\ Own(Sub)' = Own(Sub) /\ Pending' = Pending
  BY <1>1 DEF Class, Sub, Own, Pending
<1>3. OfClass' = OfClass /\ OfSub' = OfSub /\ RootBase' = RootBase /\ SubBase' = SubBase
  BY <1>1, <1>2, BasesKept DEF OfClass, OfSub
<1>4. Places' /\ RegistryMatches' /\ ThisUnknown'
  BY <1>1, <1>2 DEF AInv, Places, RegistryMatches, ThisUnknown, Visiting
<1>5. ScopesFollow'
  BY <1>1, <1>2, <1>3 DEF AInv, ScopesFollow, RootFollows, SubFollows, Visiting
<1>6. CheckedSoFar'
  <2>1. \A c, s : WellFormedSub(c, s)' <=> WellFormedSub(c, s)
    BY <1>1 DEF WellFormedSub, WellTyped
  <2>2. \A c : WellFormedClass(c)' <=> WellFormedClass(c)
    BY <1>1, <2>1 DEF WellFormedClass, WellTyped
  <2>3. /\ ClassesChecked' <=> ClassesChecked
        /\ SubsChecked' <=> SubsChecked
    BY <1>1, <1>2, <2>1, <2>2 DEF ClassesChecked, SubsChecked
  <2>4. (VarsChecked' <=> VarsChecked) /\ (OwnChecked' <=> OwnChecked)
    BY <1>1, <1>2, <1>3 DEF VarsChecked, OwnChecked, TypedUpTo
  <2> QED
    BY <1>1, <2>3, <2>4 DEF AInv, CheckedSoFar
<1>7. Verdict' /\ ReferencesRight'
  BY <1>1, SameVerdict, StaticBaseKept DEF AInv, Verdict, AcceptedNeverFails, ReferencesRight
<1> QED
  BY <1>4, <1>5, <1>6, <1>7 DEF AInv

LEMMA AStep == IInv /\ AInv /\ [Next]_vars => AInv'
BY RegisterClassKeeps, SemEnterClassKeeps, SemEnterSubKeeps, SemDeclareKeeps, SemBodyKeeps, SemLeaveClassKeeps,
   GenEnterSubKeeps, GenDeclareKeeps, GenBodyKeeps, GenLeaveClassKeeps, DeclarationsDoneKeeps, StutterKeeps
   DEF Next, Finished

(* The invariant that the three theorems below rest on. *)
THEOREM PassesAgree == Spec => []AInv
<1>1. Init => AInv
  BY InitAInv
<1>2. IInv /\ AInv /\ [Next]_vars => AInv'
  BY AStep
<1> QED
  BY <1>1, <1>2, Inductive, PTL DEF Spec

(* register_var's assertion never fails, and the code generator reports no  *)
(* error: what the semantic pass accepts can be compiled.                  *)
THEOREM AcceptedCompiles == Spec => []AcceptedNeverFails
<1>1. AInv => AcceptedNeverFails
  BY DEF AInv, Verdict
<1> QED
  BY <1>1, PassesAgree, PTL

(* The passes accept the well-formed programs and no others. *)
THEOREM VerdictIsRight == Spec => []AcceptsExactlyWellFormed
<1>1. AInv => AcceptsExactlyWellFormed
  BY DEF AInv, Verdict, RegistryMatches, AcceptsExactlyWellFormed, WellFormed
<1> QED
  BY <1>1, PassesAgree, PTL

(* Every reference that is emitted denotes the innermost declaration, at the *)
(* slot that its place in the program text gives it.                       *)
THEOREM ReferencesResolve == Spec => []ResolvesToDeclaration
<1>1. AInv => ResolvesToDeclaration
  BY DEF AInv, ReferencesRight
<1> QED
  BY <1>1, PassesAgree, PTL

(* No reference reaches past the frame or the object that it lies in. *)
THEOREM FramesSuffice == Spec => []SlotInsideFrame
<1>1. AInv => SlotInsideFrame
  BY DEF AInv, ReferencesRight
<1> QED
  BY <1>1, PassesAgree, PTL

=============================================================================
