---------------------------- MODULE ParserProofs ----------------------------
(***************************************************************************)
(* For every input: the parser leaves a list of variables the way its own   *)
(* loop does, whatever went wrong inside, so that no synchronisation        *)
(* context of a list survives it and no panic leaves it; and it reports an  *)
(* error exactly for the inputs that do not start with a class of the       *)
(* grammar.                                                                *)
(*                                                                         *)
(* For the second, what is left to do is given a meaning: the sequences of  *)
(* grammar symbols that it reads. An item is given its meaning before those *)
(* of the items below it, and fits on them if one word ahead is enough for  *)
(* every choice it makes. A step takes the top item, replaces it by items   *)
(* of the same meaning and reads at most one word, unless that word tells   *)
(* that no class starts the source.                                        *)
(***************************************************************************)
EXTENDS Parser, SequenceTheorems, WellFoundedInduction, TLAPS

(* The contexts of the two kinds of list, and the words at their ends. *)
Lists == {"var", "param"}

EndOf(c) == IF c = "var" THEN ";" ELSE ")"

ListOf(c) == Enter(Variables(EndOf(c)))

(* The loop of a list, as its rounds leave it. *)
ListLoops == [do : {"variables"}, end : {";", ")"}, first : BOOLEAN, any : BOOLEAN]

ContextOf(loop) == IF loop.end = ";" THEN "var" ELSE "param"

-----------------------------------------------------------------------------
(* What may be left to do *)

OtherLoops == [do : {"classBody", "subBody"}, seen : BOOLEAN] \cup {Simple("statements")}

Single ==
  [do : {"expect"}, words : SUBSET Words]
    \cup {Simple(d) : d \in {"type", "value", "expression", "infix", "term", "named", "skipBrace"}}
    \cup [do : {"arguments"}, any : BOOLEAN]
    \cup OtherLoops \cup [do : {"enter"}, loop : OtherLoops]
    \cup [do : {"push", "pop"}, context : {"class", "sub", "stmt"}]

Plain == Single \cup [do : {"optional"}, words : SUBSET Words, then : Seq(Single)]

ListItems ==
  [do : {"push", "pop"}, context : Lists] \cup {ListOf(c) : c \in Lists} \cup ListLoops
    \cup {Simple("declared"), Simple("sync")}

Items == Plain \cup ListItems

(* The steps of a round of a list's loop, the loop itself excepted. *)
RoundSteps == {"expect", "type", "declared", "sync"}

(* A list is entered, run through and left by three neighbours, and nothing *)
(* but steps of its rounds is done before its loop goes on.                *)
ItemPlaced(s, k) ==
  /\ \A c \in Lists : s[k] = Push(c) => k + 1 \in DOMAIN s /\ s[k + 1] = ListOf(c)
  /\ \A c \in Lists : s[k] = ListOf(c) => k + 1 \in DOMAIN s /\ s[k + 1] = Pop(c)
  /\ s[k].do = "variables" =>
       /\ k + 1 \in DOMAIN s /\ s[k + 1] = Pop(ContextOf(s[k]))
       /\ \A j \in 1..k - 1 : s[j].do \in RoundSteps
  /\ s[k].do = "declared" => k + 1 \in DOMAIN s /\ s[k + 1].do = "variables"
  /\ s[k].do = "sync" => k = 1 /\ 2 \in DOMAIN s /\ s[2].do \in Loops \cup {"skipBrace"}

Placed(s) == \A k \in DOMAIN s : ItemPlaced(s, k)

(* A list's context is set between its Push and its Pop only. *)
Inside(s, c) ==
  \/ s # <<>> /\ s[1] \in {ListOf(c), Pop(c)}
  \/ \E k \in DOMAIN s : s[k].do = "variables" /\ ContextOf(s[k]) = c

PInv ==
  /\ todo \in Seq(Items)
  /\ Placed(todo)
  /\ \A c \in Lists \cap context : Inside(todo, c)

-----------------------------------------------------------------------------
(* Dropping and adding items *)

(* What kind an item is, its step tells. *)
LEMMA ItemKinds ==
  ASSUME NEW i \in Items
  PROVE  /\ i.do = "variables" => i \in ListLoops
         /\ i.do = "declared" => i = Simple("declared")
         /\ i.do = "sync" => i = Simple("sync")
         /\ i \in Plain => i.do \notin {"variables", "declared", "sync"}
                           /\ \A c \in Lists : i \notin {Push(c), Pop(c), ListOf(c)}
<1>1. ASSUME i \in OtherLoops PROVE i.do \in {"classBody", "subBody", "statements"}
  BY <1>1 DEF OtherLoops, Simple
<1>2. ASSUME i \in Plain
      PROVE  /\ i.do \notin {"variables", "declared", "sync"}
             /\ i.do \in {"push", "pop"} => i.context \notin Lists
             /\ i.do = "enter" => i.loop.do # "variables"
  <2>1. CASE i \in [do : {"enter"}, loop : OtherLoops]
    <3>1. i.do = "enter" /\ i.loop \in OtherLoops
      BY <2>1
    <3>2. i.loop.do # "variables"
      BY <3>1 DEF OtherLoops, Simple
    <3> QED
      BY <3>1, <3>2
  <2>2. CASE i \in OtherLoops
    BY <1>1, <2>2
  <2>3. CASE i \in {Simple(d) : d \in {"type", "value", "expression", "infix", "term", "named",
        "skipBrace"}}
    BY <2>3 DEF Simple
  <2>4. CASE i \in [do : {"push", "pop"}, context : {"class", "sub", "stmt"}]
    BY <2>4 DEF Lists
  <2>5. CASE i \in [do : {"expect"}, words : SUBSET Words] \cup [do : {"arguments"}, any : BOOLEAN]
                   \cup [do : {"optional"}, words : SUBSET Words, then : Seq(Single)]
    BY <2>5
  <2> QED
    BY <1>2, <2>1, <2>2, <2>3, <2>4, <2>5 DEF Plain, Single
<1>3. ASSUME i \in Plain, NEW c \in Lists PROVE i \notin {Push(c), Pop(c), ListOf(c)}
  <2>1. Push(c).do = "push" /\ Push(c).context = c /\ Pop(c).do = "pop" /\ Pop(c).context = c
    BY DEF Push, Pop
  <2>2. ListOf(c).do = "enter" /\ ListOf(c).loop.do = "variables"
    BY DEF ListOf, Enter, Variables
  <2> QED
    BY <1>2, <1>3, <2>1, <2>2
<1>4. ASSUME i \in ListItems
      PROVE  /\ i.do = "variables" => i \in ListLoops
             /\ i.do = "declared" => i = Simple("declared")
             /\ i.do = "sync" => i = Simple("sync")
  <2>1. \A c \in Lists : ListOf(c).do = "enter"
    BY DEF ListOf, Enter
  <2>2. Simple("declared").do = "declared" /\ Simple("sync").do = "sync"
    BY DEF Simple
  <2>3. CASE i \in [do : {"push", "pop"}, context : Lists] \cup ListLoops
    BY <2>3 DEF ListLoops
  <2>4. CASE i \in {ListOf(c) : c \in Lists}
    BY <2>1, <2>4
  <2> QED
    BY <1>4, <2>2, <2>3, <2>4 DEF ListItems
<1> QED
  BY <1>2, <1>3, <1>4 DEF Items

(* What is left when the first m - 1 items are done. *)
LEMMA SuffixPlaced ==
  ASSUME NEW s \in Seq(Items), Placed(s), NEW m \in 1..Len(s) + 1
  PROVE  LET t == SubSeq(s, m, Len(s))
         IN  /\ t \in Seq(Items) /\ Placed(t) /\ Len(t) = Len(s) - m + 1
             /\ DOMAIN t = 1..Len(s) - m + 1
             /\ \A k \in DOMAIN t : t[k] = s[m + k - 1]
             /\ m > 1 => \A k \in DOMAIN t : t[k].do # "sync"
<1> DEFINE t == SubSeq(s, m, Len(s))
<1>1. Len(s) \in Nat /\ DOMAIN s = 1..Len(s) /\ m \in Int
  OBVIOUS
<1>2. \A k \in m..Len(s) : s[k] \in Items
  BY <1>1, ElementOfSeq
<1>3. t \in Seq(Items) /\ Len(t) = Len(s) - m + 1 /\ \A k \in 1..Len(s) - m + 1 : t[k] = s[m + k - 1]
  BY <1>1, <1>2, SubSeqProperties
<1>4. DOMAIN t = 1..Len(s) - m + 1
  BY <1>3
<1> HIDE DEF t
<1>5. ASSUME NEW k \in DOMAIN t PROVE ItemPlaced(t, k) /\ (m > 1 => t[k].do # "sync")
  <2>1. k \in 1..Len(s) - m + 1 /\ k \in Int /\ m + k - 1 \in DOMAIN s /\ m + k - 1 \in Int
    BY <1>1, <1>4
  <2>2. ItemPlaced(s, m + k - 1) /\ t[k] = s[m + k - 1]
    BY <1>3, <2>1 DEF Placed
  <2>3. ASSUME m + k \in DOMAIN s PROVE k + 1 \in DOMAIN t /\ t[k + 1] = s[m + k]
    <3>1. k + 1 \in 1..Len(s) - m + 1 /\ m + (k + 1) - 1 = m + k
      BY <1>1, <2>1, <2>3
    <3> QED
      BY <1>3, <1>4, <3>1
  <2>4. (m + k - 1) + 1 = m + k
    BY <1>1, <2>1
  <2>5. \A c \in Lists : t[k] = Push(c) => k + 1 \in DOMAIN t /\ t[k + 1] = ListOf(c)
    BY <2>2, <2>3, <2>4 DEF ItemPlaced
  <2>6. \A c \in Lists : t[k] = ListOf(c) => k + 1 \in DOMAIN t /\ t[k + 1] = Pop(c)
    BY <2>2, <2>3, <2>4 DEF ItemPlaced
  <2>7. t[k].do = "declared" => k + 1 \in DOMAIN t /\ t[k + 1].do = "variables"
    BY <2>2, <2>3, <2>4 DEF ItemPlaced
  <2>8. ASSUME t[k].do = "variables"
        PROVE  /\ k + 1 \in DOMAIN t /\ t[k + 1] = Pop(ContextOf(t[k]))
               /\ \A j \in 1..k - 1 : t[j].do \in RoundSteps
    <3>1. \A j \in 1..k - 1 : m + j - 1 \in 1..(m + k - 1) - 1 /\ t[j] = s[m + j - 1]
      BY <1>1, <1>3, <2>1
    <3> QED
      BY <2>2, <2>3, <2>4, <2>8, <3>1 DEF ItemPlaced
  <2>9. ASSUME t[k].do = "sync"
        PROVE  m = 1 /\ k = 1 /\ 2 \in DOMAIN t /\ t[2].do \in Loops \cup {"skipBrace"}
    <3>1. m + k - 1 = 1 /\ 2 \in DOMAIN s /\ s[2].do \in Loops \cup {"skipBrace"}
      BY <2>2, <2>9 DEF ItemPlaced
    <3>2. m = 1 /\ k = 1
      BY <2>1, <3>1
    <3> QED
      BY <2>3, <3>1, <3>2
  <2> QED
    BY <2>5, <2>6, <2>7, <2>8, <2>9 DEF ItemPlaced
<1> QED
  BY <1>3, <1>4, <1>5 DEF Placed, t

(* New items in front of others, of which none belongs to a list's round. *)
LEMMA PrefixPlaced ==
  ASSUME NEW p \in Seq(Items), Placed(p), NEW t \in Seq(Items), Placed(t),
         \A k \in DOMAIN t : t[k].do \notin {"variables", "sync"}
  PROVE  /\ p \o t \in Seq(Items) /\ Placed(p \o t)
         /\ Len(p \o t) = Len(p) + Len(t)
<1> DEFINE u == p \o t
<1>1. Len(p) \in Nat /\ DOMAIN p = 1..Len(p) /\ Len(t) \in Nat /\ DOMAIN t = 1..Len(t)
  OBVIOUS
<1>2. /\ u \in Seq(Items) /\ Len(u) = Len(p) + Len(t)
      /\ \A i \in 1..Len(p) + Len(t) : u[i] = IF i <= Len(p) THEN p[i] ELSE t[i - Len(p)]
  BY ConcatProperties
<1>3. DOMAIN u = 1..Len(p) + Len(t)
  BY <1>2
<1> HIDE DEF u
<1>4. \A k \in DOMAIN p : k \in DOMAIN u /\ u[k] = p[k]
  BY <1>1, <1>2, <1>3
<1>5. ASSUME NEW k \in DOMAIN u PROVE ItemPlaced(u, k)
  <2>1. CASE k \in DOMAIN p
    <3>1. ItemPlaced(p, k) /\ u[k] = p[k]
      BY <1>4, <2>1 DEF Placed
    <3>2. \A j \in 1..k - 1 : j \in DOMAIN p
      BY <1>1, <2>1
    <3> QED
      BY <1>4, <3>1, <3>2 DEF ItemPlaced
  <2>2. CASE k \notin DOMAIN p
    <3>1. k - Len(p) \in DOMAIN t /\ u[k] = t[k - Len(p)]
      BY <1>1, <1>2, <1>3, <2>2
    <3>2. ItemPlaced(t, k - Len(p))
      BY <3>1 DEF Placed
    <3>3. ASSUME (k - Len(p)) + 1 \in DOMAIN t
          PROVE  k + 1 \in DOMAIN u /\ u[k + 1] = t[(k - Len(p)) + 1]
      <4>1. k + 1 \in 1..Len(p) + Len(t) /\ ~ (k + 1 <= Len(p)) /\ (k + 1) - Len(p) = (k - Len(p)) + 1
        BY <1>1, <1>3, <2>2, <3>3
      <4> QED
        BY <1>2, <1>3, <4>1
    <3>4. u[k].do \notin {"variables", "sync"}
      BY <3>1
    <3> QED
      BY <3>1, <3>2, <3>3, <3>4 DEF ItemPlaced
  <2> QED
    BY <2>1, <2>2
<1> QED
  BY <1>2, <1>5 DEF Placed, u

(* Items that have nothing to do with lists. *)
LEMMA PlainPlaced ==
  ASSUME NEW p \in Seq(Plain)
  PROVE  p \in Seq(Items) /\ Placed(p)
<1>1. p \in Seq(Items)
  BY SeqMonotonic DEF Items
<1>2. \A k \in DOMAIN p : p[k] \in Plain /\ p[k] \in Items
  BY ElementOfSeq DEF Items
<1> QED
  BY <1>1, <1>2, ItemKinds DEF Placed, ItemPlaced

(* Unwinding ends at a loop, and never leaves the loop of a list. *)
LEMMA Unwinds ==
  ASSUME NEW s \in Seq(Items), Placed(s)
  PROVE  /\ Unwound(s) \in Seq(Items) /\ Placed(Unwound(s))
         /\ \A m \in DOMAIN s : s[m].do = "variables" => 1 \in DOMAIN Unwound(s) /\ Unwound(s)[1] = s[m]
<1> DEFINE loops == {k \in DOMAIN s : s[k].do \in Loops}
<1>1. Len(s) \in Nat /\ DOMAIN s = 1..Len(s)
  OBVIOUS
<1>2. CASE loops = {}
  <2>1. Unwound(s) = <<>>
    BY <1>2 DEF Unwound
  <2>2. \A m \in DOMAIN s : s[m].do # "variables"
    BY <1>2 DEF Loops
  <2> QED
    BY <2>1, <2>2 DEF Placed
<1>3. CASE loops # {}
  <2>1. PICK k \in loops : \A j \in loops : k <= j
    <3>1. loops \subseteq Nat
      BY <1>1
    <3> HIDE DEF loops
    <3>2. PICK k \in loops : \A j \in loops : ~ (<<j, k>> \in OpToRel(<, Nat))
      BY <1>3, <3>1, WFMin, NatLessThanWellFounded
    <3>3. \A j \in loops : ~ (j < k)
      BY <3>1, <3>2 DEF OpToRel
    <3> QED
      BY <3>1, <3>3
  <2>2. PICK m : m = CHOOSE i \in loops : \A j \in loops : i <= j
    OBVIOUS
  <2>3. m \in loops /\ \A j \in loops : m <= j
    BY <2>1, <2>2
  <2>4. Unwound(s) = SubSeq(s, m, Len(s))
    BY <1>3, <2>2 DEF Unwound
  <2>5. m \in 1..Len(s) /\ m \in Int
    BY <1>1, <2>3
  <2>6. /\ Unwound(s) \in Seq(Items) /\ Placed(Unwound(s))
        /\ DOMAIN Unwound(s) = 1..Len(s) - m + 1
        /\ \A i \in DOMAIN Unwound(s) : Unwound(s)[i] = s[m + i - 1]
    BY <1>1, <2>4, <2>5, SuffixPlaced
  <2>7. 1 \in DOMAIN Unwound(s) /\ Unwound(s)[1] = s[m]
    <3>1. 1 \in 1..Len(s) - m + 1 /\ m + 1 - 1 = m
      BY <1>1, <2>5
    <3> QED
      BY <2>6, <3>1
  <2>8. ASSUME NEW i \in DOMAIN s, s[i].do = "variables" PROVE i = m
    <3>1. i \in loops
      BY <2>8 DEF Loops
    <3>2. m <= i
      BY <2>3, <3>1
    <3>3. \A j \in 1..i - 1 : s[j].do \in RoundSteps
      BY <2>8 DEF Placed, ItemPlaced
    <3>4. \A j \in 1..i - 1 : j \notin loops
      BY <3>3 DEF RoundSteps, Loops
    <3> QED
      BY <1>1, <2>3, <2>5, <3>2, <3>4
  <2> QED
    BY <2>6, <2>7, <2>8
<1> QED
  BY <1>2, <1>3

-----------------------------------------------------------------------------
(* What the items are when the first of them is taken *)

(* What is known of the first item and of those behind it. *)
LEMMA Taken ==
  ASSUME PInv, todo # <<>>
  PROVE  /\ Len(todo) \in Nat \ {0} /\ DOMAIN todo = 1..Len(todo) /\ 1 \in DOMAIN todo
         /\ Now = todo[1] /\ Now \in Items /\ ItemPlaced(todo, 1)
         /\ Rest \in Seq(Items) /\ Placed(Rest) /\ DOMAIN Rest = 1..Len(todo) - 1
         /\ \A k \in DOMAIN Rest : Rest[k] = todo[k + 1] /\ Rest[k].do # "sync"
<1>1. todo \in Seq(Items) /\ Placed(todo)
  BY DEF PInv
<1>2. Len(todo) \in Nat \ {0} /\ DOMAIN todo = 1..Len(todo) /\ 1 \in DOMAIN todo
  BY <1>1, EmptySeq
<1>3. Now = todo[1] /\ Now \in Items
  BY <1>1, HeadTailProperties DEF Now
<1>4. Rest = SubSeq(todo, 2, Len(todo))
  BY <1>1, TailIsSubSeq DEF Rest
<1>5. /\ Rest \in Seq(Items) /\ Placed(Rest) /\ DOMAIN Rest = 1..Len(todo) - 2 + 1
      /\ \A k \in DOMAIN Rest : Rest[k] = todo[2 + k - 1] /\ Rest[k].do # "sync"
  <2>1. 2 \in 1..Len(todo) + 1 /\ 2 > 1
    BY <1>2
  <2> QED
    BY <1>1, <1>4, <2>1, SuffixPlaced
<1>6. Len(todo) - 2 + 1 = Len(todo) - 1 /\ \A k \in 1..Len(todo) - 1 : 2 + k - 1 = k + 1
  BY <1>2
<1>7. ItemPlaced(todo, 1)
  BY <1>1, <1>2 DEF Placed
<1> QED
  BY <1>2, <1>3, <1>5, <1>6, <1>7

(* Outside of a round, no loop of a list is further down, *)
LEMMA Outside ==
  ASSUME PInv, todo # <<>>, Now.do \notin RoundSteps
  PROVE  /\ \A k \in DOMAIN Rest : Rest[k].do \notin {"variables", "sync"}
         /\ Now.do # "variables" =>
              ~ InVariables /\ \A c \in Lists \cap context : Now \in {ListOf(c), Pop(c)}
         /\ Now.do \notin {"variables", "enter", "pop"} => Lists \cap context = {}
<1>1. /\ Len(todo) \in Nat \ {0} /\ DOMAIN todo = 1..Len(todo) /\ Now = todo[1] /\ DOMAIN Rest = 1..Len(todo) - 1
      /\ \A k \in DOMAIN Rest : Rest[k] = todo[k + 1] /\ Rest[k].do # "sync"
  BY Taken
<1>2. ASSUME NEW k \in DOMAIN todo, k # 1 PROVE todo[k].do # "variables"
  <2>1. 1 \in 1..k - 1
    BY <1>1, <1>2
  <2> QED
    BY <1>1, <2>1 DEF PInv, Placed, ItemPlaced
<1>3. \A k \in DOMAIN Rest : k + 1 \in DOMAIN todo /\ k + 1 # 1
  BY <1>1
<1>4. Now.do # "variables" => ~ InVariables
  BY <1>1, <1>2 DEF InVariables
<1>5. ASSUME NEW c \in Lists \cap context, Now.do # "variables" PROVE Now \in {ListOf(c), Pop(c)}
  BY <1>1, <1>2, <1>5 DEF PInv, Inside
<1>6. ASSUME NEW c \in Lists \cap context PROVE Now.do \in {"variables", "enter", "pop"}
  <2>1. ListOf(c).do = "enter" /\ Pop(c).do = "pop"
    BY DEF ListOf, Enter, Pop
  <2> QED
    BY <1>5, <2>1
<1> QED
  BY <1>1, <1>2, <1>3, <1>4, <1>5, <1>6

(* and in a round of a list the loop is. *)
LEMMA InRound ==
  ASSUME PInv, todo # <<>>, Now.do \in RoundSteps
  PROVE  /\ \A c \in Lists \cap context :
              \E k \in DOMAIN Rest : Rest[k].do = "variables" /\ ContextOf(Rest[k]) = c
         /\ InVariables => \E k \in DOMAIN Rest : Rest[k].do = "variables"
<1>1. /\ Len(todo) \in Nat \ {0} /\ DOMAIN todo = 1..Len(todo) /\ Now = todo[1] /\ DOMAIN Rest = 1..Len(todo) - 1
      /\ \A k \in DOMAIN Rest : Rest[k] = todo[k + 1]
  BY Taken
<1>2. ASSUME NEW k \in DOMAIN todo, todo[k].do = "variables"
      PROVE  k - 1 \in DOMAIN Rest /\ Rest[k - 1] = todo[k]
  <2>1. k # 1
    BY <1>1, <1>2 DEF RoundSteps
  <2>2. k - 1 \in 1..Len(todo) - 1 /\ (k - 1) + 1 = k
    BY <1>1, <2>1
  <2> QED
    BY <1>1, <2>2
<1>3. ASSUME NEW c \in Lists \cap context
      PROVE  \E k \in DOMAIN Rest : Rest[k].do = "variables" /\ ContextOf(Rest[k]) = c
  <2>1. ListOf(c).do = "enter" /\ Pop(c).do = "pop"
    BY DEF ListOf, Enter, Pop
  <2>2. PICK k \in DOMAIN todo : todo[k].do = "variables" /\ ContextOf(todo[k]) = c
    BY <1>1, <2>1 DEF PInv, Inside, RoundSteps
  <2> QED
    BY <1>2, <2>2
<1>4. InVariables => \E k \in DOMAIN Rest : Rest[k].do = "variables"
  BY <1>2 DEF InVariables
<1> QED
  BY <1>3, <1>4

-----------------------------------------------------------------------------
(* Kinds of steps *)

(* Something else than a round of a list goes on. *)
LEMMA GoesOn ==
  ASSUME PInv, todo # <<>>, Now.do \notin RoundSteps \cup {"variables"}, NEW left \in {Rest, todo},
         NEW p \in Seq(Items), Placed(p), todo' = p \o left, Lists \cap context' = {}
  PROVE  PInv' /\ ~ InVariables
<1>1. /\ left \in Seq(Items) /\ Placed(left) /\ ~ InVariables
      /\ \A k \in DOMAIN left : left[k].do \notin {"variables", "sync"}
  <2>1. CASE left = Rest
    BY <2>1, Taken, Outside
  <2>2. CASE left = todo
    <3>1. ASSUME NEW k \in DOMAIN todo PROVE todo[k].do \notin {"variables", "sync"}
      <4>1. CASE k = 1
        BY <4>1, Taken DEF RoundSteps
      <4>2. CASE k # 1
        BY <3>1, <4>2, Outside DEF InVariables, PInv, Placed, ItemPlaced
      <4> QED
        BY <4>1, <4>2
    <3> QED
      BY <2>2, <3>1, Outside DEF PInv
  <2> QED
    BY <2>1, <2>2
<1>2. p \o left \in Seq(Items) /\ Placed(p \o left)
  BY <1>1, PrefixPlaced
<1>3. PICK t : t = todo'
  OBVIOUS
<1>4. t \in Seq(Items) /\ Placed(t)
  BY <1>2, <1>3
<1>5. Placed(todo)'
  BY <1>3, <1>4 DEF Placed, ItemPlaced
<1> QED
  BY <1>1, <1>3, <1>4, <1>5 DEF PInv

(* No list is concerned. *)
LEMMA GoesElsewhere ==
  ASSUME PInv, todo # <<>>, Now.do \notin RoundSteps \cup {"variables", "enter", "pop"}, NEW left \in {Rest, todo},
         NEW p \in Seq(Plain), todo' = p \o left, context' \subseteq context \cup {"class", "sub", "stmt"}
  PROVE  PInv' /\ ~ InVariables
<1>1. Lists \cap context' = {}
  BY Outside DEF Lists
<1>2. p \in Seq(Items) /\ Placed(p)
  BY PlainPlaced
<1> QED
  BY <1>1, <1>2, GoesOn

(* No item is added. *)
LEMMA GoesBack ==
  ASSUME PInv, todo # <<>>, Now.do \notin RoundSteps \cup {"variables", "enter", "pop"}, NEW left \in {Rest, todo},
         todo' = left, context' \subseteq context \cup {"class", "sub", "stmt"}
  PROVE  PInv' /\ ~ InVariables
<1>1. <<>> \in Seq(Plain) /\ left = <<>> \o left
  <2>1. left \in Seq(Items)
    BY Taken DEF PInv
  <2> QED
    BY <2>1, ConcatEmptySeq, EmptySeq
<1> QED
  BY <1>1, GoesElsewhere

(* A step of a round is done. *)
LEMMA StepDone ==
  ASSUME PInv, todo # <<>>, Now.do \in RoundSteps, todo' = Rest, context' = context
  PROVE  PInv' /\ (InVariables => InVariables')
<1>1. Rest \in Seq(Items) /\ Placed(Rest)
  BY Taken
<1>2. Placed(todo)'
  BY <1>1 DEF Placed, ItemPlaced
<1>3. \A c \in Lists \cap context : Inside(Rest, c)
  BY InRound DEF Inside
<1>4. \A c \in Lists \cap context' : Inside(todo, c)'
  BY <1>3 DEF Inside
<1>5. InVariables => InVariables'
  BY InRound DEF InVariables
<1> QED
  BY <1>1, <1>2, <1>4, <1>5 DEF PInv

(* An error unwinds what is left to do. *)
LEMMA Panics ==
  ASSUME PInv, todo # <<>>, Now.do \notin {"variables", "enter", "pop"},
         todo' = Unwound(Rest), context' = context
  PROVE  PInv' /\ (InVariables => InVariables')
<1>1. Rest \in Seq(Items) /\ Placed(Rest)
  BY Taken
<1>2. PICK t : t = Unwound(Rest)
  OBVIOUS
<1>3. /\ t \in Seq(Items) /\ Placed(t)
      /\ \A m \in DOMAIN Rest : Rest[m].do = "variables" => 1 \in DOMAIN t /\ t[1] = Rest[m]
  BY <1>1, <1>2, Unwinds
<1>4. Placed(todo)'
  BY <1>2, <1>3 DEF Placed, ItemPlaced
<1>5. ASSUME NEW c \in Lists \cap context PROVE Inside(t, c)
  <2>1. Now.do \in RoundSteps
    BY Outside
  <2>2. PICK k \in DOMAIN Rest : Rest[k].do = "variables" /\ ContextOf(Rest[k]) = c
    BY <2>1, InRound
  <2> QED
    BY <1>3, <2>2 DEF Inside
<1>6. \A c \in Lists \cap context' : Inside(todo, c)'
  BY <1>2, <1>5 DEF Inside
<1>7. InVariables => InVariables'
  <2>1. ASSUME NEW k \in DOMAIN todo, todo[k].do = "variables" PROVE Now.do \in RoundSteps
    <3>1. k # 1 /\ k \in DOMAIN todo /\ DOMAIN todo = 1..Len(todo) /\ Len(todo) \in Nat
      BY <2>1, Taken
    <3>2. 1 \in 1..k - 1
      BY <3>1
    <3> QED
      BY <2>1, <3>2, Taken DEF PInv, Placed, ItemPlaced
  <2>2. ASSUME InVariables PROVE InVariables'
    <3>1. Now.do \in RoundSteps
      BY <2>1, <2>2 DEF InVariables
    <3>2. PICK k \in DOMAIN Rest : Rest[k].do = "variables"
      BY <2>2, <3>1, InRound
    <3>3. 1 \in DOMAIN t /\ t[1].do = "variables"
      BY <1>3, <3>2
    <3> QED
      BY <1>2, <3>3 DEF InVariables
  <2> QED
    BY <2>2
<1> QED
  BY <1>2, <1>3, <1>4, <1>6, <1>7 DEF PInv

-----------------------------------------------------------------------------
(* Items and sequences of them *)

(* Sequences of a few members. *)
LEMMA Tuples ==
  ASSUME NEW S, NEW a \in S, NEW b \in S, NEW c \in S, NEW d \in S
  PROVE  /\ <<a>> \in Seq(S) /\ <<a, b>> \in Seq(S) /\ <<a, b, c>> \in Seq(S) /\ <<a, b, c, d>> \in Seq(S)
OBVIOUS

(* The items that have nothing to do with lists, *)
LEMMA Forms ==
  /\ \A w \in Words : Need(w) \in Single
  /\ \A ws \in SUBSET Words : Expect(ws) \in Single
  /\ \A d \in {"type", "value", "expression", "infix", "term", "named", "skipBrace", "statements"} :
       Simple(d) \in Single
  /\ \A any \in BOOLEAN : [do |-> "arguments", any |-> any] \in Single
  /\ \A d \in {"classBody", "subBody"}, seen \in BOOLEAN : Body(d, seen) \in OtherLoops \cap Single
  /\ \A loop \in OtherLoops : Enter(loop) \in Single /\ loop \in Single
  /\ \A c \in {"class", "sub", "stmt"} : Push(c) \in Single /\ Pop(c) \in Single
  /\ \A w \in Words, then \in Seq(Single) : Optional(w, then) \in Plain
  /\ Single \subseteq Plain /\ Plain \subseteq Items /\ Simple("statements") \in OtherLoops
<1>1. \A ws \in SUBSET Words : Expect(ws) \in Single
  BY DEF Expect, Single
<1>2. \A w \in Words : Need(w) \in Single
  BY <1>1 DEF Need
<1>3. Simple("statements") \in OtherLoops /\ OtherLoops \subseteq Single
  BY DEF OtherLoops, Single
<1>4. \A d \in {"type", "value", "expression", "infix", "term", "named", "skipBrace"} : Simple(d) \in Single
  BY DEF Single
<1>5. \A any \in BOOLEAN : [do |-> "arguments", any |-> any] \in Single
  BY DEF Single
<1>6. \A d \in {"classBody", "subBody"}, seen \in BOOLEAN : Body(d, seen) \in OtherLoops
  BY DEF Body, OtherLoops
<1>7. \A loop \in OtherLoops : Enter(loop) \in Single
  BY DEF Enter, Single
<1>8. \A c \in {"class", "sub", "stmt"} : Push(c) \in Single /\ Pop(c) \in Single
  BY DEF Push, Pop, Single
<1>9. \A w \in Words, then \in Seq(Single) : Optional(w, then) \in Plain
  BY DEF Optional, Plain
<1>10. Single \subseteq Plain /\ Plain \subseteq Items
  BY DEF Plain, Items
<1> QED
  BY <1>1, <1>2, <1>3, <1>4, <1>5, <1>6, <1>7, <1>8, <1>9, <1>10

(* and those that have. *)
LEMMA ListForms ==
  /\ \A c \in Lists : Push(c) \in Items /\ Pop(c) \in Items /\ ListOf(c) \in Items
                      /\ Variables(EndOf(c)) \in ListLoops /\ ContextOf(Variables(EndOf(c))) = c
  /\ ListLoops \subseteq Items /\ Simple("declared") \in Items /\ Simple("sync") \in Items
<1>1. \A c \in Lists : Push(c) \in Items /\ Pop(c) \in Items
  BY DEF Push, Pop, ListItems, Items
<1>2. \A c \in Lists : ListOf(c) \in Items
  BY DEF ListItems, Items
<1>3. \A c \in Lists : Variables(EndOf(c)) \in ListLoops /\ ContextOf(Variables(EndOf(c))) = c
  BY DEF Lists, EndOf, Variables, ListLoops, ContextOf
<1> QED
  BY <1>1, <1>2, <1>3 DEF ListItems, Items

(* What the fields of an item are. *)
LEMMA Fields ==
  ASSUME NEW i \in Items
  PROVE  /\ i.do = "optional" => i.then \in Seq(Single)
         /\ i.do = "arguments" => [i EXCEPT !.any = TRUE] \in Single
         /\ i.do = "enter" =>
              \/ i.loop \in OtherLoops /\ i = Enter(i.loop)
              \/ \E c \in Lists : i = ListOf(c) /\ i.loop = Variables(EndOf(c))
         /\ i.do = "push" =>
              \/ i.context \in {"class", "sub", "stmt"}
              \/ \E c \in Lists : i = Push(c) /\ i.context = c
         /\ i.do = "pop" =>
              \/ i.context \in {"class", "sub", "stmt"} /\ \A c \in Lists : i # Pop(c)
              \/ \E c \in Lists : i = Pop(c) /\ i.context = c
         /\ i.do \in {"classBody", "subBody"} => i \in Single
<1>1. CASE i \in [do : {"enter"}, loop : OtherLoops]
  BY <1>1 DEF Enter
<1>2. CASE i \in OtherLoops
  BY <1>2 DEF OtherLoops, Simple, Single
<1>3. CASE i \in {Simple(d) : d \in {"type", "value", "expression", "infix", "term", "named", "skipBrace",
                                     "declared", "sync"}}
  BY <1>3 DEF Simple
<1>4. CASE i \in [do : {"push", "pop"}, context : {"class", "sub", "stmt"}]
  BY <1>4 DEF Lists, Pop
<1>5. CASE i \in [do : {"expect"}, words : SUBSET Words] \cup
      [do : {"optional"}, words : SUBSET Words, then : Seq(Single)]
                 \cup ListLoops
  BY <1>5 DEF ListLoops
<1>6. CASE i \in [do : {"arguments"}, any : BOOLEAN]
  <2>1. [i EXCEPT !.any = TRUE] \in [do : {"arguments"}, any : BOOLEAN]
    BY <1>6
  <2> QED
    BY <1>6, <2>1 DEF Single
<1>7. CASE i \in [do : {"push", "pop"}, context : Lists]
  <2>1. i.context \in Lists /\ i = [do |-> i.do, context |-> i.context]
    BY <1>7
  <2>2. CASE i.do = "push"
    <3>1. i = Push(i.context)
      BY <2>1, <2>2 DEF Push
    <3> QED
      BY <2>1, <2>2, <3>1
  <2>3. CASE i.do = "pop"
    <3>1. i = Pop(i.context)
      BY <2>1, <2>3 DEF Pop
    <3> QED
      BY <2>1, <2>3, <3>1
  <2> QED
    BY <1>7, <2>2, <2>3
<1>8. CASE i \in {ListOf(c) : c \in Lists}
  BY <1>8 DEF ListOf, Enter
<1> QED
  BY <1>1, <1>2, <1>3, <1>4, <1>5, <1>6, <1>7, <1>8 DEF Items, Plain, Single, ListItems

(* When an item is where it may be. *)
LEMMA PlacedItem ==
  ASSUME NEW s, NEW k
  PROVE  /\ s[k].do \notin {"push", "enter", "variables", "declared", "sync"} => ItemPlaced(s, k)
         /\ s[k] \in Plain => ItemPlaced(s, k)
         /\ \A c \in Lists : s[k] = Push(c) /\ k + 1 \in DOMAIN s /\ s[k + 1] = ListOf(c) => ItemPlaced(s, k)
         /\ \A c \in Lists : s[k] = ListOf(c) /\ k + 1 \in DOMAIN s /\ s[k + 1] = Pop(c) => ItemPlaced(s, k)
<1>1. \A c \in Lists : /\ Push(c).do = "push" /\ Push(c).context = c
                       /\ ListOf(c).do = "enter" /\ ListOf(c).loop.end = EndOf(c)
  BY DEF Push, ListOf, Enter, Variables
<1>2. \A c, e \in Lists : EndOf(c) = EndOf(e) => c = e
  BY DEF EndOf, Lists
<1>3. s[k].do \notin {"push", "enter", "variables", "declared", "sync"} => ItemPlaced(s, k)
  BY <1>1 DEF ItemPlaced
<1>4. s[k] \in Plain => ItemPlaced(s, k)
  BY ItemKinds DEF ItemPlaced, Items
<1>5. ASSUME NEW c \in Lists, s[k] = Push(c), k + 1 \in DOMAIN s, s[k + 1] = ListOf(c)
      PROVE  ItemPlaced(s, k)
  <2>1. s[k].do = "push" /\ s[k].context = c
    BY <1>1, <1>5
  <2>2. \A e \in Lists : s[k] = Push(e) => e = c
    BY <1>1, <2>1
  <2>3. \A e \in Lists : s[k] # ListOf(e)
    BY <1>1, <2>1
  <2> QED
    BY <1>5, <2>1, <2>2, <2>3 DEF ItemPlaced
<1>6. ASSUME NEW c \in Lists, s[k] = ListOf(c), k + 1 \in DOMAIN s, s[k + 1] = Pop(c)
      PROVE  ItemPlaced(s, k)
  <2>1. s[k].do = "enter" /\ s[k].loop.end = EndOf(c)
    BY <1>1, <1>6
  <2>2. \A e \in Lists : s[k] = ListOf(e) => e = c
    BY <1>1, <1>2, <2>1
  <2>3. \A e \in Lists : s[k] # Push(e)
    BY <1>1, <2>1
  <2> QED
    BY <1>6, <2>1, <2>2, <2>3 DEF ItemPlaced
<1> QED
  BY <1>3, <1>4, <1>5, <1>6

(* VarDec and Subroutine: the only items that enter a list. *)
LEMMA VarDecPlaced ==
  ASSUME NEW w \in Words
  PROVE  VarDec(w) \in Seq(Items) /\ Placed(VarDec(w))
<1>1. Need(w) \in Items /\ Simple("type") \in Items /\ Need(";") \in Items
  <2>1. ";" \in Words
    BY DEF Words
  <2> QED
    BY <2>1, Forms
<1>2. Push("var") \in Items /\ ListOf("var") \in Items /\ Pop("var") \in Items
  BY ListForms DEF Lists
<1>3. PICK s : s = VarDec(w)
  OBVIOUS
<1>4. s = <<Need(w), Simple("type"), Push("var"), ListOf("var"), Pop("var"), Need(";")>>
  BY <1>3 DEF VarDec, ListOf, EndOf
<1>5. PICK a \in Items : a = Need(w)
  BY <1>1
<1>6. PICK b \in Items : b = Simple("type")
  BY <1>1
<1>7. PICK c \in Items : c = Push("var")
  BY <1>2
<1>8. PICK d \in Items : d = ListOf("var")
  BY <1>2
<1>9. PICK e \in Items : e = Pop("var")
  BY <1>2
<1>10. PICK f \in Items : f = Need(";")
  BY <1>1
<1>11. s = <<a, b, c, d, e, f>>
  BY <1>4, <1>5, <1>6, <1>7, <1>8, <1>9, <1>10
<1>12. s \in Seq(Items) /\ DOMAIN s = 1..6
  BY <1>11
<1>13. s[1] = a /\ s[2] = b /\ s[3] = c /\ s[4] = d /\ s[5] = e /\ s[6] = f
  BY <1>11
<1>14. a.do = "expect" /\ b.do = "type" /\ e.do = "pop" /\ f.do = "expect"
  BY <1>5, <1>6, <1>9, <1>10 DEF Need, Expect, Simple, Pop
<1>15. ItemPlaced(s, 3) /\ ItemPlaced(s, 4)
  <2>1. "var" \in Lists /\ 3 + 1 = 4 /\ 4 + 1 = 5 /\ 4 \in DOMAIN s /\ 5 \in DOMAIN s
    BY <1>12 DEF Lists
  <2>2. s[3] = Push("var") /\ s[4] = ListOf("var") /\ s[5] = Pop("var")
    BY <1>7, <1>8, <1>9, <1>13
  <2> QED
    BY <2>1, <2>2, PlacedItem
<1>16. ASSUME NEW k \in {1, 2, 5, 6} PROVE ItemPlaced(s, k)
  <2>1. s[k].do \in {"expect", "type", "pop"}
    BY <1>13, <1>14
  <2> QED
    BY <2>1, PlacedItem
<1>17. DOMAIN s = {1, 2, 3, 4, 5, 6}
  BY <1>12
<1> QED
  BY <1>3, <1>12, <1>15, <1>16, <1>17 DEF Placed

(* The parameter list of a subroutine is entered and left in order. *)
LEMMA SubroutinePlaced == Subroutine \in Seq(Items) /\ Placed(Subroutine)
<1>1. PICK s : s = Subroutine
  OBVIOUS
<1>2. /\ Push("sub") \in Plain /\ Pop("sub") \in Plain /\ Enter(Body("subBody", FALSE)) \in Plain
      /\ \A w \in {"native", "routine", "name", "(", ")", "{", "}"} : Need(w) \in Plain
      /\ Expect(Types \cup {"void"}) \in Plain
  BY Forms DEF Words, Types
<1>3. Optional("native", <<Need("native")>>) \in Plain
  <2>1. "native" \in Words
    BY DEF Words
  <2>2. <<Need("native")>> \in Seq(Single)
    BY <2>1, Forms, Tuples
  <2> QED
    BY <2>1, <2>2, Forms
<1>4. Push("param") \in Items /\ ListOf("param") \in Items /\ Pop("param") \in Items /\ "param" \in Lists
  BY ListForms DEF Lists
<1>5. Plain \subseteq Items
  BY Forms
<1>6. PICK a \in Plain, b \in Plain, c \in Plain, d \in Plain, e \in Plain, f \in Plain :
        a = Push("sub") /\ b = Optional("native", <<Need("native")>>) /\ c = Need("routine")
        /\ d = Expect(Types \cup {"void"}) /\ e = Need("name") /\ f = Need("(")
  BY <1>2, <1>3
<1>7. PICK g \in Items, h \in Items, i \in Items : g = Push("param") /\ h = ListOf("param") /\ i = Pop("param")
  BY <1>4
<1>8. PICK j \in Plain, k \in Plain, l \in Plain, m \in Plain, n \in Plain :
        j = Need(")") /\ k = Need("{") /\ l = Enter(Body("subBody", FALSE)) /\ m = Pop("sub") /\ n = Need("}")
  BY <1>2
<1>9. s = <<a, b, c, d, e, f, g, h, i, j, k, l, m, n>>
  <2>1. ListOf("param") = Enter(Variables(")"))
    BY DEF ListOf, EndOf
  <2> QED
    BY <1>1, <1>6, <1>7, <1>8, <2>1 DEF Subroutine
<1>10. s \in Seq(Items) /\ DOMAIN s = 1..14
  BY <1>5, <1>9
<1>11. /\ s[1] = a /\ s[2] = b /\ s[3] = c /\ s[4] = d /\ s[5] = e /\ s[6] = f /\ s[7] = g
       /\ s[8] = h /\ s[9] = i /\ s[10] = j /\ s[11] = k /\ s[12] = l /\ s[13] = m /\ s[14] = n
  BY <1>9
<1>12. ItemPlaced(s, 7) /\ ItemPlaced(s, 8)
  <2>1. 7 + 1 = 8 /\ 8 + 1 = 9 /\ 8 \in DOMAIN s /\ 9 \in DOMAIN s
    BY <1>10
  <2>2. s[7] = Push("param") /\ s[8] = ListOf("param") /\ s[9] = Pop("param")
    BY <1>7, <1>11
  <2> QED
    BY <1>4, <2>1, <2>2, PlacedItem
<1>13. ItemPlaced(s, 9)
  <2>1. s[9].do = "pop"
    BY <1>7, <1>11 DEF Pop
  <2> QED
    BY <2>1, PlacedItem
<1>14. ASSUME NEW x \in {1, 2, 3, 4, 5, 6, 10, 11, 12, 13, 14} PROVE ItemPlaced(s, x)
  <2>1. s[x] \in Plain
    BY <1>11
  <2> QED
    BY <2>1, PlacedItem
<1>15. DOMAIN s = {1, 2, 3, 4, 5, 6, 7, 8, 9, 10, 11, 12, 13, 14}
  BY <1>10
<1> QED
  BY <1>1, <1>10, <1>12, <1>13, <1>14, <1>15 DEF Placed

(* The sequences that statements are put together from, *)
LEMMA Pieces ==
  /\ \A w \in Words : Need(w) \in Single /\ <<Need(w)>> \in Seq(Single)
  /\ Simple("expression") \in Single /\ Condition \in Seq(Single) /\ Index \in Seq(Single)
  /\ Statements \in Seq(Single) /\ Block \in Seq(Single)
  /\ Arguments \in Seq(Single) /\ Tail(Call) \in Seq(Plain) /\ Call \in Seq(Plain)
<1>1. {"(", ")", "[", "]", "{", "}", ".", "name"} \subseteq Words
  BY DEF Words
<1>2. \A w \in Words : Need(w) \in Single /\ <<Need(w)>> \in Seq(Single)
  BY Forms, Tuples
<1>3. Simple("expression") \in Single /\ Single \subseteq Plain
  BY Forms
<1>4. Condition \in Seq(Single) /\ Index \in Seq(Single)
  BY <1>1, <1>2, <1>3, Tuples DEF Condition, Index
<1>5. Statements \in Seq(Single)
  <2>1. Push("stmt") \in Single /\ Enter(Simple("statements")) \in Single
    BY Forms
  <2> QED
    BY <2>1, Tuples DEF Statements
<1>6. Block \in Seq(Single)
  BY <1>1, <1>2, <1>5, ConcatProperties DEF Block
<1>7. Arguments \in Seq(Single)
  <2>1. [do |-> "arguments", any |-> FALSE] \in Single
    BY Forms
  <2> QED
    BY <1>1, <1>2, <2>1, Tuples DEF Arguments
<1>8. Call \in Seq(Plain) /\ Tail(Call) \in Seq(Plain)
  <2>1. <<Need("."), Need("name")>> \in Seq(Single)
    BY <1>1, <1>2, Tuples
  <2>2. Optional(".", <<Need("."), Need("name")>>) \in Plain
    BY <1>1, <2>1, Forms
  <2>3. <<Need("name"), Optional(".", <<Need("."), Need("name")>>)>> \in Seq(Plain)
    BY <1>1, <1>2, <1>3, <2>2, Tuples
  <2>4. Arguments \in Seq(Plain)
    BY <1>3, <1>7, SeqMonotonic
  <2>5. Call \in Seq(Plain) /\ Len(Call) = 2 + Len(Arguments) /\ Len(Arguments) \in Nat
    BY <2>3, <2>4, ConcatProperties DEF Call
  <2>6. Call # <<>>
    BY <2>5
  <2> QED
    BY <2>5, <2>6, HeadTailProperties
<1> QED
  BY <1>2, <1>3, <1>4, <1>5, <1>6, <1>7, <1>8

(* and the statements: none of them opens a list itself. *)
LEMMA StatementPlain ==
  ASSUME NEW w \in StatementStart
  PROVE  Statement(w) \in Seq(Plain)
<1>1. {"let", "name", "if", "while", "do", "return", "[", "=", ";", "else"} \subseteq Words
  BY DEF Words
<1>2. Single \subseteq Plain /\ \A v \in Words : Need(v) \in Plain /\ <<Need(v)>> \in Seq(Plain)
  <2>1. Single \subseteq Plain
    BY Forms
  <2> QED
    BY <2>1, Pieces, SeqMonotonic
<1>3. Condition \in Seq(Plain) /\ Block \in Seq(Plain)
  BY <1>2, Pieces, SeqMonotonic
<1>w. \A v \in {"if", "while", "do", "return", ";"} : Need(v) \in Plain /\ <<Need(v)>> \in Seq(Plain)
  BY <1>1, <1>2
<1>4. CASE w = "let"
  <2>1. Optional("[", Index) \in Plain /\ Simple("expression") \in Plain
    BY <1>1, <1>2, Pieces, Forms
  <2>2. Statement(w) = <<Need("let"), Need("name"), Optional("[", Index),
                         Need("="), Simple("expression"), Need(";")>>
    BY <1>4 DEF Statement
  <2>3. Need("let") \in Plain /\ Need("name") \in Plain /\ Need("=") \in Plain /\ Need(";") \in Plain
    BY <1>1, <1>2
  <2>4. PICK a \in Plain, b \in Plain, c \in Plain, d \in Plain, e \in Plain, f \in Plain :
          a = Need("let") /\ b = Need("name") /\ c = Optional("[", Index) /\ d = Need("=")
          /\ e = Simple("expression") /\ f = Need(";")
    BY <2>1, <2>3
  <2>5. Statement(w) = <<a, b, c, d, e, f>>
    BY <2>2, <2>4
  <2> QED
    BY <2>5
<1>5. CASE w = "if"
  <2>1. <<Need("else")>> \o Block \in Seq(Single)
    BY <1>1, Pieces, ConcatProperties
  <2>2. <<Optional("else", <<Need("else")>> \o Block)>> \in Seq(Plain)
    BY <1>1, <2>1, Forms, Tuples
  <2>3. Statement(w) = <<Need("if")>> \o Condition \o Block \o <<Optional("else", <<Need("else")>> \o Block)>>
    BY <1>5 DEF Statement
  <2>4. <<Need("if")>> \o Condition \in Seq(Plain)
    BY <1>3, <1>w, ConcatProperties
  <2>5. <<Need("if")>> \o Condition \o Block \in Seq(Plain)
    BY <1>3, <2>4, ConcatProperties
  <2>6. <<Need("if")>> \o Condition \o Block \o <<Optional("else", <<Need("else")>> \o Block)>> \in Seq(Plain)
    BY <2>2, <2>5, ConcatProperties
  <2> QED
    BY <2>3, <2>6
<1>6. CASE w = "while"
  <2>1. Statement(w) = <<Need("while")>> \o Condition \o Block
    BY <1>6 DEF Statement
  <2>2. <<Need("while")>> \o Condition \in Seq(Plain)
    BY <1>3, <1>w, ConcatProperties
  <2> QED
    BY <1>3, <2>1, <2>2, ConcatProperties
<1>7. CASE w = "do"
  <2>1. Statement(w) = <<Need("do")>> \o Call \o <<Need(";")>>
    BY <1>7 DEF Statement
  <2>2. Call \in Seq(Plain) /\ <<Need("do")>> \in Seq(Plain) /\ <<Need(";")>> \in Seq(Plain)
    BY <1>w, Pieces
  <2>3. <<Need("do")>> \o Call \in Seq(Plain)
    BY <2>2, ConcatProperties
  <2>4. (<<Need("do")>> \o Call) \o <<Need(";")>> \in Seq(Plain)
    BY <2>2, <2>3, ConcatProperties
  <2> QED
    BY <2>1, <2>4
<1>8. CASE w = "return"
  <2>1. Statement(w) = <<Need("return"), Simple("value"), Need(";")>>
    BY <1>8 DEF Statement
  <2>2. Simple("value") \in Plain
    BY <1>2, Forms
  <2> QED
    BY <1>w, <2>1, <2>2, Tuples
<1> QED
  BY <1>4, <1>5, <1>6, <1>7, <1>8 DEF StatementStart

-----------------------------------------------------------------------------
(* The steps *)

(* The panic of NeverPanics: a list is left, in panic. *)
LeftInPanic == InVariables /\ ~ InVariables' /\ panic'

(* A step of a round, done or failed, leaves no list in panic. *)
LEMMA RoundStepDone ==
  ASSUME PInv, todo # <<>>, Now.do \in RoundSteps, todo' \in {Rest, Unwound(Rest)}, context' = context
  PROVE  PInv' /\ ~ LeftInPanic
<1>1. Now.do \notin {"variables", "enter", "pop"}
  BY DEF RoundSteps
<1> QED
  BY <1>1, StepDone, Panics DEF LeftInPanic

(* Nor does a step of an expression. *)
LEMMA ExpressionStepDone ==
  ASSUME PInv, todo # <<>>,
         Now.do \in {"value", "expression", "infix", "term", "named", "arguments", "optional", "skipBrace"},
         \/ todo' \in {Rest, todo, Unwound(Rest)}
         \/ \E p \in Seq(Plain), left \in {Rest, todo} : todo' = p \o left,
         context' = context
  PROVE  PInv' /\ ~ LeftInPanic
<1>1. Now.do \notin {"variables", "enter", "pop"} /\ Now.do \notin RoundSteps \cup {"variables", "enter", "pop"}
  BY DEF RoundSteps
<1>2. CASE todo' \in {Rest, todo}
  BY <1>1, <1>2, GoesBack DEF LeftInPanic
<1>3. CASE todo' = Unwound(Rest)
  BY <1>1, <1>3, Panics DEF LeftInPanic
<1>4. ASSUME NEW p \in Seq(Plain), NEW left \in {Rest, todo}, todo' = p \o left
      PROVE  PInv' /\ ~ LeftInPanic
  BY <1>1, <1>4, GoesElsewhere DEF LeftInPanic
<1> QED
  BY <1>2, <1>3, <1>4

(* The actions that take a word, or skip one, *)
LEMMA WordSteps ==
  ASSUME PInv, DoExpect \/ DoType \/ SyncSkip \/ SyncDone
  PROVE  PInv' /\ ~ LeftInPanic
<1>1. CASE DoExpect
  <2>1. todo # <<>> /\ Now.do \in RoundSteps /\ todo' \in {Rest, Unwound(Rest)} /\ context' = context
    BY <1>1 DEF DoExpect, Doing, RoundSteps, Continue, Panic
  <2> QED
    BY <2>1, RoundStepDone
<1>2. CASE DoType
  <2>1. todo # <<>> /\ Now.do \in RoundSteps /\ todo' \in {Rest, Unwound(Rest)} /\ context' = context
    BY <1>2 DEF DoType, Doing, RoundSteps, Continue, Panic
  <2> QED
    BY <2>1, RoundStepDone
<1>3. CASE SyncSkip
  <2>1. todo # <<>> /\ todo' = todo /\ context' = context
    BY <1>3 DEF SyncSkip, Doing, Continue
  <2> QED
    BY <2>1 DEF PInv, LeftInPanic, InVariables, Placed, ItemPlaced, Inside
<1>4. CASE SyncDone
  <2>1. todo # <<>> /\ Now.do \in RoundSteps /\ todo' \in {Rest, Unwound(Rest)} /\ context' = context
    BY <1>4 DEF SyncDone, Doing, RoundSteps
  <2> QED
    BY <2>1, RoundStepDone
<1> QED
  BY <1>1, <1>2, <1>3, <1>4

(* and those of expressions and optional parts. *)
LEMMA ExpressionSteps ==
  ASSUME PInv, DoOptional \/ DoValue \/ DoExpression \/ DoInfix \/ DoTerm \/ DoNamed \/ DoArguments \/ SkipBrace
  PROVE  PInv' /\ ~ LeftInPanic
<1>1. Single \subseteq Plain /\ Seq(Single) \subseteq Seq(Plain)
  <2>1. Single \subseteq Plain
    BY Forms
  <2> QED
    BY <2>1, SeqMonotonic
<1>2. {")", ",", ";"} \subseteq Words
  BY DEF Words
<1>3. /\ \A d \in {"expression", "term", "infix", "named"} : Simple(d) \in Plain /\ <<Simple(d)>> \in Seq(Plain)
      /\ <<Simple("term"), Simple("infix")>> \in Seq(Plain) /\ <<Simple("expression"), Need(")")>> \in Seq(Plain)
  <2>1. \A d \in {"expression", "term", "infix", "named"} : Simple(d) \in Plain
    BY <1>1, Forms
  <2>2. Need(")") \in Plain
    BY <1>1, <1>2, Forms
  <2> QED
    BY <2>1, <2>2, Tuples
<1>4. CASE DoOptional
  <2>1. todo # <<>> /\ Now.do = "optional" /\ todo' \in {Rest, Now.then \o Rest} /\ context' = context
    BY <1>4 DEF DoOptional, Doing, Continue
  <2>2. Now.then \in Seq(Plain)
    BY <1>1, <2>1, Taken, Fields
  <2> QED
    BY <2>1, <2>2, ExpressionStepDone
<1>5. CASE DoValue
  <2>1. todo # <<>> /\ Now.do = "value" /\ todo' \in {Rest, <<Simple("expression")>> \o Rest} /\ context' = context
    BY <1>5 DEF DoValue, Doing, Continue
  <2> QED
    BY <1>3, <2>1, ExpressionStepDone
<1>6. CASE DoExpression
  <2>1. todo # <<>> /\ Now.do = "expression" /\ todo' = <<Simple("term"), Simple("infix")>> \o Rest /\
        context' = context
    BY <1>6 DEF DoExpression, Doing, Continue
  <2> QED
    BY <1>3, <2>1, ExpressionStepDone
<1>7. CASE DoInfix
  <2>1. todo # <<>> /\ Now.do = "infix" /\ todo' \in {Rest, <<Simple("term")>> \o todo} /\ context' = context
    BY <1>7 DEF DoInfix, Doing, Continue
  <2> QED
    BY <1>3, <2>1, ExpressionStepDone
<1>8. CASE DoTerm
  <2>1. /\ todo # <<>> /\ Now.do = "term" /\ context' = context
        /\ todo' \in {Rest, todo, Unwound(Rest), <<Simple("named")>> \o Rest,
           <<Simple("expression"), Need(")")>> \o Rest}
    BY <1>8 DEF DoTerm, Doing, Continue, Panic
  <2> QED
    BY <1>3, <2>1, ExpressionStepDone
<1>9. CASE DoNamed
  <2>1. todo # <<>> /\ Now.do = "named" /\ todo' \in {Rest, Index \o Rest, Tail(Call) \o Rest} /\ context' = context
    BY <1>9 DEF DoNamed, Doing, Continue
  <2>2. Index \in Seq(Plain) /\ Tail(Call) \in Seq(Plain)
    BY <1>1, Pieces
  <2> QED
    BY <2>1, <2>2, ExpressionStepDone
<1>10. CASE DoArguments
  <2>1. PICK i : i = [Now EXCEPT !.any = TRUE]
    OBVIOUS
  <2>2. PICK comma : comma = IF Now.any THEN <<Need(",")>> ELSE <<>>
    OBVIOUS
  <2>3. /\ todo # <<>> /\ Now.do = "arguments" /\ context' = context
        /\ todo' \in {Rest, comma \o <<Simple("expression"), i>> \o Rest}
    BY <1>10, <2>1, <2>2 DEF DoArguments, Doing, Continue
  <2>4. i \in Plain
    BY <1>1, <2>1, <2>3, Taken, Fields
  <2>5. <<Simple("expression"), i>> \in Seq(Plain) /\ comma \in Seq(Plain)
    <3>1. <<Need(",")>> \in Seq(Plain)
      BY <1>1, <1>2, Pieces
    <3>2. <<>> \in Seq(Plain)
      OBVIOUS
    <3>3. <<Simple("expression"), i>> \in Seq(Plain)
      BY <1>3, <2>4, Tuples
    <3> QED
      BY <2>2, <3>1, <3>2, <3>3
  <2>6. comma \o <<Simple("expression"), i>> \in Seq(Plain)
    BY <2>5, ConcatProperties
  <2> QED
    BY <2>3, <2>6, ExpressionStepDone
<1>11. CASE SkipBrace
  <2>1. todo # <<>> /\ Now.do = "skipBrace" /\ todo' = Rest /\ context' = context
    BY <1>11 DEF SkipBrace, Doing, Continue
  <2> QED
    BY <2>1, ExpressionStepDone
<1> QED
  BY <1>4, <1>5, <1>6, <1>7, <1>8, <1>9, <1>10, <1>11

(* Steps of a round in front of the loop of a list, behind which it is left. *)
LEMMA RoundPlaced ==
  ASSUME NEW p \in Seq(Items),
         \A k \in DOMAIN p : p[k].do \in {"expect", "type"} \/ (p[k].do = "declared" /\ k = Len(p)),
         NEW l \in ListLoops, NEW t \in Seq(Items), Placed(t), 1 \in DOMAIN t, t[1] = Pop(ContextOf(l)),
         \A k \in DOMAIN t : t[k].do \notin {"variables", "sync"}
  PROVE  /\ p \o <<l>> \o t \in Seq(Items) /\ Placed(p \o <<l>> \o t)
         /\ Len(p) + 1 \in DOMAIN (p \o <<l>> \o t) /\ (p \o <<l>> \o t)[Len(p) + 1] = l
<1> DEFINE u == p \o <<l>> \o t
<1>1. l \in Items /\ l.do = "variables" /\ <<l>> \in Seq(Items) /\ Len(<<l>>) = 1 /\ <<l>>[1] = l
  <2>1. l \in Items
    BY ListForms
  <2>2. l.do = "variables"
    BY DEF ListLoops
  <2>3. <<l>> \in Seq(Items)
    BY <2>1, Tuples
  <2> QED
    BY <2>1, <2>2, <2>3
<1>2. Len(p) \in Nat /\ DOMAIN p = 1..Len(p) /\ Len(t) \in Nat /\ DOMAIN t = 1..Len(t)
  OBVIOUS
<1>3. /\ p \o <<l>> \in Seq(Items) /\ Len(p \o <<l>>) = Len(p) + 1
      /\ \A i \in 1..Len(p) + 1 : (p \o <<l>>)[i] = IF i <= Len(p) THEN p[i] ELSE <<l>>[i - Len(p)]
  BY <1>1, ConcatProperties
<1>4. /\ u \in Seq(Items) /\ Len(u) = Len(p) + 1 + Len(t)
      /\ \A i \in 1..Len(p) + 1 + Len(t) :
           u[i] = IF i <= Len(p) + 1 THEN (p \o <<l>>)[i] ELSE t[i - (Len(p) + 1)]
  BY <1>3, ConcatProperties
<1>5. DOMAIN u = 1..Len(p) + 1 + Len(t)
  BY <1>4
<1> HIDE DEF u
<1>6. \A k \in 1..Len(p) : k \in DOMAIN u /\ u[k] = p[k]
  BY <1>2, <1>3, <1>4, <1>5
<1>7. Len(p) + 1 \in DOMAIN u /\ u[Len(p) + 1] = l
  <2>1. Len(p) + 1 \in 1..Len(p) + 1 /\ ~ (Len(p) + 1 <= Len(p)) /\ (Len(p) + 1) - Len(p) = 1
    BY <1>2
  <2>2. (p \o <<l>>)[Len(p) + 1] = l
    BY <1>1, <1>3, <2>1
  <2> QED
    BY <1>2, <1>4, <1>5, <2>2
<1>8. \A k \in DOMAIN t : Len(p) + 1 + k \in DOMAIN u /\ u[Len(p) + 1 + k] = t[k]
  BY <1>2, <1>4, <1>5
<1>9. ASSUME NEW k \in 1..Len(p) PROVE ItemPlaced(u, k)
  <2>1. CASE p[k].do \in {"expect", "type"}
    <3>1. u[k].do \in {"expect", "type"}
      BY <1>6, <2>1
    <3> QED
      BY <3>1, PlacedItem
  <2>2. CASE p[k].do = "declared" /\ k = Len(p)
    <3>1. \A c \in Lists : Push(c).do = "push" /\ ListOf(c).do = "enter"
      BY DEF Push, ListOf, Enter
    <3>2. u[k].do = "declared" /\ k + 1 \in DOMAIN u /\ u[k + 1].do = "variables"
      BY <1>1, <1>6, <1>7, <2>2
    <3> QED
      BY <3>1, <3>2 DEF ItemPlaced
  <2> QED
    BY <1>2, <2>1, <2>2
<1>10. ItemPlaced(u, Len(p) + 1)
  <2>1. \A c \in Lists : Push(c).do = "push" /\ ListOf(c).do = "enter"
    BY DEF Push, ListOf, Enter
  <2>2. (Len(p) + 1) + 1 \in DOMAIN u /\ u[(Len(p) + 1) + 1] = Pop(ContextOf(u[Len(p) + 1]))
    BY <1>7, <1>8
  <2>3. \A j \in 1..(Len(p) + 1) - 1 : u[j].do \in RoundSteps
    BY <1>2, <1>6 DEF RoundSteps
  <2> QED
    BY <1>1, <1>7, <2>1, <2>2, <2>3 DEF ItemPlaced
<1>11. ASSUME NEW i \in DOMAIN t PROVE ItemPlaced(u, Len(p) + 1 + i)
  <2>1. ItemPlaced(t, i) /\ u[Len(p) + 1 + i] = t[i] /\ t[i].do \notin {"variables", "sync"}
    BY <1>8 DEF Placed
  <2>2. i + 1 \in DOMAIN t => (Len(p) + 1 + i) + 1 \in DOMAIN u /\ u[(Len(p) + 1 + i) + 1] = t[i + 1]
    <3>1. (Len(p) + 1 + i) + 1 = Len(p) + 1 + (i + 1)
      BY <1>2
    <3> QED
      BY <1>8, <3>1
  <2> QED
    BY <2>1, <2>2 DEF ItemPlaced
<1>12. ASSUME NEW k \in DOMAIN u PROVE ItemPlaced(u, k)
  <2>1. CASE k \in 1..Len(p)
    BY <1>9, <2>1
  <2>2. CASE k = Len(p) + 1
    BY <1>10, <2>2
  <2>3. CASE k > Len(p) + 1
    <3>1. k - (Len(p) + 1) \in DOMAIN t /\ Len(p) + 1 + (k - (Len(p) + 1)) = k
      BY <1>2, <1>5, <2>3
    <3> QED
      BY <1>11, <3>1
  <2> QED
    BY <1>2, <1>5, <2>1, <2>2, <2>3
<1> QED
  BY <1>4, <1>7, <1>12 DEF Placed, u

(* The loop of a list itself, without steps of a round. *)
LEMMA LoopPlaced ==
  ASSUME NEW l \in ListLoops, NEW t \in Seq(Items), Placed(t), 1 \in DOMAIN t, t[1] = Pop(ContextOf(l)),
         \A k \in DOMAIN t : t[k].do \notin {"variables", "sync"}
  PROVE  /\ <<l>> \o t \in Seq(Items) /\ Placed(<<l>> \o t)
         /\ 1 \in DOMAIN (<<l>> \o t) /\ (<<l>> \o t)[1] = l
<1>1. <<>> \in Seq(Items) /\ Len(<<>>) = 0 /\ DOMAIN <<>> = {}
  OBVIOUS
<1>2. <<>> \o <<l>> = <<l>>
  BY ListForms, Tuples, ConcatEmptySeq
<1>3. PICK p : p = <<>>
  OBVIOUS
<1>4. p \in Seq(Items) /\ Len(p) + 1 = 1 /\ DOMAIN p = {} /\ p \o <<l>> = <<l>>
  BY <1>1, <1>2, <1>3
<1>5. /\ p \o <<l>> \o t \in Seq(Items) /\ Placed(p \o <<l>> \o t)
      /\ Len(p) + 1 \in DOMAIN (p \o <<l>> \o t) /\ (p \o <<l>> \o t)[Len(p) + 1] = l
  BY <1>4, RoundPlaced
<1> QED
  BY <1>4, <1>5

(* Entering and leaving: a context is set before the loop of its list, and  *)
(* cleared behind it.                                                      *)
LEMMA ContextSteps ==
  ASSUME PInv, DoPush \/ DoPop \/ DoEnter
  PROVE  PInv' /\ ~ LeftInPanic
<1>1. todo # <<>> /\ Now.do \in {"push", "pop", "enter"} /\ Now.do \notin RoundSteps \cup {"variables"}
  BY DEF DoPush, DoPop, DoEnter, Doing, RoundSteps
<1>2. /\ Rest \in Seq(Items) /\ Placed(Rest) /\ Now \in Items /\ Now = todo[1] /\ ItemPlaced(todo, 1)
      /\ DOMAIN Rest = 1..Len(todo) - 1 /\ \A k \in DOMAIN Rest : Rest[k] = todo[k + 1]
      /\ DOMAIN todo = 1..Len(todo) /\ Len(todo) \in Nat
      /\ ~ InVariables /\ \A c \in Lists \cap context : Now \in {ListOf(c), Pop(c)}
  BY <1>1, Taken, Outside
<1>3. ~ LeftInPanic
  BY <1>2 DEF LeftInPanic
<1>4. \A c \in Lists : /\ Push(c).do = "push" /\ Pop(c).do = "pop" /\ Pop(c).context = c /\ ListOf(c).do = "enter"
                       /\ ListOf(c).loop.do = "variables" /\ ListOf(c).loop.end = EndOf(c)
  BY DEF Push, Pop, ListOf, Enter, Variables
<1>5. ASSUME 2 \in DOMAIN todo PROVE 1 \in DOMAIN Rest /\ Rest[1] = todo[2] /\ Rest # <<>>
  <2>1. 1 \in DOMAIN Rest /\ 1 + 1 = 2
    BY <1>2, <1>5
  <2> QED
    BY <1>2, <2>1
<1>6. CASE DoPush
  <2>1. Now.do = "push" /\ todo' = Rest /\ context' = context \cup {Now.context}
    BY <1>6 DEF DoPush, Doing, Continue
  <2>2. Lists \cap context = {}
    BY <1>2, <1>4, <2>1
  <2>3. Placed(todo)'
    BY <1>2, <2>1 DEF Placed, ItemPlaced
  <2>4. CASE Now.context \in {"class", "sub", "stmt"}
    <3>1. Lists \cap context' = {}
      BY <2>1, <2>2, <2>4 DEF Lists
    <3> QED
      BY <1>2, <1>3, <2>1, <2>3, <3>1 DEF PInv
  <2>5. ASSUME NEW c \in Lists, Now = Push(c), Now.context = c
        PROVE  PInv' /\ ~ LeftInPanic
    <3>1. 2 \in DOMAIN todo /\ todo[2] = ListOf(c)
      BY <1>2, <2>5 DEF ItemPlaced
    <3>2. Rest # <<>> /\ Rest[1] = ListOf(c)
      BY <1>5, <3>1
    <3>3. \A e \in Lists \cap context' : e = c
      BY <2>1, <2>2, <2>5
    <3>4. \A e \in Lists \cap context' : Inside(todo, e)'
      BY <2>1, <3>2, <3>3 DEF Inside
    <3> QED
      BY <1>2, <1>3, <2>1, <2>3, <3>4 DEF PInv
  <2> QED
    BY <1>2, <2>1, <2>4, <2>5, Fields
<1>7. CASE DoPop
  <2>1. Now.do = "pop" /\ todo' = Rest /\ context' = context \ {Now.context}
    BY <1>7 DEF DoPop, Doing, Continue
  <2>2. \A c \in Lists \cap context : Now = Pop(c)
    BY <1>2, <1>4, <2>1
  <2>3. Lists \cap context' = {}
    BY <1>4, <2>1, <2>2
  <2>4. Placed(todo)'
    BY <1>2, <2>1 DEF Placed, ItemPlaced
  <2> QED
    BY <1>2, <1>3, <2>1, <2>3, <2>4 DEF PInv
<1>8. CASE DoEnter
  <2>1. Now.do = "enter" /\ todo' = <<Now.loop>> \o Rest /\ context' = context
    BY <1>8 DEF DoEnter, Doing, Continue
  <2>2. \A c \in Lists \cap context : Now = ListOf(c)
    BY <1>2, <1>4, <2>1
  <2>3. CASE Now.loop \in OtherLoops
    <3>1. Now.loop.do # "variables"
      BY <2>3 DEF OtherLoops, Simple
    <3>2. Lists \cap context' = {}
      BY <1>4, <2>1, <2>2, <3>1
    <3>3. <<Now.loop>> \in Seq(Plain)
      <4>1. Now.loop \in Plain
        BY <2>3, Forms
      <4> QED
        BY <4>1, Tuples
    <3>4. <<Now.loop>> \in Seq(Items) /\ Placed(<<Now.loop>>)
      BY <3>3, PlainPlaced
    <3> QED
      BY <1>1, <1>3, <2>1, <3>2, <3>4, GoesOn
  <2>4. ASSUME NEW c \in Lists, Now = ListOf(c), Now.loop = Variables(EndOf(c))
        PROVE  PInv' /\ ~ LeftInPanic
    <3>1. 2 \in DOMAIN todo /\ todo[2] = Pop(c)
      BY <1>2, <2>4 DEF ItemPlaced
    <3>2. Rest # <<>> /\ 1 \in DOMAIN Rest /\ Rest[1] = Pop(c)
      BY <1>5, <3>1
    <3>3. PICK l \in ListLoops : l = Now.loop /\ ContextOf(l) = c
      BY <2>4, ListForms
    <3>4. l \in Items /\ l.do = "variables"
      BY <3>3, ListForms DEF ListLoops
    <3>5. PICK t : t = <<l>> \o Rest
      OBVIOUS
    <3>6. t \in Seq(Items) /\ Placed(t) /\ 1 \in DOMAIN t /\ t[1] = l
      <4>1. \A k \in DOMAIN Rest : Rest[k].do \notin {"variables", "sync"}
        BY <1>1, Outside
      <4> QED
        BY <1>2, <3>2, <3>3, <3>5, <4>1, LoopPlaced
    <3>7. todo' = t
      BY <2>1, <3>3, <3>5
    <3>8. Placed(todo)'
      BY <3>6, <3>7 DEF Placed, ItemPlaced
    <3>9. \A e \in Lists \cap context' : e = c
      BY <1>4, <2>1, <2>2, <2>4 DEF EndOf, Lists
    <3>10. Inside(t, c)
      BY <3>3, <3>4, <3>6 DEF Inside
    <3>11. \A e \in Lists \cap context' : Inside(todo, e)'
      BY <3>7, <3>9, <3>10 DEF Inside
    <3> QED
      BY <1>3, <3>6, <3>7, <3>8, <3>11 DEF PInv
  <2> QED
    BY <1>2, <2>1, <2>3, <2>4, Fields
<1> QED
  BY <1>6, <1>7, <1>8

(* What is left to do becomes another sequence that is in order. *)
LEMMA StaysPlaced ==
  ASSUME NEW t, Placed(t), todo' = t
  PROVE  Placed(todo)'
BY DEF Placed, ItemPlaced

(* A synchronisation starts in front of a loop. *)
LEMMA SyncPlaced ==
  ASSUME PInv, todo # <<>>, Now.do \in Loops, todo' = <<Simple("sync")>> \o todo, context' = context
  PROVE  PInv' /\ (InVariables => InVariables')
<1> DEFINE u == <<Simple("sync")>> \o todo
<1>1. /\ todo \in Seq(Items) /\ Placed(todo) /\ DOMAIN todo = 1..Len(todo) /\ Len(todo) \in Nat \ {0}
      /\ 1 \in DOMAIN todo /\ Now = todo[1]
  BY Taken DEF PInv
<1>2. Simple("sync") \in Items /\ Simple("sync").do = "sync" /\ <<Simple("sync")>> \in Seq(Items)
  BY ListForms, Tuples DEF Simple
<1>3. /\ u \in Seq(Items) /\ Len(u) = 1 + Len(todo)
      /\ \A k \in 1..1 + Len(todo) : u[k] = IF k <= 1 THEN <<Simple("sync")>>[k] ELSE todo[k - 1]
  BY <1>1, <1>2, ConcatProperties
<1>4. DOMAIN u = 1..1 + Len(todo) /\ u[1] = Simple("sync")
  BY <1>1, <1>3
<1> HIDE DEF u
<1>5. \A k \in DOMAIN todo : k + 1 \in DOMAIN u /\ u[k + 1] = todo[k]
  BY <1>1, <1>3, <1>4
<1>6. ItemPlaced(u, 1)
  <2>1. \A c \in Lists : Push(c).do = "push" /\ ListOf(c).do = "enter"
    BY DEF Push, ListOf, Enter
  <2>2. 2 \in DOMAIN u /\ u[2].do \in Loops
    BY <1>1, <1>5
  <2> QED
    BY <1>2, <1>4, <2>1, <2>2 DEF ItemPlaced
<1>7. ASSUME NEW k \in DOMAIN todo PROVE ItemPlaced(u, k + 1)
  <2>1. ItemPlaced(todo, k) /\ u[k + 1] = todo[k]
    BY <1>1, <1>5 DEF Placed
  <2>2. k + 1 \in DOMAIN todo => (k + 1) + 1 \in DOMAIN u /\ u[(k + 1) + 1] = todo[k + 1]
    BY <1>5
  <2>3. todo[k].do # "sync"
    BY <1>1, <2>1 DEF ItemPlaced, Loops
  <2>4. ASSUME todo[k].do = "variables" PROVE \A j \in 1..(k + 1) - 1 : u[j].do \in RoundSteps
    <3>1. ASSUME NEW j \in 1..(k + 1) - 1, j # 1 PROVE u[j].do \in RoundSteps
      <4>1. j - 1 \in 1..k - 1 /\ j - 1 \in DOMAIN todo /\ (j - 1) + 1 = j
        BY <1>1, <3>1
      <4>2. todo[j - 1].do \in RoundSteps
        BY <2>1, <2>4, <4>1 DEF ItemPlaced
      <4> QED
        BY <1>5, <4>1, <4>2
    <3>2. u[1].do \in RoundSteps
      BY <1>2, <1>4 DEF RoundSteps
    <3> QED
      BY <3>1, <3>2
  <2> QED
    BY <2>1, <2>2, <2>3, <2>4 DEF ItemPlaced
<1>8. Placed(u)
  <2>1. ASSUME NEW k \in DOMAIN u, k # 1 PROVE ItemPlaced(u, k)
    <3>1. k - 1 \in DOMAIN todo /\ (k - 1) + 1 = k
      BY <1>1, <1>4, <2>1
    <3> QED
      BY <1>7, <3>1
  <2> QED
    BY <1>6, <2>1 DEF Placed
<1>9. todo' = u /\ Placed(todo)'
  <2>1. todo' = u
    BY DEF u
  <2> QED
    BY <1>8, <2>1, StaysPlaced
<1>10. ASSUME NEW c \in Lists \cap context PROVE Inside(u, c)
  <2>1. ListOf(c).do = "enter" /\ Pop(c).do = "pop"
    BY DEF ListOf, Enter, Pop
  <2>2. PICK k \in DOMAIN todo : todo[k].do = "variables" /\ ContextOf(todo[k]) = c
    BY <1>1, <2>1 DEF PInv, Inside, Loops
  <2> QED
    BY <1>5, <2>2 DEF Inside
<1>11. \A c \in Lists \cap context' : Inside(todo, c)'
  BY <1>9, <1>10 DEF Inside
<1>12. InVariables => InVariables'
  BY <1>5, <1>9 DEF InVariables
<1> QED
  BY <1>3, <1>9, <1>11, <1>12 DEF PInv

(* The loops of classes, subroutines and statements. *)
LEMMA OtherLoopSteps ==
  ASSUME PInv,
         \/ ClassBodyEnds \/ ClassMember \/ ClassBodyError \/ SubBodyEnds \/ SubMember \/ SubBodyError
         \/ StatementsEnd \/ StatementsReturn \/ OneStatement \/ StatementError
  PROVE  PInv' /\ ~ LeftInPanic
<1>1. /\ todo # <<>> /\ Now.do \in {"classBody", "subBody", "statements"} /\ Now.do \in Loops
      /\ Now.do \notin RoundSteps \cup {"variables", "enter", "pop"}
  BY DEF Doing, ClassBodyEnds, ClassMember, ClassBodyError, SubBodyEnds, SubMember, SubBodyError, StatementsEnd,
         StatementsReturn, OneStatement, StatementError, RoundSteps, Loops
<1>2. Lists \cap context = {} /\ ~ LeftInPanic
  BY <1>1, Outside DEF LeftInPanic
<1>3. CASE ClassBodyEnds \/ SubBodyEnds \/ StatementsEnd \/ StatementsReturn
  <2>1. todo' = Rest /\ context' \subseteq context
    BY <1>3 DEF ClassBodyEnds, SubBodyEnds, StatementsEnd, StatementsReturn, Continue
  <2> QED
    BY <1>1, <2>1, GoesBack DEF LeftInPanic
<1>4. CASE SubBodyError \/ StatementError
  <2>1. todo' = <<Simple("sync")>> \o todo /\ context' = context
    BY <1>4 DEF SubBodyError, StatementError, Synchronize, Continue
  <2> QED
    BY <1>1, <1>2, <2>1, SyncPlaced
<1>5. CASE ClassBodyError
  <2>1. todo' = <<Simple("sync"), Simple("skipBrace")>> \o todo /\ context' = context
    BY <1>5 DEF ClassBodyError, Continue
  <2>2. PICK s : s = <<Simple("sync"), Simple("skipBrace")>>
    OBVIOUS
  <2>3. s \in Seq(Items)
    BY <2>2, ListForms, Forms, Tuples
  <2>4. s[1].do = "sync" /\ s[2].do = "skipBrace" /\ DOMAIN s = {1, 2}
    BY <2>2 DEF Simple
  <2>5. Placed(s)
    <3>1. \A c \in Lists : Push(c).do = "push" /\ ListOf(c).do = "enter"
      BY DEF Push, ListOf, Enter
    <3>2. ItemPlaced(s, 1)
      BY <2>4, <3>1 DEF ItemPlaced
    <3>3. ItemPlaced(s, 2)
      BY <2>4, PlacedItem
    <3> QED
      BY <2>4, <3>2, <3>3 DEF Placed
  <2> QED
    BY <1>1, <1>2, <2>1, <2>2, <2>3, <2>5, GoesOn
<1>6. CASE ClassMember
  <2>1. CASE current = "classVar"
    <3>1. todo' = VarDec("classVar") \o todo /\ context' = context
      BY <1>6, <2>1 DEF ClassMember
    <3>2. VarDec("classVar") \in Seq(Items) /\ Placed(VarDec("classVar"))
      <4>1. "classVar" \in Words
        BY DEF Words
      <4> QED
        BY <4>1, VarDecPlaced
    <3> QED
      BY <1>1, <1>2, <3>1, <3>2, GoesOn
  <2>2. CASE current # "classVar"
    <3>1. todo' = Subroutine \o <<Body("classBody", TRUE)>> \o Rest /\ context' = context
      BY <1>6, <2>2 DEF ClassMember
    <3>2. <<Body("classBody", TRUE)>> \in Seq(Plain)
      <4>1. Body("classBody", TRUE) \in Plain
        BY Forms
      <4> QED
        BY <4>1, Tuples
    <3>3. PICK b : b = <<Body("classBody", TRUE)>>
      OBVIOUS
    <3>4. b \in Seq(Items) /\ Placed(b) /\ \A k \in DOMAIN b : b[k].do \notin {"variables", "sync"}
      <4>1. b \in Seq(Plain)
        BY <3>2, <3>3
      <4>2. \A k \in DOMAIN b : b[k] \in Plain /\ b[k] \in Items
        BY <4>1, Forms
      <4> QED
        BY <4>1, <4>2, PlainPlaced, ItemKinds
    <3>5. Subroutine \o b \in Seq(Items) /\ Placed(Subroutine \o b)
      BY <3>4, SubroutinePlaced, PrefixPlaced
    <3> QED
      BY <1>1, <1>2, <3>1, <3>3, <3>5, GoesOn
  <2> QED
    BY <2>1, <2>2
<1>7. CASE SubMember
  <2>1. CASE current = "var"
    <3>1. todo' = VarDec("var") \o todo /\ context' = context
      BY <1>7, <2>1 DEF SubMember
    <3>2. VarDec("var") \in Seq(Items) /\ Placed(VarDec("var"))
      <4>1. "var" \in Words
        BY DEF Words
      <4> QED
        BY <4>1, VarDecPlaced
    <3> QED
      BY <1>1, <1>2, <3>1, <3>2, GoesOn
  <2>2. CASE current # "var"
    <3>1. todo' = Statements \o <<Body("subBody", TRUE)>> \o Rest /\ context' = context
      BY <1>7, <2>2 DEF SubMember
    <3>2. <<Body("subBody", TRUE)>> \in Seq(Plain) /\ Statements \in Seq(Plain)
      <4>1. Body("subBody", TRUE) \in Plain /\ Single \subseteq Plain
        BY Forms
      <4> QED
        BY <4>1, Tuples, Pieces, SeqMonotonic
    <3>3. Statements \o <<Body("subBody", TRUE)>> \in Seq(Plain)
      BY <3>2, ConcatProperties
    <3> QED
      BY <1>1, <1>2, <3>1, <3>3, GoesElsewhere
  <2> QED
    BY <2>1, <2>2
<1>8. CASE OneStatement
  <2>1. todo' = Statement(current) \o todo /\ context' = context /\ current \in StatementStart
    BY <1>8 DEF OneStatement, Continue
  <2>2. Statement(current) \in Seq(Plain)
    BY <2>1, StatementPlain
  <2> QED
    BY <1>1, <1>2, <2>1, <2>2, GoesElsewhere
<1> QED
  BY <1>3, <1>4, <1>5, <1>6, <1>7, <1>8

(* A round of a list, or a part of it. *)
LEMMA ListGoesOn ==
  ASSUME NEW t \in Seq(Items), Placed(t), NEW k \in DOMAIN t, NEW l \in ListLoops, t[k] = l, l.do = "variables",
         \A c \in Lists \cap context : c = ContextOf(l), todo' = t, context' = context
  PROVE  PInv' /\ ~ LeftInPanic
<1>1. Placed(todo)'
  BY DEF Placed, ItemPlaced
<1>2. \A c \in Lists \cap context : Inside(t, c)
  BY DEF Inside
<1>3. \A c \in Lists \cap context' : Inside(todo, c)'
  BY <1>2 DEF Inside
<1>4. InVariables'
  BY DEF InVariables
<1> QED
  BY <1>1, <1>3, <1>4 DEF PInv, LeftInPanic

(* The marks of a loop change, what it ends at does not. *)
LEMMA LoopMarked ==
  ASSUME NEW i \in ListLoops
  PROVE  /\ [i EXCEPT !.first = FALSE] \in ListLoops /\ ContextOf([i EXCEPT !.first = FALSE]) = ContextOf(i)
         /\ [i EXCEPT !.any = TRUE] \in ListLoops /\ ContextOf([i EXCEPT !.any = TRUE]) = ContextOf(i)
<1>1. [i EXCEPT !.first = FALSE] \in ListLoops
  BY DEF ListLoops
<1>2. [i EXCEPT !.any = TRUE] \in ListLoops
  BY DEF ListLoops
<1>3. [i EXCEPT !.first = FALSE].end = i.end /\ [i EXCEPT !.any = TRUE].end = i.end
  BY DEF ListLoops
<1> QED
  BY <1>1, <1>2, <1>3 DEF ContextOf

(* The domain of a sequence tells its length. *)
LEMMA SameLength ==
  ASSUME NEW n \in Nat, NEW m \in Nat, 1..n = 1..m
  PROVE  n = m
<1>1. n \in 1..n \/ n = 0
  OBVIOUS
<1>2. m \in 1..m \/ m = 0
  OBVIOUS
<1>3. n <= m /\ m <= n
  BY <1>1, <1>2
<1> QED
  BY <1>3

(* The loop of a list: its rounds, its end and its synchronisation. *)
LEMMA ListLoopSteps ==
  ASSUME PInv, VariablesEnd \/ OneVariable \/ Declared \/ VariableError
  PROVE  PInv' /\ ~ LeftInPanic
<1>1. todo # <<>> /\ Now.do \in {"variables", "declared"}
  BY DEF Doing, VariablesEnd, OneVariable, Declared, VariableError
<1>2. /\ Rest \in Seq(Items) /\ Placed(Rest) /\ Now \in Items /\ Now = todo[1] /\ ItemPlaced(todo, 1)
      /\ DOMAIN Rest = 1..Len(todo) - 1 /\ \A k \in DOMAIN Rest : Rest[k] = todo[k + 1] /\ Rest[k].do # "sync"
      /\ DOMAIN todo = 1..Len(todo) /\ Len(todo) \in Nat \ {0} /\ 1 \in DOMAIN todo
  BY <1>1, Taken
<1>3. ASSUME 2 \in DOMAIN todo PROVE 1 \in DOMAIN Rest /\ Rest[1] = todo[2] /\ Rest # <<>>
  <2>1. 1 \in DOMAIN Rest /\ 1 + 1 = 2
    BY <1>2, <1>3
  <2> QED
    BY <1>2, <2>1
<1>4. ASSUME Now.do = "variables"
      PROVE  /\ Now \in ListLoops /\ 1 \in DOMAIN Rest /\ Rest[1] = Pop(ContextOf(Now)) /\ Rest # <<>>
             /\ \A k \in DOMAIN Rest : Rest[k].do \notin {"variables", "sync"}
             /\ \A c \in Lists \cap context : c = ContextOf(Now)
  <2>1. Now \in ListLoops /\ 2 \in DOMAIN todo /\ todo[2] = Pop(ContextOf(Now))
    BY <1>2, <1>4, ItemKinds DEF ItemPlaced
  <2>2. Now.do \notin RoundSteps
    BY <1>4 DEF RoundSteps
  <2>3. \A k \in DOMAIN Rest : Rest[k].do \notin {"variables", "sync"}
    BY <1>1, <2>2, Outside
  <2>4. ASSUME NEW k \in DOMAIN todo, todo[k].do = "variables" PROVE k = 1
    <3>1. ASSUME k # 1 PROVE FALSE
      <4>1. k - 1 \in DOMAIN Rest /\ (k - 1) + 1 = k
        BY <1>2, <3>1
      <4> QED
        BY <1>2, <2>3, <2>4, <4>1
    <3> QED
      BY <3>1
  <2>5. \A c \in Lists : ListOf(c).do = "enter" /\ Pop(c).do = "pop"
    BY DEF ListOf, Enter, Pop
  <2>6. \A c \in Lists \cap context : c = ContextOf(Now)
    BY <1>2, <1>4, <2>4, <2>5 DEF PInv, Inside
  <2> QED
    BY <1>3, <2>1, <2>3, <2>6
<1>5. CASE VariablesEnd
  <2>1. Now.do = "variables" /\ todo' = Rest /\ context' = context /\ ~ panic'
    BY <1>5 DEF VariablesEnd, Doing
  <2>2. \A c \in Lists \cap context : Inside(Rest, c)
    BY <1>4, <2>1 DEF Inside
  <2>3. \A c \in Lists \cap context' : Inside(todo, c)'
    BY <2>1, <2>2 DEF Inside
  <2>4. Placed(todo)'
    BY <1>2, <2>1 DEF Placed, ItemPlaced
  <2> QED
    BY <1>2, <2>1, <2>3, <2>4 DEF PInv, LeftInPanic
<1>6. CASE VariableError
  <2>1. Now.do \in Loops /\ todo' = <<Simple("sync")>> \o todo /\ context' = context
    BY <1>6 DEF VariableError, Doing, Synchronize, Continue, Loops
  <2> QED
    BY <1>1, <2>1, SyncPlaced DEF LeftInPanic
<1>7. CASE OneVariable
  <2>1. Now.do = "variables" /\ todo' = Variable \o Rest /\ context' = context
    BY <1>7 DEF OneVariable, Doing, Continue
  <2>2. PICK l \in ListLoops : l = [Now EXCEPT !.first = FALSE] /\ ContextOf(l) = ContextOf(Now)
    BY <1>4, <2>1, LoopMarked
  <2>3. PICK a : a = IF Now.first THEN <<>> ELSE <<Need(",")>>
    OBVIOUS
  <2>4. PICK b : b = IF Now.end = ")" THEN <<Simple("type")>> ELSE <<>>
    OBVIOUS
  <2>5. PICK c \in Items : c = Need("name") /\ c.do = "expect"
    <3>1. Need("name") \in Items
      <4>1. "name" \in Words
        BY DEF Words
      <4> QED
        BY <4>1, Forms
    <3> QED
      BY <3>1 DEF Need, Expect
  <2>6. PICK d \in Items : d = Simple("declared") /\ d.do = "declared"
    BY ListForms DEF Simple
  <2>7. /\ a \in Seq(Items) /\ Len(a) \in Nat /\ b \in Seq(Items) /\ Len(b) \in Nat
        /\ \A k \in 1..Len(a) : a[k].do \in {"expect", "type"}
        /\ \A k \in 1..Len(b) : b[k].do \in {"expect", "type"}
    <3>1. Need(",") \in Items /\ Need(",").do = "expect"
      <4>1. "," \in Words
        BY DEF Words
      <4> QED
        BY <4>1, Forms DEF Need, Expect
    <3>2. Simple("type") \in Items /\ Simple("type").do = "type"
      BY Forms DEF Simple
    <3>3. a \in Seq(Items) /\ Len(a) \in Nat /\ \A k \in 1..Len(a) : a[k].do \in {"expect", "type"}
      <4>1. CASE Now.first
        BY <2>3, <4>1
      <4>2. CASE ~ Now.first
        <5>1. PICK x : x = Need(",")
          OBVIOUS
        <5>2. a = <<x>> /\ x \in Items /\ x.do = "expect"
          BY <2>3, <3>1, <4>2, <5>1
        <5>3. a \in Seq(Items) /\ Len(a) = 1 /\ a[1] = x
          BY <5>2
        <5> QED
          BY <5>2, <5>3
      <4> QED
        BY <4>1, <4>2
    <3>4. b \in Seq(Items) /\ Len(b) \in Nat /\ \A k \in 1..Len(b) : b[k].do \in {"expect", "type"}
      <4>1. CASE Now.end = ")"
        BY <2>4, <3>2, <4>1
      <4>2. CASE Now.end # ")"
        BY <2>4, <4>2
      <4> QED
        BY <4>1, <4>2
    <3> QED
      BY <3>3, <3>4
  <2>8. PICK ab : ab = a \o b
    OBVIOUS
  <2>9. ab \in Seq(Items) /\ Len(ab) \in Nat /\ \A k \in 1..Len(ab) : ab[k].do \in {"expect", "type"}
    BY <2>7, <2>8, ConcatProperties
  <2>10. PICK cd : cd = <<c, d>>
    OBVIOUS
  <2>11. cd \in Seq(Items) /\ Len(cd) = 2 /\ cd[1] = c /\ cd[2] = d
    BY <2>10
  <2>12. PICK p : p = ab \o cd
    OBVIOUS
  <2>13. /\ p \in Seq(Items) /\ Len(p) = Len(ab) + 2 /\ DOMAIN p = 1..Len(ab) + 2
         /\ \A k \in 1..Len(ab) + 2 : p[k] = IF k <= Len(ab) THEN ab[k] ELSE cd[k - Len(ab)]
    <3>1. /\ p \in Seq(Items) /\ Len(p) = Len(ab) + 2
          /\ \A k \in 1..Len(ab) + 2 : p[k] = IF k <= Len(ab) THEN ab[k] ELSE cd[k - Len(ab)]
      <4>1. Len(cd) = 2 /\ Len(ab) + Len(cd) = Len(ab) + 2
        BY <2>11
      <4>2. ab \in Seq(Items) /\ cd \in Seq(Items)
        BY <2>9, <2>11
      <4> QED
        BY <4>1, <4>2, <2>12, ConcatProperties
    <3> QED
      BY <3>1
  <2>14. \A k \in DOMAIN p : p[k].do \in {"expect", "type"} \/ (p[k].do = "declared" /\ k = Len(p))
    <3>1. TAKE k \in DOMAIN p
    <3>2. CASE k <= Len(ab)
      BY <2>9, <2>13, <3>2
    <3>3. CASE k = Len(ab) + 1
      BY <2>5, <2>9, <2>11, <2>13, <3>3
    <3>4. CASE k = Len(ab) + 2
      BY <2>6, <2>9, <2>11, <2>13, <3>4
    <3> QED
      BY <2>9, <2>13, <3>2, <3>3, <3>4
  <2>15. Variable = p \o <<l>>
    <3>1. Variable = ab \o <<c, d, l>>
      BY <2>2, <2>3, <2>4, <2>5, <2>6, <2>8 DEF Variable
    <3>2. l \in Items /\ <<l>> \in Seq(Items)
      BY <2>2, ListForms, Tuples
    <3>3. <<c, d, l>> = cd \o <<l>>
      BY <2>10, <2>11, <3>2
    <3>4. ab \o (cd \o <<l>>) = p \o <<l>>
      BY <2>9, <2>11, <2>12, <3>2, ConcatAssociative
    <3> QED
      BY <3>1, <3>3, <3>4
  <2>16. PICK t : t = p \o <<l>> \o Rest
    OBVIOUS
  <2>17. t \in Seq(Items) /\ Placed(t) /\ Len(p) + 1 \in DOMAIN t /\ t[Len(p) + 1] = l
    <3>1. PICK r : r = Rest
      OBVIOUS
    <3>2. /\ r \in Seq(Items) /\ Placed(r) /\ 1 \in DOMAIN r /\ r[1] = Pop(ContextOf(l))
          /\ \A k \in DOMAIN r : r[k].do \notin {"variables", "sync"}
      BY <1>2, <1>4, <2>1, <2>2, <3>1
    <3>3. p \in Seq(Items) /\ t = p \o <<l>> \o r
      BY <2>13, <2>16, <3>1
    <3> QED
      BY <2>14, <3>2, <3>3, RoundPlaced
  <2>18. todo' = t
    BY <2>1, <2>15, <2>16
  <2>19. l.do = "variables"
    BY <2>2 DEF ListLoops
  <2>20. \A e \in Lists \cap context : e = ContextOf(l)
    BY <1>4, <2>1, <2>2
  <2> QED
    BY <2>1, <2>17, <2>18, <2>19, <2>20, ListGoesOn
<1>8. CASE Declared
  <2>1. Now.do = "declared" /\ todo' = <<[Rest[1] EXCEPT !.any = TRUE]>> \o Tail(Rest) /\ context' = context
    BY <1>8 DEF Declared, Doing, Continue
  <2>2. 2 \in DOMAIN todo /\ todo[2].do = "variables"
    BY <1>2, <2>1 DEF ItemPlaced
  <2>3. 1 \in DOMAIN Rest /\ Rest # <<>> /\ Rest[1] = todo[2] /\ Rest[1] \in Items
    BY <1>2, <1>3, <2>2, ElementOfSeq
  <2>4. Rest[1] \in ListLoops
    BY <2>2, <2>3, ItemKinds
  <2>5. PICK l \in ListLoops : l = [Rest[1] EXCEPT !.any = TRUE] /\ ContextOf(l) = ContextOf(Rest[1])
    BY <2>4, LoopMarked
  <2>6. PICK r : r = Tail(Rest)
    OBVIOUS
  <2>7. /\ r \in Seq(Items) /\ Placed(r) /\ DOMAIN r = 1..Len(todo) - 2
        /\ \A k \in DOMAIN r : r[k] = Rest[k + 1]
    <3>1. Tail(Rest) = SubSeq(Rest, 2, Len(Rest)) /\ Len(Rest) \in Nat /\ Len(Rest) = Len(todo) - 1
      <4>1. Tail(Rest) = SubSeq(Rest, 2, Len(Rest))
        BY <1>2, <2>3, TailIsSubSeq
      <4>2. PICK x \in Seq(Items) : x = Rest
        BY <1>2
      <4>3. Len(x) \in Nat /\ DOMAIN x = 1..Len(x)
        OBVIOUS
      <4>4. Len(Rest) \in Nat /\ 1..Len(Rest) = 1..Len(todo) - 1
        BY <1>2, <4>2, <4>3
      <4>5. Len(Rest) = Len(todo) - 1
        <5>1. PICK n \in Nat : n = Len(Rest)
          BY <4>4
        <5>2. Len(todo) - 1 \in Nat
          BY <1>2
        <5>3. PICK m \in Nat : m = Len(todo) - 1
          BY <5>2
        <5>4. 1..n = 1..m
          BY <4>4, <5>1, <5>3
        <5> QED
          BY <5>1, <5>3, <5>4, SameLength
      <4> QED
        BY <4>1, <4>4, <4>5
    <3>2. /\ 2 \in 1..Len(Rest) + 1 /\ Len(Rest) - 2 + 1 = Len(todo) - 2
          /\ \A k \in 1..Len(todo) - 2 : 2 + k - 1 = k + 1
      <4>1. PICK n \in Nat : n = Len(todo)
        BY <1>2
      <4>2. n - 1 >= 1
        BY <1>2, <2>3, <4>1
      <4>3. 2 \in 1..(n - 1) + 1 /\ (n - 1) - 2 + 1 = n - 2 /\ \A k \in 1..n - 2 : 2 + k - 1 = k + 1
        BY <4>2
      <4> QED
        BY <3>1, <4>1, <4>3
    <3>3. /\ SubSeq(Rest, 2, Len(Rest)) \in Seq(Items) /\ Placed(SubSeq(Rest, 2, Len(Rest)))
          /\ DOMAIN SubSeq(Rest, 2, Len(Rest)) = 1..Len(Rest) - 2 + 1
          /\ \A k \in DOMAIN SubSeq(Rest, 2, Len(Rest)) : SubSeq(Rest, 2, Len(Rest))[k] = Rest[2 + k - 1]
      BY <1>2, <3>2, SuffixPlaced
    <3>4. /\ r \in Seq(Items) /\ Placed(r) /\ DOMAIN r = 1..Len(todo) - 2
          /\ \A k \in DOMAIN r : r[k] = Rest[2 + k - 1]
      BY <2>6, <3>1, <3>2, <3>3
    <3> QED
      BY <3>2, <3>4
  <2>8. ItemPlaced(Rest, 1)
    BY <1>2, <2>3 DEF Placed
  <2>9. 2 \in DOMAIN Rest /\ Rest[2] = Pop(ContextOf(Rest[1]))
    BY <2>2, <2>3, <2>8 DEF ItemPlaced
  <2>10. 1 \in DOMAIN r /\ r[1] = Pop(ContextOf(l))
    <3>1. 1 \in 1..Len(todo) - 2 /\ 1 + 1 = 2
      BY <1>2, <2>9
    <3> QED
      BY <2>5, <2>7, <2>9, <3>1
  <2>11. ASSUME NEW k \in DOMAIN Rest, k # 1 PROVE Rest[k].do # "variables"
    <3>1. 1 \in 1..k - 1
      BY <1>2, <2>11
    <3>2. Rest[1].do \notin RoundSteps
      BY <2>2, <2>3 DEF RoundSteps
    <3> QED
      BY <1>2, <2>11, <3>1, <3>2 DEF Placed, ItemPlaced
  <2>12. \A k \in DOMAIN r : r[k].do \notin {"variables", "sync"}
    <3>1. TAKE k \in DOMAIN r
    <3>2. k + 1 \in DOMAIN Rest /\ k + 1 # 1
      BY <1>2, <2>7
    <3> QED
      BY <1>2, <2>7, <2>11, <3>2
  <2>13. PICK t : t = <<l>> \o r
    OBVIOUS
  <2>14. t \in Seq(Items) /\ Placed(t) /\ 1 \in DOMAIN t /\ t[1] = l
    BY <2>7, <2>10, <2>12, <2>13, LoopPlaced
  <2>15. todo' = t
    BY <2>1, <2>5, <2>6, <2>13
  <2>16. \A c \in Lists \cap context : c = ContextOf(l)
    <3>1. Now.do \in RoundSteps
      BY <2>1 DEF RoundSteps
    <3>2. TAKE c \in Lists \cap context
    <3>3. PICK k \in DOMAIN Rest : Rest[k].do = "variables" /\ ContextOf(Rest[k]) = c
      BY <1>1, <3>1, InRound
    <3> QED
      BY <2>5, <2>11, <3>3
  <2>17. l.do = "variables"
    BY DEF ListLoops
  <2> QED
    BY <2>1, <2>14, <2>15, <2>16, <2>17, ListGoesOn
<1> QED
  BY <1>5, <1>6, <1>7, <1>8

(* A class that has not been begun is in order, *)
LEMMA Begins == Init => PInv
<1> SUFFICES ASSUME Init PROVE PInv
  OBVIOUS
<1>1. todo = Class /\ context = {}
  BY DEF Init
<1>2. /\ Push("class") \in Plain /\ Pop("class") \in Plain /\ Enter(Body("classBody", FALSE)) \in Plain
      /\ \A w \in {"class", "name", "{", "}"} : Need(w) \in Plain
  BY Forms DEF Words
<1>3. PICK a \in Plain, b \in Plain, c \in Plain, d \in Plain, e \in Plain, f \in Plain, g \in Plain :
        a = Need("class") /\ b = Need("name") /\ c = Need("{") /\ d = Push("class")
        /\ e = Enter(Body("classBody", FALSE)) /\ f = Pop("class") /\ g = Need("}")
  BY <1>2
<1>4. Class = <<a, b, c, d, e, f, g>>
  BY <1>3 DEF Class
<1>5. Class \in Seq(Plain)
  BY <1>4
<1>6. Class \in Seq(Items) /\ Placed(Class)
  BY <1>5, PlainPlaced
<1> QED
  BY <1>1, <1>6 DEF PInv

(* and every step leaves it so, and no list in panic. *)
LEMMA Steps == PInv /\ [Next]_vars => PInv' /\ ~ LeftInPanic
<1> SUFFICES ASSUME PInv, [Next]_vars PROVE PInv' /\ ~ LeftInPanic
  OBVIOUS
<1>1. CASE UNCHANGED <<todo, context>>
  BY <1>1 DEF PInv, LeftInPanic, InVariables, Placed, ItemPlaced, Inside
<1>2. CASE Finished \/ UNCHANGED vars
  BY <1>1, <1>2 DEF Finished, vars
<1>3. CASE Step
  BY <1>3, WordSteps, ExpressionSteps, ContextSteps, OtherLoopSteps, ListLoopSteps DEF Step
<1> QED
  BY <1>2, <1>3 DEF Next

(* Whatever the input, what is left to do is in order: a list is entered, run *)
(* through and left as parse_variables and its callers have it.             *)
THEOREM ListsInOrder == Spec => []PInv
<1>1. Init => PInv
  BY Begins
<1>2. PInv /\ [Next]_vars => PInv'
  BY Steps
<1> QED
  BY <1>1, <1>2, PTL DEF Spec

(* A synchronisation that stops at `,' `;' or `)' does so inside a list: the *)
(* context of a list does not outlive it, however it ends.                 *)
THEOREM NoListContextLeft == Spec => []DeclarationContexts
<1>1. PInv => DeclarationContexts
  <2> SUFFICES ASSUME PInv, Doing("sync"), NEW c \in Lists, c \in context
               PROVE  Rest[1].do = "variables" /\ Rest[1].end = EndOf(c)
    BY DEF DeclarationContexts, Lists, EndOf
  <2>1. todo # <<>> /\ Now.do = "sync" /\ Now.do \in RoundSteps
    BY DEF Doing, RoundSteps
  <2>2. /\ Rest \in Seq(Items) /\ Placed(Rest) /\ DOMAIN Rest = 1..Len(todo) - 1 /\ ItemPlaced(todo, 1)
        /\ Now = todo[1] /\ DOMAIN todo = 1..Len(todo) /\ Len(todo) \in Nat
        /\ \A k \in DOMAIN Rest : Rest[k] = todo[k + 1]
    BY <2>1, Taken
  <2>3. PICK k \in DOMAIN Rest : Rest[k].do = "variables" /\ ContextOf(Rest[k]) = c
    BY <2>1, InRound
  <2>4. 1 \in DOMAIN Rest /\ Rest[1].do \in Loops \cup {"skipBrace"}
    <3>1. 2 \in DOMAIN todo /\ todo[2].do \in Loops \cup {"skipBrace"}
      BY <2>1, <2>2 DEF ItemPlaced
    <3>2. 1 \in DOMAIN Rest /\ 1 + 1 = 2
      BY <2>2, <3>1
    <3> QED
      BY <2>2, <3>1, <3>2
  <2>5. k = 1
    <3>1. ASSUME k # 1 PROVE FALSE
      <4>1. 1 \in 1..k - 1
        BY <2>2, <3>1
      <4>2. Rest[1].do \in RoundSteps
        BY <2>2, <2>3, <4>1 DEF Placed, ItemPlaced
      <4> QED
        BY <2>4, <4>2 DEF RoundSteps, Loops
    <3> QED
      BY <3>1
  <2>6. Rest[1] \in ListLoops
    <3>1. Rest[1] \in Items
      BY <2>2, <2>4, ElementOfSeq
    <3> QED
      BY <2>3, <2>5, <3>1, ItemKinds
  <2>7. Rest[1].end \in {";", ")"}
    BY <2>6 DEF ListLoops
  <2> QED
    BY <2>3, <2>5, <2>7 DEF ContextOf, EndOf, Lists
<1> QED
  BY <1>1, ListsInOrder, PTL

(* What parse_variables promises its callers: however a list of variables   *)
(* goes wrong, they do not find the parser in panic when it returns.       *)
THEOREM ListsNeverPanic == Spec => NeverPanics
<1>1. PInv /\ [Next]_vars => [InVariables /\ ~ InVariables' => ~ panic']_vars
  BY Steps DEF LeftInPanic
<1> QED
  BY <1>1, ListsInOrder, PTL DEF Spec, NeverPanics

-----------------------------------------------------------------------------
(* What remains to be derived, and where *)
Goals == Seq(Symbols) \X Nat

DerivedAt(w, f, c) ==
  IF c[1] = <<>> THEN TRUE
  ELSE IF Head(c[1]) \in DOMAIN Productions
  THEN \E rhs \in Productions[Head(c[1])] : f[<<rhs \o Tail(c[1]), c[2]>>]
  ELSE c[2] \in DOMAIN w /\ w[c[2]] = Head(c[1]) /\ f[<<Tail(c[1]), c[2] + 1>>]

(* One step of a leftmost derivation *)
Leftmost(w, c, d) ==
  /\ c[1] # <<>>
  /\ IF Head(c[1]) \in DOMAIN Productions
     THEN \E rhs \in Productions[Head(c[1])] : d = <<rhs \o Tail(c[1]), c[2]>>
     ELSE c[2] \in DOMAIN w /\ w[c[2]] = Head(c[1]) /\ d = <<Tail(c[1]), c[2] + 1>>

Derivation(w, run, n) ==
  /\ run \in [0..n -> Goals] /\ run[n][1] = <<>>
  /\ \A k \in 0..n - 1 : Leftmost(w, run[k], run[k + 1])

Derivable(w) == [c \in Goals |-> \E n \in Nat : \E run : Derivation(w, run, n) /\ run[0] = c]

(* What may be left to derive, if x or what the symbols in front are comes   *)
(* before one of the Z                                                     *)
Put(front, Z) == {front \o s : s \in Z}

Then(x, Z) == Put(<<x>>, Z)

Rests == SUBSET Seq(Symbols)

(* The grammar, one nonterminal at a time *)
LEMMA Rules ==
  /\ DOMAIN Productions = {"Class", "ClassVars", "Type", "Names", "Subroutines", "Subroutine", "Result", "Parameters",
                           "Parameter", "Locals", "Statements", "Statement", "Index", "Else", "Expression",
                           "Operator", "Term", "Call", "Arguments", "List"}
  /\ Productions["Class"] = {<<"class", "name", "{", "ClassVars", "Subroutines", "}">>}
  /\ Productions["ClassVars"] = {Nothing, <<"classVar", "Type", "Names", ";", "ClassVars">>}
  /\ Productions["Type"] = {<<"builtin">>, <<"name">>}
  /\ Productions["Names"] = {<<"name">>, <<"name", ",", "Names">>}
  /\ Productions["Subroutines"] = {Nothing, <<"Subroutine", "Subroutines">>,
     <<"native", "Subroutine", "Subroutines">>}
  /\ Productions["Subroutine"] = {<<"routine", "Result", "name", "(", "Parameters", ")", "{", "Locals",
     "Statements", "}">>}
  /\ Productions["Result"] = {<<"Type">>, <<"void">>}
  /\ Productions["Parameters"] = {Nothing, <<"Parameter">>}
  /\ Productions["Parameter"] = {<<"Type", "name">>, <<"Type", "name", ",", "Parameter">>}
  /\ Productions["Locals"] = {Nothing, <<"var", "Type", "Names", ";", "Locals">>}
  /\ Productions["Statements"] = {Nothing, <<"Statement", "Statements">>}
  /\ Productions["Statement"] = {<<"let", "name", "=", "Expression", ";">>,
     <<"let", "name", "Index", "=", "Expression", ";">>,
     <<"if", "(", "Expression", ")", "{", "Statements", "}", "Else">>,
     <<"while", "(", "Expression", ")", "{", "Statements", "}">>, <<"do", "Call", ";">>, <<"return", ";">>,
     <<"return", "Expression", ";">>}
  /\ Productions["Index"] = {<<"[", "Expression", "]">>}
  /\ Productions["Else"] = {Nothing, <<"else", "{", "Statements", "}">>}
  /\ Productions["Expression"] = {<<"Term">>, <<"Term", "Operator", "Expression">>}
  /\ Productions["Operator"] = {<<"+">>, <<"-">>, <<"=">>}
  /\ Productions["Term"] = {<<"literal">>, <<"name">>, <<"name", "Index">>, <<"Call">>,
     <<"(", "Expression", ")">>, <<"-", "Term">>, <<"~", "Term">>}
  /\ Productions["Call"] = {<<"name", "Arguments">>, <<"name", ".", "name", "Arguments">>}
  /\ Productions["Arguments"] = {<<"(", ")">>, <<"(", "List", ")">>}
  /\ Productions["List"] = {<<"Expression">>, <<"Expression", ",", "List">>}
  BY DEF Productions

(* Every right-hand side is a sequence of symbols. *)
LEMMA RightSides ==
  ASSUME NEW A \in DOMAIN Productions, NEW rhs \in Productions[A]
  PROVE  rhs \in Seq(Symbols)
<1>0. <<>> \in Seq(Symbols)
  OBVIOUS
<1>1. \A r \in Productions["Class"] : r \in Seq(Symbols)
  <2>1. PICK s1 \in Symbols, s2 \in Symbols, s3 \in Symbols, s4 \in Symbols, s5 \in Symbols, s6 \in Symbols :
          s1 = "class" /\ s2 = "name" /\ s3 = "{" /\ s4 = "ClassVars" /\ s5 = "Subroutines" /\ s6 = "}"
    BY Rules DEF Symbols, Terminals
  <2>2. <<s1, s2, s3, s4, s5, s6>> \in Seq(Symbols)
    OBVIOUS
  <2>3. Productions["Class"] = {<<s1, s2, s3, s4, s5, s6>>}
    BY Rules, <2>1 DEF Nothing
  <2> QED
    BY <1>0, <2>2, <2>3
<1>2. \A r \in Productions["ClassVars"] : r \in Seq(Symbols)
  <2>1. PICK s1 \in Symbols, s2 \in Symbols, s3 \in Symbols, s4 \in Symbols, s5 \in Symbols :
          s1 = "classVar" /\ s2 = "Type" /\ s3 = "Names" /\ s4 = ";" /\ s5 = "ClassVars"
    BY Rules DEF Symbols, Terminals
  <2>2. <<s1, s2, s3, s4, s5>> \in Seq(Symbols)
    OBVIOUS
  <2>3. Productions["ClassVars"] = {<<>>, <<s1, s2, s3, s4, s5>>}
    BY Rules, <2>1 DEF Nothing
  <2> QED
    BY <1>0, <2>2, <2>3
<1>3. \A r \in Productions["Type"] : r \in Seq(Symbols)
  <2>1. PICK s1 \in Symbols, s2 \in Symbols :
          s1 = "builtin" /\ s2 = "name"
    BY Rules DEF Symbols, Terminals
  <2>2. <<s1>> \in Seq(Symbols)
    OBVIOUS
  <2>3. <<s2>> \in Seq(Symbols)
    OBVIOUS
  <2>4. Productions["Type"] = {<<s1>>, <<s2>>}
    BY Rules, <2>1 DEF Nothing
  <2> QED
    BY <1>0, <2>2, <2>3, <2>4
<1>4. \A r \in Productions["Names"] : r \in Seq(Symbols)
  <2>1. PICK s1 \in Symbols, s2 \in Symbols, s3 \in Symbols :
          s1 = "name" /\ s2 = "," /\ s3 = "Names"
    BY Rules DEF Symbols, Terminals
  <2>2. <<s1>> \in Seq(Symbols)
    OBVIOUS
  <2>3. <<s1, s2, s3>> \in Seq(Symbols)
    OBVIOUS
  <2>4. Productions["Names"] = {<<s1>>, <<s1, s2, s3>>}
    BY Rules, <2>1 DEF Nothing
  <2> QED
    BY <1>0, <2>2, <2>3, <2>4
<1>5. \A r \in Productions["Subroutines"] : r \in Seq(Symbols)
  <2>1. PICK s1 \in Symbols, s2 \in Symbols, s3 \in Symbols :
          s1 = "Subroutine" /\ s2 = "Subroutines" /\ s3 = "native"
    BY Rules DEF Symbols, Terminals
  <2>2. <<s1, s2>> \in Seq(Symbols)
    OBVIOUS
  <2>3. <<s3, s1, s2>> \in Seq(Symbols)
    OBVIOUS
  <2>4. Productions["Subroutines"] = {<<>>, <<s1, s2>>, <<s3, s1, s2>>}
    BY Rules, <2>1 DEF Nothing
  <2> QED
    BY <1>0, <2>2, <2>3, <2>4
<1>6. \A r \in Productions["Subroutine"] : r \in Seq(Symbols)
  <2>1. PICK s1 \in Symbols, s2 \in Symbols, s3 \in Symbols, s4 \in Symbols, s5 \in Symbols, s6 \in Symbols,
        s7 \in Symbols, s8 \in Symbols, s9 \in Symbols, s10 \in Symbols :
          s1 = "routine" /\ s2 = "Result" /\ s3 = "name" /\ s4 = "(" /\ s5 = "Parameters" /\ s6 = ")" /\
              s7 = "{" /\ s8 = "Locals" /\ s9 = "Statements" /\ s10 = "}"
    BY Rules DEF Symbols, Terminals
  <2>2. <<s1, s2, s3, s4, s5, s6, s7, s8, s9, s10>> \in Seq(Symbols)
    OBVIOUS
  <2>3. Productions["Subroutine"] = {<<s1, s2, s3, s4, s5, s6, s7, s8, s9, s10>>}
    BY Rules, <2>1 DEF Nothing
  <2> QED
    BY <1>0, <2>2, <2>3
<1>7. \A r \in Productions["Result"] : r \in Seq(Symbols)
  <2>1. PICK s1 \in Symbols, s2 \in Symbols :
          s1 = "Type" /\ s2 = "void"
    BY Rules DEF Symbols, Terminals
  <2>2. <<s1>> \in Seq(Symbols)
    OBVIOUS
  <2>3. <<s2>> \in Seq(Symbols)
    OBVIOUS
  <2>4. Productions["Result"] = {<<s1>>, <<s2>>}
    BY Rules, <2>1 DEF Nothing
  <2> QED
    BY <1>0, <2>2, <2>3, <2>4
<1>8. \A r \in Productions["Parameters"] : r \in Seq(Symbols)
  <2>1. PICK s1 \in Symbols :
          s1 = "Parameter"
    BY Rules DEF Symbols, Terminals
  <2>2. <<s1>> \in Seq(Symbols)
    OBVIOUS
  <2>3. Productions["Parameters"] = {<<>>, <<s1>>}
    BY Rules, <2>1 DEF Nothing
  <2> QED
    BY <1>0, <2>2, <2>3
<1>9. \A r \in Productions["Parameter"] : r \in Seq(Symbols)
  <2>1. PICK s1 \in Symbols, s2 \in Symbols, s3 \in Symbols, s4 \in Symbols :
          s1 = "Type" /\ s2 = "name" /\ s3 = "," /\ s4 = "Parameter"
    BY Rules DEF Symbols, Terminals
  <2>2. <<s1, s2>> \in Seq(Symbols)
    OBVIOUS
  <2>3. <<s1, s2, s3, s4>> \in Seq(Symbols)
    OBVIOUS
  <2>4. Productions["Parameter"] = {<<s1, s2>>, <<s1, s2, s3, s4>>}
    BY Rules, <2>1 DEF Nothing
  <2> QED
    BY <1>0, <2>2, <2>3, <2>4
<1>10. \A r \in Productions["Locals"] : r \in Seq(Symbols)
  <2>1. PICK s1 \in Symbols, s2 \in Symbols, s3 \in Symbols, s4 \in Symbols, s5 \in Symbols :
          s1 = "var" /\ s2 = "Type" /\ s3 = "Names" /\ s4 = ";" /\ s5 = "Locals"
    BY Rules DEF Symbols, Terminals
  <2>2. <<s1, s2, s3, s4, s5>> \in Seq(Symbols)
    OBVIOUS
  <2>3. Productions["Locals"] = {<<>>, <<s1, s2, s3, s4, s5>>}
    BY Rules, <2>1 DEF Nothing
  <2> QED
    BY <1>0, <2>2, <2>3
<1>11. \A r \in Productions["Statements"] : r \in Seq(Symbols)
  <2>1. PICK s1 \in Symbols, s2 \in Symbols :
          s1 = "Statement" /\ s2 = "Statements"
    BY Rules DEF Symbols, Terminals
  <2>2. <<s1, s2>> \in Seq(Symbols)
    OBVIOUS
  <2>3. Productions["Statements"] = {<<>>, <<s1, s2>>}
    BY Rules, <2>1 DEF Nothing
  <2> QED
    BY <1>0, <2>2, <2>3
<1>12. \A r \in Productions["Statement"] : r \in Seq(Symbols)
  <2>1. PICK s1 \in Symbols, s2 \in Symbols, s3 \in Symbols, s4 \in Symbols, s5 \in Symbols, s6 \in Symbols,
        s7 \in Symbols, s8 \in Symbols, s9 \in Symbols, s10 \in Symbols, s11 \in Symbols, s12 \in Symbols,
        s13 \in Symbols, s14 \in Symbols, s15 \in Symbols, s16 \in Symbols, s17 \in Symbols :
          s1 = "let" /\ s2 = "name" /\ s3 = "=" /\ s4 = "Expression" /\ s5 = ";" /\ s6 = "Index" /\ s7 = "if" /\
              s8 = "(" /\ s9 = ")" /\ s10 = "{" /\ s11 = "Statements" /\ s12 = "}" /\ s13 = "Else" /\
              s14 = "while" /\ s15 = "do" /\ s16 = "Call" /\ s17 = "return"
    BY Rules DEF Symbols, Terminals
  <2>2. <<s1, s2, s3, s4, s5>> \in Seq(Symbols)
    OBVIOUS
  <2>3. <<s1, s2, s6, s3, s4, s5>> \in Seq(Symbols)
    OBVIOUS
  <2>4. <<s7, s8, s4, s9, s10, s11, s12, s13>> \in Seq(Symbols)
    OBVIOUS
  <2>5. <<s14, s8, s4, s9, s10, s11, s12>> \in Seq(Symbols)
    OBVIOUS
  <2>6. <<s15, s16, s5>> \in Seq(Symbols)
    OBVIOUS
  <2>7. <<s17, s5>> \in Seq(Symbols)
    OBVIOUS
  <2>8. <<s17, s4, s5>> \in Seq(Symbols)
    OBVIOUS
  <2>9. Productions["Statement"] = {<<s1, s2, s3, s4, s5>>, <<s1, s2, s6, s3, s4, s5>>,
        <<s7, s8, s4, s9, s10, s11, s12, s13>>, <<s14, s8, s4, s9, s10, s11, s12>>, <<s15, s16, s5>>,
        <<s17, s5>>, <<s17, s4, s5>>}
    BY Rules, <2>1 DEF Nothing
  <2> QED
    BY <1>0, <2>2, <2>3, <2>4, <2>5, <2>6, <2>7, <2>8, <2>9
<1>13. \A r \in Productions["Index"] : r \in Seq(Symbols)
  <2>1. PICK s1 \in Symbols, s2 \in Symbols, s3 \in Symbols :
          s1 = "[" /\ s2 = "Expression" /\ s3 = "]"
    BY Rules DEF Symbols, Terminals
  <2>2. <<s1, s2, s3>> \in Seq(Symbols)
    OBVIOUS
  <2>3. Productions["Index"] = {<<s1, s2, s3>>}
    BY Rules, <2>1 DEF Nothing
  <2> QED
    BY <1>0, <2>2, <2>3
<1>14. \A r \in Productions["Else"] : r \in Seq(Symbols)
  <2>1. PICK s1 \in Symbols, s2 \in Symbols, s3 \in Symbols, s4 \in Symbols :
          s1 = "else" /\ s2 = "{" /\ s3 = "Statements" /\ s4 = "}"
    BY Rules DEF Symbols, Terminals
  <2>2. <<s1, s2, s3, s4>> \in Seq(Symbols)
    OBVIOUS
  <2>3. Productions["Else"] = {<<>>, <<s1, s2, s3, s4>>}
    BY Rules, <2>1 DEF Nothing
  <2> QED
    BY <1>0, <2>2, <2>3
<1>15. \A r \in Productions["Expression"] : r \in Seq(Symbols)
  <2>1. PICK s1 \in Symbols, s2 \in Symbols, s3 \in Symbols :
          s1 = "Term" /\ s2 = "Operator" /\ s3 = "Expression"
    BY Rules DEF Symbols, Terminals
  <2>2. <<s1>> \in Seq(Symbols)
    OBVIOUS
  <2>3. <<s1, s2, s3>> \in Seq(Symbols)
    OBVIOUS
  <2>4. Productions["Expression"] = {<<s1>>, <<s1, s2, s3>>}
    BY Rules, <2>1 DEF Nothing
  <2> QED
    BY <1>0, <2>2, <2>3, <2>4
<1>16. \A r \in Productions["Operator"] : r \in Seq(Symbols)
  <2>1. PICK s1 \in Symbols, s2 \in Symbols, s3 \in Symbols :
          s1 = "+" /\ s2 = "-" /\ s3 = "="
    BY Rules DEF Symbols, Terminals
  <2>2. <<s1>> \in Seq(Symbols)
    OBVIOUS
  <2>3. <<s2>> \in Seq(Symbols)
    OBVIOUS
  <2>4. <<s3>> \in Seq(Symbols)
    OBVIOUS
  <2>5. Productions["Operator"] = {<<s1>>, <<s2>>, <<s3>>}
    BY Rules, <2>1 DEF Nothing
  <2> QED
    BY <1>0, <2>2, <2>3, <2>4, <2>5
<1>17. \A r \in Productions["Term"] : r \in Seq(Symbols)
  <2>1. PICK s1 \in Symbols, s2 \in Symbols, s3 \in Symbols, s4 \in Symbols, s5 \in Symbols, s6 \in Symbols,
        s7 \in Symbols, s8 \in Symbols, s9 \in Symbols, s10 \in Symbols :
          s1 = "literal" /\ s2 = "name" /\ s3 = "Index" /\ s4 = "Call" /\ s5 = "(" /\ s6 = "Expression" /\
              s7 = ")" /\ s8 = "-" /\ s9 = "Term" /\ s10 = "~"
    BY Rules DEF Symbols, Terminals
  <2>2. <<s1>> \in Seq(Symbols)
    OBVIOUS
  <2>3. <<s2>> \in Seq(Symbols)
    OBVIOUS
  <2>4. <<s2, s3>> \in Seq(Symbols)
    OBVIOUS
  <2>5. <<s4>> \in Seq(Symbols)
    OBVIOUS
  <2>6. <<s5, s6, s7>> \in Seq(Symbols)
    OBVIOUS
  <2>7. <<s8, s9>> \in Seq(Symbols)
    OBVIOUS
  <2>8. <<s10, s9>> \in Seq(Symbols)
    OBVIOUS
  <2>9. Productions["Term"] = {<<s1>>, <<s2>>, <<s2, s3>>, <<s4>>, <<s5, s6, s7>>, <<s8, s9>>, <<s10, s9>>}
    BY Rules, <2>1 DEF Nothing
  <2> QED
    BY <1>0, <2>2, <2>3, <2>4, <2>5, <2>6, <2>7, <2>8, <2>9
<1>18. \A r \in Productions["Call"] : r \in Seq(Symbols)
  <2>1. PICK s1 \in Symbols, s2 \in Symbols, s3 \in Symbols :
          s1 = "name" /\ s2 = "Arguments" /\ s3 = "."
    BY Rules DEF Symbols, Terminals
  <2>2. <<s1, s2>> \in Seq(Symbols)
    OBVIOUS
  <2>3. <<s1, s3, s1, s2>> \in Seq(Symbols)
    OBVIOUS
  <2>4. Productions["Call"] = {<<s1, s2>>, <<s1, s3, s1, s2>>}
    BY Rules, <2>1 DEF Nothing
  <2> QED
    BY <1>0, <2>2, <2>3, <2>4
<1>19. \A r \in Productions["Arguments"] : r \in Seq(Symbols)
  <2>1. PICK s1 \in Symbols, s2 \in Symbols, s3 \in Symbols :
          s1 = "(" /\ s2 = ")" /\ s3 = "List"
    BY Rules DEF Symbols, Terminals
  <2>2. <<s1, s2>> \in Seq(Symbols)
    OBVIOUS
  <2>3. <<s1, s3, s2>> \in Seq(Symbols)
    OBVIOUS
  <2>4. Productions["Arguments"] = {<<s1, s2>>, <<s1, s3, s2>>}
    BY Rules, <2>1 DEF Nothing
  <2> QED
    BY <1>0, <2>2, <2>3, <2>4
<1>20. \A r \in Productions["List"] : r \in Seq(Symbols)
  <2>1. PICK s1 \in Symbols, s2 \in Symbols, s3 \in Symbols :
          s1 = "Expression" /\ s2 = "," /\ s3 = "List"
    BY Rules DEF Symbols, Terminals
  <2>2. <<s1>> \in Seq(Symbols)
    OBVIOUS
  <2>3. <<s1, s2, s3>> \in Seq(Symbols)
    OBVIOUS
  <2>4. Productions["List"] = {<<s1>>, <<s1, s2, s3>>}
    BY Rules, <2>1 DEF Nothing
  <2> QED
    BY <1>0, <2>2, <2>3, <2>4
<1> QED
  BY Rules, <1>1, <1>2, <1>3, <1>4, <1>5, <1>6, <1>7, <1>8, <1>9, <1>10, <1>11, <1>12, <1>13, <1>14, <1>15,
     <1>16, <1>17, <1>18, <1>19, <1>20

(* A pair is its two parts one after the other. *)
LEMMA PairSplits ==
  ASSUME NEW S, NEW a \in S, NEW b \in S
  PROVE  <<a, b>> = <<a>> \o <<b>>
<1>1. PICK x, y, z : x = <<a>> /\ y = <<b>> /\ z = <<a, b>>
  OBVIOUS
<1>2. /\ x \in Seq(S) /\ Len(x) = 1 /\ x[1] = a /\ y \in Seq(S) /\ Len(y) = 1 /\ y[1] = b
      /\ z \in Seq(S) /\ Len(z) = 2 /\ z[1] = a /\ z[2] = b
  BY <1>1
<1>3. /\ x \o y \in Seq(S) /\ Len(x \o y) = 2
      /\ \A i \in 1..2 : (x \o y)[i] = IF i <= 1 THEN x[i] ELSE y[i - 1]
  BY <1>2, ConcatProperties
<1>4. \A i \in 1..2 : (x \o y)[i] = z[i]
  BY <1>2, <1>3
<1>5. x \o y = z
  BY <1>2, <1>3, <1>4, SeqEqual
<1> QED
  BY <1>1, <1>5

(* Put in front as a whole or one after the other *)
LEMMA PutOne ==
  ASSUME NEW S, NEW x \in S, NEW front \in Seq(S), NEW Z \in SUBSET Seq(S)
  PROVE  Put(<<x>> \o front, Z) = Then(x, Put(front, Z)) /\ Put(front, Z) \in SUBSET Seq(S) /\ Put(<<>>, Z) = Z
<1>1. <<x>> \in Seq(S)
  OBVIOUS
<1>2. \A s \in Z : s \in Seq(S)
  OBVIOUS
<1>3. ASSUME NEW s \in Z
      PROVE (<<x>> \o front) \o s = <<x>> \o (front \o s) /\ front \o s \in Seq(S) /\ <<>> \o s = s
  BY <1>1, <1>2, ConcatAssociative, ConcatProperties, ConcatEmptySeq
<1>4. Put(<<x>> \o front, Z) = Then(x, Put(front, Z))
  <2>1. ASSUME NEW t \in Put(<<x>> \o front, Z) PROVE t \in Then(x, Put(front, Z))
    BY <1>3, <2>1, Zenon DEF Put, Then
  <2>2. ASSUME NEW t \in Then(x, Put(front, Z)) PROVE t \in Put(<<x>> \o front, Z)
    <3>1. PICK u \in Put(front, Z) : t = <<x>> \o u
      BY <2>2, Zenon DEF Then, Put
    <3>2. PICK s \in Z : u = front \o s
      BY <3>1, Zenon DEF Put
    <3> QED
      BY <1>3, <3>1, <3>2, Zenon DEF Put
  <2> QED
    BY <2>1, <2>2
<1>5. Put(front, Z) \in SUBSET Seq(S)
  BY <1>3, Zenon DEF Put
<1>6. Put(<<>>, Z) = Z
  <2>1. ASSUME NEW t \in Put(<<>>, Z) PROVE t \in Z
    BY <1>3, <2>1, Zenon DEF Put
  <2>2. ASSUME NEW t \in Z PROVE t \in Put(<<>>, Z)
    BY <1>3, <2>2, Zenon DEF Put
  <2> QED
    BY <2>1, <2>2
<1> QED
  BY <1>4, <1>5, <1>6

(* Symbols are put in front together as one after the other. *)
LEMMA PutTuples ==
  ASSUME NEW S, NEW Z \in SUBSET Seq(S)
  PROVE  /\ \A a : Put(<<a>>, Z) = Then(a, Z)
         /\ \A a, b : Put(<<a, b>>, Z) = Then(a, Then(b, Z))
         /\ \A a, b, c : Put(<<a, b, c>>, Z) = Then(a, Then(b, Then(c, Z)))
         /\ \A a, b, c, d : Put(<<a, b, c, d>>, Z) = Then(a, Then(b, Then(c, Then(d, Z))))
         /\ \A a, b, c, d, e : Put(<<a, b, c, d, e>>, Z) = Then(a, Then(b, Then(c, Then(d, Then(e, Z)))))
         /\ \A a, b, c, d, e, f : Put(<<a, b, c, d, e, f>>, Z) =
            Then(a, Then(b, Then(c, Then(d, Then(e, Then(f, Z))))))
         /\ \A a, b, c, d, e, f, g : Put(<<a, b, c, d, e, f, g>>, Z) =
            Then(a, Then(b, Then(c, Then(d, Then(e, Then(f, Then(g, Z)))))))
         /\ \A a, b, c, d, e, f, g, h : Put(<<a, b, c, d, e, f, g, h>>, Z) =
            Then(a, Then(b, Then(c, Then(d, Then(e, Then(f, Then(g, Then(h, Z))))))))
         /\ \A a, b, c, d, e, f, g, h, i : Put(<<a, b, c, d, e, f, g, h, i>>, Z) =
            Then(a, Then(b, Then(c, Then(d, Then(e, Then(f, Then(g, Then(h, Then(i, Z)))))))))
         /\ \A a, b, c, d, e, f, g, h, i, j : Put(<<a, b, c, d, e, f, g, h, i, j>>, Z) =
            Then(a, Then(b, Then(c, Then(d, Then(e, Then(f, Then(g, Then(h, Then(i, Then(j, Z))))))))))
<1>1. ASSUME NEW a PROVE Put(<<a>>, Z) = Then(a, Z)
  BY DEF Then
<1>2. ASSUME NEW a, NEW b
      PROVE  Put(<<a, b>>, Z) = Then(a, Then(b, Z))
  <2>1. PICK T : T = S \cup {a, b}
    OBVIOUS
  <2>2. Z \in SUBSET Seq(T) /\ a \in T /\ b \in T
    BY <2>1, SeqMonotonic
  <2>3. <<a, b>> = <<a>> \o <<b>>
    BY <2>2, PairSplits
  <2>7. <<b>> \in Seq(T)
    BY <2>2
  <2>4. PICK r \in Seq(T) : r = <<b>>
    BY <2>7
  <2>5. Put(<<a>> \o r, Z) = Then(a, Put(r, Z))
    BY <2>2, PutOne
  <2>6. Put(r, Z) = Then(b, Z)
    BY <1>1, <2>4
  <2> QED
    BY <2>3, <2>4, <2>5, <2>6
<1>3. ASSUME NEW a, NEW b, NEW c
      PROVE  Put(<<a, b, c>>, Z) = Then(a, Then(b, Then(c, Z)))
  <2>1. PICK T : T = S \cup {a, b, c}
    OBVIOUS
  <2>2. Z \in SUBSET Seq(T) /\ a \in T /\ b \in T /\ c \in T
    BY <2>1, SeqMonotonic
  <2>3. <<a, b, c>> = <<a>> \o <<b, c>>
    BY <2>2
  <2>7. <<b, c>> \in Seq(T)
    BY <2>2
  <2>4. PICK r \in Seq(T) : r = <<b, c>>
    BY <2>7
  <2>5. Put(<<a>> \o r, Z) = Then(a, Put(r, Z))
    BY <2>2, PutOne
  <2>6. Put(r, Z) = Then(b, Then(c, Z))
    BY <1>2, <2>4
  <2> QED
    BY <2>3, <2>4, <2>5, <2>6
<1>4. ASSUME NEW a, NEW b, NEW c, NEW d
      PROVE  Put(<<a, b, c, d>>, Z) = Then(a, Then(b, Then(c, Then(d, Z))))
  <2>1. PICK T : T = S \cup {a, b, c, d}
    OBVIOUS
  <2>2. Z \in SUBSET Seq(T) /\ a \in T /\ b \in T /\ c \in T /\ d \in T
    BY <2>1, SeqMonotonic
  <2>3. <<a, b, c, d>> = <<a>> \o <<b, c, d>>
    BY <2>2
  <2>7. <<b, c, d>> \in Seq(T)
    BY <2>2
  <2>4. PICK r \in Seq(T) : r = <<b, c, d>>
    BY <2>7
  <2>5. Put(<<a>> \o r, Z) = Then(a, Put(r, Z))
    BY <2>2, PutOne
  <2>6. Put(r, Z) = Then(b, Then(c, Then(d, Z)))
    BY <1>3, <2>4
  <2> QED
    BY <2>3, <2>4, <2>5, <2>6
<1>5. ASSUME NEW a, NEW b, NEW c, NEW d, NEW e
      PROVE  Put(<<a, b, c, d, e>>, Z) = Then(a, Then(b, Then(c, Then(d, Then(e, Z)))))
  <2>1. PICK T : T = S \cup {a, b, c, d, e}
    OBVIOUS
  <2>2. Z \in SUBSET Seq(T) /\ a \in T /\ b \in T /\ c \in T /\ d \in T /\ e \in T
    BY <2>1, SeqMonotonic
  <2>3. <<a, b, c, d, e>> = <<a>> \o <<b, c, d, e>>
    BY <2>2
  <2>7. <<b, c, d, e>> \in Seq(T)
    BY <2>2
  <2>4. PICK r \in Seq(T) : r = <<b, c, d, e>>
    BY <2>7
  <2>5. Put(<<a>> \o r, Z) = Then(a, Put(r, Z))
    BY <2>2, PutOne
  <2>6. Put(r, Z) = Then(b, Then(c, Then(d, Then(e, Z))))
    BY <1>4, <2>4
  <2> QED
    BY <2>3, <2>4, <2>5, <2>6
<1>6. ASSUME NEW a, NEW b, NEW c, NEW d, NEW e, NEW f
      PROVE  Put(<<a, b, c, d, e, f>>, Z) = Then(a, Then(b, Then(c, Then(d, Then(e, Then(f, Z))))))
  <2>1. PICK T : T = S \cup {a, b, c, d, e, f}
    OBVIOUS
  <2>2. Z \in SUBSET Seq(T) /\ a \in T /\ b \in T /\ c \in T /\ d \in T /\ e \in T /\ f \in T
    BY <2>1, SeqMonotonic
  <2>3. <<a, b, c, d, e, f>> = <<a>> \o <<b, c, d, e, f>>
    BY <2>2
  <2>7. <<b, c, d, e, f>> \in Seq(T)
    BY <2>2
  <2>4. PICK r \in Seq(T) : r = <<b, c, d, e, f>>
    BY <2>7
  <2>5. Put(<<a>> \o r, Z) = Then(a, Put(r, Z))
    BY <2>2, PutOne
  <2>6. Put(r, Z) = Then(b, Then(c, Then(d, Then(e, Then(f, Z)))))
    BY <1>5, <2>4
  <2> QED
    BY <2>3, <2>4, <2>5, <2>6
<1>7. ASSUME NEW a, NEW b, NEW c, NEW d, NEW e, NEW f, NEW g
      PROVE  Put(<<a, b, c, d, e, f, g>>, Z) = Then(a, Then(b, Then(c, Then(d, Then(e, Then(f, Then(g, Z)))))))
  <2>1. PICK T : T = S \cup {a, b, c, d, e, f, g}
    OBVIOUS
  <2>2. Z \in SUBSET Seq(T) /\ a \in T /\ b \in T /\ c \in T /\ d \in T /\ e \in T /\ f \in T /\ g \in T
    BY <2>1, SeqMonotonic
  <2>3. <<a, b, c, d, e, f, g>> = <<a>> \o <<b, c, d, e, f, g>>
    BY <2>2
  <2>7. <<b, c, d, e, f, g>> \in Seq(T)
    BY <2>2
  <2>4. PICK r \in Seq(T) : r = <<b, c, d, e, f, g>>
    BY <2>7
  <2>5. Put(<<a>> \o r, Z) = Then(a, Put(r, Z))
    BY <2>2, PutOne
  <2>6. Put(r, Z) = Then(b, Then(c, Then(d, Then(e, Then(f, Then(g, Z))))))
    BY <1>6, <2>4
  <2> QED
    BY <2>3, <2>4, <2>5, <2>6
<1>8. ASSUME NEW a, NEW b, NEW c, NEW d, NEW e, NEW f, NEW g, NEW h
      PROVE  Put(<<a, b, c, d, e, f, g, h>>, Z) =
             Then(a, Then(b, Then(c, Then(d, Then(e, Then(f, Then(g, Then(h, Z))))))))
  <2>1. PICK T : T = S \cup {a, b, c, d, e, f, g, h}
    OBVIOUS
  <2>2. Z \in SUBSET Seq(T) /\ a \in T /\ b \in T /\ c \in T /\ d \in T /\ e \in T /\ f \in T /\ g \in T /\ h \in T
    BY <2>1, SeqMonotonic
  <2>3. <<a, b, c, d, e, f, g, h>> = <<a>> \o <<b, c, d, e, f, g, h>>
    BY <2>2
  <2>7. <<b, c, d, e, f, g, h>> \in Seq(T)
    BY <2>2
  <2>4. PICK r \in Seq(T) : r = <<b, c, d, e, f, g, h>>
    BY <2>7
  <2>5. Put(<<a>> \o r, Z) = Then(a, Put(r, Z))
    BY <2>2, PutOne
  <2>6. Put(r, Z) = Then(b, Then(c, Then(d, Then(e, Then(f, Then(g, Then(h, Z)))))))
    BY <1>7, <2>4
  <2> QED
    BY <2>3, <2>4, <2>5, <2>6
<1>9. ASSUME NEW a, NEW b, NEW c, NEW d, NEW e, NEW f, NEW g, NEW h, NEW i
      PROVE  Put(<<a, b, c, d, e, f, g, h, i>>, Z) =
             Then(a, Then(b, Then(c, Then(d, Then(e, Then(f, Then(g, Then(h, Then(i, Z)))))))))
  <2>1. PICK T : T = S \cup {a, b, c, d, e, f, g, h, i}
    OBVIOUS
  <2>2. Z \in SUBSET Seq(T) /\ a \in T /\ b \in T /\ c \in T /\ d \in T /\ e \in T /\ f \in T /\ g \in T /\
        h \in T /\ i \in T
    BY <2>1, SeqMonotonic
  <2>3. <<a, b, c, d, e, f, g, h, i>> = <<a>> \o <<b, c, d, e, f, g, h, i>>
    BY <2>2
  <2>7. <<b, c, d, e, f, g, h, i>> \in Seq(T)
    BY <2>2
  <2>4. PICK r \in Seq(T) : r = <<b, c, d, e, f, g, h, i>>
    BY <2>7
  <2>5. Put(<<a>> \o r, Z) = Then(a, Put(r, Z))
    BY <2>2, PutOne
  <2>6. Put(r, Z) = Then(b, Then(c, Then(d, Then(e, Then(f, Then(g, Then(h, Then(i, Z))))))))
    BY <1>8, <2>4
  <2> QED
    BY <2>3, <2>4, <2>5, <2>6
<1>10. ASSUME NEW a, NEW b, NEW c, NEW d, NEW e, NEW f, NEW g, NEW h, NEW i, NEW j
      PROVE  Put(<<a, b, c, d, e, f, g, h, i, j>>, Z) =
             Then(a, Then(b, Then(c, Then(d, Then(e, Then(f, Then(g, Then(h, Then(i, Then(j, Z))))))))))
  <2>1. PICK T : T = S \cup {a, b, c, d, e, f, g, h, i, j}
    OBVIOUS
  <2>2. Z \in SUBSET Seq(T) /\ a \in T /\ b \in T /\ c \in T /\ d \in T /\ e \in T /\ f \in T /\ g \in T /\
        h \in T /\ i \in T /\ j \in T
    BY <2>1, SeqMonotonic
  <2>3. <<a, b, c, d, e, f, g, h, i, j>> = <<a>> \o <<b, c, d, e, f, g, h, i, j>>
    BY <2>2
  <2>7. <<b, c, d, e, f, g, h, i, j>> \in Seq(T)
    BY <2>2
  <2>4. PICK r \in Seq(T) : r = <<b, c, d, e, f, g, h, i, j>>
    BY <2>7
  <2>5. Put(<<a>> \o r, Z) = Then(a, Put(r, Z))
    BY <2>2, PutOne
  <2>6. Put(r, Z) = Then(b, Then(c, Then(d, Then(e, Then(f, Then(g, Then(h, Then(i, Then(j, Z)))))))))
    BY <1>9, <2>4
  <2> QED
    BY <2>3, <2>4, <2>5, <2>6
<1> QED
  BY <1>1, <1>2, <1>3, <1>4, <1>5, <1>6, <1>7, <1>8, <1>9, <1>10

(* If some function obeys the equations of Derived, Derived does. *)
LEMMA Chosen ==
  ASSUME NEW w, NEW g, g = [c \in Goals |-> DerivedAt(w, g, c)]
  PROVE  Derived(w) = [c \in Goals |-> DerivedAt(w, Derived(w), c)]
<1>1. Derived(w) = CHOOSE f : f = [c \in Goals |-> DerivedAt(w, f, c)]
  BY Zenon DEF Derived, DerivedAt, Goals
<1> QED
  BY <1>1

(* Derivations in f give a function that Derived may be. *)
LEMMA StepsAreGoals ==
  ASSUME NEW w, NEW c \in Goals, c[1] # <<>>
  PROVE  /\ Tail(c[1]) \in Seq(Symbols) /\ c[2] + 1 \in Nat /\ c[2] \in Nat
         /\ <<Tail(c[1]), c[2] + 1>> \in Goals
         /\ \A rhs \in Productions[Head(c[1])] : 
              Head(c[1]) \in DOMAIN Productions => <<rhs \o Tail(c[1]), c[2]>> \in Goals
<1>1. PICK s \in Seq(Symbols), p \in Nat : c = <<s, p>>
  BY DEF Goals
<1>2. s # <<>>
  BY <1>1
<1>3. Tail(s) \in Seq(Symbols)
  BY <1>2, HeadTailProperties
<1>4. ASSUME NEW rhs \in Productions[Head(s)], Head(s) \in DOMAIN Productions
      PROVE  rhs \o Tail(s) \in Seq(Symbols)
  BY <1>3, <1>4, RightSides, ConcatProperties
<1>5. c[1] = s /\ c[2] = p /\ p + 1 \in Nat
  BY <1>1
<1>6. <<Tail(s), p + 1>> \in Goals /\ \A t \in Seq(Symbols) : <<t, p>> \in Goals
  BY <1>3, <1>5 DEF Goals
<1> QED
  BY <1>3, <1>4, <1>5, <1>6

(* What leftmost derivations reach obeys the equations of Derived. *)
LEMMA DerivableIs ==
  ASSUME NEW w
  PROVE  Derivable(w) = [c \in Goals |-> DerivedAt(w, Derivable(w), c)]
<1> DEFINE F == Derivable(w)
<1>1. \A c \in Goals : F[c] <=> \E n \in Nat : \E run : Derivation(w, run, n) /\ run[0] = c
  BY DEF Derivable
<1> HIDE DEF F
<1>2. ASSUME NEW c \in Goals, NEW d \in Goals, Leftmost(w, c, d), F[d] PROVE F[c]
  <2>1. PICK n, run : n \in Nat /\ Derivation(w, run, n) /\ run[0] = d
    BY <1>1, <1>2
  <2>2. PICK longer : longer = [k \in 0..n + 1 |-> IF k = 0 THEN c ELSE run[k - 1]]
    OBVIOUS
  <2>3. longer \in [0..n + 1 -> Goals] /\ longer[n + 1] = run[n] /\ longer[0] = c
    BY <2>1, <2>2 DEF Derivation
  <2>4. ASSUME NEW k \in 0..(n + 1) - 1 PROVE Leftmost(w, longer[k], longer[k + 1])
    <3>1. CASE k = 0
      <4>1. longer[k] = c /\ longer[k + 1] = d
        BY <2>1, <2>2, <3>1
      <4> QED
        BY <1>2, <4>1
    <3>2. CASE k # 0
      <4>1. longer[k] = run[k - 1] /\ longer[k + 1] = run[(k - 1) + 1] /\ k - 1 \in 0..n - 1
        BY <2>1, <2>2, <3>2
      <4> QED
        BY <2>1, <4>1 DEF Derivation
    <3> QED
      BY <3>1, <3>2
  <2>5. Derivation(w, longer, n + 1) /\ n + 1 \in Nat
    BY <2>1, <2>3, <2>4 DEF Derivation
  <2> QED
    BY <1>1, <2>3, <2>5
<1>3. ASSUME NEW c \in Goals, F[c], c[1] # <<>> PROVE \E d \in Goals : Leftmost(w, c, d) /\ F[d]
  <2>1. PICK n, run : n \in Nat /\ Derivation(w, run, n) /\ run[0] = c
    BY <1>1, <1>3
  <2>2. n # 0
    BY <1>3, <2>1 DEF Derivation
  <2>3. PICK m \in Nat : n = m + 1
    BY <2>1, <2>2
  <2>4. PICK shorter : shorter = [k \in 0..m |-> run[k + 1]]
    OBVIOUS
  <2>5. shorter \in [0..m -> Goals] /\ shorter[m] = run[n] /\ shorter[0] = run[0 + 1] /\ run[1] \in Goals
    BY <2>1, <2>3, <2>4 DEF Derivation
  <2>6. ASSUME NEW k \in 0..m - 1 PROVE Leftmost(w, shorter[k], shorter[k + 1])
    <3>1. shorter[k] = run[k + 1] /\ shorter[k + 1] = run[(k + 1) + 1] /\ k + 1 \in 0..n - 1
      BY <2>3, <2>4
    <3> QED
      BY <2>1, <3>1 DEF Derivation
  <2>7. Derivation(w, shorter, m)
    BY <2>1, <2>5, <2>6 DEF Derivation
  <2>8. Leftmost(w, c, run[1]) /\ shorter[0] = run[1]
    <3>1. 0 \in 0..n - 1 /\ 0 + 1 = 1
      BY <2>3
    <3> QED
      BY <2>1, <2>5, <3>1 DEF Derivation
  <2> QED
    BY <1>1, <2>5, <2>7, <2>8
<1>4. ASSUME NEW c \in Goals, c[1] = <<>> PROVE F[c]
  <2>1. PICK run : run = [k \in 0..0 |-> c]
    OBVIOUS
  <2>2. Derivation(w, run, 0) /\ run[0] = c
    BY <1>4, <2>1 DEF Derivation
  <2> QED
    BY <1>1, <2>2
<1>5. ASSUME NEW c \in Goals PROVE F[c] <=> DerivedAt(w, F, c)
  <2>1. CASE c[1] = <<>>
    BY <1>4, <2>1 DEF DerivedAt
  <2>2. CASE c[1] # <<>> /\ Head(c[1]) \in DOMAIN Productions
    <3>1. F[c] => DerivedAt(w, F, c)
      BY <1>3, <2>2, Zenon DEF DerivedAt, Leftmost
    <3>2. ASSUME DerivedAt(w, F, c) PROVE F[c]
      <4>1. PICK rhs \in Productions[Head(c[1])] : F[<<rhs \o Tail(c[1]), c[2]>>]
        BY <2>2, <3>2, Zenon DEF DerivedAt
      <4>2. <<rhs \o Tail(c[1]), c[2]>> \in Goals
        BY <2>2, <4>1, StepsAreGoals
      <4>3. Leftmost(w, c, <<rhs \o Tail(c[1]), c[2]>>)
        BY <2>2, <4>1, Zenon DEF Leftmost
      <4> QED
        BY <1>2, <4>1, <4>2, <4>3
    <3> QED
      BY <3>1, <3>2
  <2>3. CASE c[1] # <<>> /\ Head(c[1]) \notin DOMAIN Productions
    <3>1. F[c] => DerivedAt(w, F, c)
      BY <1>3, <2>3, Zenon DEF DerivedAt, Leftmost
    <3>2. ASSUME DerivedAt(w, F, c) PROVE F[c]
      <4>1. c[2] \in DOMAIN w /\ w[c[2]] = Head(c[1]) /\ F[<<Tail(c[1]), c[2] + 1>>]
        BY <2>3, <3>2, Zenon DEF DerivedAt
      <4>2. <<Tail(c[1]), c[2] + 1>> \in Goals
        BY <2>3, StepsAreGoals
      <4>3. Leftmost(w, c, <<Tail(c[1]), c[2] + 1>>)
        BY <2>3, <4>1, Zenon DEF Leftmost
      <4> QED
        BY <1>2, <4>1, <4>2, <4>3
    <3> QED
      BY <3>1, <3>2
  <2> QED
    BY <2>1, <2>2, <2>3
<1>6. \A c \in Goals : F[c] \in BOOLEAN /\ DerivedAt(w, F, c) \in BOOLEAN
  <2>1. \A c \in Goals : F[c] \in BOOLEAN
    BY Zenon DEF F, Derivable
  <2>2. ASSUME NEW c \in Goals PROVE DerivedAt(w, F, c) \in BOOLEAN
    BY Zenon DEF DerivedAt
  <2> QED
    BY <2>1, <2>2
<1>7. F = [c \in Goals |-> F[c]]
  BY Zenon DEF F, Derivable
<1>8. \A c \in Goals : F[c] = DerivedAt(w, F, c)
  BY <1>5, <1>6, Zenon
<1> QED
  BY <1>7, <1>8, Zenon DEF F

(* So Derived obeys its own equations, for every sequence of words. *)
LEMMA DerivedIs ==
  ASSUME NEW w
  PROVE  \A c \in Goals : Derived(w)[c] <=> DerivedAt(w, Derived(w), c)
<1>1. Derived(w) = [c \in Goals |-> DerivedAt(w, Derived(w), c)]
  BY DerivableIs, Chosen, Zenon
<1>2. PICK f : f = Derived(w)
  OBVIOUS
<1>3. f = [c \in Goals |-> DerivedAt(w, f, c)]
  BY <1>1, <1>2
<1>4. ASSUME NEW c \in Goals PROVE f[c] <=> DerivedAt(w, f, c)
  BY <1>3, Zenon
<1> QED
  BY <1>2, <1>4

(* The places of the source where what is left may be derived *)
Places(w, Z) == {p \in Nat : \E s \in Z : Derived(w)[<<s, p>>]}

(* Where a symbol and what follows it may start: a word is found there, a  *)
(* nonterminal replaced.                                                   *)
LEMMA PlacesOf ==
  ASSUME NEW w, NEW Z \in Rests, NEW x \in Symbols, NEW p \in Nat
  PROVE  /\ x \notin DOMAIN Productions =>
              (p \in Places(w, Then(x, Z)) <=> p \in DOMAIN w /\ w[p] = x /\ p + 1 \in Places(w, Z))
         /\ x \in DOMAIN Productions =>
              (p \in Places(w, Then(x, Z)) <=> \E rhs \in Productions[x] : p \in Places(w, Put(rhs, Z)))
<1> DEFINE D == Derived(w)
<1>1. \A c \in Goals : D[c] <=> DerivedAt(w, D, c)
  BY DerivedIs
<1> HIDE DEF D
<1>2. p + 1 \in Nat /\ <<x>> \in Seq(Symbols)
  OBVIOUS
<1>3. ASSUME NEW s \in Z
      PROVE  LET u == <<x>> \o s
             IN  /\ u \in Seq(Symbols) /\ u # <<>> /\ Head(u) = x /\ Tail(u) = s /\ s \in Seq(Symbols)
  <2>1. s \in Seq(Symbols)
    BY DEF Rests
  <2>2. PICK u : u = <<x>> \o s
    OBVIOUS
  <2>3. u \in Seq(Symbols) /\ Len(u) = 1 + Len(s) /\ u # <<>> /\ Len(s) \in Nat
        /\ u[1] = x /\ \A i \in 1..Len(s) : u[i + 1] = s[i]
    BY <1>2, <2>1, <2>2, ConcatProperties
  <2>4. Head(u) = x /\ Tail(u) \in Seq(Symbols) /\ Len(Tail(u)) = Len(s) /\ \A i \in 1..Len(s) : Tail(u)[i] = s[i]
    BY <2>3, HeadTailProperties
  <2>5. Tail(u) = s
    BY <2>1, <2>4, SeqEqual
  <2> QED
    BY <2>1, <2>2, <2>3, <2>4, <2>5
<1>4. ASSUME NEW s \in Z
      PROVE  D[<<<<x>> \o s, p>>] <=>
               IF x \in DOMAIN Productions
               THEN \E rhs \in Productions[x] : D[<<rhs \o s, p>>]
               ELSE p \in DOMAIN w /\ w[p] = x /\ D[<<s, p + 1>>]
  <2>1. PICK u : u = <<x>> \o s
    OBVIOUS
  <2>2. u \in Seq(Symbols) /\ u # <<>> /\ Head(u) = x /\ Tail(u) = s
    BY <1>3, <2>1
  <2>3. PICK c \in Goals : c = <<u, p>>
    BY <2>2 DEF Goals
  <2>4. c[1] = u /\ c[2] = p
    BY <2>3
  <2>5. D[c] <=> DerivedAt(w, D, c)
    BY <1>1
  <2>6. DerivedAt(w, D, c) <=>
               IF x \in DOMAIN Productions
               THEN \E rhs \in Productions[x] : D[<<rhs \o s, p>>]
               ELSE p \in DOMAIN w /\ w[p] = x /\ D[<<s, p + 1>>]
    BY <2>2, <2>4, Zenon DEF DerivedAt
  <2> QED
    BY <2>1, <2>3, <2>5, <2>6
<1>5. \A Y, q : q \in Places(w, Y) <=> q \in Nat /\ \E s \in Y : D[<<s, q>>]
  BY Zenon DEF Places, D
<1>6. ASSUME NEW f PROVE p \in Places(w, Put(f, Z)) <=> \E s \in Z : D[<<f \o s, p>>]
  <2>1. ASSUME NEW u \in Put(f, Z), D[<<u, p>>] PROVE \E s \in Z : D[<<f \o s, p>>]
    <3>1. PICK s \in Z : u = f \o s
      BY <2>1, Zenon DEF Put
    <3> QED
      BY <2>1, <3>1, Zenon
  <2>2. ASSUME NEW s \in Z, D[<<f \o s, p>>] PROVE \E u \in Put(f, Z) : D[<<u, p>>]
    <3>1. f \o s \in Put(f, Z)
      BY Zenon DEF Put
    <3> QED
      BY <2>2, <3>1, Zenon
  <2>3. p \in Places(w, Put(f, Z)) <=> \E u \in Put(f, Z) : D[<<u, p>>]
    BY <1>5
  <2> QED
    BY <2>1, <2>2, <2>3, Zenon
<1>9. p \in Places(w, Then(x, Z)) <=> \E s \in Z : D[<<<<x>> \o s, p>>]
  BY <1>6 DEF Then
<1>7. CASE x \notin DOMAIN Productions
  <2>1. \A s \in Z : D[<<<<x>> \o s, p>>] <=> p \in DOMAIN w /\ w[p] = x /\ D[<<s, p + 1>>]
    BY <1>4, <1>7
  <2> QED
    BY <1>2, <1>5, <1>9, <1>7, <2>1, Zenon
<1>8. CASE x \in DOMAIN Productions
  <2>1. \A s \in Z : D[<<<<x>> \o s, p>>] <=> \E rhs \in Productions[x] : D[<<rhs \o s, p>>]
    BY <1>4, <1>8
  <2>2. \A rhs \in Productions[x] : p \in Places(w, Put(rhs, Z)) <=> \E s \in Z : D[<<rhs \o s, p>>]
    BY <1>6
  <2> QED
    BY <1>9, <1>8, <2>1, <2>2, Zenon
<1> QED
  BY <1>7, <1>8

(* A symbol put in front of rests makes rests. *)
LEMMA ThenRests ==
  ASSUME NEW Z \in Rests, NEW x \in Symbols
  PROVE  Then(x, Z) \in Rests
<1>1. \A s \in Z : <<x>> \o s \in Seq(Symbols)
  BY ConcatProperties DEF Rests
<1> QED
  BY <1>1, Zenon DEF Then, Put, Rests

(* Nothing put in front changes nothing, symbols go in front one after the *)
(* other.                                                                  *)
LEMMA PutRests ==
  ASSUME NEW Z \in Rests
  PROVE  /\ Put(<<>>, Z) = Z
         /\ \A a : Put(<<a>>, Z) = Then(a, Z)
         /\ \A a, b : Put(<<a, b>>, Z) = Then(a, Then(b, Z))
         /\ \A a, b, c : Put(<<a, b, c>>, Z) = Then(a, Then(b, Then(c, Z)))
         /\ \A a, b, c, d : Put(<<a, b, c, d>>, Z) = Then(a, Then(b, Then(c, Then(d, Z))))
         /\ \A a, b, c, d, e : Put(<<a, b, c, d, e>>, Z) = Then(a, Then(b, Then(c, Then(d, Then(e, Z)))))
         /\ \A a, b, c, d, e, f : Put(<<a, b, c, d, e, f>>, Z) =
            Then(a, Then(b, Then(c, Then(d, Then(e, Then(f, Z))))))
         /\ \A a, b, c, d, e, f, g : Put(<<a, b, c, d, e, f, g>>, Z) =
            Then(a, Then(b, Then(c, Then(d, Then(e, Then(f, Then(g, Z)))))))
         /\ \A a, b, c, d, e, f, g, h : Put(<<a, b, c, d, e, f, g, h>>, Z) =
            Then(a, Then(b, Then(c, Then(d, Then(e, Then(f, Then(g, Then(h, Z))))))))
         /\ \A a, b, c, d, e, f, g, h, i : Put(<<a, b, c, d, e, f, g, h, i>>, Z) =
            Then(a, Then(b, Then(c, Then(d, Then(e, Then(f, Then(g, Then(h, Then(i, Z)))))))))
         /\ \A a, b, c, d, e, f, g, h, i, j : Put(<<a, b, c, d, e, f, g, h, i, j>>, Z) =
            Then(a, Then(b, Then(c, Then(d, Then(e, Then(f, Then(g, Then(h, Then(i, Then(j, Z))))))))))
<1>1. Z \in SUBSET Seq(Symbols)
  BY DEF Rests
<1>2. <<>> \in Seq(Symbols) /\ "name" \in Symbols
  BY DEF Symbols, Terminals
<1>3. Put(<<>>, Z) = Z
  BY <1>1, <1>2, PutOne
<1> QED
  BY <1>1, <1>3, PutTuples

(* A nonterminal may start where one of its right-hand sides may. *)
LEMMA Replaced ==
  ASSUME NEW w, NEW Z \in Rests, NEW A \in DOMAIN Productions, NEW p
  PROVE  p \in Places(w, Then(A, Z)) <=> \E rhs \in Productions[A] : p \in Places(w, Put(rhs, Z))
<1>1. A \in Symbols
  BY DEF Symbols
<1>2. \A Y : p \in Places(w, Y) => p \in Nat
  BY Zenon DEF Places
<1> QED
  BY <1>1, <1>2, PlacesOf

(* What each nonterminal may be replaced by *)
LEMMA ClassUnfolds ==
  ASSUME NEW w, NEW Z \in Rests
  PROVE  Places(w, Then("Class", Z)) =
           Places(w, Then("class", Then("name", Then("{", Then("ClassVars", Then("Subroutines", Then("}", Z)))))))
<1>1. Productions["Class"] = {<<"class", "name", "{", "ClassVars", "Subroutines", "}">>} /\
      "Class" \in DOMAIN Productions
  BY Rules DEF Nothing
<1>2. Put(<<"class", "name", "{", "ClassVars", "Subroutines", "}">>, Z) =
      Then("class", Then("name", Then("{", Then("ClassVars", Then("Subroutines", Then("}", Z))))))
  <2>1. PICK s1, s2, s3, s4, s5, s6 : s1 = "class" /\ s2 = "name" /\ s3 = "{" /\ s4 = "ClassVars" /\
        s5 = "Subroutines" /\ s6 = "}"
    OBVIOUS
  <2>2. Put(<<s1, s2, s3, s4, s5, s6>>, Z) = Then(s1, Then(s2, Then(s3, Then(s4, Then(s5, Then(s6, Z))))))
    BY PutRests
  <2> QED
    BY <2>1, <2>2
<1>3. ASSUME NEW p
      PROVE  p \in Places(w, Then("Class", Z)) <=>
               p \in Places(w, Then("class", Then("name",
                   Then("{", Then("ClassVars", Then("Subroutines", Then("}", Z)))))))
  <2>1. p \in Places(w, Then("Class", Z)) <=> \E rhs \in Productions["Class"] : p \in Places(w, Put(rhs, Z))
    BY <1>1, Replaced
  <2> QED
    BY <1>1, <2>1, <1>2
<1> QED
  BY <1>3

(* What ClassVars may start with. *)
LEMMA ClassVarsUnfolds ==
  ASSUME NEW w, NEW Z \in Rests
  PROVE  Places(w, Then("ClassVars", Z)) =
           Places(w, Z)
             \cup Places(w, Then("classVar", Then("Type", Then("Names", Then(";", Then("ClassVars", Z))))))
<1>1. Productions["ClassVars"] = {<<>>, <<"classVar", "Type", "Names", ";", "ClassVars">>} /\
      "ClassVars" \in DOMAIN Productions
  BY Rules DEF Nothing
<1>2. Put(<<>>, Z) = Z
  BY PutRests
<1>3. Put(<<"classVar", "Type", "Names", ";", "ClassVars">>, Z) =
      Then("classVar", Then("Type", Then("Names", Then(";", Then("ClassVars", Z)))))
  <2>1. \A a, b, c, d, e : Put(<<a, b, c, d, e>>, Z) = Then(a, Then(b, Then(c, Then(d, Then(e, Z)))))
    BY PutRests
  <2> QED
    BY <2>1, Zenon
<1>4. ASSUME NEW p
      PROVE  p \in Places(w, Then("ClassVars", Z)) <=>
               p \in Places(w, Z)
                 \/ p \in Places(w, Then("classVar", Then("Type", Then("Names", Then(";", Then("ClassVars", Z))))))
  <2>1. p \in Places(w, Then("ClassVars", Z)) <=> \E rhs \in Productions["ClassVars"] : p \in Places(w, Put(rhs, Z))
    BY <1>1, Replaced
  <2> QED
    BY <1>1, <2>1, <1>2, <1>3
<1> QED
  BY <1>4

(* What Type may start with. *)
LEMMA TypeUnfolds ==
  ASSUME NEW w, NEW Z \in Rests
  PROVE  Places(w, Then("Type", Z)) =
           Places(w, Then("builtin", Z))
             \cup Places(w, Then("name", Z))
<1>1. Productions["Type"] = {<<"builtin">>, <<"name">>} /\ "Type" \in DOMAIN Productions
  BY Rules DEF Nothing
<1>2. Put(<<"builtin">>, Z) = Then("builtin", Z)
  <2>1. \A a : Put(<<a>>, Z) = Then(a, Z)
    BY PutRests
  <2> QED
    BY <2>1, Zenon
<1>3. Put(<<"name">>, Z) = Then("name", Z)
  <2>1. \A a : Put(<<a>>, Z) = Then(a, Z)
    BY PutRests
  <2> QED
    BY <2>1, Zenon
<1>4. ASSUME NEW p
      PROVE  p \in Places(w, Then("Type", Z)) <=>
               p \in Places(w, Then("builtin", Z))
                 \/ p \in Places(w, Then("name", Z))
  <2>1. p \in Places(w, Then("Type", Z)) <=> \E rhs \in Productions["Type"] : p \in Places(w, Put(rhs, Z))
    BY <1>1, Replaced
  <2> QED
    BY <1>1, <2>1, <1>2, <1>3
<1> QED
  BY <1>4

(* What Names may start with. *)
LEMMA NamesUnfolds ==
  ASSUME NEW w, NEW Z \in Rests
  PROVE  Places(w, Then("Names", Z)) =
           Places(w, Then("name", Z))
             \cup Places(w, Then("name", Then(",", Then("Names", Z))))
<1>1. Productions["Names"] = {<<"name">>, <<"name", ",", "Names">>} /\ "Names" \in DOMAIN Productions
  BY Rules DEF Nothing
<1>2. Put(<<"name">>, Z) = Then("name", Z)
  <2>1. \A a : Put(<<a>>, Z) = Then(a, Z)
    BY PutRests
  <2> QED
    BY <2>1, Zenon
<1>3. Put(<<"name", ",", "Names">>, Z) = Then("name", Then(",", Then("Names", Z)))
  <2>1. \A a, b, c : Put(<<a, b, c>>, Z) = Then(a, Then(b, Then(c, Z)))
    BY PutRests
  <2> QED
    BY <2>1, Zenon
<1>4. ASSUME NEW p
      PROVE  p \in Places(w, Then("Names", Z)) <=>
               p \in Places(w, Then("name", Z))
                 \/ p \in Places(w, Then("name", Then(",", Then("Names", Z))))
  <2>1. p \in Places(w, Then("Names", Z)) <=> \E rhs \in Productions["Names"] : p \in Places(w, Put(rhs, Z))
    BY <1>1, Replaced
  <2> QED
    BY <1>1, <2>1, <1>2, <1>3
<1> QED
  BY <1>4

(* What Subroutines may start with. *)
LEMMA SubroutinesUnfolds ==
  ASSUME NEW w, NEW Z \in Rests
  PROVE  Places(w, Then("Subroutines", Z)) =
           Places(w, Z)
             \cup Places(w, Then("Subroutine", Then("Subroutines", Z)))
             \cup Places(w, Then("native", Then("Subroutine", Then("Subroutines", Z))))
<1>1. Productions["Subroutines"] = {<<>>, <<"Subroutine", "Subroutines">>,
      <<"native", "Subroutine", "Subroutines">>} /\ "Subroutines" \in DOMAIN Productions
  BY Rules DEF Nothing
<1>2. Put(<<>>, Z) = Z
  BY PutRests
<1>3. Put(<<"Subroutine", "Subroutines">>, Z) = Then("Subroutine", Then("Subroutines", Z))
  <2>1. \A a, b : Put(<<a, b>>, Z) = Then(a, Then(b, Z))
    BY PutRests
  <2> QED
    BY <2>1, Zenon
<1>4. Put(<<"native", "Subroutine", "Subroutines">>, Z) = Then("native", Then("Subroutine", Then("Subroutines", Z)))
  <2>1. \A a, b, c : Put(<<a, b, c>>, Z) = Then(a, Then(b, Then(c, Z)))
    BY PutRests
  <2> QED
    BY <2>1, Zenon
<1>5. ASSUME NEW p
      PROVE  p \in Places(w, Then("Subroutines", Z)) <=>
               p \in Places(w, Z)
                 \/ p \in Places(w, Then("Subroutine", Then("Subroutines", Z)))
                 \/ p \in Places(w, Then("native", Then("Subroutine", Then("Subroutines", Z))))
  <2>1. p \in Places(w, Then("Subroutines", Z)) <=>
        \E rhs \in Productions["Subroutines"] : p \in Places(w, Put(rhs, Z))
    BY <1>1, Replaced
  <2> QED
    BY <1>1, <2>1, <1>2, <1>3, <1>4
<1> QED
  BY <1>5

(* What Subroutine may start with. *)
LEMMA SubroutineUnfolds ==
  ASSUME NEW w, NEW Z \in Rests
  PROVE  Places(w, Then("Subroutine", Z)) =
           Places(w, Then("routine", Then("Result",
               Then("name", Then("(", Then("Parameters",
               Then(")", Then("{", Then("Locals", Then("Statements", Then("}", Z)))))))))))
<1>1. Productions["Subroutine"] = {<<"routine", "Result", "name", "(", "Parameters", ")", "{", "Locals",
      "Statements", "}">>} /\ "Subroutine" \in DOMAIN Productions
  BY Rules DEF Nothing
<1>2. Put(<<"routine", "Result", "name", "(", "Parameters", ")", "{", "Locals", "Statements", "}">>, Z) =
      Then("routine", Then("Result",
      Then("name", Then("(", Then("Parameters",
      Then(")", Then("{", Then("Locals", Then("Statements", Then("}", Z))))))))))
  <2>1. PICK s1, s2, s3, s4, s5, s6, s7, s8, s9, s10 : s1 = "routine" /\ s2 = "Result" /\ s3 = "name" /\
        s4 = "(" /\ s5 = "Parameters" /\ s6 = ")" /\ s7 = "{" /\ s8 = "Locals" /\ s9 = "Statements" /\ s10 = "}"
    OBVIOUS
  <2>2. Put(<<s1, s2, s3, s4, s5, s6, s7, s8, s9, s10>>, Z) =
        Then(s1, Then(s2, Then(s3, Then(s4, Then(s5, Then(s6, Then(s7, Then(s8, Then(s9, Then(s10, Z))))))))))
    BY PutRests
  <2> QED
    BY <2>1, <2>2
<1>3. ASSUME NEW p
      PROVE  p \in Places(w, Then("Subroutine", Z)) <=>
               p \in Places(w, Then("routine", Then("Result",
                   Then("name", Then("(", Then("Parameters",
                   Then(")", Then("{", Then("Locals", Then("Statements", Then("}", Z)))))))))))
  <2>1. p \in Places(w, Then("Subroutine", Z)) <=> \E rhs \in Productions["Subroutine"] : p \in Places(w, Put(rhs, Z))
    BY <1>1, Replaced
  <2> QED
    BY <1>1, <2>1, <1>2
<1> QED
  BY <1>3

(* What Result may start with. *)
LEMMA ResultUnfolds ==
  ASSUME NEW w, NEW Z \in Rests
  PROVE  Places(w, Then("Result", Z)) =
           Places(w, Then("Type", Z))
             \cup Places(w, Then("void", Z))
<1>1. Productions["Result"] = {<<"Type">>, <<"void">>} /\ "Result" \in DOMAIN Productions
  BY Rules DEF Nothing
<1>2. Put(<<"Type">>, Z) = Then("Type", Z)
  <2>1. \A a : Put(<<a>>, Z) = Then(a, Z)
    BY PutRests
  <2> QED
    BY <2>1, Zenon
<1>3. Put(<<"void">>, Z) = Then("void", Z)
  <2>1. \A a : Put(<<a>>, Z) = Then(a, Z)
    BY PutRests
  <2> QED
    BY <2>1, Zenon
<1>4. ASSUME NEW p
      PROVE  p \in Places(w, Then("Result", Z)) <=>
               p \in Places(w, Then("Type", Z))
                 \/ p \in Places(w, Then("void", Z))
  <2>1. p \in Places(w, Then("Result", Z)) <=> \E rhs \in Productions["Result"] : p \in Places(w, Put(rhs, Z))
    BY <1>1, Replaced
  <2> QED
    BY <1>1, <2>1, <1>2, <1>3
<1> QED
  BY <1>4

(* What Parameters may start with. *)
LEMMA ParametersUnfolds ==
  ASSUME NEW w, NEW Z \in Rests
  PROVE  Places(w, Then("Parameters", Z)) =
           Places(w, Z)
             \cup Places(w, Then("Parameter", Z))
<1>1. Productions["Parameters"] = {<<>>, <<"Parameter">>} /\ "Parameters" \in DOMAIN Productions
  BY Rules DEF Nothing
<1>2. Put(<<>>, Z) = Z
  BY PutRests
<1>3. Put(<<"Parameter">>, Z) = Then("Parameter", Z)
  <2>1. \A a : Put(<<a>>, Z) = Then(a, Z)
    BY PutRests
  <2> QED
    BY <2>1, Zenon
<1>4. ASSUME NEW p
      PROVE  p \in Places(w, Then("Parameters", Z)) <=>
               p \in Places(w, Z)
                 \/ p \in Places(w, Then("Parameter", Z))
  <2>1. p \in Places(w, Then("Parameters", Z)) <=> \E rhs \in Productions["Parameters"] : p \in Places(w, Put(rhs, Z))
    BY <1>1, Replaced
  <2> QED
    BY <1>1, <2>1, <1>2, <1>3
<1> QED
  BY <1>4

(* What Parameter may start with. *)
LEMMA ParameterUnfolds ==
  ASSUME NEW w, NEW Z \in Rests
  PROVE  Places(w, Then("Parameter", Z)) =
           Places(w, Then("Type", Then("name", Z)))
             \cup Places(w, Then("Type", Then("name", Then(",", Then("Parameter", Z)))))
<1>1. Productions["Parameter"] = {<<"Type", "name">>, <<"Type", "name", ",", "Parameter">>} /\
      "Parameter" \in DOMAIN Productions
  BY Rules DEF Nothing
<1>2. Put(<<"Type", "name">>, Z) = Then("Type", Then("name", Z))
  <2>1. \A a, b : Put(<<a, b>>, Z) = Then(a, Then(b, Z))
    BY PutRests
  <2> QED
    BY <2>1, Zenon
<1>3. Put(<<"Type", "name", ",", "Parameter">>, Z) = Then("Type", Then("name", Then(",", Then("Parameter", Z))))
  <2>1. \A a, b, c, d : Put(<<a, b, c, d>>, Z) = Then(a, Then(b, Then(c, Then(d, Z))))
    BY PutRests
  <2> QED
    BY <2>1, Zenon
<1>4. ASSUME NEW p
      PROVE  p \in Places(w, Then("Parameter", Z)) <=>
               p \in Places(w, Then("Type", Then("name", Z)))
                 \/ p \in Places(w, Then("Type", Then("name", Then(",", Then("Parameter", Z)))))
  <2>1. p \in Places(w, Then("Parameter", Z)) <=> \E rhs \in Productions["Parameter"] : p \in Places(w, Put(rhs, Z))
    BY <1>1, Replaced
  <2> QED
    BY <1>1, <2>1, <1>2, <1>3
<1> QED
  BY <1>4

(* What Locals may start with. *)
LEMMA LocalsUnfolds ==
  ASSUME NEW w, NEW Z \in Rests
  PROVE  Places(w, Then("Locals", Z)) =
           Places(w, Z)
             \cup Places(w, Then("var", Then("Type", Then("Names", Then(";", Then("Locals", Z))))))
<1>1. Productions["Locals"] = {<<>>, <<"var", "Type", "Names", ";", "Locals">>} /\ "Locals" \in DOMAIN Productions
  BY Rules DEF Nothing
<1>2. Put(<<>>, Z) = Z
  BY PutRests
<1>3. Put(<<"var", "Type", "Names", ";", "Locals">>, Z) =
      Then("var", Then("Type", Then("Names", Then(";", Then("Locals", Z)))))
  <2>1. \A a, b, c, d, e : Put(<<a, b, c, d, e>>, Z) = Then(a, Then(b, Then(c, Then(d, Then(e, Z)))))
    BY PutRests
  <2> QED
    BY <2>1, Zenon
<1>4. ASSUME NEW p
      PROVE  p \in Places(w, Then("Locals", Z)) <=>
               p \in Places(w, Z)
                 \/ p \in Places(w, Then("var", Then("Type", Then("Names", Then(";", Then("Locals", Z))))))
  <2>1. p \in Places(w, Then("Locals", Z)) <=> \E rhs \in Productions["Locals"] : p \in Places(w, Put(rhs, Z))
    BY <1>1, Replaced
  <2> QED
    BY <1>1, <2>1, <1>2, <1>3
<1> QED
  BY <1>4

(* What Statements may start with. *)
LEMMA StatementsUnfolds ==
  ASSUME NEW w, NEW Z \in Rests
  PROVE  Places(w, Then("Statements", Z)) =
           Places(w, Z)
             \cup Places(w, Then("Statement", Then("Statements", Z)))
<1>1. Productions["Statements"] = {<<>>, <<"Statement", "Statements">>} /\ "Statements" \in DOMAIN Productions
  BY Rules DEF Nothing
<1>2. Put(<<>>, Z) = Z
  BY PutRests
<1>3. Put(<<"Statement", "Statements">>, Z) = Then("Statement", Then("Statements", Z))
  <2>1. \A a, b : Put(<<a, b>>, Z) = Then(a, Then(b, Z))
    BY PutRests
  <2> QED
    BY <2>1, Zenon
<1>4. ASSUME NEW p
      PROVE  p \in Places(w, Then("Statements", Z)) <=>
               p \in Places(w, Z)
                 \/ p \in Places(w, Then("Statement", Then("Statements", Z)))
  <2>1. p \in Places(w, Then("Statements", Z)) <=> \E rhs \in Productions["Statements"] : p \in Places(w, Put(rhs, Z))
    BY <1>1, Replaced
  <2> QED
    BY <1>1, <2>1, <1>2, <1>3
<1> QED
  BY <1>4

(* What Statement may start with. *)
LEMMA StatementUnfolds ==
  ASSUME NEW w, NEW Z \in Rests
  PROVE  Places(w, Then("Statement", Z)) =
           Places(w, Then("let", Then("name", Then("=", Then("Expression", Then(";", Z))))))
             \cup Places(w, Then("let", Then("name", Then("Index", Then("=", Then("Expression", Then(";", Z)))))))
             \cup Places(w, Then("if", Then("(",
                 Then("Expression", Then(")", Then("{", Then("Statements", Then("}", Then("Else", Z)))))))))
             \cup Places(w, Then("while", Then("(",
                 Then("Expression", Then(")", Then("{", Then("Statements", Then("}", Z))))))))
             \cup Places(w, Then("do", Then("Call", Then(";", Z))))
             \cup Places(w, Then("return", Then(";", Z)))
             \cup Places(w, Then("return", Then("Expression", Then(";", Z))))
<1>1. Productions["Statement"] = {<<"let", "name", "=", "Expression", ";">>,
      <<"let", "name", "Index", "=", "Expression", ";">>,
      <<"if", "(", "Expression", ")", "{", "Statements", "}", "Else">>,
      <<"while", "(", "Expression", ")", "{", "Statements", "}">>, <<"do", "Call", ";">>, <<"return", ";">>,
      <<"return", "Expression", ";">>} /\ "Statement" \in DOMAIN Productions
  BY Rules DEF Nothing
<1>2. Put(<<"let", "name", "=", "Expression", ";">>, Z) =
      Then("let", Then("name", Then("=", Then("Expression", Then(";", Z)))))
  <2>1. \A a, b, c, d, e : Put(<<a, b, c, d, e>>, Z) = Then(a, Then(b, Then(c, Then(d, Then(e, Z)))))
    BY PutRests
  <2> QED
    BY <2>1, Zenon
<1>3. Put(<<"let", "name", "Index", "=", "Expression", ";">>, Z) =
      Then("let", Then("name", Then("Index", Then("=", Then("Expression", Then(";", Z))))))
  <2>1. PICK s1, s2, s3, s4, s5, s6 : s1 = "let" /\ s2 = "name" /\ s3 = "Index" /\ s4 = "=" /\
        s5 = "Expression" /\ s6 = ";"
    OBVIOUS
  <2>2. Put(<<s1, s2, s3, s4, s5, s6>>, Z) = Then(s1, Then(s2, Then(s3, Then(s4, Then(s5, Then(s6, Z))))))
    BY PutRests
  <2> QED
    BY <2>1, <2>2
<1>4. Put(<<"if", "(", "Expression", ")", "{", "Statements", "}", "Else">>, Z) =
      Then("if", Then("(", Then("Expression", Then(")", Then("{", Then("Statements", Then("}", Then("Else", Z))))))))
  <2>1. PICK s1, s2, s3, s4, s5, s6, s7, s8 : s1 = "if" /\ s2 = "(" /\ s3 = "Expression" /\ s4 = ")" /\
        s5 = "{" /\ s6 = "Statements" /\ s7 = "}" /\ s8 = "Else"
    OBVIOUS
  <2>2. Put(<<s1, s2, s3, s4, s5, s6, s7, s8>>, Z) =
        Then(s1, Then(s2, Then(s3, Then(s4, Then(s5, Then(s6, Then(s7, Then(s8, Z))))))))
    BY PutRests
  <2> QED
    BY <2>1, <2>2
<1>5. Put(<<"while", "(", "Expression", ")", "{", "Statements", "}">>, Z) =
      Then("while", Then("(", Then("Expression", Then(")", Then("{", Then("Statements", Then("}", Z)))))))
  <2>1. PICK s1, s2, s3, s4, s5, s6, s7 : s1 = "while" /\ s2 = "(" /\ s3 = "Expression" /\ s4 = ")" /\
        s5 = "{" /\ s6 = "Statements" /\ s7 = "}"
    OBVIOUS
  <2>2. Put(<<s1, s2, s3, s4, s5, s6, s7>>, Z) =
        Then(s1, Then(s2, Then(s3, Then(s4, Then(s5, Then(s6, Then(s7, Z)))))))
    BY PutRests
  <2> QED
    BY <2>1, <2>2
<1>6. Put(<<"do", "Call", ";">>, Z) = Then("do", Then("Call", Then(";", Z)))
  <2>1. \A a, b, c : Put(<<a, b, c>>, Z) = Then(a, Then(b, Then(c, Z)))
    BY PutRests
  <2> QED
    BY <2>1, Zenon
<1>7. Put(<<"return", ";">>, Z) = Then("return", Then(";", Z))
  <2>1. \A a, b : Put(<<a, b>>, Z) = Then(a, Then(b, Z))
    BY PutRests
  <2> QED
    BY <2>1, Zenon
<1>8. Put(<<"return", "Expression", ";">>, Z) = Then("return", Then("Expression", Then(";", Z)))
  <2>1. \A a, b, c : Put(<<a, b, c>>, Z) = Then(a, Then(b, Then(c, Z)))
    BY PutRests
  <2> QED
    BY <2>1, Zenon
<1>9. ASSUME NEW p
      PROVE  p \in Places(w, Then("Statement", Z)) <=>
               p \in Places(w, Then("let", Then("name", Then("=", Then("Expression", Then(";", Z))))))
                 \/ p \in Places(w, Then("let", Then("name",
                    Then("Index", Then("=", Then("Expression", Then(";", Z)))))))
                 \/ p \in Places(w, Then("if", Then("(",
                    Then("Expression", Then(")", Then("{", Then("Statements", Then("}", Then("Else", Z)))))))))
                 \/ p \in Places(w, Then("while",
                    Then("(", Then("Expression", Then(")", Then("{", Then("Statements", Then("}", Z))))))))
                 \/ p \in Places(w, Then("do", Then("Call", Then(";", Z))))
                 \/ p \in Places(w, Then("return", Then(";", Z)))
                 \/ p \in Places(w, Then("return", Then("Expression", Then(";", Z))))
  <2>1. p \in Places(w, Then("Statement", Z)) <=> \E rhs \in Productions["Statement"] : p \in Places(w, Put(rhs, Z))
    BY <1>1, Replaced
  <2> QED
    BY <1>1, <2>1, <1>2, <1>3, <1>4, <1>5, <1>6, <1>7, <1>8
<1> QED
  BY <1>9

(* What Index may start with. *)
LEMMA IndexUnfolds ==
  ASSUME NEW w, NEW Z \in Rests
  PROVE  Places(w, Then("Index", Z)) =
           Places(w, Then("[", Then("Expression", Then("]", Z))))
<1>1. Productions["Index"] = {<<"[", "Expression", "]">>} /\ "Index" \in DOMAIN Productions
  BY Rules DEF Nothing
<1>2. Put(<<"[", "Expression", "]">>, Z) = Then("[", Then("Expression", Then("]", Z)))
  <2>1. \A a, b, c : Put(<<a, b, c>>, Z) = Then(a, Then(b, Then(c, Z)))
    BY PutRests
  <2> QED
    BY <2>1, Zenon
<1>3. ASSUME NEW p
      PROVE  p \in Places(w, Then("Index", Z)) <=>
               p \in Places(w, Then("[", Then("Expression", Then("]", Z))))
  <2>1. p \in Places(w, Then("Index", Z)) <=> \E rhs \in Productions["Index"] : p \in Places(w, Put(rhs, Z))
    BY <1>1, Replaced
  <2> QED
    BY <1>1, <2>1, <1>2
<1> QED
  BY <1>3

(* What Else may start with. *)
LEMMA ElseUnfolds ==
  ASSUME NEW w, NEW Z \in Rests
  PROVE  Places(w, Then("Else", Z)) =
           Places(w, Z)
             \cup Places(w, Then("else", Then("{", Then("Statements", Then("}", Z)))))
<1>1. Productions["Else"] = {<<>>, <<"else", "{", "Statements", "}">>} /\ "Else" \in DOMAIN Productions
  BY Rules DEF Nothing
<1>2. Put(<<>>, Z) = Z
  BY PutRests
<1>3. Put(<<"else", "{", "Statements", "}">>, Z) = Then("else", Then("{", Then("Statements", Then("}", Z))))
  <2>1. \A a, b, c, d : Put(<<a, b, c, d>>, Z) = Then(a, Then(b, Then(c, Then(d, Z))))
    BY PutRests
  <2> QED
    BY <2>1, Zenon
<1>4. ASSUME NEW p
      PROVE  p \in Places(w, Then("Else", Z)) <=>
               p \in Places(w, Z)
                 \/ p \in Places(w, Then("else", Then("{", Then("Statements", Then("}", Z)))))
  <2>1. p \in Places(w, Then("Else", Z)) <=> \E rhs \in Productions["Else"] : p \in Places(w, Put(rhs, Z))
    BY <1>1, Replaced
  <2> QED
    BY <1>1, <2>1, <1>2, <1>3
<1> QED
  BY <1>4

(* What Expression may start with. *)
LEMMA ExpressionUnfolds ==
  ASSUME NEW w, NEW Z \in Rests
  PROVE  Places(w, Then("Expression", Z)) =
           Places(w, Then("Term", Z))
             \cup Places(w, Then("Term", Then("Operator", Then("Expression", Z))))
<1>1. Productions["Expression"] = {<<"Term">>, <<"Term", "Operator", "Expression">>} /\
      "Expression" \in DOMAIN Productions
  BY Rules DEF Nothing
<1>2. Put(<<"Term">>, Z) = Then("Term", Z)
  <2>1. \A a : Put(<<a>>, Z) = Then(a, Z)
    BY PutRests
  <2> QED
    BY <2>1, Zenon
<1>3. Put(<<"Term", "Operator", "Expression">>, Z) = Then("Term", Then("Operator", Then("Expression", Z)))
  <2>1. \A a, b, c : Put(<<a, b, c>>, Z) = Then(a, Then(b, Then(c, Z)))
    BY PutRests
  <2> QED
    BY <2>1, Zenon
<1>4. ASSUME NEW p
      PROVE  p \in Places(w, Then("Expression", Z)) <=>
               p \in Places(w, Then("Term", Z))
                 \/ p \in Places(w, Then("Term", Then("Operator", Then("Expression", Z))))
  <2>1. p \in Places(w, Then("Expression", Z)) <=> \E rhs \in Productions["Expression"] : p \in Places(w, Put(rhs, Z))
    BY <1>1, Replaced
  <2> QED
    BY <1>1, <2>1, <1>2, <1>3
<1> QED
  BY <1>4

(* What Operator may start with. *)
LEMMA OperatorUnfolds ==
  ASSUME NEW w, NEW Z \in Rests
  PROVE  Places(w, Then("Operator", Z)) =
           Places(w, Then("+", Z))
             \cup Places(w, Then("-", Z))
             \cup Places(w, Then("=", Z))
<1>1. Productions["Operator"] = {<<"+">>, <<"-">>, <<"=">>} /\ "Operator" \in DOMAIN Productions
  BY Rules DEF Nothing
<1>2. Put(<<"+">>, Z) = Then("+", Z)
  <2>1. \A a : Put(<<a>>, Z) = Then(a, Z)
    BY PutRests
  <2> QED
    BY <2>1, Zenon
<1>3. Put(<<"-">>, Z) = Then("-", Z)
  <2>1. \A a : Put(<<a>>, Z) = Then(a, Z)
    BY PutRests
  <2> QED
    BY <2>1, Zenon
<1>4. Put(<<"=">>, Z) = Then("=", Z)
  <2>1. \A a : Put(<<a>>, Z) = Then(a, Z)
    BY PutRests
  <2> QED
    BY <2>1, Zenon
<1>5. ASSUME NEW p
      PROVE  p \in Places(w, Then("Operator", Z)) <=>
               p \in Places(w, Then("+", Z))
                 \/ p \in Places(w, Then("-", Z))
                 \/ p \in Places(w, Then("=", Z))
  <2>1. p \in Places(w, Then("Operator", Z)) <=> \E rhs \in Productions["Operator"] : p \in Places(w, Put(rhs, Z))
    BY <1>1, Replaced
  <2> QED
    BY <1>1, <2>1, <1>2, <1>3, <1>4
<1> QED
  BY <1>5

(* What Term may start with. *)
LEMMA TermUnfolds ==
  ASSUME NEW w, NEW Z \in Rests
  PROVE  Places(w, Then("Term", Z)) =
           Places(w, Then("literal", Z))
             \cup Places(w, Then("name", Z))
             \cup Places(w, Then("name", Then("Index", Z)))
             \cup Places(w, Then("Call", Z))
             \cup Places(w, Then("(", Then("Expression", Then(")", Z))))
             \cup Places(w, Then("-", Then("Term", Z)))
             \cup Places(w, Then("~", Then("Term", Z)))
<1>1. Productions["Term"] = {<<"literal">>, <<"name">>, <<"name", "Index">>, <<"Call">>,
      <<"(", "Expression", ")">>, <<"-", "Term">>, <<"~", "Term">>} /\ "Term" \in DOMAIN Productions
  BY Rules DEF Nothing
<1>2. Put(<<"literal">>, Z) = Then("literal", Z)
  <2>1. \A a : Put(<<a>>, Z) = Then(a, Z)
    BY PutRests
  <2> QED
    BY <2>1, Zenon
<1>3. Put(<<"name">>, Z) = Then("name", Z)
  <2>1. \A a : Put(<<a>>, Z) = Then(a, Z)
    BY PutRests
  <2> QED
    BY <2>1, Zenon
<1>4. Put(<<"name", "Index">>, Z) = Then("name", Then("Index", Z))
  <2>1. \A a, b : Put(<<a, b>>, Z) = Then(a, Then(b, Z))
    BY PutRests
  <2> QED
    BY <2>1, Zenon
<1>5. Put(<<"Call">>, Z) = Then("Call", Z)
  <2>1. \A a : Put(<<a>>, Z) = Then(a, Z)
    BY PutRests
  <2> QED
    BY <2>1, Zenon
<1>6. Put(<<"(", "Expression", ")">>, Z) = Then("(", Then("Expression", Then(")", Z)))
  <2>1. \A a, b, c : Put(<<a, b, c>>, Z) = Then(a, Then(b, Then(c, Z)))
    BY PutRests
  <2> QED
    BY <2>1, Zenon
<1>7. Put(<<"-", "Term">>, Z) = Then("-", Then("Term", Z))
  <2>1. \A a, b : Put(<<a, b>>, Z) = Then(a, Then(b, Z))
    BY PutRests
  <2> QED
    BY <2>1, Zenon
<1>8. Put(<<"~", "Term">>, Z) = Then("~", Then("Term", Z))
  <2>1. \A a, b : Put(<<a, b>>, Z) = Then(a, Then(b, Z))
    BY PutRests
  <2> QED
    BY <2>1, Zenon
<1>9. ASSUME NEW p
      PROVE  p \in Places(w, Then("Term", Z)) <=>
               p \in Places(w, Then("literal", Z))
                 \/ p \in Places(w, Then("name", Z))
                 \/ p \in Places(w, Then("name", Then("Index", Z)))
                 \/ p \in Places(w, Then("Call", Z))
                 \/ p \in Places(w, Then("(", Then("Expression", Then(")", Z))))
                 \/ p \in Places(w, Then("-", Then("Term", Z)))
                 \/ p \in Places(w, Then("~", Then("Term", Z)))
  <2>1. p \in Places(w, Then("Term", Z)) <=> \E rhs \in Productions["Term"] : p \in Places(w, Put(rhs, Z))
    BY <1>1, Replaced
  <2> QED
    BY <1>1, <2>1, <1>2, <1>3, <1>4, <1>5, <1>6, <1>7, <1>8
<1> QED
  BY <1>9

(* What Call may start with. *)
LEMMA CallUnfolds ==
  ASSUME NEW w, NEW Z \in Rests
  PROVE  Places(w, Then("Call", Z)) =
           Places(w, Then("name", Then("Arguments", Z)))
             \cup Places(w, Then("name", Then(".", Then("name", Then("Arguments", Z)))))
<1>1. Productions["Call"] = {<<"name", "Arguments">>, <<"name", ".", "name", "Arguments">>} /\
      "Call" \in DOMAIN Productions
  BY Rules DEF Nothing
<1>2. Put(<<"name", "Arguments">>, Z) = Then("name", Then("Arguments", Z))
  <2>1. \A a, b : Put(<<a, b>>, Z) = Then(a, Then(b, Z))
    BY PutRests
  <2> QED
    BY <2>1, Zenon
<1>3. Put(<<"name", ".", "name", "Arguments">>, Z) = Then("name", Then(".", Then("name", Then("Arguments", Z))))
  <2>1. \A a, b, c, d : Put(<<a, b, c, d>>, Z) = Then(a, Then(b, Then(c, Then(d, Z))))
    BY PutRests
  <2> QED
    BY <2>1, Zenon
<1>4. ASSUME NEW p
      PROVE  p \in Places(w, Then("Call", Z)) <=>
               p \in Places(w, Then("name", Then("Arguments", Z)))
                 \/ p \in Places(w, Then("name", Then(".", Then("name", Then("Arguments", Z)))))
  <2>1. p \in Places(w, Then("Call", Z)) <=> \E rhs \in Productions["Call"] : p \in Places(w, Put(rhs, Z))
    BY <1>1, Replaced
  <2> QED
    BY <1>1, <2>1, <1>2, <1>3
<1> QED
  BY <1>4

(* What Arguments may start with. *)
LEMMA ArgumentsUnfolds ==
  ASSUME NEW w, NEW Z \in Rests
  PROVE  Places(w, Then("Arguments", Z)) =
           Places(w, Then("(", Then(")", Z)))
             \cup Places(w, Then("(", Then("List", Then(")", Z))))
<1>1. Productions["Arguments"] = {<<"(", ")">>, <<"(", "List", ")">>} /\ "Arguments" \in DOMAIN Productions
  BY Rules DEF Nothing
<1>2. Put(<<"(", ")">>, Z) = Then("(", Then(")", Z))
  <2>1. \A a, b : Put(<<a, b>>, Z) = Then(a, Then(b, Z))
    BY PutRests
  <2> QED
    BY <2>1, Zenon
<1>3. Put(<<"(", "List", ")">>, Z) = Then("(", Then("List", Then(")", Z)))
  <2>1. \A a, b, c : Put(<<a, b, c>>, Z) = Then(a, Then(b, Then(c, Z)))
    BY PutRests
  <2> QED
    BY <2>1, Zenon
<1>4. ASSUME NEW p
      PROVE  p \in Places(w, Then("Arguments", Z)) <=>
               p \in Places(w, Then("(", Then(")", Z)))
                 \/ p \in Places(w, Then("(", Then("List", Then(")", Z))))
  <2>1. p \in Places(w, Then("Arguments", Z)) <=> \E rhs \in Productions["Arguments"] : p \in Places(w, Put(rhs, Z))
    BY <1>1, Replaced
  <2> QED
    BY <1>1, <2>1, <1>2, <1>3
<1> QED
  BY <1>4

(* What List may start with. *)
LEMMA ListUnfolds ==
  ASSUME NEW w, NEW Z \in Rests
  PROVE  Places(w, Then("List", Z)) =
           Places(w, Then("Expression", Z))
             \cup Places(w, Then("Expression", Then(",", Then("List", Z))))
<1>1. Productions["List"] = {<<"Expression">>, <<"Expression", ",", "List">>} /\ "List" \in DOMAIN Productions
  BY Rules DEF Nothing
<1>2. Put(<<"Expression">>, Z) = Then("Expression", Z)
  <2>1. \A a : Put(<<a>>, Z) = Then(a, Z)
    BY PutRests
  <2> QED
    BY <2>1, Zenon
<1>3. Put(<<"Expression", ",", "List">>, Z) = Then("Expression", Then(",", Then("List", Z)))
  <2>1. \A a, b, c : Put(<<a, b, c>>, Z) = Then(a, Then(b, Then(c, Z)))
    BY PutRests
  <2> QED
    BY <2>1, Zenon
<1>4. ASSUME NEW p
      PROVE  p \in Places(w, Then("List", Z)) <=>
               p \in Places(w, Then("Expression", Z))
                 \/ p \in Places(w, Then("Expression", Then(",", Then("List", Z))))
  <2>1. p \in Places(w, Then("List", Z)) <=> \E rhs \in Productions["List"] : p \in Places(w, Put(rhs, Z))
    BY <1>1, Replaced
  <2> QED
    BY <1>1, <2>1, <1>2, <1>3
<1> QED
  BY <1>4

(* The word at a place, and what is read there *)
Word(w, p) == IF p \in DOMAIN w THEN w[p] ELSE "eof"

(* A word is read at its place, what follows it behind. *)
LEMMA WordRead ==
  ASSUME NEW w, NEW Z \in Rests, NEW t \in Terminals, NEW p \in Nat
  PROVE  p \in Places(w, Then(t, Z)) <=> Word(w, p) = t /\ p + 1 \in Places(w, Z)
<1>1. t \in Symbols /\ t \notin DOMAIN Productions /\ t # "eof"
  BY Rules DEF Symbols, Terminals
<1> QED
  BY <1>1, PlacesOf DEF Word

(* What either of two rests may be *)
Either(Y, Z) == Y \cup Z

(* Two sets of rests are one. *)
LEMMA EitherRests ==
  ASSUME NEW Y \in Rests, NEW Z \in Rests
  PROVE  Either(Y, Z) \in Rests
  BY DEF Rests, Either

(* A symbol before either of two is either of two that begin with it. *)
LEMMA ThenEither ==
  ASSUME NEW Y, NEW Z, NEW x
  PROVE  Then(x, Either(Y, Z)) = Either(Then(x, Y), Then(x, Z))
<1>1. ASSUME NEW s
      PROVE  s \in Then(x, Either(Y, Z)) <=> s \in Either(Then(x, Y), Then(x, Z))
  BY Zenon DEF Then, Put, Either
<1> QED
  BY <1>1 DEF Then, Put, Either

(* Either of two starts where one of them does. *)
LEMMA EitherPlaces ==
  ASSUME NEW w, NEW Y, NEW Z, NEW p
  PROVE  p \in Places(w, Either(Y, Z)) <=> p \in Places(w, Y) \/ p \in Places(w, Z)
  BY Zenon DEF Places, Either

(* What two alternatives begin with is read before they part. *)
LEMMA Factored ==
  ASSUME NEW w, NEW Y, NEW Z, NEW x, NEW p
  PROVE  p \in Places(w, Then(x, Either(Y, Z))) <=> p \in Places(w, Then(x, Y)) \/ p \in Places(w, Then(x, Z))
  BY ThenEither, EitherPlaces

(* Every symbol of the grammar may be put in front of rests. *)
LEMMA Closed ==
  ASSUME NEW Z \in Rests
  PROVE  /\ \A t \in Terminals : Then(t, Z) \in Rests
         /\ Then("Class", Z) \in Rests
         /\ Then("ClassVars", Z) \in Rests
         /\ Then("Type", Z) \in Rests
         /\ Then("Names", Z) \in Rests
         /\ Then("Subroutines", Z) \in Rests
         /\ Then("Subroutine", Z) \in Rests
         /\ Then("Result", Z) \in Rests
         /\ Then("Parameters", Z) \in Rests
         /\ Then("Parameter", Z) \in Rests
         /\ Then("Locals", Z) \in Rests
         /\ Then("Statements", Z) \in Rests
         /\ Then("Statement", Z) \in Rests
         /\ Then("Index", Z) \in Rests
         /\ Then("Else", Z) \in Rests
         /\ Then("Expression", Z) \in Rests
         /\ Then("Operator", Z) \in Rests
         /\ Then("Term", Z) \in Rests
         /\ Then("Call", Z) \in Rests
         /\ Then("Arguments", Z) \in Rests
         /\ Then("List", Z) \in Rests
<1>1. \A t \in Terminals \cup DOMAIN Productions : Then(t, Z) \in Rests
  BY ThenRests DEF Symbols
<1> QED
  BY <1>1, Rules

(* Where an expression may start *)
TermStart == {"literal", "name", "("} \cup Prefix

(* What each nonterminal is read by: the word at a place tells which of its *)
(* forms it may be, and what is left to read from the next place on.        *)
LEMMA OneWord ==
  ASSUME NEW w, NEW Z \in Rests, NEW p \in Nat
  PROVE  /\ p \in Places(w, Then("Type", Z)) <=> Word(w, p) \in Types /\ p + 1 \in Places(w, Z)
         /\ p \in Places(w, Then("Result", Z)) <=> Word(w, p) \in Types \cup {"void"} /\ p + 1 \in Places(w, Z)
         /\ p \in Places(w, Then("Operator", Z)) <=> Word(w, p) \in Infix /\ p + 1 \in Places(w, Z)
<1>1. \A t \in {"builtin", "name", "void", "+", "-", "="} :
         p \in Places(w, Then(t, Z)) <=> Word(w, p) = t /\ p + 1 \in Places(w, Z)
  <2>1. {"builtin", "name", "void", "+", "-", "="} \subseteq Terminals
    BY DEF Terminals
  <2> QED
    BY <2>1, WordRead
<1>2. /\ Places(w, Then("Type", Z)) = Places(w, Then("builtin", Z)) \cup Places(w, Then("name", Z))
      /\ Places(w, Then("Result", Z)) = Places(w, Then("Type", Z)) \cup Places(w, Then("void", Z))
      /\ Places(w, Then("Operator", Z)) = Places(w, Then("+", Z)) \cup Places(w, Then("-", Z)) \cup
         Places(w, Then("=", Z))
  BY TypeUnfolds, ResultUnfolds, OperatorUnfolds
<1> QED
  BY <1>1, <1>2 DEF Types, Infix

(* An index starts with its bracket. *)
LEMMA IndexRead ==
  ASSUME NEW w, NEW Z \in Rests, NEW p \in Nat
  PROVE  p \in Places(w, Then("Index", Z)) <=>
           Word(w, p) = "[" /\ p + 1 \in Places(w, Then("Expression", Then("]", Z)))
<1>1. PICK Y \in Rests : Y = Then("Expression", Then("]", Z))
  <2>1. "]" \in Terminals
    BY DEF Terminals
  <2> QED
    BY <2>1, Closed
<1>2. Places(w, Then("Index", Z)) = Places(w, Then("[", Y))
  BY <1>1, IndexUnfolds
<1>3. "[" \in Terminals
  BY DEF Terminals
<1>4. p \in Places(w, Then("[", Y)) <=> Word(w, p) = "[" /\ p + 1 \in Places(w, Y)
  BY <1>3, WordRead
<1> QED
  BY <1>1, <1>2, <1>4

(* Arguments start with their parenthesis. *)
LEMMA ArgumentsRead ==
  ASSUME NEW w, NEW Z \in Rests, NEW p \in Nat
  PROVE  p \in Places(w, Then("Arguments", Z)) <=>
           Word(w, p) = "(" /\ p + 1 \in Places(w, Either(Then(")", Z), Then("List", Then(")", Z))))
<1>1. PICK A \in Rests, B \in Rests : A = Then(")", Z) /\ B = Then("List", Then(")", Z))
  <2>1. ")" \in Terminals
    BY DEF Terminals
  <2>2. Then(")", Z) \in Rests
    BY <2>1, Closed
  <2> QED
    BY <2>2, Closed
<1>2. Places(w, Then("Arguments", Z)) = Places(w, Then("(", A)) \cup Places(w, Then("(", B))
  BY <1>1, ArgumentsUnfolds
<1>3. "(" \in Terminals
  BY DEF Terminals
<1>4. /\ p \in Places(w, Then("(", A)) <=> Word(w, p) = "(" /\ p + 1 \in Places(w, A)
      /\ p \in Places(w, Then("(", B)) <=> Word(w, p) = "(" /\ p + 1 \in Places(w, B)
  BY <1>3, WordRead
<1>5. p + 1 \in Places(w, Either(A, B)) <=> p + 1 \in Places(w, A) \/ p + 1 \in Places(w, B)
  BY EitherPlaces
<1> QED
  BY <1>1, <1>2, <1>4, <1>5

(* A list of one or more, with a comma between two *)
LEMMA ListsRead ==
  ASSUME NEW w, NEW Z \in Rests
  PROVE  /\ Places(w, Then("Names", Z)) = Places(w, Then("name", Either(Z, Then(",", Then("Names", Z)))))
         /\ Places(w, Then("Parameter", Z)) =
            Places(w, Then("Type", Then("name", Either(Z, Then(",", Then("Parameter", Z))))))
         /\ Places(w, Then("List", Z)) = Places(w, Then("Expression", Either(Z, Then(",", Then("List", Z)))))
         /\ Places(w, Then("Expression", Z)) =
            Places(w, Then("Term", Either(Z, Then("Operator", Then("Expression", Z)))))
<1>1. /\ "," \in Terminals /\ "name" \in Symbols /\ "Type" \in Symbols
      /\ "Expression" \in Symbols /\ "Term" \in Symbols
  BY Rules DEF Symbols, Terminals
<1>2. Places(w, Then("Names", Z)) = Places(w, Then("name", Either(Z, Then(",", Then("Names", Z)))))
  <2>1. PICK Y \in Rests : Y = Then(",", Then("Names", Z))
    BY <1>1, Closed
  <2>2. Places(w, Then("Names", Z)) = Places(w, Then("name", Z)) \cup Places(w, Then("name", Y))
    BY <2>1, NamesUnfolds
  <2>3. \A p : p \in Places(w, Then("name", Either(Z, Y))) <=>
        p \in Places(w, Then("name", Z)) \/ p \in Places(w, Then("name", Y))
    BY Factored
  <2> QED
    BY <2>1, <2>2, <2>3
<1>3. Places(w, Then("List", Z)) = Places(w, Then("Expression", Either(Z, Then(",", Then("List", Z)))))
  <2>1. PICK Y \in Rests : Y = Then(",", Then("List", Z))
    BY <1>1, Closed
  <2>2. Places(w, Then("List", Z)) = Places(w, Then("Expression", Z)) \cup Places(w, Then("Expression", Y))
    BY <2>1, ListUnfolds
  <2>3. \A p : p \in Places(w, Then("Expression", Either(Z, Y))) <=>
        p \in Places(w, Then("Expression", Z)) \/ p \in Places(w, Then("Expression", Y))
    BY Factored
  <2> QED
    BY <2>1, <2>2, <2>3
<1>4. Places(w, Then("Expression", Z)) = Places(w, Then("Term", Either(Z, Then("Operator", Then("Expression", Z)))))
  <2>1. PICK Y \in Rests : Y = Then("Operator", Then("Expression", Z))
    BY Closed
  <2>2. Places(w, Then("Expression", Z)) = Places(w, Then("Term", Z)) \cup Places(w, Then("Term", Y))
    BY <2>1, ExpressionUnfolds
  <2>3. \A p : p \in Places(w, Then("Term", Either(Z, Y))) <=>
        p \in Places(w, Then("Term", Z)) \/ p \in Places(w, Then("Term", Y))
    BY Factored
  <2> QED
    BY <2>1, <2>2, <2>3
<1>5. Places(w, Then("Parameter", Z)) =
      Places(w, Then("Type", Then("name", Either(Z, Then(",", Then("Parameter", Z))))))
  <2>1. PICK Y \in Rests : Y = Then(",", Then("Parameter", Z))
    BY <1>1, Closed
  <2>2. PICK A \in Rests, B \in Rests : A = Then("name", Z) /\ B = Then("name", Y)
    BY <1>1, ThenRests
  <2>3. Places(w, Then("Parameter", Z)) = Places(w, Then("Type", A)) \cup Places(w, Then("Type", B))
    BY <2>1, <2>2, ParameterUnfolds
  <2>4. Then("name", Either(Z, Y)) = Either(A, B)
    BY <2>2, ThenEither
  <2>5. \A p : p \in Places(w, Then("Type", Either(A, B))) <=>
        p \in Places(w, Then("Type", A)) \/ p \in Places(w, Then("Type", B))
    BY Factored
  <2> QED
    BY <2>1, <2>3, <2>4, <2>5
<1> QED
  BY <1>2, <1>3, <1>4, <1>5

(* What may follow a name in a term, and a statement's keyword *)
Named(Z) ==
  Either(Z, Either(Then("Index", Z), Either(Then("Arguments", Z), Then(".", Then("name", Then("Arguments", Z))))))

Called(Z) == Either(Then("Arguments", Z), Then(".", Then("name", Then("Arguments", Z))))

Assigned(Z) == Then("=", Then("Expression", Then(";", Z)))

Braced(Z) == Then("{", Then("Statements", Then("}", Z)))

Guarded(Z) == Then("(", Then("Expression", Then(")", Braced(Z))))

Stated(k, Z) ==
  CASE k = "let"    -> Then("name", Either(Assigned(Z), Then("Index", Assigned(Z))))
    [] k = "if"     -> Guarded(Then("Else", Z))
    [] k = "while"  -> Guarded(Z)
    [] k = "do"     -> Then("Call", Then(";", Z))
    [] k = "return" -> Either(Then(";", Z), Then("Expression", Then(";", Z)))

Declaration(end) == Then("Type", Then("Names", Then(";", end)))

Headed(Z) ==
  Then("Result", Then("name", Then("(", Then("Parameters", Then(")", Then("{", Then("Locals", Then("Statements",
    Then("}", Z)))))))))

Classed(Z) == Then("name", Then("{", Then("ClassVars", Then("Subroutines", Then("}", Z)))))

(* The words and the nonterminals, one by one. *)
LEMMA WordsAreSymbols ==
  /\ Terminals \subseteq Symbols /\ DOMAIN Productions \subseteq Symbols
  /\ "class" \in Terminals /\ "class" \in Symbols
  /\ "name" \in Terminals /\ "name" \in Symbols
  /\ "builtin" \in Terminals /\ "builtin" \in Symbols
  /\ "void" \in Terminals /\ "void" \in Symbols
  /\ "classVar" \in Terminals /\ "classVar" \in Symbols
  /\ "routine" \in Terminals /\ "routine" \in Symbols
  /\ "native" \in Terminals /\ "native" \in Symbols
  /\ "var" \in Terminals /\ "var" \in Symbols
  /\ "let" \in Terminals /\ "let" \in Symbols
  /\ "do" \in Terminals /\ "do" \in Symbols
  /\ "if" \in Terminals /\ "if" \in Symbols
  /\ "while" \in Terminals /\ "while" \in Symbols
  /\ "else" \in Terminals /\ "else" \in Symbols
  /\ "return" \in Terminals /\ "return" \in Symbols
  /\ "literal" \in Terminals /\ "literal" \in Symbols
  /\ "+" \in Terminals /\ "+" \in Symbols
  /\ "-" \in Terminals /\ "-" \in Symbols
  /\ "~" \in Terminals /\ "~" \in Symbols
  /\ "=" \in Terminals /\ "=" \in Symbols
  /\ "{" \in Terminals /\ "{" \in Symbols
  /\ "}" \in Terminals /\ "}" \in Symbols
  /\ "(" \in Terminals /\ "(" \in Symbols
  /\ ")" \in Terminals /\ ")" \in Symbols
  /\ "[" \in Terminals /\ "[" \in Symbols
  /\ "]" \in Terminals /\ "]" \in Symbols
  /\ "," \in Terminals /\ "," \in Symbols
  /\ ";" \in Terminals /\ ";" \in Symbols
  /\ "." \in Terminals /\ "." \in Symbols
  /\ "Class" \in Symbols
  /\ "ClassVars" \in Symbols
  /\ "Type" \in Symbols
  /\ "Names" \in Symbols
  /\ "Subroutines" \in Symbols
  /\ "Subroutine" \in Symbols
  /\ "Result" \in Symbols
  /\ "Parameters" \in Symbols
  /\ "Parameter" \in Symbols
  /\ "Locals" \in Symbols
  /\ "Statements" \in Symbols
  /\ "Statement" \in Symbols
  /\ "Index" \in Symbols
  /\ "Else" \in Symbols
  /\ "Expression" \in Symbols
  /\ "Operator" \in Symbols
  /\ "Term" \in Symbols
  /\ "Call" \in Symbols
  /\ "Arguments" \in Symbols
  /\ "List" \in Symbols
<1>1. Terminals \subseteq Symbols /\ DOMAIN Productions \subseteq Symbols
  BY DEF Symbols
<1>2. {"class", "name", "builtin", "void", "classVar", "routine", "native", "var", "let", "do", "if", "while",
      "else", "return", "literal", "+", "-", "~", "=", "{", "}", "(", ")", "[", "]", ",", ";",
      "."} \subseteq Terminals
  BY DEF Terminals
<1>3. {"Class", "ClassVars", "Type", "Names", "Subroutines", "Subroutine", "Result", "Parameters", "Parameter",
      "Locals", "Statements", "Statement", "Index", "Else", "Expression", "Operator", "Term", "Call",
      "Arguments", "List"} \subseteq Symbols
  BY <1>1, Rules
<1> QED
  BY <1>1, <1>2, <1>3

(* What may follow the word that begins a construct is made of rests. *)
LEMMA Follow ==
  ASSUME NEW Z \in Rests
  PROVE  /\ Named(Z) \in Rests /\ Called(Z) \in Rests /\ Assigned(Z) \in Rests /\ Braced(Z) \in Rests
         /\ Guarded(Z) \in Rests /\ Declaration(Z) \in Rests /\ Headed(Z) \in Rests /\ Classed(Z) \in Rests
         /\ \A k \in StatementStart : Stated(k, Z) \in Rests
<1>1. \A x \in Symbols : \A Y \in Rests : Then(x, Y) \in Rests
  BY ThenRests
<1>2. \A X, Y \in Rests : Either(X, Y) \in Rests
  BY EitherRests
<1>3. Called(Z) \in Rests
  BY <1>1, <1>2, WordsAreSymbols DEF Called
<1>4. Named(Z) \in Rests
  BY <1>1, <1>2, WordsAreSymbols DEF Named
<1>5. Assigned(Z) \in Rests
  BY <1>1, WordsAreSymbols DEF Assigned
<1>6. ASSUME NEW Y \in Rests PROVE Braced(Y) \in Rests /\ Guarded(Y) \in Rests
  <2>1. Braced(Y) \in Rests
    BY <1>1, WordsAreSymbols DEF Braced
  <2> QED
    BY <1>1, <2>1, WordsAreSymbols DEF Guarded
<1>7. Declaration(Z) \in Rests
  BY <1>1, WordsAreSymbols DEF Declaration
<1>8. Headed(Z) \in Rests
  BY <1>1, WordsAreSymbols DEF Headed
<1>9. Classed(Z) \in Rests
  BY <1>1, WordsAreSymbols DEF Classed
<1>10. ASSUME NEW k \in StatementStart PROVE Stated(k, Z) \in Rests
  <2>1. Then("name", Either(Assigned(Z), Then("Index", Assigned(Z)))) \in Rests
    BY <1>1, <1>2, <1>5, WordsAreSymbols
  <2>2. Guarded(Then("Else", Z)) \in Rests /\ Guarded(Z) \in Rests
    BY <1>1, <1>6, WordsAreSymbols
  <2>3. Then("Call", Then(";", Z)) \in Rests
    BY <1>1, WordsAreSymbols
  <2>4. Either(Then(";", Z), Then("Expression", Then(";", Z))) \in Rests
    BY <1>1, <1>2, WordsAreSymbols
  <2> QED
    BY <2>1, <2>2, <2>3, <2>4, Zenon DEF Stated, StatementStart
<1> QED
  BY <1>3, <1>4, <1>5, <1>6, <1>7, <1>8, <1>9, <1>10

(* A call starts with a name. *)
LEMMA CallRead ==
  ASSUME NEW w, NEW Z \in Rests, NEW p \in Nat
  PROVE  p \in Places(w, Then("Call", Z)) <=> Word(w, p) = "name" /\ p + 1 \in Places(w, Called(Z))
<1>1. PICK A \in Rests, B \in Rests : A = Then("Arguments", Z) /\ B = Then(".", Then("name", A))
  BY ThenRests, WordsAreSymbols
<1>2. Places(w, Then("Call", Z)) = Places(w, Then("name", A)) \cup Places(w, Then("name", B))
  BY <1>1, CallUnfolds
<1>3. /\ p \in Places(w, Then("name", A)) <=> Word(w, p) = "name" /\ p + 1 \in Places(w, A)
      /\ p \in Places(w, Then("name", B)) <=> Word(w, p) = "name" /\ p + 1 \in Places(w, B)
  BY WordRead, WordsAreSymbols
<1>4. p + 1 \in Places(w, Called(Z)) <=> p + 1 \in Places(w, A) \/ p + 1 \in Places(w, B)
  BY <1>1, EitherPlaces DEF Called
<1> QED
  BY <1>2, <1>3, <1>4

(* The word a term starts with says which of its forms it has. *)
LEMMA TermRead ==
  ASSUME NEW w, NEW Z \in Rests, NEW p \in Nat
  PROVE  p \in Places(w, Then("Term", Z)) <=>
           \/ Word(w, p) = "literal" /\ p + 1 \in Places(w, Z)
           \/ Word(w, p) = "name" /\ p + 1 \in Places(w, Named(Z))
           \/ Word(w, p) = "(" /\ p + 1 \in Places(w, Then("Expression", Then(")", Z)))
           \/ Word(w, p) \in Prefix /\ p + 1 \in Places(w, Then("Term", Z))
<1>1. PICK I \in Rests, T \in Rests, E \in Rests :
        I = Then("Index", Z) /\ T = Then("Term", Z) /\ E = Then("Expression", Then(")", Z))
  BY ThenRests, WordsAreSymbols
<1>2. Places(w, Then("Term", Z)) =
        Places(w, Then("literal", Z)) \cup Places(w, Then("name", Z)) \cup Places(w, Then("name", I))
          \cup Places(w, Then("Call", Z)) \cup Places(w, Then("(", E))
          \cup Places(w, Then("-", T)) \cup Places(w, Then("~", T))
  BY <1>1, TermUnfolds
<1>3. \A t \in {"literal", "name", "(", "-", "~"} : \A Y \in Rests :
        p \in Places(w, Then(t, Y)) <=> Word(w, p) = t /\ p + 1 \in Places(w, Y)
  <2>1. {"literal", "name", "(", "-", "~"} \subseteq Terminals
    BY WordsAreSymbols
  <2> QED
    BY <2>1, WordRead
<1>4. p + 1 \in Places(w, Named(Z)) <=>
        p + 1 \in Places(w, Z) \/ p + 1 \in Places(w, I) \/ p + 1 \in Places(w, Called(Z))
  BY <1>1, EitherPlaces DEF Named, Called
<1>5. p \in Places(w, Then("Call", Z)) <=> Word(w, p) = "name" /\ p + 1 \in Places(w, Called(Z))
  BY CallRead
<1> QED
  BY <1>1, <1>2, <1>3, <1>4, <1>5 DEF Prefix

(* What may be left out *)
LEMMA OptionsRead ==
  ASSUME NEW w, NEW Z \in Rests, NEW p \in Nat
  PROVE  /\ p \in Places(w, Then("ClassVars", Z)) <=>
              p \in Places(w, Z) \/ (Word(w, p) = "classVar" /\
                  p + 1 \in Places(w, Declaration(Then("ClassVars", Z))))
         /\ p \in Places(w, Then("Locals", Z)) <=>
              p \in Places(w, Z) \/ (Word(w, p) = "var" /\ p + 1 \in Places(w, Declaration(Then("Locals", Z))))
         /\ p \in Places(w, Then("Else", Z)) <=>
              p \in Places(w, Z) \/ (Word(w, p) = "else" /\ p + 1 \in Places(w, Braced(Z)))
         /\ p \in Places(w, Then("Parameters", Z)) <=>
              p \in Places(w, Z) \/ p \in Places(w, Then("Parameter", Z))
         /\ p \in Places(w, Then("Statements", Z)) <=>
              p \in Places(w, Z) \/ p \in Places(w, Then("Statement", Then("Statements", Z)))
         /\ p \in Places(w, Then("Subroutines", Z)) <=>
              \/ p \in Places(w, Z)
              \/ p \in Places(w, Then("Subroutine", Then("Subroutines", Z)))
              \/ p \in Places(w, Then("native", Then("Subroutine", Then("Subroutines", Z))))
<1>1. PICK C \in Rests, L \in Rests, E \in Rests :
        C = Declaration(Then("ClassVars", Z)) /\ L = Declaration(Then("Locals", Z)) /\ E = Braced(Z)
  BY ThenRests, WordsAreSymbols, Follow
<1>2. /\ Places(w, Then("ClassVars", Z)) = Places(w, Z) \cup Places(w, Then("classVar", C))
      /\ Places(w, Then("Locals", Z)) = Places(w, Z) \cup Places(w, Then("var", L))
      /\ Places(w, Then("Else", Z)) = Places(w, Z) \cup Places(w, Then("else", E))
  BY <1>1, ClassVarsUnfolds, LocalsUnfolds, ElseUnfolds DEF Declaration, Braced
<1>3. /\ p \in Places(w, Then("classVar", C)) <=> Word(w, p) = "classVar" /\ p + 1 \in Places(w, C)
      /\ p \in Places(w, Then("var", L)) <=> Word(w, p) = "var" /\ p + 1 \in Places(w, L)
      /\ p \in Places(w, Then("else", E)) <=> Word(w, p) = "else" /\ p + 1 \in Places(w, E)
  BY WordRead, WordsAreSymbols
<1>4. Places(w, Then("Parameters", Z)) = Places(w, Z) \cup Places(w, Then("Parameter", Z))
  BY ParametersUnfolds
<1>5. Places(w, Then("Statements", Z)) = Places(w, Z) \cup Places(w, Then("Statement", Then("Statements", Z)))
  BY StatementsUnfolds
<1>6. Places(w, Then("Subroutines", Z)) =
        Places(w, Z) \cup Places(w, Then("Subroutine", Then("Subroutines", Z)))
          \cup Places(w, Then("native", Then("Subroutine", Then("Subroutines", Z))))
  BY SubroutinesUnfolds
<1>7. p \in Places(w, Then("Parameters", Z)) <=>
              p \in Places(w, Z) \/ p \in Places(w, Then("Parameter", Z))
  BY <1>4
<1>8. p \in Places(w, Then("Statements", Z)) <=>
              p \in Places(w, Z) \/ p \in Places(w, Then("Statement", Then("Statements", Z)))
  BY <1>5
<1>9. p \in Places(w, Then("Subroutines", Z)) <=>
              \/ p \in Places(w, Z)
              \/ p \in Places(w, Then("Subroutine", Then("Subroutines", Z)))
              \/ p \in Places(w, Then("native", Then("Subroutine", Then("Subroutines", Z))))
  BY <1>6
<1>10. /\ p \in Places(w, Then("ClassVars", Z)) <=> p \in Places(w, Z) \/ p \in Places(w, Then("classVar", C))
       /\ p \in Places(w, Then("Locals", Z)) <=> p \in Places(w, Z) \/ p \in Places(w, Then("var", L))
       /\ p \in Places(w, Then("Else", Z)) <=> p \in Places(w, Z) \/ p \in Places(w, Then("else", E))
  BY <1>2
<1> QED
  BY <1>1, <1>3, <1>7, <1>8, <1>9, <1>10

(* A class and a subroutine start with words of their own. *)
LEMMA ClassRead ==
  ASSUME NEW w, NEW Z \in Rests, NEW p \in Nat
  PROVE  /\ p \in Places(w, Then("Class", Z)) <=> Word(w, p) = "class" /\ p + 1 \in Places(w, Classed(Z))
         /\ p \in Places(w, Then("Subroutine", Z)) <=> Word(w, p) = "routine" /\ p + 1 \in Places(w, Headed(Z))
<1>1. PICK C \in Rests, H \in Rests : C = Classed(Z) /\ H = Headed(Z)
  BY Follow
<1>2. Places(w, Then("Class", Z)) = Places(w, Then("class", C))
  BY <1>1, ClassUnfolds DEF Classed
<1>3. Places(w, Then("Subroutine", Z)) = Places(w, Then("routine", H))
  BY <1>1, SubroutineUnfolds DEF Headed
<1>4. /\ p \in Places(w, Then("class", C)) <=> Word(w, p) = "class" /\ p + 1 \in Places(w, C)
      /\ p \in Places(w, Then("routine", H)) <=> Word(w, p) = "routine" /\ p + 1 \in Places(w, H)
  BY WordRead, WordsAreSymbols
<1> QED
  BY <1>1, <1>2, <1>3, <1>4

(* The word a statement starts with says which kind of statement it is. *)
LEMMA StatementRead ==
  ASSUME NEW w, NEW Z \in Rests, NEW p \in Nat
  PROVE  p \in Places(w, Then("Statement", Z)) <=>
           Word(w, p) \in StatementStart /\ p + 1 \in Places(w, Stated(Word(w, p), Z))
<1>1. PICK A \in Rests : A = Assigned(Z)
  BY Follow
<1>2. PICK N \in Rests, I \in Rests, F \in Rests, W \in Rests, D \in Rests, S \in Rests, E \in Rests :
        /\ N = Then("name", A) /\ I = Then("name", Then("Index", A))
        /\ F = Guarded(Then("Else", Z)) /\ W = Guarded(Z)
        /\ D = Then("Call", Then(";", Z)) /\ S = Then(";", Z) /\ E = Then("Expression", Then(";", Z))
  BY ThenRests, WordsAreSymbols, Follow
<1>3. Places(w, Then("Statement", Z)) =
        Places(w, Then("let", N)) \cup Places(w, Then("let", I)) \cup Places(w, Then("if", F))
          \cup Places(w, Then("while", W)) \cup Places(w, Then("do", D))
          \cup Places(w, Then("return", S)) \cup Places(w, Then("return", E))
  BY <1>1, <1>2, StatementUnfolds DEF Assigned, Guarded, Braced
<1>4. \A t \in StatementStart : \A Y \in Rests :
        p \in Places(w, Then(t, Y)) <=> Word(w, p) = t /\ p + 1 \in Places(w, Y)
  <2>1. StatementStart \subseteq Terminals
    BY WordsAreSymbols DEF StatementStart
  <2> QED
    BY <2>1, WordRead
<1>5. p \in Places(w, Then("Statement", Z)) <=>
        \/ p \in Places(w, Then("let", N)) \/ p \in Places(w, Then("let", I)) \/ p \in Places(w, Then("if", F))
        \/ p \in Places(w, Then("while", W)) \/ p \in Places(w, Then("do", D))
        \/ p \in Places(w, Then("return", S)) \/ p \in Places(w, Then("return", E))
  BY <1>3
<1>6. /\ p + 1 \in Places(w, Stated("let", Z)) <=> p + 1 \in Places(w, N) \/ p + 1 \in Places(w, I)
      /\ p + 1 \in Places(w, Stated("return", Z)) <=> p + 1 \in Places(w, S) \/ p + 1 \in Places(w, E)
      /\ Stated("if", Z) = F /\ Stated("while", Z) = W /\ Stated("do", Z) = D
  <2>1. /\ Stated("let", Z) = Then("name", Either(A, Then("Index", A)))
        /\ Stated("return", Z) = Either(S, E)
        /\ Stated("if", Z) = F /\ Stated("while", Z) = W /\ Stated("do", Z) = D
    BY <1>1, <1>2 DEF Stated
  <2>2. p + 1 \in Places(w, Then("name", Either(A, Then("Index", A)))) <=>
        p + 1 \in Places(w, N) \/ p + 1 \in Places(w, I)
    BY <1>2, Factored
  <2>3. p + 1 \in Places(w, Either(S, E)) <=> p + 1 \in Places(w, S) \/ p + 1 \in Places(w, E)
    BY EitherPlaces
  <2> QED
    BY <2>1, <2>2, <2>3
<1>7. p \in Places(w, Then("Statement", Z)) <=>
        \/ Word(w, p) = "let" /\ (p + 1 \in Places(w, N) \/ p + 1 \in Places(w, I))
        \/ Word(w, p) = "if" /\ p + 1 \in Places(w, F)
        \/ Word(w, p) = "while" /\ p + 1 \in Places(w, W)
        \/ Word(w, p) = "do" /\ p + 1 \in Places(w, D)
        \/ Word(w, p) = "return" /\ (p + 1 \in Places(w, S) \/ p + 1 \in Places(w, E))
  BY <1>4, <1>5 DEF StatementStart
<1> QED
  BY <1>6, <1>7 DEF StatementStart

-----------------------------------------------------------------------------
(* What the items read *)

(* Whatever is derived here starts with one of these words. *)
Only(w, Z, V) == \A p \in Places(w, Z) : Word(w, p) \in V

Closers == {")", "]", ";", ",", "}"}

AnyOf(ws, Z) == UNION {Then(t, Z) : t \in ws}

LoopMeaning(i, Z) ==
  CASE i.do = "classBody"  -> IF i.seen THEN Then("Subroutines", Z) ELSE Then("ClassVars", Then("Subroutines", Z))
    [] i.do = "subBody"    -> IF i.seen THEN Z ELSE Then("Locals", Then("Statements", Z))
    [] i.do = "statements" -> Then("Statements", Z)
    [] i.do = "variables"  -> IF i.first THEN Then(IF i.end = ";" THEN "Names" ELSE "Parameters", Z)
                              ELSE Either(Z, Then(",", Then(IF i.end = ";" THEN "Names" ELSE "Parameter", Z)))

OptionMeaning(i, Z) ==
  CASE i.words = {"["}      -> Either(Z, Then("Index", Z))
    [] i.words = {"."}      -> Either(Z, Then(".", Then("name", Z)))
    [] i.words = {"native"} -> Either(Z, Then("native", Z))
    [] i.words = {"else"}   -> Then("Else", Z)

(* What an item reads in front of one of the Z *)
Meaning(i, Z) ==
  CASE i.do = "expect"     -> AnyOf(i.words, Z)
    [] i.do = "type"       -> Then("Type", Z)
    [] i.do = "value"      -> Either(Z, Then("Expression", Z))
    [] i.do = "expression" -> Then("Expression", Z)
    [] i.do = "term"       -> Then("Term", Z)
    [] i.do = "infix"      -> Either(Z, Then("Operator", Then("Expression", Z)))
    [] i.do = "named"      -> Named(Z)
    [] i.do = "arguments"  -> Either(Z, IF i.any THEN Then(",", Then("List", Z)) ELSE Then("List", Z))
    [] i.do = "optional"   -> OptionMeaning(i, Z)
    [] i.do = "enter"      -> LoopMeaning(i.loop, Z)
    [] i.do \in Loops      -> LoopMeaning(i, Z)
    [] OTHER               -> Z

OptionFits(w, i, Z) ==
  \/ i.words = {"["} /\ i.then = Index /\ Only(w, Z, {"="})
  \/ i.words = {"."} /\ i.then = <<Need("."), Need("name")>> /\ Only(w, Z, {"("})
  \/ i.words = {"native"} /\ i.then = <<Need("native")>> /\ Only(w, Z, {"routine"})
  \/ i.words = {"else"} /\ i.then = <<Need("else")>> \o Block /\ Only(w, Z, StatementStart \cup {"}"})

LoopFits(w, i, Z) ==
  /\ i.do \in Loops
  /\ IF i.do = "variables" THEN i.end \in {";", ")"} /\ Only(w, Z, {i.end}) ELSE Only(w, Z, {"}"})

(* A list of variables that does not know yet that it declared one: only the *)
(* step that tells it is done before. A subroutine is behind its            *)
(* declarations only once its statements are read.                        *)
Uncounted(i) == i.do = "variables" /\ i.any = i.first

Behind(i) == i.do = "subBody" /\ i.seen

Calm(i) == ~ Uncounted(i) /\ ~ Behind(i)

(* What may follow it, so that one word is enough to choose by *)
Fits(w, i, Z) ==
  CASE i.do = "expect"                  -> i.words \subseteq Terminals
    [] i.do \in {"infix", "expression"} -> Only(w, Z, Closers)
    [] i.do \in {"term", "named"}       -> Only(w, Z, Infix \cup Closers)
    [] i.do = "value"                   -> Only(w, Z, {";"})
    [] i.do = "arguments"               -> Only(w, Z, {")"})
    [] i.do = "optional"                -> OptionFits(w, i, Z)
    [] i.do = "enter"                   -> LoopFits(w, i.loop, Z) /\ Calm(i.loop)
    [] i.do \in Loops                   -> LoopFits(w, i, Z)
    [] OTHER                            -> i.do \in {"type", "push", "pop", "declared"}

(* Which items may be neighbours *)
Pair(i, j) ==
  /\ IF i.do = "declared" THEN j.do = "variables" /\ ~ j.first ELSE ~ Uncounted(j)
  /\ Behind(j) => i = Simple("statements") \/ i = Enter(Simple("statements"))

(* What a sequence of items reads *)
Ladder(w, s, z) ==
  /\ z \in [1..Len(s) + 1 -> Rests] /\ z[Len(s) + 1] = {<<>>}
  /\ \A k \in 1..Len(s) : z[k] = Meaning(s[k], z[k + 1]) /\ Fits(w, s[k], z[k + 1])
  /\ \A k \in 1..Len(s) - 1 : Pair(s[k], s[k + 1])

Laid(w, s, Z) == \E z : Ladder(w, s, z) /\ z[1] = Z

(* What may come next, of alternatives and of a word. *)
LEMMA OnlyRules ==
  ASSUME NEW w
  PROVE  /\ \A Z, V, W : Only(w, Z, V) /\ V \subseteq W => Only(w, Z, W)
         /\ \A Y, Z, V : Only(w, Y, V) /\ Only(w, Z, V) => Only(w, Either(Y, Z), V)
         /\ \A Z \in Rests, t \in Terminals : Only(w, Then(t, Z), {t})
<1>1. \A Z, V, W : Only(w, Z, V) /\ V \subseteq W => Only(w, Z, W)
  BY DEF Only
<1>2. \A Y, Z, V : Only(w, Y, V) /\ Only(w, Z, V) => Only(w, Either(Y, Z), V)
  BY EitherPlaces DEF Only
<1>3. ASSUME NEW Z \in Rests, NEW t \in Terminals, NEW p \in Places(w, Then(t, Z))
      PROVE  Word(w, p) \in {t}
  <2>1. p \in Nat
    BY DEF Places
  <2> QED
    BY <1>3, <2>1, WordRead
<1> QED
  BY <1>1, <1>2, <1>3 DEF Only

(* One of several words is read at its place. *)
LEMMA AnyOfRead ==
  ASSUME NEW w, NEW ws \in SUBSET Terminals, NEW Z \in Rests
  PROVE  /\ AnyOf(ws, Z) \in Rests
         /\ \A p \in Nat : p \in Places(w, AnyOf(ws, Z)) <=> Word(w, p) \in ws /\ p + 1 \in Places(w, Z)
<1>1. \A t \in ws : Then(t, Z) \in Rests
  BY ThenRests, WordsAreSymbols
<1>2. AnyOf(ws, Z) \in Rests
  BY <1>1 DEF AnyOf, Rests
<1>3. ASSUME NEW p \in Nat PROVE p \in Places(w, AnyOf(ws, Z)) <=> \E t \in ws : p \in Places(w, Then(t, Z))
  BY Zenon DEF AnyOf, Places
<1>4. ASSUME NEW p \in Nat PROVE p \in Places(w, AnyOf(ws, Z)) <=> Word(w, p) \in ws /\ p + 1 \in Places(w, Z)
  BY <1>3, WordRead
<1> QED
  BY <1>2, <1>4

(* One of a single word is that word. *)
LEMMA AnyOfOne ==
  ASSUME NEW t, NEW Z
  PROVE  AnyOf({t}, Z) = Then(t, Z)
  BY Zenon DEF AnyOf

(* What a loop and what follows it read is made of rests. *)
LEMMA LoopMeaningRests ==
  ASSUME NEW i, i.do \in Loops, NEW Z \in Rests
  PROVE  LoopMeaning(i, Z) \in Rests
<1>1. \A x \in Symbols : \A Y \in Rests : Then(x, Y) \in Rests
  BY ThenRests
<1>2. \A X, Y \in Rests : Either(X, Y) \in Rests
  BY EitherRests
<1>3. CASE i.do = "classBody"
  <2>1. Then("Subroutines", Z) \in Rests /\ Then("ClassVars", Then("Subroutines", Z)) \in Rests
    BY <1>1, WordsAreSymbols
  <2>2. LoopMeaning(i, Z) = IF i.seen THEN Then("Subroutines", Z) ELSE Then("ClassVars", Then("Subroutines", Z))
    BY <1>3 DEF LoopMeaning
  <2> QED
    BY <2>1, <2>2, Zenon
<1>4. CASE i.do = "subBody"
  <2>1. Then("Locals", Then("Statements", Z)) \in Rests
    BY <1>1, WordsAreSymbols
  <2>2. LoopMeaning(i, Z) = IF i.seen THEN Z ELSE Then("Locals", Then("Statements", Z))
    BY <1>4 DEF LoopMeaning
  <2> QED
    BY <2>1, <2>2, Zenon
<1>5. CASE i.do = "statements"
  <2>1. LoopMeaning(i, Z) = Then("Statements", Z)
    BY <1>5 DEF LoopMeaning
  <2> QED
    BY <1>1, <2>1, WordsAreSymbols
<1>6. CASE i.do = "variables"
  <2>1. PICK a \in Symbols, b \in Symbols :
          a = (IF i.end = ";" THEN "Names" ELSE "Parameters") /\ b = (IF i.end = ";" THEN "Names" ELSE "Parameter")
    BY WordsAreSymbols
  <2>2. LoopMeaning(i, Z) = IF i.first THEN Then(a, Z) ELSE Either(Z, Then(",", Then(b, Z)))
    BY <1>6, <2>1 DEF LoopMeaning
  <2>3. Then(a, Z) \in Rests /\ Either(Z, Then(",", Then(b, Z))) \in Rests
    BY <1>1, <1>2, WordsAreSymbols
  <2> QED
    BY <2>2, <2>3, Zenon
<1> QED
  BY <1>3, <1>4, <1>5, <1>6 DEF Loops

(* What an item and what follows it read is made of rests. *)
LEMMA MeaningRests ==
  ASSUME NEW w, NEW i, NEW Z \in Rests, Fits(w, i, Z)
  PROVE  Meaning(i, Z) \in Rests
<1>1. \A x \in Symbols : \A Y \in Rests : Then(x, Y) \in Rests
  BY ThenRests
<1>2. \A X, Y \in Rests : Either(X, Y) \in Rests
  BY EitherRests
<1>3. CASE i.do = "expect"
  <2>1. i.words \in SUBSET Terminals /\ Meaning(i, Z) = AnyOf(i.words, Z)
    BY <1>3 DEF Fits, Meaning, Loops
  <2> QED
    BY <2>1, AnyOfRead
<1>4. CASE i.do \in {"type", "expression", "term"}
  <2>1. PICK x \in Symbols : Meaning(i, Z) = Then(x, Z)
    BY <1>4, WordsAreSymbols DEF Meaning, Loops
  <2> QED
    BY <1>1, <2>1
<1>5. CASE i.do \in {"value", "infix"}
  <2>1. Either(Z, Then("Expression", Z)) \in Rests /\ Either(Z, Then("Operator", Then("Expression", Z))) \in Rests
    BY <1>1, <1>2, WordsAreSymbols
  <2>2. Meaning(i, Z) \in {Either(Z, Then("Expression", Z)), Either(Z, Then("Operator", Then("Expression", Z)))}
    BY <1>5 DEF Meaning, Loops
  <2> QED
    BY <2>1, <2>2
<1>6. CASE i.do = "named"
  BY <1>6, Follow DEF Meaning, Loops
<1>7. CASE i.do = "arguments"
  <2>1. Either(Z, Then("List", Z)) \in Rests /\ Either(Z, Then(",", Then("List", Z))) \in Rests
    BY <1>1, <1>2, WordsAreSymbols
  <2>2. Meaning(i, Z) \in {Either(Z, Then("List", Z)), Either(Z, Then(",", Then("List", Z)))}
    BY <1>7 DEF Meaning, Loops
  <2> QED
    BY <2>1, <2>2
<1>8. CASE i.do = "optional"
  <2>1. i.words \in {{"["}, {"."}, {"native"}, {"else"}} /\ Meaning(i, Z) = OptionMeaning(i, Z)
    BY <1>8 DEF Fits, OptionFits, Meaning, Loops
  <2>2. /\ Either(Z, Then("Index", Z)) \in Rests /\ Either(Z, Then(".", Then("name", Z))) \in Rests
        /\ Either(Z, Then("native", Z)) \in Rests /\ Then("Else", Z) \in Rests
    BY <1>1, <1>2, WordsAreSymbols
  <2>3. OptionMeaning(i, Z) \in {Either(Z, Then("Index", Z)), Either(Z, Then(".", Then("name", Z))),
                                 Either(Z, Then("native", Z)), Then("Else", Z)}
    BY <2>1 DEF OptionMeaning
  <2> QED
    BY <2>1, <2>2, <2>3
<1>9. CASE i.do = "enter"
  <2>1. i.loop.do \in Loops /\ Meaning(i, Z) = LoopMeaning(i.loop, Z)
    BY <1>9 DEF Fits, LoopFits, Meaning, Loops
  <2> QED
    BY <2>1, LoopMeaningRests
<1>10. CASE i.do \in Loops
  <2>1. Meaning(i, Z) = LoopMeaning(i, Z)
    BY <1>10 DEF Meaning, Loops
  <2> QED
    BY <1>10, <2>1, LoopMeaningRests
<1>11. CASE i.do \in {"push", "pop", "declared"}
  BY <1>11 DEF Meaning, Loops
<1> QED
  BY <1>3, <1>4, <1>5, <1>6, <1>7, <1>8, <1>9, <1>10, <1>11 DEF Fits, Loops

(* When nothing is left to do, nothing is left to derive. *)
LEMMA LaidNothing ==
  ASSUME NEW w
  PROVE  {<<>>} \in Rests /\ Laid(w, <<>>, {<<>>}) /\ \A Z : Laid(w, <<>>, Z) => Z = {<<>>}
<1>1. {<<>>} \in Rests
  BY DEF Rests
<1>2. PICK z : z = [k \in 1..1 |-> {<<>>}]
  OBVIOUS
<1>3. PICK s : s = <<>> /\ Len(s) = 0
  OBVIOUS
<1>4. Ladder(w, s, z) /\ z[1] = {<<>>}
  BY <1>1, <1>2, <1>3 DEF Ladder
<1>5. ASSUME NEW Z, Laid(w, s, Z) PROVE Z = {<<>>}
  BY <1>3, <1>5 DEF Laid, Ladder
<1> QED
  BY <1>1, <1>3, <1>4, <1>5 DEF Laid

(* An item that fits goes on top of a stack that is laid. *)
LEMMA LaidFirst ==
  ASSUME NEW w, NEW S, NEW s \in Seq(S), NEW i \in S, NEW Y \in Rests, Laid(w, s, Y), Fits(w, i, Y),
         s # <<>> => Pair(i, Head(s))
  PROVE  Laid(w, <<i>> \o s, Meaning(i, Y))
<1>1. PICK z : Ladder(w, s, z) /\ z[1] = Y
  BY DEF Laid
<1>2. PICK t : t = <<i>> \o s
  OBVIOUS
<1>3. t \in Seq(S) /\ Len(s) \in Nat /\ Len(t) = Len(s) + 1 /\ t[1] = i /\ \A k \in 1..Len(s) : t[k + 1] = s[k]
  <2>1. <<i>> \in Seq(S) /\ Len(<<i>>) = 1 /\ <<i>>[1] = i
    OBVIOUS
  <2>2. /\ t \in Seq(S) /\ Len(t) = 1 + Len(s)
        /\ \A k \in 1..1 + Len(s) : t[k] = IF k <= 1 THEN <<i>>[k] ELSE s[k - 1]
    BY <1>2, <2>1, ConcatProperties
  <2> QED
    BY <2>1, <2>2
<1>4. PICK u : u = [k \in 1..Len(t) + 1 |-> IF k = 1 THEN Meaning(i, Y) ELSE z[k - 1]]
  OBVIOUS
<1>5. /\ z \in [1..Len(s) + 1 -> Rests] /\ z[Len(s) + 1] = {<<>>}
      /\ \A k \in 1..Len(s) : z[k] = Meaning(s[k], z[k + 1]) /\ Fits(w, s[k], z[k + 1])
      /\ \A k \in 1..Len(s) - 1 : Pair(s[k], s[k + 1])
  BY <1>1 DEF Ladder
<1>6. Meaning(i, Y) \in Rests
  BY MeaningRests
<1>7. /\ u \in [1..Len(t) + 1 -> Rests] /\ u[1] = Meaning(i, Y)
      /\ \A k \in 1..Len(s) + 1 : u[k + 1] = z[k]
  BY <1>3, <1>4, <1>5, <1>6
<1>8. u[Len(t) + 1] = {<<>>}
  BY <1>3, <1>5, <1>7
<1>9. ASSUME NEW k \in 1..Len(t)
      PROVE  u[k] = Meaning(t[k], u[k + 1]) /\ Fits(w, t[k], u[k + 1])
  <2>1. CASE k = 1
    <3>1. u[1 + 1] = Y
      <4>1. 1 \in 1..Len(s) + 1
        BY <1>3
      <4> QED
        BY <1>1, <1>7, <4>1
    <3> QED
      BY <1>3, <1>7, <2>1, <3>1
  <2>2. CASE k # 1
    <3>1. PICK j \in 1..Len(s) : k = j + 1
      <4>1. k - 1 \in 1..Len(s) /\ k = (k - 1) + 1
        BY <1>3, <2>2
      <4> QED
        BY <4>1
    <3>2. j \in 1..Len(s) + 1 /\ j + 1 \in 1..Len(s) + 1
      BY <1>3, <3>1
    <3>3. u[k] = z[j] /\ u[k + 1] = z[j + 1] /\ t[k] = s[j]
      BY <1>3, <1>7, <3>1, <3>2
    <3> QED
      BY <1>5, <3>1, <3>3
  <2> QED
    BY <2>1, <2>2
<1>10. ASSUME NEW k \in 1..Len(t) - 1 PROVE Pair(t[k], t[k + 1])
  <2>1. CASE k = 1
    <3>1. s # <<>> /\ Head(s) = s[1] /\ 1 \in 1..Len(s)
      BY <1>3, <2>1
    <3>2. t[1] = i /\ t[1 + 1] = s[1]
      BY <1>3, <3>1
    <3> QED
      BY <2>1, <3>1, <3>2
  <2>2. CASE k # 1
    <3>1. PICK j \in 1..Len(s) - 1 : k = j + 1
      <4>1. k - 1 \in 1..Len(s) - 1 /\ k = (k - 1) + 1
        BY <1>3, <2>2
      <4> QED
        BY <4>1
    <3>2. t[k] = s[j] /\ t[k + 1] = s[j + 1]
      BY <1>3, <3>1
    <3> QED
      BY <1>5, <3>1, <3>2
  <2> QED
    BY <2>1, <2>2
<1>11. Ladder(w, t, u)
  BY <1>7, <1>8, <1>9, <1>10 DEF Ladder
<1> QED
  BY <1>2, <1>7, <1>11 DEF Laid

(* The top of a laid stack fits, and the rest is laid. *)
LEMMA LaidTaken ==
  ASSUME NEW w, NEW S, NEW s \in Seq(S), s # <<>>, NEW X, Laid(w, s, X)
  PROVE  \E Y \in Rests : /\ Laid(w, Tail(s), Y) /\ X = Meaning(Head(s), Y) /\ Fits(w, Head(s), Y)
                          /\ Tail(s) # <<>> => Pair(Head(s), Head(Tail(s)))
<1>1. PICK z : Ladder(w, s, z) /\ z[1] = X
  BY DEF Laid
<1>2. PICK t : t = Tail(s)
  OBVIOUS
<1>3. /\ Len(s) \in Nat \ {0} /\ Head(s) = s[1] /\ t \in Seq(S) /\ Len(t) = Len(s) - 1
      /\ \A k \in 1..Len(s) - 1 : t[k] = s[k + 1]
  BY <1>2, HeadTailProperties, EmptySeq
<1>4. /\ z \in [1..Len(s) + 1 -> Rests] /\ z[Len(s) + 1] = {<<>>}
      /\ \A k \in 1..Len(s) : z[k] = Meaning(s[k], z[k + 1]) /\ Fits(w, s[k], z[k + 1])
      /\ \A k \in 1..Len(s) - 1 : Pair(s[k], s[k + 1])
  BY <1>1 DEF Ladder
<1>5. PICK u : u = [k \in 1..Len(t) + 1 |-> z[k + 1]]
  OBVIOUS
<1>6. u \in [1..Len(t) + 1 -> Rests] /\ \A k \in 1..Len(t) + 1 : u[k] = z[k + 1]
  BY <1>3, <1>4, <1>5
<1>7. u[Len(t) + 1] = {<<>>}
  BY <1>3, <1>4, <1>6
<1>8. ASSUME NEW k \in 1..Len(t) PROVE u[k] = Meaning(t[k], u[k + 1]) /\ Fits(w, t[k], u[k + 1])
  <2>1. PICK j \in 1..Len(s) : j = k + 1
    BY <1>3
  <2>2. k + 1 \in 1..Len(t) + 1 /\ k \in 1..Len(t) + 1 /\ t[k] = s[j]
    BY <1>3, <2>1
  <2>3. u[k] = z[j] /\ u[k + 1] = z[j + 1]
    BY <1>6, <2>1, <2>2
  <2> QED
    BY <1>4, <2>2, <2>3
<1>9. ASSUME NEW k \in 1..Len(t) - 1 PROVE Pair(t[k], t[k + 1])
  <2>1. PICK j \in 1..Len(s) - 1 : j = k + 1
    BY <1>3
  <2>2. t[k] = s[j] /\ t[k + 1] = s[j + 1]
    BY <1>3, <2>1
  <2> QED
    BY <1>4, <2>2
<1>10. Ladder(w, t, u)
  BY <1>6, <1>7, <1>8, <1>9 DEF Ladder
<1>11. 1 \in 1..Len(s) /\ 1 \in 1..Len(t) + 1
  BY <1>3
<1>12. u[1] \in Rests /\ X = Meaning(Head(s), u[1]) /\ Fits(w, Head(s), u[1])
  BY <1>1, <1>3, <1>4, <1>6, <1>11
<1>13. t # <<>> => Pair(Head(s), Head(t))
  <2>1. ASSUME t # <<>> PROVE Pair(s[1], s[1 + 1]) /\ Head(t) = s[1 + 1]
    <3>1. 1 \in 1..Len(t) /\ Head(t) = t[1] /\ 1 \in 1..Len(s) - 1
      BY <1>3, <2>1
    <3> QED
      BY <1>3, <1>4, <3>1
  <2> QED
    BY <1>3, <2>1
<1> QED
  BY <1>2, <1>10, <1>12, <1>13 DEF Laid

-----------------------------------------------------------------------------
(* Putting items in front *)

Settled(w, s, Y) == s \in Seq(Items) /\ Y \in Rests /\ Laid(w, s, Y) /\ (s # <<>> => Calm(Head(s)))

(* The same of the stacks a step leaves, which no round is open on. *)
LEMMA Grows ==
  ASSUME NEW w, NEW s, NEW Y, Settled(w, s, Y), NEW i \in Items, i.do # "declared", Calm(i), Fits(w, i, Y)
  PROVE  Settled(w, <<i>> \o s, Meaning(i, Y))
<1>1. s \in Seq(Items) /\ Y \in Rests /\ Laid(w, s, Y) /\ (s # <<>> => Calm(Head(s)))
  BY DEF Settled
<1>2. s # <<>> => Pair(i, Head(s))
  BY <1>1 DEF Pair, Calm
<1>3. Laid(w, <<i>> \o s, Meaning(i, Y))
  BY <1>1, <1>2, LaidFirst
<1>4. Meaning(i, Y) \in Rests
  BY <1>1, MeaningRests
<1>5. PICK t : t = <<i>> \o s
  OBVIOUS
<1>6. t \in Seq(Items) /\ Head(t) = i
  <2>1. <<i>> \in Seq(Items) /\ Len(<<i>>) = 1 /\ <<i>>[1] = i
    OBVIOUS
  <2>2. t \in Seq(Items) /\ Len(t) = 1 + Len(s) /\ Len(s) \in Nat /\ t[1] = i
    BY <1>1, <1>5, <2>1, ConcatProperties
  <2> QED
    BY <2>2, HeadTailProperties
<1> QED
  BY <1>3, <1>4, <1>5, <1>6 DEF Settled

(* One of several words expected first. *)
LEMMA WordsFirst ==
  ASSUME NEW w, NEW s, NEW Y, Settled(w, s, Y), NEW ws \in SUBSET Terminals
  PROVE  Settled(w, <<Expect(ws)>> \o s, AnyOf(ws, Y))
<1>1. PICK i : i = Expect(ws)
  OBVIOUS
<1>2. i.do = "expect" /\ i.words = ws
  BY <1>1 DEF Expect
<1>3. Terminals \subseteq Words
  BY DEF Terminals, Words
<1>4. i \in Items
  BY <1>1, <1>3, Forms
<1>5. Meaning(i, Y) = AnyOf(ws, Y) /\ Fits(w, i, Y)
  BY <1>2 DEF Meaning, Fits, Loops
<1>6. Calm(i)
  BY <1>2 DEF Calm, Uncounted, Behind
<1> QED
  BY <1>1, <1>2, <1>4, <1>5, <1>6, Grows

(* A word expected first. *)
LEMMA WordFirst ==
  ASSUME NEW w, NEW s, NEW Y, Settled(w, s, Y), NEW t \in Terminals
  PROVE  Settled(w, <<Need(t)>> \o s, Then(t, Y))
<1>1. {t} \in SUBSET Terminals
  OBVIOUS
<1>2. Settled(w, <<Expect({t})>> \o s, AnyOf({t}, Y))
  BY <1>1, WordsFirst
<1> QED
  BY <1>2, AnyOfOne DEF Need

(* A part without parameters first, by what may come behind it. *)
LEMMA SimpleFirst ==
  ASSUME NEW w, NEW s, NEW Y, Settled(w, s, Y)
  PROVE  /\ Settled(w, <<Simple("type")>> \o s, Then("Type", Y))
         /\ Only(w, Y, {";"}) => Settled(w, <<Simple("value")>> \o s, Either(Y, Then("Expression", Y)))
         /\ Only(w, Y, Closers) => Settled(w, <<Simple("expression")>> \o s, Then("Expression", Y))
         /\ Only(w, Y, Closers) => Settled(w, <<Simple("infix")>> \o s,
            Either(Y, Then("Operator", Then("Expression", Y))))
         /\ Only(w, Y, Infix \cup Closers) => Settled(w, <<Simple("term")>> \o s, Then("Term", Y))
         /\ Only(w, Y, Infix \cup Closers) => Settled(w, <<Simple("named")>> \o s, Named(Y))
         /\ Only(w, Y, {"}"}) => Settled(w, <<Simple("statements")>> \o s, Then("Statements", Y))
<1> DEFINE ds == {"type", "value", "expression", "infix", "term", "named", "statements"}
<1>1. ASSUME NEW d \in ds, Fits(w, Simple(d), Y)
      PROVE  Settled(w, <<Simple(d)>> \o s, Meaning(Simple(d), Y))
  <2>1. PICK i : i = Simple(d)
    OBVIOUS
  <2>2. i.do = d
    BY <2>1 DEF Simple
  <2>3. i \in Items
    BY <2>1, Forms
  <2>4. i.do # "declared" /\ Calm(i)
    BY <2>2 DEF Calm, Uncounted, Behind
  <2> QED
    BY <1>1, <2>1, <2>3, <2>4, Grows
<1>2. ASSUME NEW i, i.do \in ds
      PROVE  /\ i.do = "type" => Fits(w, i, Y)
             /\ i.do = "value" => (Fits(w, i, Y) <=> Only(w, Y, {";"}))
             /\ i.do \in {"expression", "infix"} => (Fits(w, i, Y) <=> Only(w, Y, Closers))
             /\ i.do \in {"term", "named"} => (Fits(w, i, Y) <=> Only(w, Y, Infix \cup Closers))
             /\ i.do = "statements" => (Fits(w, i, Y) <=> Only(w, Y, {"}"}))
  BY <1>2 DEF Fits, Loops, LoopFits
<1>3. ASSUME NEW i, i.do \in ds
      PROVE  /\ i.do = "type" => Meaning(i, Y) = Then("Type", Y)
             /\ i.do = "value" => Meaning(i, Y) = Either(Y, Then("Expression", Y))
             /\ i.do = "expression" => Meaning(i, Y) = Then("Expression", Y)
             /\ i.do = "infix" => Meaning(i, Y) = Either(Y, Then("Operator", Then("Expression", Y)))
             /\ i.do = "term" => Meaning(i, Y) = Then("Term", Y)
             /\ i.do = "named" => Meaning(i, Y) = Named(Y)
             /\ i.do = "statements" => Meaning(i, Y) = Then("Statements", Y)
  BY <1>3 DEF Meaning, Loops, LoopMeaning
<1>4. \A d : Simple(d).do = d
  BY DEF Simple
<1> HIDE DEF ds
<1>5. {"type", "value", "expression", "infix", "term", "named", "statements"} \subseteq ds
  BY DEF ds
<1>6. /\ Fits(w, Simple("type"), Y)
      /\ Only(w, Y, {";"}) => Fits(w, Simple("value"), Y)
      /\ Only(w, Y, Closers) => Fits(w, Simple("expression"), Y) /\ Fits(w, Simple("infix"), Y)
      /\ Only(w, Y, Infix \cup Closers) => Fits(w, Simple("term"), Y) /\ Fits(w, Simple("named"), Y)
      /\ Only(w, Y, {"}"}) => Fits(w, Simple("statements"), Y)
  <2>1. Fits(w, Simple("type"), Y)
    <3>1. Simple("type").do = "type" /\ "type" \in ds
      BY <1>4, <1>5
    <3> QED
      BY <1>2, <3>1
  <2>2. Only(w, Y, {";"}) => Fits(w, Simple("value"), Y)
    BY <1>2, <1>4, <1>5
  <2>3. Only(w, Y, Closers) => Fits(w, Simple("expression"), Y) /\ Fits(w, Simple("infix"), Y)
    BY <1>2, <1>4, <1>5
  <2>4. Only(w, Y, Infix \cup Closers) => Fits(w, Simple("term"), Y) /\ Fits(w, Simple("named"), Y)
    BY <1>2, <1>4, <1>5
  <2>5. Only(w, Y, {"}"}) => Fits(w, Simple("statements"), Y)
    BY <1>2, <1>4, <1>5
  <2> QED
    BY <2>1, <2>2, <2>3, <2>4, <2>5
<1>7. /\ Meaning(Simple("type"), Y) = Then("Type", Y)
      /\ Meaning(Simple("value"), Y) = Either(Y, Then("Expression", Y))
      /\ Meaning(Simple("expression"), Y) = Then("Expression", Y)
      /\ Meaning(Simple("infix"), Y) = Either(Y, Then("Operator", Then("Expression", Y)))
      /\ Meaning(Simple("term"), Y) = Then("Term", Y) /\ Meaning(Simple("named"), Y) = Named(Y)
      /\ Meaning(Simple("statements"), Y) = Then("Statements", Y)
  BY <1>3, <1>4, <1>5
<1>8. /\ Settled(w, <<Simple("type")>> \o s, Meaning(Simple("type"), Y))
      /\ Only(w, Y, {";"}) => Settled(w, <<Simple("value")>> \o s, Meaning(Simple("value"), Y))
      /\ Only(w, Y, Closers) => Settled(w, <<Simple("expression")>> \o s, Meaning(Simple("expression"), Y))
      /\ Only(w, Y, Closers) => Settled(w, <<Simple("infix")>> \o s, Meaning(Simple("infix"), Y))
      /\ Only(w, Y, Infix \cup Closers) => Settled(w, <<Simple("term")>> \o s, Meaning(Simple("term"), Y))
      /\ Only(w, Y, Infix \cup Closers) => Settled(w, <<Simple("named")>> \o s, Meaning(Simple("named"), Y))
      /\ Only(w, Y, {"}"}) => Settled(w, <<Simple("statements")>> \o s, Meaning(Simple("statements"), Y))
  BY <1>1, <1>5, <1>6
<1> QED
  BY <1>7, <1>8

(* A context entered or left first: nothing is read for it. *)
LEMMA ContextFirst ==
  ASSUME NEW w, NEW s, NEW Y, Settled(w, s, Y), NEW c \in {"class", "sub", "stmt", "var", "param"}
  PROVE  Settled(w, <<Push(c)>> \o s, Y) /\ Settled(w, <<Pop(c)>> \o s, Y)
<1>1. Push(c) \in Items /\ Pop(c) \in Items
  BY Forms, ListForms DEF Lists
<1>2. ASSUME NEW i \in Items, i.do \in {"push", "pop"} PROVE Settled(w, <<i>> \o s, Y)
  <2>1. Meaning(i, Y) = Y /\ Fits(w, i, Y)
    BY <1>2 DEF Meaning, Fits, Loops
  <2>2. i.do # "declared" /\ Calm(i)
    BY <1>2 DEF Calm, Uncounted, Behind
  <2> QED
    BY <2>1, <2>2, Grows
<1>3. Push(c).do = "push" /\ Pop(c).do = "pop"
  BY DEF Push, Pop
<1> QED
  BY <1>1, <1>2, <1>3

(* An optional part first: what may come behind it does not begin the way  *)
(* it does.                                                                *)
LEMMA OptionFirst ==
  ASSUME NEW w, NEW s, NEW Y, Settled(w, s, Y)
  PROVE  /\ Only(w, Y, {"="}) => Settled(w, <<Optional("[", Index)>> \o s, Either(Y, Then("Index", Y)))
         /\ Only(w, Y, {"("}) =>
              Settled(w, <<Optional(".", <<Need("."), Need("name")>>)>> \o s, Either(Y, Then(".", Then("name", Y))))
         /\ Only(w, Y, {"routine"}) =>
              Settled(w, <<Optional("native", <<Need("native")>>)>> \o s, Either(Y, Then("native", Y)))
         /\ Only(w, Y, StatementStart \cup {"}"}) =>
              Settled(w, <<Optional("else", <<Need("else")>> \o Block)>> \o s, Then("Else", Y))
<1>1. ASSUME NEW t \in Words, NEW then \in Seq(Single), Fits(w, Optional(t, then), Y)
      PROVE  Settled(w, <<Optional(t, then)>> \o s, Meaning(Optional(t, then), Y))
  <2>1. PICK i \in Items : i = Optional(t, then)
    BY Forms
  <2>2. i.do = "optional"
    BY <2>1 DEF Optional
  <2>3. i.do # "declared" /\ Calm(i)
    BY <2>2 DEF Calm, Uncounted, Behind
  <2> QED
    BY <1>1, <2>1, <2>3, Grows
<1>2. \A t, then : Optional(t, then).do = "optional" /\ Optional(t, then).words = {t} /\ Optional(t, then).then = then
  BY DEF Optional
<1>3. {"[", ".", "native", "else", "name"} \subseteq Words
  BY DEF Words
<1>4. /\ Index \in Seq(Single) /\ <<Need("."), Need("name")>> \in Seq(Single) /\ <<Need("native")>> \in Seq(Single)
      /\ <<Need("else")>> \o Block \in Seq(Single)
  <2>1. <<Need("else")>> \o Block \in Seq(Single)
    BY <1>3, Pieces, ConcatProperties
  <2> QED
    BY <1>3, <2>1, Pieces, Tuples
<1>5. ASSUME NEW i, i.do = "optional"
      PROVE  Meaning(i, Y) = OptionMeaning(i, Y) /\ (Fits(w, i, Y) <=> OptionFits(w, i, Y))
  BY <1>5 DEF Meaning, Fits, Loops
<1>6. /\ OptionMeaning(Optional("[", Index), Y) = Either(Y, Then("Index", Y))
      /\ \A then : /\ OptionMeaning(Optional(".", then), Y) = Either(Y, Then(".", Then("name", Y)))
                   /\ OptionMeaning(Optional("native", then), Y) = Either(Y, Then("native", Y))
                   /\ OptionMeaning(Optional("else", then), Y) = Then("Else", Y)
  BY <1>2 DEF OptionMeaning
<1>7. /\ Only(w, Y, {"="}) => OptionFits(w, Optional("[", Index), Y)
      /\ Only(w, Y, {"("}) => OptionFits(w, Optional(".", <<Need("."), Need("name")>>), Y)
      /\ Only(w, Y, {"routine"}) => OptionFits(w, Optional("native", <<Need("native")>>), Y)
      /\ Only(w, Y, StatementStart \cup {"}"}) => OptionFits(w, Optional("else", <<Need("else")>> \o Block), Y)
  BY <1>2 DEF OptionFits
<1>8. ASSUME NEW t \in Words, NEW then \in Seq(Single), OptionFits(w, Optional(t, then), Y)
      PROVE  Settled(w, <<Optional(t, then)>> \o s, OptionMeaning(Optional(t, then), Y))
  BY <1>1, <1>2, <1>5, <1>8
<1>9. Only(w, Y, {"="}) => Settled(w, <<Optional("[", Index)>> \o s, OptionMeaning(Optional("[", Index), Y))
  BY <1>3, <1>4, <1>7, <1>8
<1>10. Only(w, Y, {"("}) => Settled(w, <<Optional(".", <<Need("."), Need("name")>>)>> \o s,
                                    OptionMeaning(Optional(".", <<Need("."), Need("name")>>), Y))
  BY <1>3, <1>4, <1>7, <1>8
<1>11. Only(w, Y, {"routine"}) => Settled(w, <<Optional("native", <<Need("native")>>)>> \o s,
                                          OptionMeaning(Optional("native", <<Need("native")>>), Y))
  BY <1>3, <1>4, <1>7, <1>8
<1>12. Only(w, Y, StatementStart \cup {"}"}) =>
         Settled(w, <<Optional("else", <<Need("else")>> \o Block)>> \o s,
                 OptionMeaning(Optional("else", <<Need("else")>> \o Block), Y))
  BY <1>3, <1>4, <1>7, <1>8
<1> QED
  BY <1>6, <1>9, <1>10, <1>11, <1>12

-----------------------------------------------------------------------------
(* The words a nonterminal may start with *)
LEMMA Starts ==
  ASSUME NEW w, NEW Z \in Rests
  PROVE  /\ Only(w, Then("Type", Z), Types) /\ Only(w, Then("Result", Z), Types \cup {"void"})
         /\ Only(w, Then("Operator", Z), Infix) /\ Only(w, Then("Index", Z), {"["})
         /\ Only(w, Then("Arguments", Z), {"("}) /\ Only(w, Then("Call", Z), {"name"})
         /\ Only(w, Then("Term", Z), TermStart) /\ Only(w, Then("Expression", Z), TermStart)
         /\ Only(w, Then("List", Z), TermStart) /\ Only(w, Then("Names", Z), {"name"})
         /\ Only(w, Then("Parameter", Z), Types) /\ Only(w, Then("Statement", Z), StatementStart)
         /\ Only(w, Then("Subroutine", Z), {"routine"})
<1>1. ASSUME NEW Y \in Rests, NEW p \in Nat
      PROVE  /\ p \in Places(w, Then("Type", Y)) => Word(w, p) \in Types
             /\ p \in Places(w, Then("Result", Y)) => Word(w, p) \in Types \cup {"void"}
             /\ p \in Places(w, Then("Operator", Y)) => Word(w, p) \in Infix
             /\ p \in Places(w, Then("Index", Y)) => Word(w, p) \in {"["}
             /\ p \in Places(w, Then("Arguments", Y)) => Word(w, p) \in {"("}
             /\ p \in Places(w, Then("Call", Y)) => Word(w, p) \in {"name"}
             /\ p \in Places(w, Then("Term", Y)) => Word(w, p) \in TermStart
             /\ p \in Places(w, Then("Statement", Y)) => Word(w, p) \in StatementStart
             /\ p \in Places(w, Then("Subroutine", Y)) => Word(w, p) \in {"routine"}
             /\ p \in Places(w, Then("name", Y)) => Word(w, p) \in {"name"}
  <2>1. p \in Places(w, Then("Term", Y)) => Word(w, p) \in TermStart
    BY TermRead DEF TermStart
  <2>2. p \in Places(w, Then("Index", Y)) => Word(w, p) \in {"["}
    BY IndexRead
  <2>3. p \in Places(w, Then("Arguments", Y)) => Word(w, p) \in {"("}
    BY ArgumentsRead
  <2>4. p \in Places(w, Then("Call", Y)) => Word(w, p) \in {"name"}
    BY CallRead
  <2>5. p \in Places(w, Then("Statement", Y)) => Word(w, p) \in StatementStart
    BY StatementRead
  <2>6. p \in Places(w, Then("Subroutine", Y)) => Word(w, p) \in {"routine"}
    BY ClassRead
  <2>7. /\ p \in Places(w, Then("Type", Y)) => Word(w, p) \in Types
        /\ p \in Places(w, Then("Result", Y)) => Word(w, p) \in Types \cup {"void"}
        /\ p \in Places(w, Then("Operator", Y)) => Word(w, p) \in Infix
    BY OneWord
  <2>8. p \in Places(w, Then("name", Y)) => Word(w, p) \in {"name"}
    BY WordRead, WordsAreSymbols
  <2> QED
    BY <2>1, <2>2, <2>3, <2>4, <2>5, <2>6, <2>7, <2>8
<1>2. \A Y : Places(w, Y) \subseteq Nat
  BY DEF Places
<1>3. ASSUME NEW Y \in Rests
      PROVE  /\ Only(w, Then("Type", Y), Types) /\ Only(w, Then("Result", Y), Types \cup {"void"})
             /\ Only(w, Then("Operator", Y), Infix) /\ Only(w, Then("Index", Y), {"["})
             /\ Only(w, Then("Arguments", Y), {"("}) /\ Only(w, Then("Call", Y), {"name"})
             /\ Only(w, Then("Term", Y), TermStart) /\ Only(w, Then("Statement", Y), StatementStart)
             /\ Only(w, Then("Subroutine", Y), {"routine"}) /\ Only(w, Then("name", Y), {"name"})
  BY <1>1, <1>2 DEF Only
<1>4. ASSUME NEW Y \in Rests PROVE Only(w, Then("Expression", Y), TermStart)
  <2>1. PICK I \in Rests : I = Either(Y, Then("Operator", Then("Expression", Y)))
    BY ThenRests, EitherRests, WordsAreSymbols
  <2>2. Places(w, Then("Expression", Y)) = Places(w, Then("Term", I))
    BY <2>1, ListsRead
  <2> QED
    BY <1>3, <2>2 DEF Only
<1>5. Only(w, Then("List", Z), TermStart)
  <2>1. PICK I \in Rests : I = Either(Z, Then(",", Then("List", Z)))
    BY ThenRests, EitherRests, WordsAreSymbols
  <2>2. Places(w, Then("List", Z)) = Places(w, Then("Expression", I))
    BY <2>1, ListsRead
  <2> QED
    BY <1>4, <2>2 DEF Only
<1>6. Only(w, Then("Names", Z), {"name"})
  <2>1. PICK I \in Rests : I = Either(Z, Then(",", Then("Names", Z)))
    BY ThenRests, EitherRests, WordsAreSymbols
  <2>2. Places(w, Then("Names", Z)) = Places(w, Then("name", I))
    BY <2>1, ListsRead
  <2> QED
    BY <1>3, <2>2 DEF Only
<1>7. Only(w, Then("Parameter", Z), Types)
  <2>1. PICK I \in Rests : I = Then("name", Either(Z, Then(",", Then("Parameter", Z))))
    BY ThenRests, EitherRests, WordsAreSymbols
  <2>2. Places(w, Then("Parameter", Z)) = Places(w, Then("Type", I))
    BY <2>1, ListsRead
  <2> QED
    BY <1>3, <2>2 DEF Only
<1> QED
  BY <1>3, <1>4, <1>5, <1>6, <1>7

(* A loop, and the step that enters it *)
LEMMA LoopFirst ==
  ASSUME NEW w, NEW s, NEW Y, Settled(w, s, Y), NEW i \in Items, i.do \in Loops, Calm(i), LoopFits(w, i, Y)
  PROVE  /\ Settled(w, <<i>> \o s, LoopMeaning(i, Y))
         /\ Enter(i) \in Items => Settled(w, <<Enter(i)>> \o s, LoopMeaning(i, Y))
<1>1. Settled(w, <<i>> \o s, LoopMeaning(i, Y))
  <2>1. Meaning(i, Y) = LoopMeaning(i, Y)
    BY DEF Meaning, Loops
  <2>2. Fits(w, i, Y) <=> LoopFits(w, i, Y)
    BY DEF Fits, Loops
  <2>3. i.do # "declared"
    BY DEF Loops
  <2> QED
    BY <2>1, <2>2, <2>3, Grows
<1>2. ASSUME Enter(i) \in Items PROVE Settled(w, <<Enter(i)>> \o s, LoopMeaning(i, Y))
  <2>1. PICK j \in Items : j = Enter(i)
    BY <1>2
  <2>2. j.do = "enter" /\ j.loop = i
    BY <2>1 DEF Enter
  <2>3. Meaning(j, Y) = LoopMeaning(i, Y)
    BY <2>2 DEF Meaning, Loops
  <2>4. Fits(w, j, Y)
    BY <2>2 DEF Fits, Loops
  <2>5. j.do # "declared" /\ Calm(j)
    BY <2>2 DEF Calm, Uncounted, Behind
  <2> QED
    BY <2>1, <2>3, <2>4, <2>5, Grows
<1> QED
  BY <1>1, <1>2

(* The loops of a class, a subroutine and a statement list, and of a list's entry *)
LEMMA LoopsFirst ==
  ASSUME NEW w, NEW s, NEW Y, Settled(w, s, Y)
  PROVE  /\ Only(w, Y, {"}"}) =>
              /\ Settled(w, <<Enter(Body("classBody", FALSE))>> \o s, Then("ClassVars", Then("Subroutines", Y)))
              /\ Settled(w, <<Body("classBody", FALSE)>> \o s, Then("ClassVars", Then("Subroutines", Y)))
              /\ Settled(w, <<Body("classBody", TRUE)>> \o s, Then("Subroutines", Y))
              /\ Settled(w, <<Enter(Body("subBody", FALSE))>> \o s, Then("Locals", Then("Statements", Y)))
              /\ Settled(w, <<Enter(Simple("statements"))>> \o s, Then("Statements", Y))
         /\ Only(w, Y, {";"}) => Settled(w, <<Enter(Variables(";"))>> \o s, Then("Names", Y))
         /\ Only(w, Y, {")"}) => Settled(w, <<Enter(Variables(")"))>> \o s, Then("Parameters", Y))
<1>1. ASSUME NEW seen \in BOOLEAN, NEW d \in {"classBody", "subBody"}
      PROVE  /\ Body(d, seen) \in Items /\ Body(d, seen).do = d /\ Body(d, seen).seen = seen
             /\ Enter(Body(d, seen)) \in Items
  <2>1. Body(d, seen).do = d /\ Body(d, seen).seen = seen
    BY DEF Body
  <2> QED
    BY <2>1, Forms
<1>2. Simple("statements") \in Items /\ Enter(Simple("statements")) \in Items /\
      Simple("statements").do = "statements"
  <2>1. Simple("statements").do = "statements"
    BY DEF Simple
  <2> QED
    BY <2>1, Forms
<1>3. ASSUME NEW e \in {";", ")"}
      PROVE  /\ Variables(e) \in Items /\ Enter(Variables(e)) \in Items
             /\ Variables(e).do = "variables" /\ Variables(e).end = e /\ Variables(e).first /\ ~ Variables(e).any
  <2>1. PICK c \in Lists : e = EndOf(c)
    BY DEF Lists, EndOf
  <2>2. Variables(e) \in Items /\ ListOf(c) \in Items /\ ListOf(c) = Enter(Variables(e))
    BY <2>1, ListForms DEF ListOf
  <2>3. Variables(e).do = "variables" /\ Variables(e).end = e /\ Variables(e).first /\ ~ Variables(e).any
    BY DEF Variables
  <2> QED
    BY <2>2, <2>3
<1>4. ASSUME Only(w, Y, {"}"}), NEW i \in Items, i.do \in {"classBody", "subBody", "statements"}, ~ Behind(i)
      PROVE  /\ Settled(w, <<i>> \o s, LoopMeaning(i, Y))
             /\ Enter(i) \in Items => Settled(w, <<Enter(i)>> \o s, LoopMeaning(i, Y))
  <2>1. i.do \in Loops /\ Calm(i) /\ LoopFits(w, i, Y)
    BY <1>4 DEF Loops, Calm, Uncounted, LoopFits
  <2> QED
    BY <2>1, LoopFirst
<1>5. ASSUME NEW e \in {";", ")"}, Only(w, Y, {e})
      PROVE  Settled(w, <<Enter(Variables(e))>> \o s, LoopMeaning(Variables(e), Y))
  <2>1. PICK i \in Items : i = Variables(e)
    BY <1>3
  <2>2. Enter(i) \in Items /\ i.do = "variables" /\ i.end = e /\ i.first /\ ~ i.any
    BY <1>3, <2>1
  <2>3. i.do \in Loops /\ Calm(i) /\ LoopFits(w, i, Y)
    BY <1>5, <2>2 DEF Loops, Calm, Uncounted, Behind, LoopFits
  <2> QED
    BY <2>1, <2>2, <2>3, LoopFirst
<1>6. ASSUME NEW i
      PROVE  /\ i.do = "classBody" /\ i.seen = FALSE => LoopMeaning(i, Y) = Then("ClassVars", Then("Subroutines", Y))
             /\ i.do = "classBody" /\ i.seen = TRUE => LoopMeaning(i, Y) = Then("Subroutines", Y)
             /\ i.do = "subBody" /\ i.seen = FALSE => LoopMeaning(i, Y) = Then("Locals", Then("Statements", Y))
             /\ i.do = "statements" => LoopMeaning(i, Y) = Then("Statements", Y)
             /\ i.do = "variables" /\ i.first /\ i.end = ";" => LoopMeaning(i, Y) = Then("Names", Y)
             /\ i.do = "variables" /\ i.first /\ i.end = ")" => LoopMeaning(i, Y) = Then("Parameters", Y)
  BY DEF LoopMeaning
<1>7. ASSUME Only(w, Y, {"}"})
      PROVE  /\ Settled(w, <<Enter(Body("classBody", FALSE))>> \o s, Then("ClassVars", Then("Subroutines", Y)))
             /\ Settled(w, <<Body("classBody", FALSE)>> \o s, Then("ClassVars", Then("Subroutines", Y)))
             /\ Settled(w, <<Body("classBody", TRUE)>> \o s, Then("Subroutines", Y))
             /\ Settled(w, <<Enter(Body("subBody", FALSE))>> \o s, Then("Locals", Then("Statements", Y)))
             /\ Settled(w, <<Enter(Simple("statements"))>> \o s, Then("Statements", Y))
  <2>1. PICK a \in Items, b \in Items, c \in Items, d \in Items :
          a = Body("classBody", FALSE) /\ b = Body("classBody", TRUE) /\ c = Body("subBody", FALSE) /\
              d = Simple("statements")
    BY <1>1, <1>2
  <2>2. /\ a.do = "classBody" /\ a.seen = FALSE /\ Enter(a) \in Items
        /\ b.do = "classBody" /\ b.seen = TRUE
        /\ c.do = "subBody" /\ c.seen = FALSE /\ Enter(c) \in Items
        /\ d.do = "statements" /\ Enter(d) \in Items
    BY <1>1, <1>2, <2>1
  <2>3. ~ Behind(a) /\ ~ Behind(b) /\ ~ Behind(c) /\ ~ Behind(d)
    BY <2>2 DEF Behind
  <2>4. /\ Settled(w, <<Enter(a)>> \o s, LoopMeaning(a, Y)) /\ Settled(w, <<a>> \o s, LoopMeaning(a, Y))
        /\ Settled(w, <<b>> \o s, LoopMeaning(b, Y)) /\ Settled(w, <<Enter(c)>> \o s, LoopMeaning(c, Y))
        /\ Settled(w, <<Enter(d)>> \o s, LoopMeaning(d, Y))
    BY <1>4, <1>7, <2>2, <2>3
  <2>5. /\ LoopMeaning(a, Y) = Then("ClassVars", Then("Subroutines", Y)) /\ LoopMeaning(b, Y) = Then("Subroutines", Y)
        /\ LoopMeaning(c, Y) = Then("Locals", Then("Statements", Y)) /\ LoopMeaning(d, Y) = Then("Statements", Y)
    BY <1>6, <2>2
  <2> QED
    BY <2>1, <2>4, <2>5
<1>8. LoopMeaning(Variables(";"), Y) = Then("Names", Y) /\ LoopMeaning(Variables(")"), Y) = Then("Parameters", Y)
  BY <1>3, <1>6
<1> QED
  BY <1>5, <1>7, <1>8

-----------------------------------------------------------------------------
(* Tuples of items in front of others *)
LEMMA Concat ==
  ASSUME NEW S, NEW x \in Seq(S), NEW y \in Seq(S), NEW r \in Seq(S)
  PROVE  (x \o y) \o r = x \o (y \o r) /\ y \o r \in Seq(S) /\ x \o y \in Seq(S)
  BY ConcatAssociative, ConcatProperties

(* Three sequences of items, grouped either way. *)
LEMMA Concats ==
  \A x, y, r \in Seq(Items) : (x \o y) \o r = x \o (y \o r) /\ x \o y \in Seq(Items) /\ y \o r \in Seq(Items)
<1>1. ASSUME NEW x \in Seq(Items), NEW y \in Seq(Items), NEW r \in Seq(Items)
      PROVE  (x \o y) \o r = x \o (y \o r) /\ x \o y \in Seq(Items) /\ y \o r \in Seq(Items)
  BY Concat
<1> QED
  BY <1>1

(* Two or three items in front are one and the others. *)
LEMMA InFront ==
  ASSUME NEW S, NEW r \in Seq(S)
  PROVE  /\ \A a, b : <<a, b>> \o r = <<a>> \o (<<b>> \o r)
         /\ \A a, b, c : <<a, b, c>> \o r = <<a>> \o (<<b>> \o (<<c>> \o r))
<1>1. ASSUME NEW a, NEW b PROVE <<a, b>> \o r = <<a>> \o (<<b>> \o r)
  <2>1. PICK T : T = S \cup {a, b}
    OBVIOUS
  <2>2. r \in Seq(T) /\ a \in T /\ b \in T
    BY <2>1, SeqMonotonic
  <2>3. <<a, b>> = <<a>> \o <<b>>
    BY <2>2, PairSplits
  <2>4. <<a>> \in Seq(T) /\ <<b>> \in Seq(T)
    BY <2>2
  <2>5. PICK x \in Seq(T), y \in Seq(T) : x = <<a>> /\ y = <<b>>
    BY <2>4, Zenon
  <2>6. (x \o y) \o r = x \o (y \o r)
    BY <2>2, Concat
  <2> QED
    BY <2>3, <2>5, <2>6, Zenon
<1>2. ASSUME NEW a, NEW b, NEW c PROVE <<a, b, c>> \o r = <<a>> \o (<<b>> \o (<<c>> \o r))
  <2>1. PICK T : T = S \cup {a, b, c}
    OBVIOUS
  <2>2. r \in Seq(T) /\ a \in T /\ b \in T /\ c \in T
    BY <2>1, SeqMonotonic
  <2>3. <<a, b, c>> = <<a>> \o <<b, c>>
    BY <2>2
  <2>4. <<a>> \in Seq(T) /\ <<b, c>> \in Seq(T)
    BY <2>2
  <2>5. PICK x \in Seq(T), y \in Seq(T) : x = <<a>> /\ y = <<b, c>>
    BY <2>4, Zenon
  <2>6. (x \o y) \o r = x \o (y \o r)
    BY <2>2, Concat
  <2>7. <<b, c>> \o r = <<b>> \o (<<c>> \o r)
    BY <1>1, Zenon
  <2> QED
    BY <2>3, <2>5, <2>6, <2>7, Zenon
<1> QED
  BY <1>1, <1>2, Zenon

(* The types of a settled stack and of what it reads. *)
LEMMA SettledParts ==
  ASSUME NEW w, NEW s, NEW Y, Settled(w, s, Y)
  PROVE  s \in Seq(Items) /\ Y \in Rests
  BY DEF Settled

-----------------------------------------------------------------------------
(* What the sequences of the parser read *)

(* The same places *)
Same(w, Y, Z) == \A p \in Nat : p \in Places(w, Y) <=> p \in Places(w, Z)

Reads(w, s, Z) == \E Y \in Rests : Settled(w, s, Y) /\ Same(w, Y, Z)

(* What starts at the same places does so behind a word, and comes next    *)
(* alike.                                                                  *)
LEMMA SameRules ==
  ASSUME NEW w, NEW Y \in Rests, NEW Z \in Rests, Same(w, Y, Z)
  PROVE  /\ \A t \in Terminals : Same(w, Then(t, Y), Then(t, Z))
         /\ \A V : Only(w, Z, V) => Only(w, Y, V)
<1>1. ASSUME NEW t \in Terminals, NEW p \in Nat PROVE p \in Places(w, Then(t, Y)) <=> p \in Places(w, Then(t, Z))
  BY WordRead DEF Same
<1>2. Places(w, Y) \subseteq Nat
  BY DEF Places
<1> QED
  BY <1>1, <1>2 DEF Same, Only

(* The items that the sequences are made of *)
LEMMA ItemForms ==
  /\ \A t \in Terminals : Need(t) \in Items
  /\ \A d \in {"type", "value", "expression", "infix", "term", "named"} : Simple(d) \in Items
  /\ \A c \in {"class", "sub", "stmt", "var", "param"} : Push(c) \in Items /\ Pop(c) \in Items
  /\ \A any \in BOOLEAN : [do |-> "arguments", any |-> any] \in Items
  /\ Enter(Simple("statements")) \in Items /\ Enter(Body("subBody", FALSE)) \in Items
  /\ Enter(Body("classBody", FALSE)) \in Items /\ Body("subBody", TRUE) \in Items /\ Body("classBody", TRUE) \in Items
  /\ Enter(Variables(";")) \in Items /\ Enter(Variables(")")) \in Items
  /\ Expect(Types \cup {"void"}) \in Items
  /\ Optional("[", Index) \in Items /\ Optional(".", <<Need("."), Need("name")>>) \in Items
  /\ Optional("native", <<Need("native")>>) \in Items /\ Optional("else", <<Need("else")>> \o Block) \in Items
<1>1. Terminals \subseteq Words /\ Types \cup {"void"} \subseteq Words
  BY DEF Terminals, Words, Types
<1>2. Single \subseteq Items /\ Plain \subseteq Items
  BY Forms
<1>3. \A t \in Terminals : Need(t) \in Items
  BY <1>1, <1>2, Forms
<1>4. /\ \A d \in {"type", "value", "expression", "infix", "term", "named"} : Simple(d) \in Items
      /\ \A any \in BOOLEAN : [do |-> "arguments", any |-> any] \in Items
      /\ Enter(Simple("statements")) \in Items /\ Enter(Body("subBody", FALSE)) \in Items
      /\ Enter(Body("classBody", FALSE)) \in Items /\ Body("subBody", TRUE) \in Items /\
         Body("classBody", TRUE) \in Items
      /\ Expect(Types \cup {"void"}) \in Items
  <2>1. Expect(Types \cup {"void"}) \in Items
    BY <1>1, <1>2, Forms
  <2> QED
    BY <1>2, <2>1, Forms
<1>5. \A c \in {"class", "sub", "stmt", "var", "param"} : Push(c) \in Items /\ Pop(c) \in Items
  <2>1. Lists = {"var", "param"}
    BY DEF Lists
  <2> QED
    BY <1>2, <2>1, Forms, ListForms
<1>6. Enter(Variables(";")) \in Items /\ Enter(Variables(")")) \in Items
  <2>1. ListOf("var") = Enter(Variables(";")) /\ ListOf("param") = Enter(Variables(")"))
    BY DEF ListOf, EndOf
  <2> QED
    BY <2>1, ListForms DEF Lists
<1>7. /\ Optional("[", Index) \in Items /\ Optional(".", <<Need("."), Need("name")>>) \in Items
      /\ Optional("native", <<Need("native")>>) \in Items /\ Optional("else", <<Need("else")>> \o Block) \in Items
  <2>1. {"[", ".", "native", "else", "name"} \subseteq Words
    BY DEF Words
  <2>2. <<Need("else")>> \o Block \in Seq(Single)
    BY <2>1, Pieces, ConcatProperties
  <2>3. <<Need("."), Need("name")>> \in Seq(Single) /\ <<Need("native")>> \in Seq(Single) /\ Index \in Seq(Single)
    BY <2>1, Pieces, Tuples
  <2> QED
    BY <1>2, <2>1, <2>2, <2>3, Forms
<1> QED
  BY <1>3, <1>4, <1>5, <1>6, <1>7

(* A word that closes a construct is what comes next. *)
LEMMA ClosersOnly ==
  ASSUME NEW w, NEW Y \in Rests
  PROVE  /\ \A t \in Terminals : Only(w, Then(t, Y), {t})
         /\ \A t \in Closers : Only(w, Then(t, Y), Closers) /\ Only(w, Then(t, Y), Infix \cup Closers)
<1>1. \A t \in Terminals : Only(w, Then(t, Y), {t})
  BY OnlyRules
<1>2. Closers \subseteq Terminals
  BY WordsAreSymbols DEF Closers
<1>3. ASSUME NEW t \in Closers PROVE Only(w, Then(t, Y), Closers) /\ Only(w, Then(t, Y), Infix \cup Closers)
  <2>1. Only(w, Then(t, Y), {t}) /\ {t} \subseteq Closers /\ {t} \subseteq Infix \cup Closers
    BY <1>1, <1>2
  <2> QED
    BY <2>1, OnlyRules
<1> QED
  BY <1>1, <1>3

(* The routine for an index reads one. *)
LEMMA IndexLaid ==
  ASSUME NEW w, NEW r, NEW Y, Settled(w, r, Y)
  PROVE  Settled(w, Index \o r, Then("[", Then("Expression", Then("]", Y))))
<1>1. r \in Seq(Items) /\ Y \in Rests
  BY SettledParts
<1>2. Settled(w, <<Need("]")>> \o r, Then("]", Y))
  BY WordFirst, WordsAreSymbols
<1>3. Only(w, Then("]", Y), Closers)
  BY <1>1, ClosersOnly DEF Closers
<1>4. Settled(w, <<Simple("expression")>> \o (<<Need("]")>> \o r), Then("Expression", Then("]", Y)))
  BY <1>2, <1>3, SimpleFirst
<1>5. Settled(w, <<Need("[")>> \o (<<Simple("expression")>> \o (<<Need("]")>> \o r)),
      Then("[", Then("Expression", Then("]", Y))))
  BY <1>4, WordFirst, WordsAreSymbols
<1>6. Index \o r = <<Need("[")>> \o (<<Simple("expression")>> \o (<<Need("]")>> \o r))
  <2>1. \A a, b, c : <<a, b, c>> \o r = <<a>> \o (<<b>> \o (<<c>> \o r))
    BY <1>1, InFront
  <2> QED
    BY <2>1, Zenon DEF Index
<1> QED
  BY <1>5, <1>6

(* The routine for a condition reads an expression in parentheses. *)
LEMMA ConditionLaid ==
  ASSUME NEW w, NEW r, NEW Y, Settled(w, r, Y)
  PROVE  Settled(w, Condition \o r, Then("(", Then("Expression", Then(")", Y))))
<1>1. r \in Seq(Items) /\ Y \in Rests
  BY SettledParts
<1>2. Settled(w, <<Need(")")>> \o r, Then(")", Y))
  BY WordFirst, WordsAreSymbols
<1>3. Only(w, Then(")", Y), Closers)
  BY <1>1, ClosersOnly DEF Closers
<1>4. Settled(w, <<Simple("expression")>> \o (<<Need(")")>> \o r), Then("Expression", Then(")", Y)))
  BY <1>2, <1>3, SimpleFirst
<1>5. Settled(w, <<Need("(")>> \o (<<Simple("expression")>> \o (<<Need(")")>> \o r)),
      Then("(", Then("Expression", Then(")", Y))))
  BY <1>4, WordFirst, WordsAreSymbols
<1>6. Condition \o r = <<Need("(")>> \o (<<Simple("expression")>> \o (<<Need(")")>> \o r))
  <2>1. \A a, b, c : <<a, b, c>> \o r = <<a>> \o (<<b>> \o (<<c>> \o r))
    BY <1>1, InFront
  <2> QED
    BY <2>1, Zenon DEF Condition
<1> QED
  BY <1>5, <1>6

(* Entering a list of statements changes its context only. *)
LEMMA StatementsLaid ==
  ASSUME NEW w, NEW r \in Seq(Items), NEW X, Settled(w, <<Enter(Simple("statements"))>> \o r, X)
  PROVE  Settled(w, Statements \o r, X)
<1>2. Statements \o r = <<Push("stmt")>> \o (<<Enter(Simple("statements"))>> \o r)
  <2>1. \A a, b : <<a, b>> \o r = <<a>> \o (<<b>> \o r)
    BY InFront
  <2> QED
    BY <2>1, Zenon DEF Statements
<1>3. Settled(w, <<Push("stmt")>> \o (<<Enter(Simple("statements"))>> \o r), X)
  BY ContextFirst
<1> QED
  BY <1>2, <1>3

(* The routine for a block reads statements in braces. *)
LEMMA BlockLaid ==
  ASSUME NEW w, NEW r, NEW Y, Settled(w, r, Y)
  PROVE  Settled(w, Block \o r, Braced(Y))
<1>1. r \in Seq(Items) /\ Y \in Rests
  BY SettledParts
<1>2. PICK a \in Seq(Items), b \in Seq(Items), c \in Seq(Items) : a = <<Need("{")>> /\ b = Statements /\
      c = <<Need("}")>>
  <2>1. Need("{") \in Items /\ Need("}") \in Items
    BY ItemForms, WordsAreSymbols
  <2>2. <<Need("{")>> \in Seq(Items) /\ <<Need("}")>> \in Seq(Items)
    BY <2>1, Tuples, Zenon
  <2>3. Statements \in Seq(Items)
    <3>1. Single \subseteq Items
      BY Forms
    <3> QED
      BY <3>1, Pieces, SeqMonotonic
  <2> QED
    BY <2>2, <2>3
<1>3. Block \o r = a \o (b \o (c \o r)) /\ c \o r \in Seq(Items)
  <2>1. Block = (a \o b) \o c
    BY <1>2 DEF Block
  <2>2. ((a \o b) \o c) \o r = a \o (b \o (c \o r)) /\ c \o r \in Seq(Items)
    <3>1. PICK u \in Seq(Items), v \in Seq(Items) : u = a \o b /\ v = c \o r
      BY <1>1, Concats
    <3>2. (u \o c) \o r = u \o (c \o r)
      BY <1>1, Concats
    <3>3. (a \o b) \o v = a \o (b \o v)
      BY Concats
    <3> QED
      BY <3>1, <3>2, <3>3
  <2> QED
    BY <2>1, <2>2
<1>4. Settled(w, c \o r, Then("}", Y)) /\ Only(w, Then("}", Y), {"}"})
  BY <1>1, <1>2, WordFirst, OnlyRules, WordsAreSymbols
<1>5. Settled(w, <<Enter(Simple("statements"))>> \o (c \o r), Then("Statements", Then("}", Y)))
  BY <1>4, LoopsFirst
<1>6. Settled(w, b \o (c \o r), Then("Statements", Then("}", Y)))
  BY <1>2, <1>3, <1>5, StatementsLaid
<1>7. Settled(w, a \o (b \o (c \o r)), Then("{", Then("Statements", Then("}", Y))))
  BY <1>2, <1>6, WordFirst, WordsAreSymbols
<1> QED
  BY <1>3, <1>7 DEF Braced

(* The arguments of a call, still to be read or the first of them read *)
LEMMA ListLaid ==
  ASSUME NEW w, NEW r, NEW Y, Settled(w, r, Y), Only(w, Y, {")"}), NEW any \in BOOLEAN
  PROVE  Settled(w, <<[do |-> "arguments", any |-> any]>> \o r,
                 Either(Y, IF any THEN Then(",", Then("List", Y)) ELSE Then("List", Y)))
<1>1. PICK i \in Items : i = [do |-> "arguments", any |-> any]
  BY ItemForms
<1>2. i.do = "arguments" /\ i.any = any
  BY <1>1
<1>3. Meaning(i, Y) = Either(Y, IF any THEN Then(",", Then("List", Y)) ELSE Then("List", Y))
  BY <1>2 DEF Meaning, Loops
<1>4. Fits(w, i, Y)
  BY <1>2 DEF Fits, Loops
<1>5. i.do # "declared" /\ Calm(i)
  BY <1>2 DEF Calm, Uncounted, Behind
<1> QED
  BY <1>1, <1>3, <1>4, <1>5, Grows

(* The routine for arguments reads them. *)
LEMMA ArgumentsLaid ==
  ASSUME NEW w, NEW r, NEW Y, Settled(w, r, Y)
  PROVE  Reads(w, Arguments \o r, Then("Arguments", Y))
<1>1. r \in Seq(Items) /\ Y \in Rests
  BY SettledParts
<1>2. PICK C \in Rests : C = Then(")", Y)
  BY <1>1, ThenRests, WordsAreSymbols
<1>3. Settled(w, <<Need(")")>> \o r, C) /\ Only(w, C, {")"})
  BY <1>1, <1>2, WordFirst, OnlyRules, WordsAreSymbols
<1>4. PICK L \in Rests : L = Either(C, Then("List", C))
  BY ThenRests, EitherRests, WordsAreSymbols
<1>5. Settled(w, <<[do |-> "arguments", any |-> FALSE]>> \o (<<Need(")")>> \o r), L)
  <2>1. Settled(w, <<[do |-> "arguments", any |-> FALSE]>> \o (<<Need(")")>> \o r),
                Either(C, IF FALSE THEN Then(",", Then("List", C)) ELSE Then("List", C)))
    BY <1>3, ListLaid
  <2> QED
    BY <1>4, <2>1
<1>6. Settled(w, <<Need("(")>> \o (<<[do |-> "arguments", any |-> FALSE]>> \o (<<Need(")")>> \o r)), Then("(", L))
  BY <1>5, WordFirst, WordsAreSymbols
<1>7. Arguments \o r = <<Need("(")>> \o (<<[do |-> "arguments", any |-> FALSE]>> \o (<<Need(")")>> \o r))
  <2>1. \A a, b, c : <<a, b, c>> \o r = <<a>> \o (<<b>> \o (<<c>> \o r))
    BY <1>1, InFront
  <2> QED
    BY <2>1, Zenon DEF Arguments
<1>8. Same(w, Then("(", L), Then("Arguments", Y))
  <2>1. ASSUME NEW p \in Nat PROVE p \in Places(w, Then("(", L)) <=> p \in Places(w, Then("Arguments", Y))
    <3>1. p \in Places(w, Then("(", L)) <=> Word(w, p) = "(" /\ p + 1 \in Places(w, L)
      BY WordRead, WordsAreSymbols
    <3>2. p \in Places(w, Then("Arguments", Y)) <=> Word(w, p) = "(" /\ p + 1 \in Places(w, L)
      BY <1>1, <1>2, <1>4, ArgumentsRead
    <3> QED
      BY <3>1, <3>2
  <2> QED
    BY <2>1 DEF Same
<1>9. Then("(", L) \in Rests
  BY ThenRests, WordsAreSymbols
<1> QED
  BY <1>6, <1>7, <1>8, <1>9 DEF Reads

(* What may follow the name of a call, and the call *)
LEMMA CallLaid ==
  ASSUME NEW w, NEW r, NEW Y, Settled(w, r, Y)
  PROVE  Reads(w, Tail(Call) \o r, Called(Y)) /\ Reads(w, Call \o r, Then("Call", Y))
<1>1. r \in Seq(Items) /\ Y \in Rests
  BY SettledParts
<1>2. PICK A \in Rests : Settled(w, Arguments \o r, A) /\ Same(w, A, Then("Arguments", Y))
  BY ArgumentsLaid DEF Reads
<1>3. PICK n, o : n = Need("name") /\ o = Optional(".", <<Need("."), Need("name")>>)
  OBVIOUS
<1>4. n \in Items /\ o \in Items /\ <<n>> \in Seq(Items) /\ <<o>> \in Seq(Items)
  <2>1. n \in Items /\ o \in Items
    BY <1>3, ItemForms, WordsAreSymbols, Zenon
  <2> QED
    BY <2>1
<1>5. Arguments \in Seq(Items) /\ Arguments \o r \in Seq(Items)
  <2>1. Single \subseteq Items
    BY Forms
  <2>2. Arguments \in Seq(Items)
    BY <2>1, Pieces, SeqMonotonic
  <2> QED
    BY <1>1, <2>2, Concat
<1>6. Call = <<n>> \o (<<o>> \o Arguments) /\ <<o>> \o Arguments \in Seq(Items)
  <2>1. \A a, b : <<a, b>> \o Arguments = <<a>> \o (<<b>> \o Arguments)
    BY <1>5, InFront
  <2>2. Call = <<n, o>> \o Arguments
    BY <1>3 DEF Call
  <2> QED
    BY <1>4, <1>5, <2>1, <2>2, Concat
<1>7. Tail(Call) = <<o>> \o Arguments
  <2>1. PICK t \in Seq(Items) : t = <<o>> \o Arguments
    BY <1>6
  <2>2. PICK x \in Seq(Items) : x = <<n>> /\ Len(x) = 1 /\ x[1] = n
    BY <1>4
  <2>3. x \o t \in Seq(Items) /\ Len(x \o t) = 1 + Len(t) /\ Len(t) \in Nat
        /\ \A i \in 1..1 + Len(t) : (x \o t)[i] = IF i <= 1 THEN x[i] ELSE t[i - 1]
    BY <2>2, ConcatProperties
  <2>4. PICK c \in Seq(Items) : c = x \o t
    BY <2>3
  <2>5. c # <<>> /\ Len(c) = 1 + Len(t)
    BY <2>3, <2>4
  <2>6. Tail(c) \in Seq(Items) /\ Len(Tail(c)) = Len(t) /\ \A i \in 1..Len(t) : Tail(c)[i] = t[i]
    BY <2>3, <2>4, <2>5, HeadTailProperties
  <2>7. Tail(c) = t
    BY <2>6, SeqEqual
  <2> QED
    BY <1>6, <2>1, <2>2, <2>4, <2>7
<1>8. Only(w, A, {"("})
  <2>1. PICK B \in Rests : B = Then("Arguments", Y)
    BY <1>1, ThenRests, WordsAreSymbols
  <2>2. Only(w, B, {"("})
    BY <1>1, <2>1, Starts
  <2> QED
    BY <1>2, <2>1, <2>2, SameRules
<1>9. PICK D \in Rests : D = Then(".", Then("name", A))
  BY ThenRests, WordsAreSymbols
<1>10. Settled(w, <<o>> \o (Arguments \o r), Either(A, D))
  BY <1>2, <1>3, <1>8, <1>9, OptionFirst
<1>11. Same(w, Either(A, D), Called(Y))
  <2>1. PICK B \in Rests : B = Then("Arguments", Y)
    BY <1>1, ThenRests, WordsAreSymbols
  <2>2. Then("name", A) \in Rests /\ Then("name", B) \in Rests
    BY ThenRests, WordsAreSymbols
  <2>3. Same(w, Then("name", A), Then("name", B))
    BY <1>2, <2>1, SameRules, WordsAreSymbols
  <2>4. Same(w, D, Then(".", Then("name", B)))
    BY <1>9, <2>2, <2>3, SameRules, WordsAreSymbols
  <2>5. PICK C : C = Then(".", Then("name", B))
    OBVIOUS
  <2>6. Called(Y) = Either(B, C)
    BY <2>1, <2>5 DEF Called
  <2> QED
    BY <1>2, <2>1, <2>4, <2>5, <2>6, EitherPlaces DEF Same
<1>12. (<<o>> \o Arguments) \o r = <<o>> \o (Arguments \o r)
  BY <1>1, <1>4, <1>5, Concat
<1>13. Reads(w, Tail(Call) \o r, Called(Y))
  BY <1>7, <1>10, <1>11, <1>12, <1>9, EitherRests DEF Reads
<1>14. Reads(w, Call \o r, Then("Call", Y))
  <2>1. PICK E \in Rests : E = Either(A, D)
    BY EitherRests
  <2>2. Settled(w, <<n>> \o (<<o>> \o (Arguments \o r)), Then("name", E))
    BY <1>3, <1>10, <2>1, WordFirst, WordsAreSymbols
  <2>3. Call \o r = <<n>> \o (<<o>> \o (Arguments \o r))
    <3>1. (<<n>> \o (<<o>> \o Arguments)) \o r = <<n>> \o ((<<o>> \o Arguments) \o r)
      BY <1>1, <1>4, <1>6, Concat
    <3> QED
      BY <1>6, <1>12, <3>1
  <2>4. ASSUME NEW p \in Nat PROVE p \in Places(w, Then("name", E)) <=> p \in Places(w, Then("Call", Y))
    <3>1. p \in Places(w, Then("name", E)) <=> Word(w, p) = "name" /\ p + 1 \in Places(w, E)
      BY WordRead, WordsAreSymbols
    <3>2. p \in Places(w, Then("Call", Y)) <=> Word(w, p) = "name" /\ p + 1 \in Places(w, Called(Y))
      BY <1>1, CallRead
    <3>3. p + 1 \in Places(w, E) <=> p + 1 \in Places(w, Called(Y))
      BY <1>11, <2>1 DEF Same
    <3> QED
      BY <3>1, <3>2, <3>3
  <2>5. Then("name", E) \in Rests
    BY ThenRests, WordsAreSymbols
  <2> QED
    BY <2>2, <2>3, <2>4, <2>5 DEF Reads, Same
<1> QED
  BY <1>13, <1>14

(* A declaration *)
LEMMA VarDecLaid ==
  ASSUME NEW w, NEW r, NEW Y, Settled(w, r, Y), NEW t \in Terminals
  PROVE  Settled(w, VarDec(t) \o r, Then(t, Declaration(Y)))
<1>1. r \in Seq(Items) /\ Y \in Rests
  BY SettledParts
<1>2. PICK a \in Items, b \in Items, c \in Items, d \in Items, e \in Items, f \in Items :
        a = Need(t) /\ b = Simple("type") /\ c = Push("var") /\ d = Enter(Variables(";")) /\ e = Pop("var") /\
            f = Need(";")
  BY ItemForms, WordsAreSymbols
<1>3. VarDec(t) \o r = <<a>> \o (<<b>> \o (<<c>> \o (<<d>> \o (<<e>> \o (<<f>> \o r)))))
  <2>1. VarDec(t) = <<a, b, c, d, e, f>>
    BY <1>2 DEF VarDec
  <2>2. <<a, b, c, d, e, f>> = <<a, b, c>> \o <<d, e, f>>
    OBVIOUS
  <2>3. <<a, b, c>> \in Seq(Items) /\ <<d, e, f>> \in Seq(Items)
    OBVIOUS
  <2>4. PICK x \in Seq(Items), y \in Seq(Items) : x = <<a, b, c>> /\ y = <<d, e, f>>
    BY <2>3, Zenon
  <2>5. (x \o y) \o r = x \o (y \o r) /\ y \o r \in Seq(Items)
    BY <1>1, Concat
  <2>6. y \o r = <<d>> \o (<<e>> \o (<<f>> \o r))
    <3>1. \A j, k, l : <<j, k, l>> \o r = <<j>> \o (<<k>> \o (<<l>> \o r))
      BY <1>1, InFront
    <3> QED
      BY <2>4, <3>1, Zenon
  <2>7. PICK u \in Seq(Items) : u = y \o r
    BY <2>5
  <2>8. x \o u = <<a>> \o (<<b>> \o (<<c>> \o u))
    <3>1. \A j, k, l : <<j, k, l>> \o u = <<j>> \o (<<k>> \o (<<l>> \o u))
      BY InFront
    <3> QED
      BY <2>4, <3>1, Zenon
  <2> QED
    BY <2>1, <2>2, <2>4, <2>5, <2>6, <2>7, <2>8, Zenon
<1>4. PICK Z \in Rests : Z = Then(";", Y)
  BY <1>1, ThenRests, WordsAreSymbols
<1>5. Settled(w, <<f>> \o r, Z) /\ Only(w, Z, {";"})
  BY <1>1, <1>2, <1>4, WordFirst, OnlyRules, WordsAreSymbols
<1>6. Settled(w, <<e>> \o (<<f>> \o r), Z)
  BY <1>2, <1>5, ContextFirst
<1>7. Settled(w, <<d>> \o (<<e>> \o (<<f>> \o r)), Then("Names", Z))
  BY <1>2, <1>5, <1>6, LoopsFirst
<1>8. Settled(w, <<c>> \o (<<d>> \o (<<e>> \o (<<f>> \o r))), Then("Names", Z))
  BY <1>2, <1>7, ContextFirst
<1>9. Settled(w, <<b>> \o (<<c>> \o (<<d>> \o (<<e>> \o (<<f>> \o r)))), Then("Type", Then("Names", Z)))
  BY <1>2, <1>8, SimpleFirst
<1>10. Settled(w, <<a>> \o (<<b>> \o (<<c>> \o (<<d>> \o (<<e>> \o (<<f>> \o r))))),
       Then(t, Then("Type", Then("Names", Z))))
  BY <1>2, <1>9, WordFirst
<1> QED
  BY <1>3, <1>4, <1>10, Zenon DEF Declaration

(* A statement *)
LEMMA LetLaid ==
  ASSUME NEW w, NEW r, NEW Y, Settled(w, r, Y)
  PROVE  Settled(w, Statement("let") \o r, Then("let", Stated("let", Y)))
<1>1. r \in Seq(Items) /\ Y \in Rests
  BY SettledParts
<1>2. PICK a \in Items, b \in Items, c \in Items, d \in Items, e \in Items, f \in Items :
        /\ a = Need("let") /\ b = Need("name") /\ c = Optional("[", Index)
        /\ d = Need("=") /\ e = Simple("expression") /\ f = Need(";")
  BY ItemForms, WordsAreSymbols
<1>3. Statement("let") \o r = <<a>> \o (<<b>> \o (<<c>> \o (<<d>> \o (<<e>> \o (<<f>> \o r)))))
  <2>1. Statement("let") = <<a, b, c, d, e, f>>
    BY <1>2 DEF Statement
  <2>2. <<a, b, c, d, e, f>> = <<a, b, c>> \o <<d, e, f>>
    OBVIOUS
  <2>3. <<a, b, c>> \in Seq(Items) /\ <<d, e, f>> \in Seq(Items)
    OBVIOUS
  <2>4. PICK x \in Seq(Items), y \in Seq(Items) : x = <<a, b, c>> /\ y = <<d, e, f>>
    BY <2>3, Zenon
  <2>5. (x \o y) \o r = x \o (y \o r) /\ y \o r \in Seq(Items)
    BY <1>1, Concat
  <2>6. y \o r = <<d>> \o (<<e>> \o (<<f>> \o r))
    <3>1. \A j, k, l : <<j, k, l>> \o r = <<j>> \o (<<k>> \o (<<l>> \o r))
      BY <1>1, InFront
    <3> QED
      BY <2>4, <3>1, Zenon
  <2>7. PICK u \in Seq(Items) : u = y \o r
    BY <2>5
  <2>8. x \o u = <<a>> \o (<<b>> \o (<<c>> \o u))
    <3>1. \A j, k, l : <<j, k, l>> \o u = <<j>> \o (<<k>> \o (<<l>> \o u))
      BY InFront
    <3> QED
      BY <2>4, <3>1, Zenon
  <2> QED
    BY <2>1, <2>2, <2>4, <2>5, <2>6, <2>7, <2>8, Zenon
<1>4. PICK S \in Rests, E \in Rests, A \in Rests : S = Then(";", Y) /\ E = Then("Expression", S) /\ A = Then("=", E)
  BY <1>1, ThenRests, WordsAreSymbols
<1>5. A = Assigned(Y)
  BY <1>4 DEF Assigned
<1>6. Settled(w, <<f>> \o r, S) /\ Only(w, S, Closers)
  BY <1>1, <1>2, <1>4, WordFirst, ClosersOnly, WordsAreSymbols DEF Closers
<1>7. Settled(w, <<e>> \o (<<f>> \o r), E)
  BY <1>2, <1>4, <1>6, SimpleFirst
<1>8. Settled(w, <<d>> \o (<<e>> \o (<<f>> \o r)), A) /\ Only(w, A, {"="})
  BY <1>2, <1>4, <1>7, WordFirst, OnlyRules, WordsAreSymbols
<1>9. Settled(w, <<c>> \o (<<d>> \o (<<e>> \o (<<f>> \o r))), Either(A, Then("Index", A)))
  BY <1>2, <1>8, OptionFirst
<1>10. Settled(w, <<b>> \o (<<c>> \o (<<d>> \o (<<e>> \o (<<f>> \o r)))), Then("name", Either(A, Then("Index", A))))
  BY <1>2, <1>9, WordFirst, WordsAreSymbols
<1>11. Then("name", Either(A, Then("Index", A))) = Stated("let", Y)
  BY <1>5 DEF Stated
<1>12. Settled(w, <<a>> \o (<<b>> \o (<<c>> \o (<<d>> \o (<<e>> \o (<<f>> \o r))))), Then("let", Stated("let", Y)))
  BY <1>2, <1>10, <1>11, WordFirst, WordsAreSymbols
<1> QED
  BY <1>3, <1>12, Zenon

(* The routine for a return statement reads one. *)
LEMMA ReturnLaid ==
  ASSUME NEW w, NEW r, NEW Y, Settled(w, r, Y)
  PROVE  Settled(w, Statement("return") \o r, Then("return", Stated("return", Y)))
<1>1. r \in Seq(Items) /\ Y \in Rests
  BY SettledParts
<1>2. PICK S \in Rests : S = Then(";", Y)
  BY <1>1, ThenRests, WordsAreSymbols
<1>3. Settled(w, <<Need(";")>> \o r, S) /\ Only(w, S, {";"})
  BY <1>1, <1>2, WordFirst, OnlyRules, WordsAreSymbols
<1>4. Settled(w, <<Simple("value")>> \o (<<Need(";")>> \o r), Either(S, Then("Expression", S)))
  BY <1>3, SimpleFirst
<1>5. Either(S, Then("Expression", S)) = Stated("return", Y)
  BY <1>2 DEF Stated
<1>6. Settled(w, <<Need("return")>> \o (<<Simple("value")>> \o (<<Need(";")>> \o r)),
      Then("return", Stated("return", Y)))
  BY <1>4, <1>5, WordFirst, WordsAreSymbols
<1>7. Statement("return") \o r = <<Need("return")>> \o (<<Simple("value")>> \o (<<Need(";")>> \o r))
  <2>1. \A a, b, c : <<a, b, c>> \o r = <<a>> \o (<<b>> \o (<<c>> \o r))
    BY <1>1, InFront
  <2>2. Statement("return") = <<Need("return"), Simple("value"), Need(";")>>
    BY DEF Statement
  <2> QED
    BY <2>1, <2>2, Zenon
<1> QED
  BY <1>6, <1>7

(* What if and while have in common: the condition and its block. *)
LEMMA GuardedLaid ==
  ASSUME NEW w, NEW r, NEW Y, Settled(w, r, Y), NEW t \in {"if", "while"}
  PROVE  Settled(w, (<<Need(t)>> \o Condition \o Block) \o r, Then(t, Guarded(Y)))
<1>1. r \in Seq(Items) /\ Y \in Rests
  BY SettledParts
<1>2. Settled(w, Block \o r, Braced(Y))
  BY BlockLaid
<1>3. Settled(w, Condition \o (Block \o r), Guarded(Y))
  BY <1>2, ConditionLaid DEF Guarded
<1>4. Settled(w, <<Need(t)>> \o (Condition \o (Block \o r)), Then(t, Guarded(Y)))
  BY <1>3, WordFirst, WordsAreSymbols
<1>5. (<<Need(t)>> \o Condition \o Block) \o r = <<Need(t)>> \o (Condition \o (Block \o r))
  <2>1. Need(t) \in Items
    BY ItemForms, WordsAreSymbols
  <2>2. Single \subseteq Items
    BY Forms
  <2>3. PICK a \in Seq(Items), b \in Seq(Items), c \in Seq(Items) : a = <<Need(t)>> /\ b = Condition /\ c = Block
    <3>1. <<Need(t)>> \in Seq(Items)
      BY <2>1, Tuples, Zenon
    <3> QED
      BY <2>2, <3>1, Pieces, SeqMonotonic
  <2>4. ((a \o b) \o c) \o r = a \o (b \o (c \o r))
    <3>1. PICK u \in Seq(Items), v \in Seq(Items) : u = a \o b /\ v = c \o r
      BY <1>1, Concats
    <3>2. (u \o c) \o r = u \o (c \o r)
      BY <1>1, Concats
    <3>3. (a \o b) \o v = a \o (b \o v)
      BY Concats
    <3> QED
      BY <3>1, <3>2, <3>3
  <2> QED
    BY <2>3, <2>4
<1> QED
  BY <1>4, <1>5

(* The routine for a do statement, call by call. *)
LEMMA DoSplits ==
  ASSUME NEW r \in Seq(Items)
  PROVE  Statement("do") \o r = <<Need("do")>> \o (Call \o (<<Need(";")>> \o r))
<1>1. Need("do") \in Items /\ Need(";") \in Items
  BY ItemForms, WordsAreSymbols
<1>2. <<Need("do")>> \in Seq(Items) /\ <<Need(";")>> \in Seq(Items)
  BY <1>1, Tuples, Zenon
<1>3. Call \in Seq(Items)
  <2>1. Plain \subseteq Items
    BY Forms
  <2> QED
    BY <2>1, Pieces, SeqMonotonic
<1>4. PICK a \in Seq(Items), b \in Seq(Items), c \in Seq(Items) : a = <<Need("do")>> /\ b = Call /\ c = <<Need(";")>>
  BY <1>2, <1>3, Zenon
<1>5. ((a \o b) \o c) \o r = a \o (b \o (c \o r))
  <2>1. PICK u \in Seq(Items), v \in Seq(Items) : u = a \o b /\ v = c \o r
    BY Concats
  <2>2. (u \o c) \o r = u \o (c \o r)
    BY Concats
  <2>3. (a \o b) \o v = a \o (b \o v)
    BY Concats
  <2> QED
    BY <2>1, <2>2, <2>3
<1>6. Statement("do") = (a \o b) \o c
  BY <1>4 DEF Statement
<1> QED
  BY <1>4, <1>5, <1>6

(* Every statement's routine reads what the grammar calls it. *)
LEMMA StatementLaid ==
  ASSUME NEW w, NEW r, NEW Y, Settled(w, r, Y), Only(w, Y, StatementStart \cup {"}"}), NEW k \in StatementStart
  PROVE  Reads(w, Statement(k) \o r, Then(k, Stated(k, Y)))
<1>1. r \in Seq(Items) /\ Y \in Rests
  BY SettledParts
<1>2. \A Z : Same(w, Z, Z)
  BY DEF Same
<1>3. Then(k, Stated(k, Y)) \in Rests
  <2>1. k \in Symbols
    BY WordsAreSymbols DEF StatementStart
  <2> QED
    BY <1>1, <2>1, Follow, ThenRests
<1>4. CASE k = "let"
  BY <1>2, <1>3, <1>4, LetLaid DEF Reads
<1>5. CASE k = "return"
  BY <1>2, <1>3, <1>5, ReturnLaid DEF Reads
<1>6. CASE k = "while"
  <2>1. Settled(w, (<<Need("while")>> \o Condition \o Block) \o r, Then("while", Guarded(Y)))
    BY GuardedLaid
  <2>2. Statement("while") = <<Need("while")>> \o Condition \o Block /\ Stated("while", Y) = Guarded(Y)
    BY DEF Statement, Stated
  <2> QED
    BY <1>2, <1>3, <1>6, <2>1, <2>2 DEF Reads
<1>7. CASE k = "if"
  <2>1. PICK o \in Items : o = Optional("else", <<Need("else")>> \o Block)
    BY ItemForms
  <2>2. Settled(w, <<o>> \o r, Then("Else", Y)) /\ <<o>> \in Seq(Items)
    <3>1. <<o>> \in Seq(Items)
      BY Tuples, Zenon
    <3> QED
      BY <2>1, <3>1, OptionFirst
  <2>3. Settled(w, (<<Need("if")>> \o Condition \o Block) \o (<<o>> \o r), Then("if", Guarded(Then("Else", Y))))
    BY <2>2, GuardedLaid
  <2>4. PICK g : g = <<Need("if")>> \o Condition \o Block
    OBVIOUS
  <2>5. g \in Seq(Items)
    <3>1. Need("if") \in Items
      BY ItemForms, WordsAreSymbols
    <3>2. <<Need("if")>> \in Seq(Items)
      BY <3>1, Tuples, Zenon
    <3>3. Single \subseteq Items
      BY Forms
    <3>4. Condition \in Seq(Items) /\ Block \in Seq(Items)
      BY <3>3, Pieces, SeqMonotonic
    <3>5. <<Need("if")>> \o Condition \in Seq(Items)
      BY <3>2, <3>4, ConcatProperties
    <3> QED
      BY <2>4, <3>4, <3>5, ConcatProperties
  <2>6. Statement("if") = g \o <<o>> /\ Stated("if", Y) = Guarded(Then("Else", Y))
    BY <2>1, <2>4 DEF Statement, Stated
  <2>7. (g \o <<o>>) \o r = g \o (<<o>> \o r)
    <3>1. PICK x \in Seq(Items) : x = <<o>>
      BY <2>2
    <3>2. (g \o x) \o r = g \o (x \o r)
      BY <1>1, <2>5, Concats
    <3> QED
      BY <3>1, <3>2
  <2>8. Settled(w, Statement(k) \o r, Then(k, Stated(k, Y)))
    BY <1>7, <2>3, <2>4, <2>6, <2>7, Zenon
  <2> QED
    BY <1>2, <1>3, <2>8 DEF Reads
<1>8. CASE k = "do"
  <2>1. PICK S \in Rests : S = Then(";", Y)
    BY <1>1, ThenRests, WordsAreSymbols
  <2>2. Settled(w, <<Need(";")>> \o r, S)
    BY <2>1, WordFirst, WordsAreSymbols
  <2>3. PICK C \in Rests : Settled(w, Call \o (<<Need(";")>> \o r), C) /\ Same(w, C, Then("Call", S))
    BY <2>2, CallLaid DEF Reads
  <2>4. Settled(w, <<Need("do")>> \o (Call \o (<<Need(";")>> \o r)), Then("do", C))
    BY <2>3, WordFirst, WordsAreSymbols
  <2>5. Statement("do") \o r = <<Need("do")>> \o (Call \o (<<Need(";")>> \o r))
    BY <1>1, DoSplits
  <2>6. Same(w, Then("do", C), Then("do", Then("Call", S))) /\ Then("do", C) \in Rests
    <3>1. Then("Call", S) \in Rests /\ Then("do", C) \in Rests
      BY ThenRests, WordsAreSymbols
    <3> QED
      BY <2>3, <3>1, SameRules, WordsAreSymbols
  <2>7. Stated("do", Y) = Then("Call", S)
    BY <2>1 DEF Stated
  <2> QED
    BY <1>8, <2>4, <2>5, <2>6, <2>7 DEF Reads
<1> QED
  BY <1>4, <1>5, <1>6, <1>7, <1>8 DEF StatementStart

(* The items of a subroutine, one in front of the other *)
LEMMA SubroutineSplits ==
  ASSUME NEW s \in Seq(Items)
  PROVE  /\ Subroutine \o s =
              <<Push("sub")>> \o (<<Optional("native", <<Need("native")>>)>> \o (<<Need("routine")>> \o
              (<<Expect(Types \cup {"void"})>> \o (<<Need("name")>> \o (<<Need("(")>> \o
              (<<Push("param")>> \o (<<Enter(Variables(")"))>> \o (<<Pop("param")>> \o (<<Need(")")>> \o
              (<<Need("{")>> \o (<<Enter(Body("subBody", FALSE))>> \o
              (<<Pop("sub")>> \o (<<Need("}")>> \o s)))))))))))))
<1>1. PICK a \in Items, b \in Items, c \in Items, d \in Items, e \in Items, f \in Items, g \in Items :
        /\ a = Push("sub") /\ b = Optional("native", <<Need("native")>>) /\ c = Need("routine")
        /\ d = Expect(Types \cup {"void"}) /\ e = Need("name") /\ f = Need("(") /\ g = Push("param")
  BY ItemForms, WordsAreSymbols
<1>2. PICK h \in Items, i \in Items, j \in Items, k \in Items, l \in Items, m \in Items, n \in Items :
        /\ h = Enter(Variables(")")) /\ i = Pop("param") /\ j = Need(")") /\ k = Need("{")
        /\ l = Enter(Body("subBody", FALSE)) /\ m = Pop("sub") /\ n = Need("}")
  BY ItemForms, WordsAreSymbols
<1>3. PICK t : t = <<a, b, c, d, e, f, g, h, i, j, k, l, m, n>>
  OBVIOUS
<1>4. t = Subroutine
  BY <1>1, <1>2, <1>3 DEF Subroutine
<1>5. /\ <<a, b, c>> \in Seq(Items) /\ <<d, e, f>> \in Seq(Items) /\ <<g, h, i>> \in Seq(Items)
      /\ <<j, k, l>> \in Seq(Items)
      /\ <<m, n>> \in Seq(Items)
  OBVIOUS
<1>6. PICK x \in Seq(Items), y \in Seq(Items) : x = <<a, b, c>> /\ y = <<d, e, f>>
  BY <1>5, Zenon
<1>7. PICK z \in Seq(Items), u \in Seq(Items), v \in Seq(Items) : z = <<g, h, i>> /\ u = <<j, k, l>> /\ v = <<m, n>>
  BY <1>5, Zenon
<1>8. PICK o \in Seq(Items), p \in Seq(Items), q \in Seq(Items) :
        o = <<d, e, f, g, h, i, j, k, l, m, n>> /\ p = <<g, h, i, j, k, l, m, n>> /\ q = <<j, k, l, m, n>>
  <2>1. /\ <<d, e, f, g, h, i, j, k, l, m, n>> \in Seq(Items) /\ <<g, h, i, j, k, l, m, n>> \in Seq(Items)
        /\ <<j, k, l, m, n>> \in Seq(Items)
    OBVIOUS
  <2> QED
    BY <2>1, Zenon
<1>9. t = x \o o
  BY <1>3, <1>6, <1>8
<1>10. o = y \o p
  BY <1>6, <1>7, <1>8
<1>11. p = z \o q
  BY <1>7, <1>8
<1>12. q = u \o v
  BY <1>7, <1>8
<1>13. (x \o o) \o s = x \o (o \o s)
  BY Concats, SMTT(60)
<1>14. (y \o p) \o s = y \o (p \o s)
  BY Concats, SMTT(60)
<1>15. (z \o q) \o s = z \o (q \o s)
  BY Concats, SMTT(60)
<1>16. (u \o v) \o s = u \o (v \o s)
  BY Concats, SMTT(60)
<1>17. PICK r1 \in Seq(Items), r2 \in Seq(Items), r3 \in Seq(Items), r4 \in Seq(Items) :
         r1 = o \o s /\ r2 = p \o s /\ r3 = q \o s /\ r4 = v \o s
  <2>1. o \o s \in Seq(Items) /\ p \o s \in Seq(Items) /\ q \o s \in Seq(Items) /\ v \o s \in Seq(Items)
    BY ConcatProperties
  <2> QED
    BY <2>1, Zenon
<1>19. <<a, b, c>> \o r1 = <<a>> \o (<<b>> \o (<<c>> \o r1))
  <2>1. \A a1, a2, a3 : <<a1, a2, a3>> \o r1 = <<a1>> \o (<<a2>> \o (<<a3>> \o r1))
    BY InFront
  <2> QED
    BY <2>1, Zenon
<1>20. <<d, e, f>> \o r2 = <<d>> \o (<<e>> \o (<<f>> \o r2))
  <2>1. \A a1, a2, a3 : <<a1, a2, a3>> \o r2 = <<a1>> \o (<<a2>> \o (<<a3>> \o r2))
    BY InFront
  <2> QED
    BY <2>1, Zenon
<1>21. <<g, h, i>> \o r3 = <<g>> \o (<<h>> \o (<<i>> \o r3))
  <2>1. \A a1, a2, a3 : <<a1, a2, a3>> \o r3 = <<a1>> \o (<<a2>> \o (<<a3>> \o r3))
    BY InFront
  <2> QED
    BY <2>1, Zenon
<1>22. <<j, k, l>> \o r4 = <<j>> \o (<<k>> \o (<<l>> \o r4))
  <2>1. \A a1, a2, a3 : <<a1, a2, a3>> \o r4 = <<a1>> \o (<<a2>> \o (<<a3>> \o r4))
    BY InFront
  <2> QED
    BY <2>1, Zenon
<1>23. <<m, n>> \o s = <<m>> \o (<<n>> \o s)
  <2>1. \A a1, a2 : <<a1, a2>> \o s = <<a1>> \o (<<a2>> \o s)
    BY InFront
  <2> QED
    BY <2>1, Zenon
<1>24. r4 = <<m>> \o (<<n>> \o s)
  BY <1>7, <1>17, <1>23, Zenon
<1>25. r3 = <<j>> \o (<<k>> \o (<<l>> \o r4))
  BY <1>7, <1>12, <1>16, <1>17, <1>22, Zenon
<1>26. r2 = <<g>> \o (<<h>> \o (<<i>> \o r3))
  BY <1>7, <1>11, <1>15, <1>17, <1>21, Zenon
<1>27. r1 = <<d>> \o (<<e>> \o (<<f>> \o r2))
  BY <1>6, <1>10, <1>14, <1>17, <1>20, Zenon
<1>28. t \o s = <<a>> \o (<<b>> \o (<<c>> \o r1))
  BY <1>6, <1>9, <1>13, <1>17, <1>19, Zenon
<1> QED
  BY <1>1, <1>2, <1>4, <1>24, <1>25, <1>26, <1>27, <1>28, Zenon

(* The routine for a subroutine reads one, native or not. *)
LEMMA SubroutineLaid ==
  ASSUME NEW w, NEW r, NEW Y, Settled(w, r, Y)
  PROVE  Reads(w, Subroutine \o r, Either(Then("Subroutine", Y), Then("native", Then("Subroutine", Y))))
<1>1. r \in Seq(Items) /\ Y \in Rests
  BY SettledParts
<1>2. PICK B1 \in Rests, B2 \in Rests, B3 \in Rests, B4 \in Rests :
        /\ B1 = Then("}", Y) /\ B2 = Then("Locals", Then("Statements", B1)) /\ B3 = Then("{", B2) /\
           B4 = Then(")", B3)
  BY <1>1, ThenRests, WordsAreSymbols
<1>3. PICK B5 \in Rests, B6 \in Rests, B7 \in Rests, B8 \in Rests, B9 \in Rests :
        /\ B5 = Then("Parameters", B4) /\ B6 = Then("(", B5) /\ B7 = Then("name", B6)
        /\ B8 = AnyOf(Types \cup {"void"}, B7) /\ B9 = Then("routine", B8)
  <2>1. PICK B5 \in Rests, B6 \in Rests, B7 \in Rests : B5 = Then("Parameters", B4) /\ B6 = Then("(", B5) /\
        B7 = Then("name", B6)
    BY ThenRests, WordsAreSymbols
  <2>2. Types \cup {"void"} \in SUBSET Terminals
    BY WordsAreSymbols DEF Types
  <2>3. PICK B8 \in Rests : B8 = AnyOf(Types \cup {"void"}, B7)
    BY <2>2, AnyOfRead
  <2>4. PICK B9 \in Rests : B9 = Then("routine", B8)
    BY ThenRests, WordsAreSymbols
  <2> QED
    BY <2>1, <2>3, <2>4
<1>4. PICK s1 : s1 = <<Need("}")>> \o r
  OBVIOUS
<1>5. Settled(w, s1, B1) /\ Only(w, B1, {"}"})
  BY <1>1, <1>2, <1>4, WordFirst, OnlyRules, WordsAreSymbols
<1>6. PICK s2 : s2 = <<Pop("sub")>> \o s1 /\ Settled(w, s2, B1)
  BY <1>5, ContextFirst
<1>7. PICK s3 : s3 = <<Enter(Body("subBody", FALSE))>> \o s2 /\ Settled(w, s3, B2)
  BY <1>2, <1>5, <1>6, LoopsFirst
<1>8. PICK s4 : s4 = <<Need("{")>> \o s3 /\ Settled(w, s4, B3)
  BY <1>2, <1>7, WordFirst, WordsAreSymbols
<1>9. PICK s5 : s5 = <<Need(")")>> \o s4 /\ Settled(w, s5, B4)
  BY <1>2, <1>8, WordFirst, WordsAreSymbols
<1>10. PICK s6 : s6 = <<Pop("param")>> \o s5 /\ Settled(w, s6, B4)
  BY <1>9, ContextFirst
<1>11. Only(w, B4, {")"})
  BY <1>2, OnlyRules, WordsAreSymbols
<1>12. PICK s7 : s7 = <<Enter(Variables(")"))>> \o s6 /\ Settled(w, s7, B5)
  BY <1>3, <1>10, <1>11, LoopsFirst
<1>13. PICK s8 : s8 = <<Push("param")>> \o s7 /\ Settled(w, s8, B5)
  BY <1>12, ContextFirst
<1>14. PICK s9 : s9 = <<Need("(")>> \o s8 /\ Settled(w, s9, B6)
  BY <1>3, <1>13, WordFirst, WordsAreSymbols
<1>15. PICK s10 : s10 = <<Need("name")>> \o s9 /\ Settled(w, s10, B7)
  BY <1>3, <1>14, WordFirst, WordsAreSymbols
<1>16. PICK s11 : s11 = <<Expect(Types \cup {"void"})>> \o s10 /\ Settled(w, s11, B8)
  <2>1. Types \cup {"void"} \in SUBSET Terminals
    BY WordsAreSymbols DEF Types
  <2> QED
    BY <1>3, <1>15, <2>1, WordsFirst
<1>17. PICK s12 : s12 = <<Need("routine")>> \o s11 /\ Settled(w, s12, B9)
  BY <1>3, <1>16, WordFirst, WordsAreSymbols
<1>18. Only(w, B9, {"routine"})
  BY <1>3, OnlyRules, WordsAreSymbols
<1>19. PICK s13 : s13 = <<Optional("native", <<Need("native")>>)>> \o s12 /\
       Settled(w, s13, Either(B9, Then("native", B9)))
  BY <1>17, <1>18, OptionFirst
<1>20. Settled(w, <<Push("sub")>> \o s13, Either(B9, Then("native", B9)))
  BY <1>19, ContextFirst
<1>21. Subroutine \o r = <<Push("sub")>> \o s13
  BY <1>1, <1>4, <1>6, <1>7, <1>8, <1>9, <1>10, <1>12, <1>13, <1>14, <1>15, <1>16, <1>17, <1>19,
     SubroutineSplits, Zenon
<1>22. Headed(Y) = Then("Result", B7)
  BY <1>2, <1>3, Zenon DEF Headed
<1>23. Then("Subroutine", Y) \in Rests /\ Same(w, B9, Then("Subroutine", Y))
  <2>1. ASSUME NEW p \in Nat PROVE p \in Places(w, B9) <=> p \in Places(w, Then("Subroutine", Y))
    <3>1. p \in Places(w, B9) <=> Word(w, p) = "routine" /\ p + 1 \in Places(w, B8)
      BY <1>3, WordRead, WordsAreSymbols
    <3>2. p + 1 \in Places(w, B8) <=> Word(w, p + 1) \in Types \cup {"void"} /\ (p + 1) + 1 \in Places(w, B7)
      <4>1. Types \cup {"void"} \in SUBSET Terminals
        BY WordsAreSymbols DEF Types
      <4> QED
        BY <1>3, <4>1, AnyOfRead
    <3>3. p + 1 \in Places(w, Then("Result", B7)) <=> Word(w, p + 1) \in Types \cup {"void"} /\
          (p + 1) + 1 \in Places(w, B7)
      <4>1. p + 1 \in Nat
        OBVIOUS
      <4> QED
        BY <4>1, OneWord
    <3>4. p \in Places(w, Then("Subroutine", Y)) <=> Word(w, p) = "routine" /\ p + 1 \in Places(w, Headed(Y))
      BY <1>1, ClassRead
    <3> QED
      BY <1>22, <3>1, <3>2, <3>3, <3>4
  <2> QED
    BY <1>1, <2>1, ThenRests, WordsAreSymbols DEF Same
<1>24. PICK U \in Rests : U = Then("Subroutine", Y)
  BY <1>23
<1>25. Same(w, Then("native", B9), Then("native", U))
  BY <1>23, <1>24, SameRules, WordsAreSymbols
<1>26. PICK N1 \in Rests, N2 \in Rests : N1 = Then("native", B9) /\ N2 = Then("native", U)
  BY ThenRests, WordsAreSymbols
<1>27. Same(w, Either(B9, N1), Either(U, N2)) /\ Either(B9, N1) \in Rests
  BY <1>23, <1>24, <1>25, <1>26, EitherPlaces, EitherRests DEF Same
<1> QED
  BY <1>20, <1>21, <1>24, <1>26, <1>27 DEF Reads

(* What the parser starts with *)
LEMMA ClassLaid ==
  ASSUME NEW w
  PROVE  Reads(w, Class, Then("Class", {<<>>}))
<1>1. PICK r \in Seq(Items), Y \in Rests : r = <<>> /\ Y = {<<>>}
  <2>1. <<>> \in Seq(Items) /\ {<<>>} \in Rests
    BY LaidNothing
  <2> QED
    BY <2>1
<1>2. Settled(w, r, Y)
  BY <1>1, LaidNothing DEF Settled
<1>3. PICK a \in Items, b \in Items, c \in Items, d \in Items, e \in Items, f \in Items, g \in Items :
        /\ a = Need("class") /\ b = Need("name") /\ c = Need("{") /\ d = Push("class")
        /\ e = Enter(Body("classBody", FALSE)) /\ f = Pop("class") /\ g = Need("}")
  BY ItemForms, WordsAreSymbols
<1>4. Class = <<a>> \o (<<b>> \o (<<c>> \o (<<d>> \o (<<e>> \o (<<f>> \o (<<g>> \o r))))))
  <2>1. PICK t \in Seq(Items), u \in Seq(Items), v \in Seq(Items) :
          t = <<a, b, c>> /\ u = <<d, e, f, g>> /\ v = <<g>>
    <3>1. <<a, b, c>> \in Seq(Items) /\ <<d, e, f, g>> \in Seq(Items) /\ <<g>> \in Seq(Items)
      OBVIOUS
    <3> QED
      BY <3>1, Zenon
  <2>2. Class = t \o u
    <3>1. Class = <<a, b, c, d, e, f, g>>
      BY <1>3 DEF Class
    <3>2. <<a, b, c, d, e, f, g>> = <<a, b, c>> \o <<d, e, f, g>>
      OBVIOUS
    <3> QED
      BY <2>1, <3>1, <3>2, Zenon
  <2>3. u = <<d, e, f>> \o v
    BY <2>1
  <2>5. <<a, b, c>> \o u = <<a>> \o (<<b>> \o (<<c>> \o u))
    <3>1. \A a1, a2, a3 : <<a1, a2, a3>> \o u = <<a1>> \o (<<a2>> \o (<<a3>> \o u))
      BY InFront
    <3> QED
      BY <3>1, Zenon
  <2>6. <<d, e, f>> \o v = <<d>> \o (<<e>> \o (<<f>> \o v))
    <3>1. \A a1, a2, a3 : <<a1, a2, a3>> \o v = <<a1>> \o (<<a2>> \o (<<a3>> \o v))
      BY InFront
    <3> QED
      BY <3>1, Zenon
  <2>7. v \o r = v
    BY <1>1, ConcatEmptySeq
  <2>8. v = <<g>> \o r
    BY <2>1, <2>7, Zenon
  <2> QED
    BY <2>1, <2>2, <2>3, <2>5, <2>6, <2>8, Zenon
<1>5. PICK E1 \in Rests, E2 \in Rests, E3 \in Rests, E4 \in Rests :
        /\ E1 = Then("}", Y) /\ E2 = Then("ClassVars", Then("Subroutines", E1)) /\ E3 = Then("{", E2) /\
           E4 = Then("name", E3)
  BY ThenRests, WordsAreSymbols
<1>6. PICK s1 : s1 = <<g>> \o r /\ Settled(w, s1, E1)
  BY <1>2, <1>3, <1>5, WordFirst, WordsAreSymbols
<1>7. Only(w, E1, {"}"})
  BY <1>5, OnlyRules, WordsAreSymbols
<1>8. PICK s2 : s2 = <<f>> \o s1 /\ Settled(w, s2, E1)
  BY <1>3, <1>6, ContextFirst
<1>9. PICK s3 : s3 = <<e>> \o s2 /\ Settled(w, s3, E2)
  BY <1>3, <1>5, <1>7, <1>8, LoopsFirst
<1>10. PICK s4 : s4 = <<d>> \o s3 /\ Settled(w, s4, E2)
  BY <1>3, <1>9, ContextFirst
<1>11. PICK s5 : s5 = <<c>> \o s4 /\ Settled(w, s5, E3)
  BY <1>3, <1>5, <1>10, WordFirst, WordsAreSymbols
<1>12. PICK s6 : s6 = <<b>> \o s5 /\ Settled(w, s6, E4)
  BY <1>3, <1>5, <1>11, WordFirst, WordsAreSymbols
<1>13. Settled(w, <<a>> \o s6, Then("class", E4))
  BY <1>3, <1>12, WordFirst, WordsAreSymbols
<1>14. Class = <<a>> \o s6
  BY <1>4, <1>6, <1>8, <1>9, <1>10, <1>11, <1>12, Zenon
<1>15. Classed(Y) = E4
  BY <1>5, Zenon DEF Classed
<1>16. Same(w, Then("class", E4), Then("Class", Y))
  <2>1. ASSUME NEW p \in Nat PROVE p \in Places(w, Then("class", E4)) <=> p \in Places(w, Then("Class", Y))
    BY <1>15, ClassRead, WordRead, WordsAreSymbols
  <2> QED
    BY <2>1 DEF Same
<1>17. Then("class", E4) \in Rests
  BY ThenRests, WordsAreSymbols
<1> QED
  BY <1>1, <1>13, <1>14, <1>16, <1>17 DEF Reads

-----------------------------------------------------------------------------
(* What is left to do, at a place of the source *)

(* A word tells whether a list goes on, and a body is behind its statements. *)
Ready(s, c) == s # <<>> => ~ Uncounted(Head(s)) /\ (Behind(Head(s)) => c \notin StatementStart)

(* From this place on, what is left to do reads what makes the source a class. *)
OnCourse(w, p, s) ==
  \E Z : Laid(w, s, Z) /\ (StartsWithClass(w) <=> p \in Places(w, Z)) /\ Ready(s, Word(w, p))

(* The item that is taken next, in front of those that read one of the Y *)
Top(w, p, i, r, Y) ==
  /\ Settled(w, r, Y) /\ Fits(w, i, Y)
  /\ StartsWithClass(w) <=> p \in Places(w, Meaning(i, Y))

(* Settled items that read the right thing are on course, *)
LEMMA Course ==
  ASSUME NEW w, NEW p \in Nat, NEW s, NEW Z, Settled(w, s, Z), StartsWithClass(w) <=> p \in Places(w, Z)
  PROVE  OnCourse(w, p, s)
BY DEF Settled, Calm, OnCourse, Ready

(* and so are those that read the same. *)
LEMMA CourseRead ==
  ASSUME NEW w, NEW p \in Nat, NEW s, NEW Z, Reads(w, s, Z), StartsWithClass(w) <=> p \in Places(w, Z)
  PROVE  OnCourse(w, p, s)
BY Course DEF Reads, Same

(* What is known of the item that is taken next *)
LEMMA Topmost ==
  ASSUME NEW w, NEW p \in Nat, NEW s \in Seq(Items), s # <<>>, OnCourse(w, p, s)
  PROVE  \E Y \in Rests :
           /\ Laid(w, Tail(s), Y) /\ Fits(w, Head(s), Y)
           /\ StartsWithClass(w) <=> p \in Places(w, Meaning(Head(s), Y))
           /\ Tail(s) # <<>> => Pair(Head(s), Head(Tail(s)))
           /\ Head(s).do \notin {"declared", "statements", "enter"} => Top(w, p, Head(s), Tail(s), Y)
           /\ ~ Behind(Head(s)) => Settled(w, s, Meaning(Head(s), Y))
           /\ ~ Uncounted(Head(s)) /\ (Behind(Head(s)) => Word(w, p) \notin StatementStart)
<1>1. PICK Z : Laid(w, s, Z) /\ (StartsWithClass(w) <=> p \in Places(w, Z)) /\ Ready(s, Word(w, p))
  BY DEF OnCourse
<1>2. PICK Y \in Rests : /\ Laid(w, Tail(s), Y) /\ Z = Meaning(Head(s), Y) /\ Fits(w, Head(s), Y)
                         /\ Tail(s) # <<>> => Pair(Head(s), Head(Tail(s)))
  BY <1>1, LaidTaken
<1>3. Tail(s) \in Seq(Items) /\ Head(s) \in Items
  BY HeadTailProperties
<1>4. Z \in Rests
  BY <1>2, MeaningRests
<1>5. ~ Uncounted(Head(s)) /\ (Behind(Head(s)) => Word(w, p) \notin StatementStart)
  BY <1>1 DEF Ready
<1>6. ASSUME Head(s).do \notin {"declared", "statements", "enter"} PROVE Settled(w, Tail(s), Y)
  <2>1. Simple("statements").do = "statements" /\ Enter(Simple("statements")).do = "enter"
    BY DEF Simple, Enter
  <2>2. Tail(s) # <<>> => Calm(Head(Tail(s)))
    BY <1>2, <1>6, <2>1 DEF Pair, Calm
  <2> QED
    BY <1>2, <1>3, <2>2 DEF Settled
<1>7. ~ Behind(Head(s)) => Settled(w, s, Z)
  BY <1>1, <1>4, <1>5 DEF Settled, Calm
<1> QED
  BY <1>1, <1>2, <1>5, <1>6, <1>7 DEF Top

-----------------------------------------------------------------------------
(* How one word chooses, and where it leads to *)

(* A word that is expected *)
LEMMA WordStep ==
  ASSUME NEW w, NEW p \in Nat, NEW i, NEW r, NEW Y, Top(w, p, i, r, Y)
  PROVE  /\ i.do = "expect" => IF Word(w, p) \in i.words THEN OnCourse(w, p + 1, r) ELSE ~ StartsWithClass(w)
         /\ i.do = "type" => IF Word(w, p) \in Types THEN OnCourse(w, p + 1, r) ELSE ~ StartsWithClass(w)
<1>1. Settled(w, r, Y) /\ Fits(w, i, Y) /\ (StartsWithClass(w) <=> p \in Places(w, Meaning(i, Y))) /\ Y \in Rests
  BY SettledParts DEF Top
<1>2. p + 1 \in Nat
  OBVIOUS
<1>3. CASE i.do = "expect"
  <2>1. i.words \in SUBSET Terminals
    BY <1>1, <1>3 DEF Fits, Loops
  <2>2. Meaning(i, Y) = AnyOf(i.words, Y)
    BY <1>3 DEF Meaning, Loops
  <2>3. p \in Places(w, Meaning(i, Y)) <=> Word(w, p) \in i.words /\ p + 1 \in Places(w, Y)
    BY <1>1, <2>1, <2>2, AnyOfRead
  <2> QED
    BY <1>1, <1>2, <1>3, <2>3, Course
<1>4. CASE i.do = "type"
  <2>1. Meaning(i, Y) = Then("Type", Y)
    BY <1>4 DEF Meaning, Loops
  <2>2. p \in Places(w, Meaning(i, Y)) <=> Word(w, p) \in Types /\ p + 1 \in Places(w, Y)
    BY <1>1, <2>1, OneWord
  <2> QED
    BY <1>1, <1>2, <1>4, <2>2, Course
<1> QED
  BY <1>3, <1>4

(* The value of a return statement *)
LEMMA ValueStep ==
  ASSUME NEW w, NEW p \in Nat, NEW i, NEW r, NEW Y, Top(w, p, i, r, Y), i.do = "value"
  PROVE  OnCourse(w, p, IF Word(w, p) = ";" THEN r ELSE <<Simple("expression")>> \o r)
<1>1. /\ Settled(w, r, Y) /\ (StartsWithClass(w) <=> p \in Places(w, Either(Y, Then("Expression", Y))))
      /\ Only(w, Y, {";"}) /\ Y \in Rests
  BY SettledParts DEF Top, Meaning, Fits, Loops
<1>2. StartsWithClass(w) <=> p \in Places(w, Y) \/ p \in Places(w, Then("Expression", Y))
  BY <1>1, EitherPlaces
<1>3. CASE Word(w, p) = ";"
  <2>1. p \notin Places(w, Then("Expression", Y))
    BY <1>1, <1>3, Starts DEF Only, TermStart, Prefix
  <2> QED
    BY <1>1, <1>2, <1>3, <2>1, Course
<1>4. CASE Word(w, p) # ";"
  <2>1. p \notin Places(w, Y)
    BY <1>1, <1>4 DEF Only
  <2>2. Only(w, Y, Closers)
    BY <1>1 DEF Only, Closers
  <2>3. Settled(w, <<Simple("expression")>> \o r, Then("Expression", Y))
    BY <1>1, <2>2, SimpleFirst
  <2> QED
    BY <1>2, <1>4, <2>1, <2>3, Course
<1> QED
  BY <1>3, <1>4

(* An expression, and an operator behind a term *)
LEMMA ExpressionStep ==
  ASSUME NEW w, NEW p \in Nat, NEW i, NEW r, NEW Y, Top(w, p, i, r, Y), i.do = "expression"
  PROVE  OnCourse(w, p, <<Simple("term"), Simple("infix")>> \o r)
<1>1. /\ Settled(w, r, Y) /\ (StartsWithClass(w) <=> p \in Places(w, Then("Expression", Y)))
      /\ Only(w, Y, Closers) /\ Y \in Rests /\ r \in Seq(Items)
  BY SettledParts DEF Top, Meaning, Fits, Loops
<1>2. PICK O \in Rests : O = Then("Operator", Then("Expression", Y))
  BY <1>1, Closed
<1>3. PICK X \in Rests : X = Either(Y, O)
  BY <1>1, <1>2, EitherRests
<1>4. PICK s : s = <<Simple("infix")>> \o r /\ Settled(w, s, X)
  BY <1>1, <1>2, <1>3, SimpleFirst
<1>5. Only(w, X, Infix \cup Closers)
  <2>1. Only(w, O, Infix)
    <3>1. PICK E \in Rests : E = Then("Expression", Y)
      BY <1>1, Closed
    <3> QED
      BY <1>2, <3>1, Starts
  <2> QED
    BY <1>1, <1>3, <2>1, EitherPlaces DEF Only
<1>6. Settled(w, <<Simple("term")>> \o s, Then("Term", X))
  BY <1>4, <1>5, SimpleFirst
<1>7. <<Simple("term"), Simple("infix")>> \o r = <<Simple("term")>> \o s
  <2>1. \A a, b : <<a, b>> \o r = <<a>> \o (<<b>> \o r)
    BY <1>1, InFront
  <2> QED
    BY <1>4, <2>1, Zenon
<1>8. Places(w, Then("Term", X)) = Places(w, Then("Expression", Y))
  BY <1>1, <1>2, <1>3, ListsRead
<1> QED
  BY <1>1, <1>6, <1>7, <1>8, Course

(* An operator and the term behind it, or the end of the expression. *)
LEMMA InfixStep ==
  ASSUME NEW w, NEW p \in Nat, NEW i, NEW r, NEW Y, Top(w, p, i, r, Y), i.do = "infix",
         NEW s, Settled(w, s, Meaning(i, Y))
  PROVE  IF Word(w, p) \in Infix THEN OnCourse(w, p + 1, <<Simple("term")>> \o s) ELSE OnCourse(w, p, r)
<1>1. /\ Settled(w, r, Y) /\ Meaning(i, Y) = Either(Y, Then("Operator", Then("Expression", Y)))
      /\ StartsWithClass(w) <=> p \in Places(w, Meaning(i, Y))
      /\ Only(w, Y, Closers) /\ Y \in Rests /\ p + 1 \in Nat
  BY SettledParts DEF Top, Meaning, Fits, Loops
<1>2. PICK E \in Rests, O \in Rests : E = Then("Expression", Y) /\ O = Then("Operator", E)
  BY <1>1, Closed
<1>3. PICK X \in Rests : X = Either(Y, O) /\ X = Meaning(i, Y)
  BY <1>1, <1>2, EitherRests
<1>4. StartsWithClass(w) <=> p \in Places(w, Y) \/ p \in Places(w, O)
  BY <1>1, <1>3, EitherPlaces
<1>5. p \in Places(w, O) <=> Word(w, p) \in Infix /\ p + 1 \in Places(w, E)
  BY <1>2, OneWord
<1>6. CASE Word(w, p) \in Infix
  <2>1. p \notin Places(w, Y)
    BY <1>1, <1>6 DEF Only, Infix, Closers
  <2>2. Only(w, X, Infix \cup Closers)
    <3>1. Only(w, O, Infix)
      BY <1>2, Starts
    <3> QED
      BY <1>1, <1>3, <3>1, EitherPlaces DEF Only
  <2>3. Settled(w, s, X)
    BY <1>3
  <2>4. Settled(w, <<Simple("term")>> \o s, Then("Term", X))
    BY <2>2, <2>3, SimpleFirst
  <2>5. Places(w, Then("Term", X)) = Places(w, E)
    <3>1. X = Either(Y, Then("Operator", Then("Expression", Y)))
      BY <1>1, <1>3
    <3>2. Places(w, Then("Term", X)) = Places(w, Then("Expression", Y))
      BY <1>1, <3>1, ListsRead
    <3> QED
      BY <1>2, <3>2
  <2>6. StartsWithClass(w) <=> p + 1 \in Places(w, Then("Term", X))
    BY <1>4, <1>5, <1>6, <2>1, <2>5
  <2> QED
    BY <1>1, <1>6, <2>4, <2>6, Course
<1>7. CASE Word(w, p) \notin Infix
  BY <1>1, <1>4, <1>5, <1>7, Course
<1> QED
  BY <1>6, <1>7

(* A term, whose first word tells its form *)
LEMMA TermStep ==
  ASSUME NEW w, NEW p \in Nat, NEW i, NEW r, NEW Y, Top(w, p, i, r, Y), i.do = "term",
         NEW s, Settled(w, s, Meaning(i, Y))
  PROVE  /\ Word(w, p) = "literal" => OnCourse(w, p + 1, r)
         /\ Word(w, p) = "name" => OnCourse(w, p + 1, <<Simple("named")>> \o r)
         /\ Word(w, p) = "(" => OnCourse(w, p + 1, <<Simple("expression"), Need(")")>> \o r)
         /\ Word(w, p) \in Prefix => OnCourse(w, p + 1, s)
         /\ Word(w, p) \notin {"literal", "name", "("} \cup Prefix => ~ StartsWithClass(w)
<1>1. /\ Settled(w, r, Y) /\ Meaning(i, Y) = Then("Term", Y)
      /\ StartsWithClass(w) <=> p \in Places(w, Then("Term", Y))
      /\ Only(w, Y, Infix \cup Closers) /\ Y \in Rests /\ p + 1 \in Nat /\ r \in Seq(Items)
  BY SettledParts DEF Top, Meaning, Fits, Loops
<1>2. PICK E \in Rests, P \in Rests : P = Then(")", Y) /\ E = Then("Expression", P)
  <2>1. PICK P \in Rests : P = Then(")", Y)
    BY <1>1, ThenRests, WordsAreSymbols
  <2> QED
    BY <2>1, Closed
<1>3. p \in Places(w, Then("Term", Y)) <=>
           \/ Word(w, p) = "literal" /\ p + 1 \in Places(w, Y)
           \/ Word(w, p) = "name" /\ p + 1 \in Places(w, Named(Y))
           \/ Word(w, p) = "(" /\ p + 1 \in Places(w, E)
           \/ Word(w, p) \in Prefix /\ p + 1 \in Places(w, Then("Term", Y))
  BY <1>1, <1>2, TermRead
<1>4. CASE Word(w, p) = "literal"
  <2>1. StartsWithClass(w) <=> p + 1 \in Places(w, Y)
    BY <1>1, <1>3, <1>4 DEF Prefix
  <2> QED
    BY <1>1, <1>4, <2>1, Course DEF Prefix
<1>5. CASE Word(w, p) = "name"
  <2>1. StartsWithClass(w) <=> p + 1 \in Places(w, Named(Y))
    BY <1>1, <1>3, <1>5 DEF Prefix
  <2>2. Settled(w, <<Simple("named")>> \o r, Named(Y))
    BY <1>1, SimpleFirst
  <2> QED
    BY <1>1, <1>5, <2>1, <2>2, Course DEF Prefix
<1>6. CASE Word(w, p) = "("
  <2>1. StartsWithClass(w) <=> p + 1 \in Places(w, E)
    BY <1>1, <1>3, <1>6 DEF Prefix
  <2>2. PICK t : t = <<Need(")")>> \o r /\ Settled(w, t, P)
    BY <1>1, <1>2, WordFirst, WordsAreSymbols
  <2>3. Only(w, P, Closers)
    BY <1>1, <1>2, ClosersOnly DEF Closers
  <2>4. Settled(w, <<Simple("expression")>> \o t, E)
    BY <1>2, <2>2, <2>3, SimpleFirst
  <2>5. <<Simple("expression"), Need(")")>> \o r = <<Simple("expression")>> \o t
    <3>1. \A a, b : <<a, b>> \o r = <<a>> \o (<<b>> \o r)
      BY <1>1, InFront
    <3> QED
      BY <2>2, <3>1, Zenon
  <2>6. OnCourse(w, p + 1, <<Simple("expression"), Need(")")>> \o r)
    BY <1>1, <2>1, <2>4, <2>5, Course
  <2> QED
    BY <1>6, <2>6 DEF Prefix
<1>7. CASE Word(w, p) \in Prefix
  <2>1. StartsWithClass(w) <=> p + 1 \in Places(w, Then("Term", Y))
    BY <1>1, <1>3, <1>7 DEF Prefix
  <2> QED
    BY <1>1, <1>7, <2>1, Course DEF Prefix
<1>8. CASE Word(w, p) \notin {"literal", "name", "("} \cup Prefix
  BY <1>1, <1>3, <1>8
<1> QED
  BY <1>4, <1>5, <1>6, <1>7, <1>8

(* What follows a name in a term *)
LEMMA NamedStep ==
  ASSUME NEW w, NEW p \in Nat, NEW i, NEW r, NEW Y, Top(w, p, i, r, Y), i.do = "named"
  PROVE  /\ Word(w, p) = "[" => OnCourse(w, p, Index \o r)
         /\ Word(w, p) \in {"(", "."} => OnCourse(w, p, Tail(Call) \o r)
         /\ Word(w, p) \notin {"[", "(", "."} => OnCourse(w, p, r)
<1>1. /\ Settled(w, r, Y) /\ (StartsWithClass(w) <=> p \in Places(w, Named(Y)))
      /\ Only(w, Y, Infix \cup Closers) /\ Y \in Rests
  BY SettledParts DEF Top, Meaning, Fits, Loops
<1>2. PICK I \in Rests, A \in Rests, D \in Rests :
        I = Then("Index", Y) /\ A = Then("Arguments", Y) /\ D = Then(".", Then("name", A))
  <2>1. PICK I \in Rests, A \in Rests : I = Then("Index", Y) /\ A = Then("Arguments", Y)
    BY <1>1, Closed
  <2>2. PICK D \in Rests : D = Then(".", Then("name", A))
    BY ThenRests, WordsAreSymbols
  <2> QED
    BY <2>1, <2>2
<1>3. StartsWithClass(w) <=> p \in Places(w, Y) \/ p \in Places(w, I) \/ p \in Places(w, A) \/ p \in Places(w, D)
  <2>1. PICK M, N : M = Either(A, D) /\ N = Either(I, M)
    OBVIOUS
  <2>2. Named(Y) = Either(Y, N)
    BY <1>2, <2>1 DEF Named
  <2> QED
    BY <1>1, <2>1, <2>2, EitherPlaces
<1>4. Only(w, I, {"["}) /\ Only(w, A, {"("}) /\ Only(w, D, {"."})
  <2>1. PICK M \in Rests : M = Then("name", A)
    BY ThenRests, WordsAreSymbols
  <2>2. Only(w, Then(".", M), {"."})
    BY OnlyRules, WordsAreSymbols
  <2> QED
    BY <1>1, <1>2, <2>1, <2>2, Starts
<1>5. CASE Word(w, p) = "["
  <2>1. StartsWithClass(w) <=> p \in Places(w, I)
    BY <1>1, <1>3, <1>4, <1>5 DEF Only, Infix, Closers
  <2>2. Places(w, I) = Places(w, Then("[", Then("Expression", Then("]", Y))))
    BY <1>1, <1>2, IndexUnfolds
  <2>3. Settled(w, Index \o r, Then("[", Then("Expression", Then("]", Y))))
    BY <1>1, IndexLaid
  <2> QED
    BY <1>5, <2>1, <2>2, <2>3, Course
<1>6. CASE Word(w, p) \in {"(", "."}
  <2>1. StartsWithClass(w) <=> p \in Places(w, A) \/ p \in Places(w, D)
    BY <1>1, <1>3, <1>4, <1>6 DEF Only, Infix, Closers
  <2>2. Called(Y) = Either(A, D)
    BY <1>2 DEF Called
  <2>3. StartsWithClass(w) <=> p \in Places(w, Called(Y))
    BY <2>1, <2>2, EitherPlaces
  <2>4. Reads(w, Tail(Call) \o r, Called(Y))
    BY <1>1, CallLaid
  <2> QED
    BY <1>6, <2>3, <2>4, CourseRead
<1>7. CASE Word(w, p) \notin {"[", "(", "."}
  <2>1. StartsWithClass(w) <=> p \in Places(w, Y)
    BY <1>3, <1>4, <1>7 DEF Only
  <2> QED
    BY <1>1, <1>7, <2>1, Course
<1> QED
  BY <1>5, <1>6, <1>7

(* The arguments of a call *)
LEMMA ArgumentsForm ==
  ASSUME NEW i \in Items, i.do = "arguments"
  PROVE  /\ i.any \in BOOLEAN /\ i = [do |-> "arguments", any |-> i.any]
         /\ [i EXCEPT !.any = TRUE] = [do |-> "arguments", any |-> TRUE]
<1>1. ASSUME i \in [do : {"arguments"}, any : BOOLEAN]
      PROVE  /\ i.any \in BOOLEAN /\ i = [do |-> "arguments", any |-> i.any]
             /\ [i EXCEPT !.any = TRUE] = [do |-> "arguments", any |-> TRUE]
  <2>1. i.any \in BOOLEAN /\ i = [do |-> "arguments", any |-> i.any]
    BY <1>1
  <2>2. PICK b : b = i.any
    OBVIOUS
  <2>3. i = [do |-> "arguments", any |-> b]
    BY <2>1, <2>2
  <2>4. [i EXCEPT !.any = TRUE] = [do |-> "arguments", any |-> TRUE]
    <3>1. PICK j : j = [i EXCEPT !.any = TRUE]
      OBVIOUS
    <3>2. j \in [do : {"arguments"}, any : BOOLEAN] /\ j.any = TRUE
      BY <1>1, <3>1
    <3>3. j.do = "arguments" /\ j = [do |-> j.do, any |-> j.any]
      BY <3>2
    <3> QED
      BY <3>1, <3>2, <3>3
  <2> QED
    BY <2>1, <2>4
<1>2. i \in OtherLoops => i.do # "arguments"
  BY DEF OtherLoops, Simple
<1>3. i \in {Simple(d) : d \in {"type", "value", "expression", "infix", "term", "named", "skipBrace",
                                "declared", "sync"}} => i.do # "arguments"
  BY DEF Simple
<1>4. i \in {ListOf(c) : c \in Lists} => i.do # "arguments"
  BY DEF ListOf, Enter
<1>5. i \in [do : {"expect"}, words : SUBSET Words] \cup [do : {"enter"}, loop : OtherLoops]
          \cup [do : {"push", "pop"}, context : {"class", "sub", "stmt"}]
          \cup [do : {"optional"}, words : SUBSET Words, then : Seq(Single)]
          \cup [do : {"push", "pop"}, context : Lists] \cup ListLoops => i.do # "arguments"
  BY DEF ListLoops
<1>6. i \in [do : {"arguments"}, any : BOOLEAN]
  BY <1>2, <1>3, <1>4, <1>5 DEF Items, Plain, Single, ListItems
<1> QED
  BY <1>1, <1>6

(* One argument more, or the end of the list. *)
LEMMA ArgumentsStep ==
  ASSUME NEW w, NEW p \in Nat, NEW i \in Items, NEW r, NEW Y, Top(w, p, i, r, Y), i.do = "arguments"
  PROVE  OnCourse(w, p, IF Word(w, p) = ")" THEN r
                        ELSE (IF i.any THEN <<Need(",")>> ELSE <<>>)
                             \o <<Simple("expression"), [i EXCEPT !.any = TRUE]>> \o r)
<1>1. /\ Settled(w, r, Y) /\ Y \in Rests /\ r \in Seq(Items)
      /\ StartsWithClass(w) <=> p \in Places(w,
         Either(Y, IF i.any THEN Then(",", Then("List", Y)) ELSE Then("List", Y)))
      /\ Only(w, Y, {")"})
  BY SettledParts DEF Top, Meaning, Fits, Loops
<1>2. PICK L \in Rests, C \in Rests : L = Then("List", Y) /\ C = Then(",", L)
  <2>1. PICK L \in Rests : L = Then("List", Y)
    BY <1>1, Closed
  <2> QED
    BY <2>1, ThenRests, WordsAreSymbols
<1>3. StartsWithClass(w) <=> p \in Places(w, Y) \/ (IF i.any THEN p \in Places(w, C) ELSE p \in Places(w, L))
  BY <1>1, <1>2, EitherPlaces
<1>4. Only(w, L, TermStart) /\ Only(w, C, {","})
  BY <1>1, <1>2, Starts, OnlyRules, WordsAreSymbols
<1>5. CASE Word(w, p) = ")"
  <2>1. p \notin Places(w, L) /\ p \notin Places(w, C)
    BY <1>4, <1>5 DEF Only, TermStart, Prefix
  <2> QED
    BY <1>1, <1>3, <1>5, <2>1, Course
<1>6. CASE Word(w, p) # ")"
  <2>1. p \notin Places(w, Y)
    BY <1>1, <1>6 DEF Only
  <2>2. PICK a \in Items : a = [i EXCEPT !.any = TRUE] /\ a = [do |-> "arguments", any |-> TRUE]
    BY ArgumentsForm, ItemForms
  <2>3. PICK X \in Rests : X = Either(Y, C)
    BY <1>1, EitherRests
  <2>4. PICK s1 : s1 = <<a>> \o r /\ Settled(w, s1, X)
    BY <1>1, <1>2, <2>2, <2>3, ListLaid
  <2>5. Only(w, X, Closers)
    BY <1>1, <1>4, <2>3, EitherPlaces DEF Only, Closers
  <2>6. PICK E \in Rests : E = Then("Expression", X)
    BY Closed
  <2>7. PICK s2 : s2 = <<Simple("expression")>> \o s1 /\ Settled(w, s2, E)
    BY <2>4, <2>5, <2>6, SimpleFirst
  <2>8. Places(w, E) = Places(w, L)
    <3>1. X = Either(Y, Then(",", Then("List", Y)))
      BY <1>2, <2>3
    <3>2. Places(w, Then("Expression", X)) = Places(w, Then("List", Y))
      BY <1>1, <3>1, ListsRead
    <3> QED
      BY <1>2, <2>6, <3>2
  <2>9. <<Simple("expression"), a>> \o r = s2
    <3>1. \A b, c : <<b, c>> \o r = <<b>> \o (<<c>> \o r)
      BY <1>1, InFront
    <3> QED
      BY <2>4, <2>7, <3>1, Zenon
  <2>10. CASE ~ i.any
    <3>1. <<>> \o <<Simple("expression"), a>> = <<Simple("expression"), a>>
      OBVIOUS
    <3>2. ((IF i.any THEN <<Need(",")>> ELSE <<>>) \o <<Simple("expression"), a>>) \o r = s2
      BY <2>9, <2>10, <3>1, Zenon
    <3>3. StartsWithClass(w) <=> p \in Places(w, E)
      BY <1>3, <2>1, <2>8, <2>10
    <3> QED
      BY <1>6, <2>2, <2>7, <3>2, <3>3, Course
  <2>11. CASE i.any
    <3>1. PICK x \in Seq(Items), y \in Seq(Items) : x = <<Need(",")>> /\ y = <<Simple("expression"), a>>
      <4>1. Need(",") \in Items /\ Simple("expression") \in Items
        BY ItemForms, WordsAreSymbols
      <4>2. <<Need(",")>> \in Seq(Items) /\ <<Simple("expression"), a>> \in Seq(Items)
        BY <4>1, Tuples
      <4> QED
        BY <4>2, Zenon
    <3>2. (x \o y) \o r = x \o (y \o r)
      BY <1>1, Concats
    <3>3. ((IF i.any THEN <<Need(",")>> ELSE <<>>) \o <<Simple("expression"), a>>) \o r = <<Need(",")>> \o s2
      BY <2>9, <2>11, <3>1, <3>2, Zenon
    <3>4. Settled(w, <<Need(",")>> \o s2, Then(",", E))
      BY <2>7, WordFirst, WordsAreSymbols
    <3>5. StartsWithClass(w) <=> p \in Places(w, Then(",", E))
      <4>1. p \in Places(w, C) <=> Word(w, p) = "," /\ p + 1 \in Places(w, L)
        BY <1>2, WordRead, WordsAreSymbols
      <4>2. p \in Places(w, Then(",", E)) <=> Word(w, p) = "," /\ p + 1 \in Places(w, E)
        BY WordRead, WordsAreSymbols
      <4> QED
        BY <1>3, <2>1, <2>8, <2>11, <4>1, <4>2
    <3> QED
      BY <1>6, <2>2, <3>3, <3>4, <3>5, Course
  <2> QED
    BY <2>10, <2>11
<1> QED
  BY <1>5, <1>6

(* What may be left out *)
LEMMA OptionStep ==
  ASSUME NEW w, NEW p \in Nat, NEW i, NEW r, NEW Y, Top(w, p, i, r, Y), i.do = "optional"
  PROVE  OnCourse(w, p, IF Word(w, p) \in i.words THEN i.then \o r ELSE r)
<1>1. /\ Settled(w, r, Y) /\ (StartsWithClass(w) <=> p \in Places(w, OptionMeaning(i, Y)))
      /\ OptionFits(w, i, Y) /\ Y \in Rests /\ r \in Seq(Items)
  BY SettledParts DEF Top, Meaning, Fits, Loops
<1>2. ASSUME i.words = {"["}, i.then = Index,
      Only(w, Y, {"="}) PROVE OnCourse(w, p, IF Word(w, p) \in i.words THEN i.then \o r ELSE r)
  <2>1. PICK I \in Rests : I = Then("Index", Y)
    BY <1>1, Closed
  <2>2. OptionMeaning(i, Y) = Either(Y, I)
    BY <1>2, <2>1 DEF OptionMeaning
  <2>3. StartsWithClass(w) <=> p \in Places(w, Y) \/ p \in Places(w, I)
    BY <1>1, <2>2, EitherPlaces
  <2>4. Only(w, I, {"["})
    BY <1>1, <2>1, Starts
  <2>5. Places(w, I) = Places(w, Then("[", Then("Expression", Then("]", Y))))
    BY <1>1, <2>1, IndexUnfolds
  <2>6. Settled(w, Index \o r, Then("[", Then("Expression", Then("]", Y))))
    BY <1>1, IndexLaid
  <2>7. CASE Word(w, p) = "["
    BY <1>2, <2>3, <2>5, <2>6, <2>7, Course DEF Only
  <2>8. CASE Word(w, p) # "["
    BY <1>1, <1>2, <2>3, <2>4, <2>8, Course DEF Only
  <2> QED
    BY <2>7, <2>8
<1>3. ASSUME i.words = {"."}, i.then = <<Need("."), Need("name")>>, Only(w, Y, {"("})
      PROVE  OnCourse(w, p, IF Word(w, p) \in i.words THEN i.then \o r ELSE r)
  <2>1. PICK N \in Rests, D \in Rests : N = Then("name", Y) /\ D = Then(".", N)
    BY <1>1, ThenRests, WordsAreSymbols
  <2>2. OptionMeaning(i, Y) = Either(Y, D)
    BY <1>3, <2>1 DEF OptionMeaning
  <2>3. StartsWithClass(w) <=> p \in Places(w, Y) \/ p \in Places(w, D)
    BY <1>1, <2>2, EitherPlaces
  <2>4. Only(w, D, {"."})
    BY <2>1, OnlyRules, WordsAreSymbols
  <2>5. PICK s1 : s1 = <<Need("name")>> \o r /\ Settled(w, s1, N)
    BY <1>1, <2>1, WordFirst, WordsAreSymbols
  <2>6. Settled(w, <<Need(".")>> \o s1, D)
    BY <2>1, <2>5, WordFirst, WordsAreSymbols
  <2>7. i.then \o r = <<Need(".")>> \o s1
    <3>1. \A a, b : <<a, b>> \o r = <<a>> \o (<<b>> \o r)
      BY <1>1, InFront
    <3> QED
      BY <1>3, <2>5, <3>1, Zenon
  <2>8. CASE Word(w, p) = "."
    BY <1>3, <2>3, <2>6, <2>7, <2>8, Course DEF Only
  <2>9. CASE Word(w, p) # "."
    BY <1>1, <1>3, <2>3, <2>4, <2>9, Course DEF Only
  <2> QED
    BY <2>8, <2>9
<1>4. ASSUME i.words = {"native"}, i.then = <<Need("native")>>, Only(w, Y, {"routine"})
      PROVE  OnCourse(w, p, IF Word(w, p) \in i.words THEN i.then \o r ELSE r)
  <2>1. PICK N \in Rests : N = Then("native", Y)
    BY <1>1, ThenRests, WordsAreSymbols
  <2>2. OptionMeaning(i, Y) = Either(Y, N)
    BY <1>4, <2>1 DEF OptionMeaning
  <2>3. StartsWithClass(w) <=> p \in Places(w, Y) \/ p \in Places(w, N)
    BY <1>1, <2>2, EitherPlaces
  <2>4. Only(w, N, {"native"})
    BY <1>1, <2>1, OnlyRules, WordsAreSymbols
  <2>5. Settled(w, i.then \o r, N)
    BY <1>1, <1>4, <2>1, WordFirst, WordsAreSymbols
  <2>6. CASE Word(w, p) = "native"
    BY <1>4, <2>3, <2>5, <2>6, Course DEF Only
  <2>7. CASE Word(w, p) # "native"
    BY <1>1, <1>4, <2>3, <2>4, <2>7, Course DEF Only
  <2> QED
    BY <2>6, <2>7
<1>5. ASSUME i.words = {"else"}, i.then = <<Need("else")>> \o Block, Only(w, Y, StatementStart \cup {"}"})
      PROVE  OnCourse(w, p, IF Word(w, p) \in i.words THEN i.then \o r ELSE r)
  <2>1. OptionMeaning(i, Y) = Then("Else", Y)
    BY <1>5 DEF OptionMeaning
  <2>2. PICK B \in Rests : B = Braced(Y)
    BY <1>1, Follow
  <2>3. StartsWithClass(w) <=> p \in Places(w, Y) \/ (Word(w, p) = "else" /\ p + 1 \in Places(w, B))
    BY <1>1, <2>1, <2>2, OptionsRead
  <2>4. p \in Places(w, Then("else", B)) <=> Word(w, p) = "else" /\ p + 1 \in Places(w, B)
    BY WordRead, WordsAreSymbols
  <2>5. PICK s1 : s1 = Block \o r /\ Settled(w, s1, B)
    BY <1>1, <2>2, BlockLaid
  <2>6. Settled(w, <<Need("else")>> \o s1, Then("else", B))
    BY <2>5, WordFirst, WordsAreSymbols
  <2>7. i.then \o r = <<Need("else")>> \o s1
    <3>1. PICK x \in Seq(Items), y \in Seq(Items) : x = <<Need("else")>> /\ y = Block
      <4>1. Need("else") \in Items
        BY ItemForms, WordsAreSymbols
      <4>2. <<Need("else")>> \in Seq(Items)
        BY <4>1, Tuples
      <4>3. Block \in Seq(Items)
        <5>1. Single \subseteq Items
          BY Forms
        <5> QED
          BY <5>1, Pieces, SeqMonotonic
      <4> QED
        BY <4>2, <4>3, Zenon
    <3>2. (x \o y) \o r = x \o (y \o r)
      BY <1>1, Concats
    <3> QED
      BY <1>5, <2>5, <3>1, <3>2, Zenon
  <2>8. CASE Word(w, p) = "else"
    BY <1>5, <2>3, <2>4, <2>6, <2>7, <2>8, Course DEF Only, StatementStart
  <2>9. CASE Word(w, p) # "else"
    BY <1>1, <1>5, <2>3, <2>9, Course
  <2> QED
    BY <2>8, <2>9
<1> QED
  BY <1>1, <1>2, <1>3, <1>4, <1>5 DEF OptionFits

(* Contexts, which read nothing, and the entry of a loop *)
LEMMA ContextStep ==
  ASSUME NEW w, NEW p \in Nat, NEW i, NEW r, NEW Y, Top(w, p, i, r, Y), i.do \in {"push", "pop"}
  PROVE  OnCourse(w, p, r)
<1>1. Settled(w, r, Y) /\ (StartsWithClass(w) <=> p \in Places(w, Y))
  BY DEF Top, Meaning, Loops
<1> QED
  BY <1>1, Course

(* A loop that is entered has yet to read what it reads at its start. *)
LEMMA EnterStep ==
  ASSUME NEW w, NEW p \in Nat, NEW i \in Items, NEW r \in Seq(Items), NEW Y \in Rests, i.do = "enter",
         Laid(w, r, Y), Fits(w, i, Y), r # <<>> => Pair(i, Head(r)),
         StartsWithClass(w) <=> p \in Places(w, Meaning(i, Y))
  PROVE  OnCourse(w, p, <<i.loop>> \o r)
<1>1. PICK l \in Items : l = i.loop /\ i = Enter(l)
  <2>1. CASE i.loop \in OtherLoops /\ i = Enter(i.loop)
    BY <2>1, Forms
  <2>2. CASE \E c \in Lists : i = ListOf(c) /\ i.loop = Variables(EndOf(c))
    BY <2>2, ListForms DEF ListOf
  <2> QED
    BY <2>1, <2>2, Fields
<1>2. LoopFits(w, l, Y) /\ Calm(l) /\ Meaning(i, Y) = LoopMeaning(l, Y)
  BY <1>1 DEF Fits, Meaning, Loops
<1>3. l.do \in Loops
  BY <1>2 DEF LoopFits
<1>4. Fits(w, l, Y) /\ Meaning(l, Y) = LoopMeaning(l, Y)
  BY <1>2, <1>3 DEF Fits, Meaning, Loops
<1>5. r # <<>> => Pair(l, Head(r))
  <2>1. i.do # "declared" /\ l.do # "declared"
    BY <1>3 DEF Loops
  <2>2. Simple("statements").do = "statements"
    BY DEF Simple
  <2>3. i = Enter(Simple("statements")) => l = Simple("statements")
    BY <1>1 DEF Enter
  <2> QED
    BY <2>1, <2>2, <2>3 DEF Pair
<1>6. Laid(w, <<l>> \o r, Meaning(l, Y))
  BY <1>4, <1>5, LaidFirst
<1>7. Ready(<<l>> \o r, Word(w, p))
  <2>1. Head(<<l>> \o r) = l
    <3>1. <<l>> \in Seq(Items) /\ Len(<<l>>) = 1 /\ <<l>>[1] = l
      OBVIOUS
    <3>2. Len(<<l>> \o r) = 1 + Len(r) /\ Len(r) \in Nat /\ (<<l>> \o r)[1] = l /\ <<l>> \o r \in Seq(Items)
      BY <3>1, ConcatProperties
    <3> QED
      BY <3>2
  <2> QED
    BY <1>2, <2>1 DEF Ready, Calm
<1> QED
  BY <1>1, <1>2, <1>4, <1>6, <1>7 DEF OnCourse

(* An item in front of others *)
LEMMA Fronted ==
  ASSUME NEW i \in Items, NEW r \in Seq(Items)
  PROVE  <<i>> \o r \in Seq(Items) /\ Head(<<i>> \o r) = i /\ Tail(<<i>> \o r) = r /\ <<i>> \o r # <<>>
<1>1. PICK x \in Seq(Items) : x = <<i>> /\ Len(x) = 1 /\ x[1] = i
  <2>1. <<i>> \in Seq(Items) /\ Len(<<i>>) = 1 /\ <<i>>[1] = i
    OBVIOUS
  <2> QED
    BY <2>1
<1>2. x \o r \in Seq(Items) /\ Len(x \o r) = 1 + Len(r) /\ Len(r) \in Nat
      /\ \A k \in 1..1 + Len(r) : (x \o r)[k] = IF k <= 1 THEN x[k] ELSE r[k - 1]
  BY <1>1, ConcatProperties
<1>3. PICK c \in Seq(Items) : c = x \o r
  BY <1>2
<1>4. c # <<>> /\ Len(c) = 1 + Len(r) /\ c[1] = i
  BY <1>1, <1>2, <1>3
<1>5. Tail(c) \in Seq(Items) /\ Len(Tail(c)) = Len(r) /\ \A k \in 1..Len(r) : Tail(c)[k] = r[k]
  BY <1>2, <1>3, <1>4, HeadTailProperties
<1>6. Tail(c) = r
  BY <1>5, SeqEqual
<1>7. Head(c) = i
  BY <1>4
<1> QED
  BY <1>1, <1>3, <1>4, <1>6, <1>7

(* The body of a class *)
LEMMA ClassBodyStep ==
  ASSUME NEW w, NEW p \in Nat, NEW i, NEW r, NEW Y, Top(w, p, i, r, Y), i.do = "classBody",
         NEW s, Settled(w, s, Meaning(i, Y))
  PROVE  /\ Word(w, p) \in RcurlOrEof => OnCourse(w, p, r)
         /\ Word(w, p) = "classVar" /\ ~ i.seen => OnCourse(w, p, VarDec("classVar") \o s)
         /\ Word(w, p) = "classVar" /\ i.seen => ~ StartsWithClass(w)
         /\ Word(w, p) \in SubroutineStart => OnCourse(w, p, Subroutine \o (<<Body("classBody", TRUE)>> \o r))
         /\ Word(w, p) \notin RcurlOrEof \cup ClassMemberStart => ~ StartsWithClass(w)
<1>1. /\ Settled(w, r, Y) /\ Only(w, Y, {"}"}) /\ Y \in Rests
      /\ Meaning(i, Y) = IF i.seen THEN Then("Subroutines", Y) ELSE Then("ClassVars", Then("Subroutines", Y))
      /\ StartsWithClass(w) <=> p \in Places(w, Meaning(i, Y))
  BY SettledParts DEF Top, Meaning, Fits, Loops, LoopFits, LoopMeaning
<1>2. PICK S \in Rests : S = Then("Subroutines", Y)
  BY <1>1, Closed
<1>3. PICK V \in Rests, U \in Rests, N \in Rests : V = Then("ClassVars", S) /\ U = Then("Subroutine", S) /\
      N = Then("native", U)
  <2>1. PICK V \in Rests, U \in Rests : V = Then("ClassVars", S) /\ U = Then("Subroutine", S)
    BY Closed
  <2>2. PICK N \in Rests : N = Then("native", U)
    BY ThenRests, WordsAreSymbols
  <2> QED
    BY <2>1, <2>2
<1>4. p \in Places(w, S) <=> p \in Places(w, Y) \/ p \in Places(w, U) \/ p \in Places(w, N)
  BY <1>1, <1>2, <1>3, OptionsRead
<1>5. PICK D \in Rests : D = Declaration(V)
  BY Follow
<1>6. p \in Places(w, V) <=> p \in Places(w, S) \/ (Word(w, p) = "classVar" /\ p + 1 \in Places(w, D))
  BY <1>3, <1>5, OptionsRead
<1>7. Only(w, U, {"routine"}) /\ Only(w, N, {"native"})
  BY <1>3, Starts, OnlyRules, WordsAreSymbols
<1>8. StartsWithClass(w) <=> p \in Places(w, S) \/ (~ i.seen /\ Word(w, p) = "classVar" /\ p + 1 \in Places(w, D))
  BY <1>1, <1>2, <1>3, <1>6
<1>9. CASE Word(w, p) \in RcurlOrEof
  <2>1. StartsWithClass(w) <=> p \in Places(w, Y)
    BY <1>4, <1>7, <1>8, <1>9 DEF Only, RcurlOrEof
  <2>2. OnCourse(w, p, r)
    BY <1>1, <2>1, Course
  <2> QED
    BY <1>9, <2>2 DEF RcurlOrEof, SubroutineStart
<1>10. CASE Word(w, p) = "classVar"
  <2>1. p \notin Places(w, S)
    BY <1>1, <1>4, <1>7, <1>10 DEF Only
  <2>2. ASSUME ~ i.seen PROVE OnCourse(w, p, VarDec("classVar") \o s)
    <3>1. Settled(w, s, V)
      BY <1>1, <1>2, <1>3, <2>2
    <3>2. Settled(w, VarDec("classVar") \o s, Then("classVar", D))
      BY <1>5, <3>1, VarDecLaid, WordsAreSymbols
    <3>3. p \in Places(w, Then("classVar", D)) <=> Word(w, p) = "classVar" /\ p + 1 \in Places(w, D)
      BY WordRead, WordsAreSymbols
    <3> QED
      BY <1>8, <1>10, <2>1, <2>2, <3>2, <3>3, Course
  <2>3. i.seen => ~ StartsWithClass(w)
    BY <1>8, <2>1
  <2> QED
    BY <1>10, <2>2, <2>3 DEF RcurlOrEof, SubroutineStart, ClassMemberStart
<1>11. CASE Word(w, p) \in SubroutineStart
  <2>1. StartsWithClass(w) <=> p \in Places(w, U) \/ p \in Places(w, N)
    BY <1>1, <1>4, <1>8, <1>11 DEF Only, SubroutineStart
  <2>2. PICK t : t = <<Body("classBody", TRUE)>> \o r /\ Settled(w, t, S)
    BY <1>1, <1>2, LoopsFirst
  <2>3. Reads(w, Subroutine \o t, Either(U, N))
    BY <1>3, <2>2, SubroutineLaid
  <2>4. OnCourse(w, p, Subroutine \o t)
    BY <2>1, <2>3, EitherPlaces, CourseRead
  <2> QED
    BY <1>11, <2>2, <2>4 DEF RcurlOrEof, SubroutineStart, ClassMemberStart
<1>12. CASE Word(w, p) \notin RcurlOrEof \cup ClassMemberStart
  BY <1>1, <1>4, <1>7, <1>8, <1>12 DEF Only, RcurlOrEof, ClassMemberStart, SubroutineStart
<1> QED
  BY <1>9, <1>10, <1>11, <1>12 DEF ClassMemberStart

(* The body of a subroutine, from its first statement on *)
LEMMA StatementsAndBody ==
  ASSUME NEW w, NEW r, NEW Y, Settled(w, r, Y), Only(w, Y, {"}"})
  PROVE  Settled(w, Statements \o (<<Body("subBody", TRUE)>> \o r), Then("Statements", Y))
<1>1. r \in Seq(Items) /\ Y \in Rests /\ Laid(w, r, Y) /\ (r # <<>> => Calm(Head(r)))
  BY DEF Settled
<1>2. PICK b \in Items : b = Body("subBody", TRUE)
  BY ItemForms
<1>3. b.do = "subBody" /\ b.seen
  BY <1>2 DEF Body
<1>4. Meaning(b, Y) = Y /\ Fits(w, b, Y)
  BY <1>3 DEF Meaning, LoopMeaning, Fits, LoopFits, Loops
<1>5. r # <<>> => Pair(b, Head(r))
  BY <1>1, <1>3 DEF Pair, Calm
<1>6. PICK t : t = <<b>> \o r
  OBVIOUS
<1>7. Laid(w, t, Y) /\ t \in Seq(Items) /\ Head(t) = b
  <2>1. Laid(w, t, Y)
    BY <1>1, <1>4, <1>5, <1>6, LaidFirst
  <2> QED
    BY <1>1, <1>6, <2>1, Fronted
<1>8. PICK e \in Items : e = Enter(Simple("statements"))
  BY ItemForms
<1>9. e.do = "enter" /\ e.loop.do = "statements"
  BY <1>8 DEF Enter, Simple
<1>10. Meaning(e, Y) = Then("Statements", Y) /\ Fits(w, e, Y) /\ Calm(e)
  BY <1>9 DEF Meaning, LoopMeaning, Fits, LoopFits, Loops, Calm, Uncounted, Behind
<1>11. t # <<>> => Pair(e, Head(t))
  BY <1>3, <1>7, <1>8, <1>9 DEF Pair, Uncounted
<1>12. Laid(w, <<e>> \o t, Then("Statements", Y))
  BY <1>1, <1>7, <1>10, <1>11, LaidFirst
<1>13. Settled(w, <<e>> \o t, Then("Statements", Y))
  <2>1. <<e>> \o t \in Seq(Items) /\ Head(<<e>> \o t) = e
    BY <1>7, Fronted
  <2>2. Then("Statements", Y) \in Rests
    BY <1>1, Closed
  <2> QED
    BY <1>10, <1>12, <2>1, <2>2 DEF Settled
<1> QED
  BY <1>2, <1>6, <1>7, <1>8, <1>13, StatementsLaid

(* The loop of a subroutine's body: declarations, then statements, then    *)
(* its brace.                                                              *)
LEMMA SubBodyStep ==
  ASSUME NEW w, NEW p \in Nat, NEW i, NEW r, NEW Y, Top(w, p, i, r, Y), i.do = "subBody",
         NEW s, ~ i.seen => Settled(w, s, Meaning(i, Y)), i.seen => Word(w, p) \notin StatementStart
  PROVE  /\ Word(w, p) \in RcurlOrEof \cup ClassMemberStart => OnCourse(w, p, r)
         /\ Word(w, p) = "var" /\ ~ i.seen => OnCourse(w, p, VarDec("var") \o s)
         /\ Word(w, p) = "var" /\ i.seen => ~ StartsWithClass(w)
         /\ Word(w, p) \in StatementStart => OnCourse(w, p, Statements \o (<<Body("subBody", TRUE)>> \o r))
         /\ Word(w, p) \notin RcurlOrEof \cup ClassMemberStart \cup StatementStart \cup {"var"} =>
            ~ StartsWithClass(w)
<1>1. /\ Settled(w, r, Y) /\ Only(w, Y, {"}"}) /\ Y \in Rests
      /\ Meaning(i, Y) = IF i.seen THEN Y ELSE Then("Locals", Then("Statements", Y))
      /\ StartsWithClass(w) <=> p \in Places(w, Meaning(i, Y))
  BY SettledParts DEF Top, Meaning, Fits, Loops, LoopFits, LoopMeaning
<1>2. PICK S \in Rests : S = Then("Statements", Y)
  BY <1>1, Closed
<1>3. PICK V \in Rests, U \in Rests : V = Then("Locals", S) /\ U = Then("Statement", S)
  BY Closed
<1>4. p \in Places(w, S) <=> p \in Places(w, Y) \/ p \in Places(w, U)
  BY <1>1, <1>2, <1>3, OptionsRead
<1>5. PICK D \in Rests : D = Declaration(V)
  BY Follow
<1>6. p \in Places(w, V) <=> p \in Places(w, S) \/ (Word(w, p) = "var" /\ p + 1 \in Places(w, D))
  BY <1>3, <1>5, OptionsRead
<1>7. Only(w, U, StatementStart)
  BY <1>3, Starts
<1>8. /\ i.seen => (StartsWithClass(w) <=> p \in Places(w, Y))
      /\ ~ i.seen => (StartsWithClass(w) <=>
                        p \in Places(w, Y) \/ p \in Places(w, U) \/ (Word(w, p) = "var" /\ p + 1 \in Places(w, D)))
  BY <1>1, <1>2, <1>3, <1>4, <1>6
<1>9. CASE Word(w, p) \in RcurlOrEof \cup ClassMemberStart
  <2>1. Word(w, p) \notin StatementStart \cup {"var"}
    BY <1>9 DEF RcurlOrEof, ClassMemberStart, SubroutineStart, StatementStart
  <2>2. StartsWithClass(w) <=> p \in Places(w, Y)
    BY <1>7, <1>8, <2>1 DEF Only
  <2>3. OnCourse(w, p, r)
    BY <1>1, <2>2, Course
  <2> QED
    BY <1>9, <2>1, <2>3
<1>10. CASE Word(w, p) = "var"
  <2>1. p \notin Places(w, Y) /\ p \notin Places(w, U)
    BY <1>1, <1>7, <1>10 DEF Only, StatementStart
  <2>2. ASSUME ~ i.seen PROVE OnCourse(w, p, VarDec("var") \o s)
    <3>1. Settled(w, s, V)
      BY <1>1, <1>2, <1>3, <2>2
    <3>2. Settled(w, VarDec("var") \o s, Then("var", D))
      BY <1>5, <3>1, VarDecLaid, WordsAreSymbols
    <3>3. p \in Places(w, Then("var", D)) <=> Word(w, p) = "var" /\ p + 1 \in Places(w, D)
      BY WordRead, WordsAreSymbols
    <3> QED
      BY <1>8, <1>10, <2>1, <2>2, <3>2, <3>3, Course
  <2>3. i.seen => ~ StartsWithClass(w)
    BY <1>8, <2>1
  <2>4. Word(w, p) \notin RcurlOrEof \cup ClassMemberStart \cup StatementStart
    BY <1>10 DEF RcurlOrEof, SubroutineStart, ClassMemberStart, StatementStart
  <2> QED
    BY <1>10, <2>2, <2>3, <2>4
<1>11. CASE Word(w, p) \in StatementStart
  <2>1. Word(w, p) \notin RcurlOrEof \cup ClassMemberStart \cup {"var", "}"}
    BY <1>11 DEF RcurlOrEof, ClassMemberStart, SubroutineStart, StatementStart
  <2>2. ~ i.seen
    BY <1>11
  <2>3. StartsWithClass(w) <=> p \in Places(w, S)
    BY <1>4, <1>8, <2>1, <2>2
  <2>4. OnCourse(w, p, Statements \o (<<Body("subBody", TRUE)>> \o r))
    BY <1>1, <1>2, <2>3, StatementsAndBody, Course
  <2> QED
    BY <1>11, <2>1, <2>4
<1>12. CASE Word(w, p) \notin RcurlOrEof \cup ClassMemberStart \cup StatementStart \cup {"var"}
  BY <1>1, <1>7, <1>8, <1>12 DEF Only, RcurlOrEof
<1> QED
  BY <1>9, <1>10, <1>11, <1>12

(* A list of statements *)
LEMMA StatementsStep ==
  ASSUME NEW w, NEW p \in Nat, NEW i, NEW r, NEW Y \in Rests, i.do = "statements", Laid(w, r, Y), Fits(w, i, Y),
         r # <<>> => Pair(i, Head(r)), StartsWithClass(w) <=> p \in Places(w, Meaning(i, Y)),
         NEW s, Settled(w, s, Meaning(i, Y))
  PROVE  /\ Word(w, p) \notin StatementStart => OnCourse(w, p, r)
         /\ Word(w, p) \in StatementStart => OnCourse(w, p, Statement(Word(w, p)) \o s)
<1>1. Only(w, Y, {"}"}) /\ Meaning(i, Y) = Then("Statements", Y)
  BY DEF Meaning, Fits, Loops, LoopFits, LoopMeaning
<1>2. PICK S \in Rests : S = Then("Statements", Y)
  BY Closed
<1>3. PICK U \in Rests : U = Then("Statement", S)
  BY Closed
<1>4. \A q \in Nat : q \in Places(w, S) <=> q \in Places(w, Y) \/ q \in Places(w, U)
  BY <1>2, <1>3, OptionsRead
<1>5. Only(w, U, StatementStart)
  BY <1>3, Starts
<1>6. StartsWithClass(w) <=> p \in Places(w, Y) \/ p \in Places(w, U)
  BY <1>1, <1>2, <1>4
<1>7. ASSUME Word(w, p) \notin StatementStart PROVE OnCourse(w, p, r)
  <2>1. StartsWithClass(w) <=> p \in Places(w, Y)
    BY <1>5, <1>6, <1>7 DEF Only
  <2>2. Ready(r, Word(w, p))
    BY <1>7 DEF Ready, Pair
  <2> QED
    BY <2>1, <2>2 DEF OnCourse
<1>8. ASSUME Word(w, p) \in StatementStart PROVE OnCourse(w, p, Statement(Word(w, p)) \o s)
  <2>1. PICK k \in StatementStart : k = Word(w, p)
    BY <1>8
  <2>2. p \notin Places(w, Y)
    BY <1>1, <1>8 DEF Only, StatementStart
  <2>3. PICK X \in Rests : X = Stated(k, S)
    BY Follow
  <2>4. p \in Places(w, U) <=> p + 1 \in Places(w, X)
    BY <1>3, <2>1, <2>3, StatementRead
  <2>5. k \in Terminals
    BY WordsAreSymbols DEF StatementStart
  <2>6. p \in Places(w, Then(k, X)) <=> p + 1 \in Places(w, X)
    BY <2>1, <2>5, WordRead
  <2>7. Only(w, S, StatementStart \cup {"}"})
    <3>1. ASSUME NEW q \in Places(w, S) PROVE Word(w, q) \in StatementStart \cup {"}"}
      <4>1. q \in Nat
        BY DEF Places
      <4> QED
        BY <1>1, <1>4, <1>5, <4>1 DEF Only
    <3> QED
      BY <3>1 DEF Only
  <2>8. Settled(w, s, S)
    BY <1>1, <1>2
  <2>9. Reads(w, Statement(k) \o s, Then(k, X))
    BY <2>3, <2>7, <2>8, StatementLaid
  <2> QED
    BY <1>6, <2>1, <2>2, <2>4, <2>6, <2>9, CourseRead
<1> QED
  BY <1>7, <1>8

(* A list of variables: what a round of it declares one name by *)
LEMMA NameLaid ==
  ASSUME NEW w, NEW r, NEW Y, Settled(w, r, Y), NEW j \in ListLoops, ~ j.first, Only(w, Y, {j.end}),
         NEW E \in Rests, E = Either(Y, Then(",", Then(IF j.end = ";" THEN "Names" ELSE "Parameter", Y)))
  PROVE  Settled(w, <<Need("name"), Simple("declared"), j>> \o r, Then("name", E))
<1>1. r \in Seq(Items) /\ Y \in Rests /\ Laid(w, r, Y) /\ (r # <<>> => Calm(Head(r)))
  BY DEF Settled
<1>2. j \in Items /\ j.do = "variables" /\ j.end \in {";", ")"}
  BY ListForms DEF ListLoops
<1>3. Meaning(j, Y) = E /\ Fits(w, j, Y)
  BY <1>2 DEF Meaning, LoopMeaning, Fits, LoopFits, Loops
<1>4. r # <<>> => Pair(j, Head(r))
  BY <1>1, <1>2 DEF Pair, Calm
<1>5. PICK t \in Seq(Items) : t = <<j>> \o r
  BY <1>1, <1>2, Fronted
<1>6. Laid(w, t, E) /\ Head(t) = j
  <2>1. Laid(w, <<j>> \o r, E)
    BY <1>1, <1>2, <1>3, <1>4, LaidFirst
  <2> QED
    BY <1>1, <1>2, <1>5, <2>1, Fronted
<1>7. PICK d \in Items : d = Simple("declared") /\ d.do = "declared"
  BY ListForms DEF Simple
<1>8. Meaning(d, E) = E /\ Fits(w, d, E)
  BY <1>7 DEF Meaning, Fits, Loops
<1>9. t # <<>> => Pair(d, Head(t))
  BY <1>2, <1>6, <1>7 DEF Pair, Behind
<1>10. PICK u \in Seq(Items) : u = <<d>> \o t
  BY <1>7, Fronted
<1>11. Laid(w, u, E) /\ Head(u) = d
  <2>1. Laid(w, <<d>> \o t, E)
    BY <1>6, <1>7, <1>8, <1>9, LaidFirst
  <2> QED
    BY <1>7, <1>10, <2>1, Fronted
<1>12. Settled(w, u, E)
  BY <1>7, <1>11 DEF Settled, Calm, Uncounted, Behind
<1>13. Settled(w, <<Need("name")>> \o u, Then("name", E))
  BY <1>12, WordFirst, WordsAreSymbols
<1>14. <<Need("name"), d, j>> \o r = <<Need("name")>> \o u
  <2>1. \A a, b, c : <<a, b, c>> \o r = <<a>> \o (<<b>> \o (<<c>> \o r))
    BY <1>1, InFront
  <2> QED
    BY <1>5, <1>10, <2>1, Zenon
<1> QED
  BY <1>7, <1>13, <1>14

(* A round, as Variable has it for the loop that is run through *)
Round(i) ==
  (IF i.first THEN <<>> ELSE <<Need(",")>>)
  \o (IF i.end = ")" THEN <<Simple("type")>> ELSE <<>>)
  \o <<Need("name"), Simple("declared"), [i EXCEPT !.first = FALSE]>>

(* A round of a list, step by step. *)
LEMMA RoundSplits ==
  ASSUME NEW i \in ListLoops, NEW r \in Seq(Items)
  PROVE  LET u == <<Need("name"), Simple("declared"), [i EXCEPT !.first = FALSE]>> \o r
             v == IF i.end = ")" THEN <<Simple("type")>> \o u ELSE u
         IN  Round(i) \o r = IF i.first THEN v ELSE <<Need(",")>> \o v
<1>1. PICK a \in Items, b \in Items, c \in Items, d \in Items, j \in Items :
        /\ a = Need(",") /\ b = Simple("type") /\ c = Need("name") /\ d = Simple("declared")
        /\ j = [i EXCEPT !.first = FALSE]
  BY ItemForms, ListForms, LoopMarked, WordsAreSymbols
<1>2. PICK x \in Seq(Items), y \in Seq(Items), z \in Seq(Items) :
        /\ x = IF i.first THEN <<>> ELSE <<a>>
        /\ y = IF i.end = ")" THEN <<b>> ELSE <<>>
        /\ z = <<c, d, j>>
  <2>1. <<>> \in Seq(Items) /\ <<a>> \in Seq(Items) /\ <<b>> \in Seq(Items) /\ <<c, d, j>> \in Seq(Items)
    BY Tuples
  <2> QED
    BY <2>1, Zenon
<1>3. Round(i) = (x \o y) \o z
  BY <1>1, <1>2, Zenon DEF Round
<1>4. PICK u \in Seq(Items), xy \in Seq(Items) : u = z \o r /\ xy = x \o y
  BY Concats
<1>5. (xy \o z) \o r = xy \o u
  BY <1>4, Concats
<1>6. (x \o y) \o u = x \o (y \o u)
  BY Concats
<1>7. PICK v \in Seq(Items) : v = y \o u
  BY Concats
<1>8. Round(i) \o r = x \o v
  BY <1>3, <1>4, <1>5, <1>6, <1>7, Zenon
<1>9. \A t \in Seq(Items) : <<>> \o t = t
  BY ConcatEmptySeq
<1>10. v = IF i.end = ")" THEN <<b>> \o u ELSE u
  BY <1>2, <1>7, <1>9, Zenon
<1>11. x \o v = IF i.first THEN v ELSE <<a>> \o v
  BY <1>2, <1>9, Zenon
<1> QED
  BY <1>1, <1>2, <1>4, <1>8, <1>10, <1>11, Zenon

(* The loop of a list of variables: another round, or its end. *)
LEMMA VariablesStep ==
  ASSUME NEW w, NEW p \in Nat, NEW i \in ListLoops, ~ Uncounted(i), NEW r, NEW Y, Top(w, p, i, r, Y)
  PROVE  LET done == Word(w, p) \in RcurlOrEof \cup ClassMemberStart \cup {i.end}
         IN  /\ done /\ i.end = ";" /\ ~ i.any => ~ StartsWithClass(w)
             /\ done /\ ~ (i.end = ";" /\ ~ i.any) => OnCourse(w, p, r)
             /\ ~ done => OnCourse(w, p, Round(i) \o r)
<1> DEFINE done == Word(w, p) \in RcurlOrEof \cup ClassMemberStart \cup {i.end}
<1>1. i.do = "variables" /\ i.end \in {";", ")"} /\ i.first \in BOOLEAN /\ i.any \in BOOLEAN /\ (i.first <=> ~ i.any)
  BY DEF ListLoops, Uncounted
<1>2. /\ Settled(w, r, Y) /\ Only(w, Y, {i.end}) /\ Y \in Rests /\ r \in Seq(Items)
      /\ Meaning(i, Y) = LoopMeaning(i, Y)
      /\ StartsWithClass(w) <=> p \in Places(w, Meaning(i, Y))
  BY <1>1, SettledParts DEF Top, Meaning, Fits, Loops, LoopFits
<1>3. PICK A \in {"Names", "Parameter"} : A = IF i.end = ";" THEN "Names" ELSE "Parameter"
  OBVIOUS
<1>4. PICK N \in Rests, C \in Rests, E \in Rests : N = Then(A, Y) /\ C = Then(",", N) /\ E = Either(Y, C)
  <2>1. PICK N \in Rests : N = Then(A, Y)
    BY <1>2, <1>3, Closed
  <2>2. PICK C \in Rests : C = Then(",", N)
    BY ThenRests, WordsAreSymbols
  <2> QED
    BY <1>2, <2>1, <2>2, EitherRests
<1>5. Only(w, N, {"name"} \cup Types) /\ Only(w, C, {","})
  <2>1. Only(w, N, {"name"} \cup Types)
    BY <1>2, <1>3, <1>4, Starts DEF Only, Types
  <2> QED
    BY <1>4, <2>1, OnlyRules, WordsAreSymbols
<1>6. StartsWithClass(w) <=>
        IF i.first THEN p \in Places(w, N) \/ (i.end = ")" /\ p \in Places(w, Y))
        ELSE p \in Places(w, Y) \/ p \in Places(w, C)
  <2>1. CASE ~ i.first
    <3>1. Meaning(i, Y) = E
      BY <1>1, <1>2, <1>3, <1>4, <2>1 DEF LoopMeaning
    <3> QED
      BY <1>2, <1>4, <2>1, <3>1, EitherPlaces
  <2>2. CASE i.first /\ i.end = ";"
    <3>1. Meaning(i, Y) = N
      BY <1>1, <1>2, <1>3, <1>4, <2>2 DEF LoopMeaning
    <3> QED
      BY <1>2, <2>2, <3>1
  <2>3. CASE i.first /\ i.end = ")"
    <3>1. Meaning(i, Y) = Then("Parameters", Y) /\ N = Then("Parameter", Y)
      BY <1>1, <1>2, <1>3, <1>4, <2>3 DEF LoopMeaning
    <3>2. p \in Places(w, Then("Parameters", Y)) <=> p \in Places(w, Y) \/ p \in Places(w, Then("Parameter", Y))
      BY <1>2, OptionsRead
    <3> QED
      BY <1>2, <2>3, <3>1, <3>2
  <2> QED
    BY <1>1, <2>1, <2>2, <2>3
<1>7. ASSUME done PROVE p \notin Places(w, N) /\ p \notin Places(w, C)
  BY <1>1, <1>5, <1>7 DEF Only, Types, RcurlOrEof, ClassMemberStart, SubroutineStart
<1>8. ASSUME done, i.end = ";", ~ i.any PROVE ~ StartsWithClass(w)
  BY <1>1, <1>6, <1>7, <1>8
<1>9. ASSUME done, ~ (i.end = ";" /\ ~ i.any) PROVE OnCourse(w, p, r)
  <2>1. StartsWithClass(w) <=> p \in Places(w, Y)
    BY <1>1, <1>6, <1>7, <1>9
  <2> QED
    BY <1>2, <2>1, Course
<1>10. ASSUME ~ done PROVE OnCourse(w, p, Round(i) \o r)
  <2>1. p \notin Places(w, Y)
    BY <1>2, <1>10 DEF Only
  <2>2. PICK j \in ListLoops : j = [i EXCEPT !.first = FALSE] /\ ~ j.first /\ j.end = i.end
    BY LoopMarked DEF ListLoops
  <2>3. PICK M \in Rests : M = Then("name", E)
    BY ThenRests, WordsAreSymbols
  <2>4. PICK u : u = <<Need("name"), Simple("declared"), j>> \o r /\ Settled(w, u, M)
    <3>1. Only(w, Y, {j.end}) /\ E = Either(Y, Then(",", Then(IF j.end = ";" THEN "Names" ELSE "Parameter", Y)))
      BY <1>2, <1>3, <1>4, <2>2
    <3>2. Settled(w, <<Need("name"), Simple("declared"), j>> \o r, M)
      BY <1>2, <2>2, <2>3, <3>1, NameLaid
    <3> QED
      BY <3>2
  <2>5. PICK T \in Rests : T = Then("Type", M)
    BY Closed
  <2>6. PICK v : v = (IF i.end = ")" THEN <<Simple("type")>> \o u ELSE u) /\
        Settled(w, v, IF i.end = ")" THEN T ELSE M)
    BY <2>4, <2>5, SimpleFirst
  <2>7. PICK V \in Rests : V = (IF i.end = ")" THEN T ELSE M)
    BY Zenon
  <2>8. Places(w, V) = Places(w, N)
    <3>1. CASE i.end = ";"
      <4>1. N = Then("Names", Y) /\ E = Either(Y, Then(",", Then("Names", Y))) /\ V = Then("name", E)
        BY <1>3, <1>4, <2>3, <2>7, <3>1
      <4> QED
        BY <1>2, <4>1, ListsRead
    <3>2. CASE i.end = ")"
      <4>1. N = Then("Parameter", Y) /\ E = Either(Y, Then(",", Then("Parameter", Y))) /\
            V = Then("Type", Then("name", E))
        BY <1>3, <1>4, <2>3, <2>5, <2>7, <3>2
      <4> QED
        BY <1>2, <4>1, ListsRead
    <3> QED
      BY <1>1, <3>1, <3>2
  <2>9. Round(i) \o r = IF i.first THEN v ELSE <<Need(",")>> \o v
    BY <1>2, <2>2, <2>4, <2>6, RoundSplits, Zenon
  <2>10. Settled(w, v, V)
    BY <2>6, <2>7
  <2>11. CASE i.first
    <3>1. StartsWithClass(w) <=> p \in Places(w, V)
      BY <1>6, <2>1, <2>8, <2>11
    <3> QED
      BY <2>9, <2>10, <2>11, <3>1, Course
  <2>12. CASE ~ i.first
    <3>1. Settled(w, <<Need(",")>> \o v, Then(",", V))
      BY <2>10, WordFirst, WordsAreSymbols
    <3>2. p \in Places(w, C) <=> p \in Places(w, Then(",", V))
      <4>1. p \in Places(w, C) <=> Word(w, p) = "," /\ p + 1 \in Places(w, N)
        BY <1>4, WordRead, WordsAreSymbols
      <4>2. p \in Places(w, Then(",", V)) <=> Word(w, p) = "," /\ p + 1 \in Places(w, V)
        BY WordRead, WordsAreSymbols
      <4> QED
        BY <2>8, <4>1, <4>2
    <3> QED
      BY <1>6, <2>1, <2>9, <2>12, <3>1, <3>2, Course
  <2> QED
    BY <2>11, <2>12
<1> QED
  BY <1>8, <1>9, <1>10

(* A variable of the list is declared. *)
LEMMA DeclaredStep ==
  ASSUME NEW w, NEW p \in Nat, NEW i, NEW r \in Seq(Items), NEW Y \in Rests, i.do = "declared", r # <<>>,
         Laid(w, r, Y), Pair(i, Head(r)), StartsWithClass(w) <=> p \in Places(w, Meaning(i, Y))
  PROVE  OnCourse(w, p, <<[Head(r) EXCEPT !.any = TRUE]>> \o Tail(r))
<1>1. PICK j \in Items, t \in Seq(Items) : j = Head(r) /\ t = Tail(r)
  BY HeadTailProperties
<1>2. j.do = "variables" /\ ~ j.first /\ Meaning(i, Y) = Y
  BY <1>1 DEF Pair, Meaning, Loops
<1>3. j \in ListLoops
  BY <1>2, ItemKinds
<1>4. PICK X \in Rests : Laid(w, t, X) /\ Y = Meaning(j, X) /\ Fits(w, j, X) /\ (t # <<>> => Pair(j, Head(t)))
  BY <1>1, LaidTaken
<1>5. Settled(w, t, X)
  <2>1. Simple("statements").do = "statements" /\ Enter(Simple("statements")).do = "enter"
    BY DEF Simple, Enter
  <2> QED
    BY <1>2, <1>4, <2>1 DEF Settled, Pair, Calm
<1>6. PICK k \in ListLoops :
        k = [j EXCEPT !.any = TRUE] /\ k.do = "variables" /\ k.end = j.end /\ k.first = j.first /\ k.any = TRUE
  BY <1>3, LoopMarked DEF ListLoops
<1>7. LoopFits(w, k, X) /\ LoopMeaning(k, X) = Y
  BY <1>2, <1>4, <1>6 DEF Fits, LoopFits, Meaning, LoopMeaning, Loops
<1>8. k \in Items /\ k.do \in Loops /\ Calm(k)
  BY <1>2, <1>6, ListForms DEF Loops, Calm, Uncounted, Behind
<1>9. Settled(w, <<k>> \o t, Y)
  BY <1>5, <1>7, <1>8, LoopFirst
<1> QED
  BY <1>1, <1>2, <1>6, <1>9, Course

-----------------------------------------------------------------------------
(* The parser on its way through a source *)

(* The current word and those ahead are the source's from this place on. *)
At(w, c, a, p) == a \in Seq(Words) /\ c = Word(w, p) /\ \A k \in Nat \ {0} : Word(a, k) = Word(w, p + k)

OnTheWay(p) ==
  /\ PInv /\ source # <<>> /\ p \in Nat
  /\ ~ hadError /\ ~ panic
  /\ At(source, current, ahead, p) /\ OnCourse(source, p, todo)

(* What a step leads to: a word that no class has there, or further on. *)
Outcome ==
  \/ hadError' /\ ~ StartsWithClass(source)
  \/ ~ hadError' /\ todo' # <<>> /\ Head(todo').do = "sync" /\ ~ StartsWithClass(source)
  \/ ~ hadError' /\ ~ panic' /\ \E q \in Nat : At(source, current', ahead', q) /\ OnCourse(source, q, todo')

(* The next word *)
LEMMA Moves ==
  ASSUME NEW p \in Nat, source # <<>>, At(source, current, ahead, p), Advance
  PROVE  At(source, current', ahead', p + 1)
<1>1. /\ ahead \in Seq(Words) /\ current = Word(source, p)
      /\ \A k \in Nat \ {0} : Word(ahead, k) = Word(source, p + k)
  BY DEF At
<1>2. Word(ahead, 1) = Word(source, p + 1)
  BY <1>1
<1>3. CASE ahead = <<>>
  <2>1. current' = "eof" /\ ahead' = <<>>
    BY <1>3 DEF Advance, Offered, AnyInput
  <2>2. \A k \in Nat : Word(ahead', k) = "eof"
    BY <2>1 DEF Word
  <2>3. \A k \in Nat : Word(ahead, k) = "eof"
    BY <1>3 DEF Word
  <2>4. ASSUME NEW k \in Nat \ {0} PROVE Word(ahead', k) = Word(source, (p + 1) + k)
    <3>1. k + 1 \in Nat \ {0} /\ p + (k + 1) = (p + 1) + k
      OBVIOUS
    <3>2. Word(ahead, k + 1) = Word(source, (p + 1) + k)
      BY <1>1, <3>1
    <3> QED
      BY <2>2, <2>3, <3>1, <3>2
  <2>5. current' = Word(source, p + 1)
    BY <1>2, <2>1, <2>3
  <2> QED
    BY <2>1, <2>4, <2>5 DEF At
<1>4. CASE ahead # <<>>
  <2>1. current' = Head(ahead) /\ ahead' = Tail(ahead)
    BY <1>4 DEF Advance, Offered
  <2>2. PICK t : t = Tail(ahead)
    OBVIOUS
  <2>3. /\ t \in Seq(Words) /\ Len(t) = Len(ahead) - 1 /\ Len(ahead) \in Nat \ {0} /\ Head(ahead) = ahead[1]
        /\ \A k \in 1..Len(t) : t[k] = ahead[k + 1]
    BY <1>1, <1>4, <2>2, HeadTailProperties, EmptySeq
  <2>4. DOMAIN t = 1..Len(t) /\ DOMAIN ahead = 1..Len(ahead)
    BY <1>1, <2>3
  <2>5. current' = Word(source, p + 1)
    <3>1. 1 \in DOMAIN ahead
      BY <2>3, <2>4
    <3> QED
      BY <1>2, <2>1, <2>3, <3>1 DEF Word
  <2>6. ASSUME NEW k \in Nat \ {0} PROVE Word(t, k) = Word(source, (p + 1) + k)
    <3>1. k + 1 \in Nat \ {0} /\ p + (k + 1) = (p + 1) + k
      OBVIOUS
    <3>2. Word(ahead, k + 1) = Word(source, (p + 1) + k)
      BY <1>1, <3>1
    <3>3. k \in DOMAIN t <=> k + 1 \in DOMAIN ahead
      BY <2>3, <2>4
    <3>4. Word(t, k) = Word(ahead, k + 1)
      BY <2>3, <2>4, <3>3 DEF Word
    <3> QED
      BY <3>2, <3>4
  <2> QED
    BY <2>1, <2>2, <2>3, <2>5, <2>6 DEF At
<1> QED
  BY <1>3, <1>4

(* A step that takes the word and one that does not *)
LEMMA Reached ==
  ASSUME NEW p, OnTheWay(p), NEW items, todo' = items, ~ hadError', ~ panic'
  PROVE  /\ Advance /\ OnCourse(source, p + 1, items) => Outcome
         /\ Stay /\ OnCourse(source, p, items) => Outcome
         /\ Stay /\ items # <<>> /\ Head(items).do = "sync" /\ ~ StartsWithClass(source) => Outcome
<1>1. /\ source # <<>> /\ p \in Nat /\ ~ hadError /\ ~ panic /\ At(source, current, ahead, p)
  BY DEF OnTheWay
<1>2. ASSUME Advance, OnCourse(source, p + 1, items) PROVE Outcome
  <2>1. At(source, current', ahead', p + 1) /\ p + 1 \in Nat
    BY <1>1, <1>2, Moves
  <2> QED
    BY <1>1, <1>2, <2>1 DEF Outcome
<1>3. ASSUME Stay, OnCourse(source, p, items) PROVE Outcome
  <2>1. At(source, current', ahead', p)
    BY <1>1, <1>3 DEF Stay
  <2> QED
    BY <1>1, <1>3, <2>1 DEF Outcome
<1>4. items # <<>> /\ Head(items).do = "sync" /\ ~ StartsWithClass(source) => Outcome
  BY <1>1 DEF Outcome
<1> QED
  BY <1>2, <1>3, <1>4

(* A step that advances or stays keeps the promise if its stack is on      *)
(* course.                                                                 *)
LEMMA Further ==
  ASSUME NEW p, OnTheWay(p), NEW items, Continue(items)
  PROVE  /\ Advance /\ OnCourse(source, p + 1, items) => Outcome
         /\ Stay /\ OnCourse(source, p, items) => Outcome
         /\ Stay /\ items # <<>> /\ Head(items).do = "sync" /\ ~ StartsWithClass(source) => Outcome
<1>1. todo' = items /\ ~ hadError' /\ ~ panic'
  BY DEF OnTheWay, Continue
<1> QED
  BY <1>1, Reached

(* The item that is taken *)
LEMMA NowOnTop ==
  ASSUME NEW p, OnTheWay(p), todo # <<>>
  PROVE  /\ Now \in Items /\ Rest \in Seq(Items) /\ p \in Nat /\ current = Word(source, p) /\ todo \in Seq(Items)
         /\ \E Y \in Rests :
              /\ Laid(source, Rest, Y) /\ Fits(source, Now, Y)
              /\ StartsWithClass(source) <=> p \in Places(source, Meaning(Now, Y))
              /\ Rest # <<>> => Pair(Now, Head(Rest))
              /\ Now.do \notin {"declared", "statements", "enter"} => Top(source, p, Now, Rest, Y)
              /\ ~ Behind(Now) => Settled(source, todo, Meaning(Now, Y))
              /\ ~ Uncounted(Now) /\ (Behind(Now) => current \notin StatementStart)
<1>1. todo \in Seq(Items) /\ p \in Nat /\ current = Word(source, p) /\ OnCourse(source, p, todo)
  BY DEF OnTheWay, PInv, At
<1>2. Now \in Items /\ Rest \in Seq(Items)
  BY <1>1, HeadTailProperties DEF Now, Rest
<1>3. Now = Head(todo) /\ Rest = Tail(todo)
  BY DEF Now, Rest
<1> QED
  BY <1>1, <1>2, <1>3, Topmost

(* Words that are expected *)
LEMMA WordCourse ==
  ASSUME NEW p, OnTheWay(p), DoExpect \/ DoType
  PROVE  Outcome
<1>1. todo # <<>> /\ Now.do \in {"expect", "type"}
  BY DEF DoExpect, DoType, Doing
<1>2. current = Word(source, p) /\ p \in Nat /\ ~ panic
  BY <1>1, NowOnTop DEF OnTheWay
<1>3. PICK Y : Top(source, p, Now, Rest, Y)
  BY <1>1, NowOnTop
<1>4. ASSUME Panic, ~ StartsWithClass(source) PROVE Outcome
  BY <1>4 DEF Panic, Outcome
<1>5. ASSUME Continue(Rest), Advance, OnCourse(source, p + 1, Rest) PROVE Outcome
  BY <1>5, Further
<1>6. CASE DoExpect
  <2>1. IF current \in Now.words THEN OnCourse(source, p + 1, Rest) ELSE ~ StartsWithClass(source)
    BY <1>2, <1>3, <1>6, WordStep DEF DoExpect, Doing
  <2> QED
    BY <1>2, <1>4, <1>5, <1>6, <2>1 DEF DoExpect
<1>7. CASE DoType
  <2>1. IF current \in Types THEN OnCourse(source, p + 1, Rest) ELSE ~ StartsWithClass(source)
    BY <1>2, <1>3, <1>7, WordStep DEF DoType, Doing
  <2> QED
    BY <1>2, <1>4, <1>5, <1>7, <2>1 DEF DoType
<1> QED
  BY <1>6, <1>7

(* Expressions *)
LEMMA ExpressionCourse ==
  ASSUME NEW p, OnTheWay(p), DoValue \/ DoExpression \/ DoInfix \/ DoNamed \/ DoArguments
  PROVE  Outcome
<1>1. todo # <<>> /\ Now.do \in {"value", "expression", "infix", "named", "arguments"}
  BY DEF DoValue, DoExpression, DoInfix, DoNamed, DoArguments, Doing
<1>2. current = Word(source, p) /\ p \in Nat /\ Now \in Items
  BY <1>1, NowOnTop
<1>3. ~ Behind(Now)
  BY <1>1 DEF Behind
<1>4. PICK Y : Top(source, p, Now, Rest, Y) /\ Settled(source, todo, Meaning(Now, Y))
  BY <1>1, <1>3, NowOnTop
<1>5. CASE DoValue
  <2>1. PICK n : n = IF current = ";" THEN Rest ELSE <<Simple("expression")>> \o Rest
    OBVIOUS
  <2>2. Now.do = "value" /\ Continue(n) /\ Stay
    BY <1>5, <2>1 DEF DoValue, Doing
  <2>3. OnCourse(source, p, n)
    BY <1>2, <1>4, <2>1, <2>2, ValueStep
  <2> QED
    BY <2>2, <2>3, Further
<1>6. CASE DoExpression
  <2>1. PICK n : n = <<Simple("term"), Simple("infix")>> \o Rest
    OBVIOUS
  <2>2. Now.do = "expression" /\ Continue(n) /\ Stay
    BY <1>6, <2>1 DEF DoExpression, Doing
  <2>3. OnCourse(source, p, n)
    BY <1>2, <1>4, <2>1, <2>2, ExpressionStep
  <2> QED
    BY <2>2, <2>3, Further
<1>7. CASE DoInfix
  <2>1. Now.do = "infix"
    BY <1>7 DEF DoInfix, Doing
  <2>2. IF current \in Infix THEN OnCourse(source, p + 1, <<Simple("term")>> \o todo) ELSE OnCourse(source, p, Rest)
    BY <1>2, <1>4, <2>1, InfixStep
  <2>3. CASE current \in Infix
    <3>1. Continue(<<Simple("term")>> \o todo) /\ Advance
      BY <1>7, <2>3 DEF DoInfix
    <3> QED
      BY <2>2, <2>3, <3>1, Further
  <2>4. CASE current \notin Infix
    <3>1. Continue(Rest) /\ Stay
      BY <1>7, <2>4 DEF DoInfix
    <3> QED
      BY <2>2, <2>4, <3>1, Further
  <2> QED
    BY <2>3, <2>4
<1>8. CASE DoNamed
  <2>1. Now.do = "named" /\ Stay
    BY <1>8 DEF DoNamed, Doing
  <2>2. /\ current = "[" => OnCourse(source, p, Index \o Rest)
        /\ current \in {"(", "."} => OnCourse(source, p, Tail(Call) \o Rest)
        /\ current \notin {"[", "(", "."} => OnCourse(source, p, Rest)
    BY <1>2, <1>4, <2>1, NamedStep
  <2>3. PICK n : n = CASE current = "[" -> Index \o Rest
                       [] current \in {"(", "."} -> Tail(Call) \o Rest
                       [] OTHER -> Rest
    OBVIOUS
  <2>4. Continue(n)
    BY <1>8, <2>3 DEF DoNamed
  <2>5. OnCourse(source, p, n)
    BY <2>2, <2>3
  <2> QED
    BY <2>1, <2>4, <2>5, Further
<1>9. CASE DoArguments
  <2>1. PICK n : n = IF current = ")" THEN Rest
                     ELSE (IF Now.any THEN <<Need(",")>> ELSE <<>>)
                          \o <<Simple("expression"), [Now EXCEPT !.any = TRUE]>> \o Rest
    OBVIOUS
  <2>2. Now.do = "arguments" /\ Continue(n) /\ Stay
    BY <1>9, <2>1 DEF DoArguments, Doing
  <2>3. OnCourse(source, p, n)
    BY <1>2, <1>4, <2>1, <2>2, ArgumentsStep
  <2> QED
    BY <2>2, <2>3, Further
<1> QED
  BY <1>5, <1>6, <1>7, <1>8, <1>9

(* The step of a term. *)
LEMMA TermCourse ==
  ASSUME NEW p, OnTheWay(p), DoTerm
  PROVE  Outcome
<1>1. todo # <<>> /\ Now.do = "term"
  BY DEF DoTerm, Doing
<1>2. current = Word(source, p) /\ p \in Nat /\ ~ Behind(Now)
  BY <1>1, NowOnTop DEF Behind
<1>3. PICK Y : Top(source, p, Now, Rest, Y) /\ Settled(source, todo, Meaning(Now, Y))
  BY <1>1, <1>2, NowOnTop
<1>4. /\ current = "literal" => OnCourse(source, p + 1, Rest)
      /\ current = "name" => OnCourse(source, p + 1, <<Simple("named")>> \o Rest)
      /\ current = "(" => OnCourse(source, p + 1, <<Simple("expression"), Need(")")>> \o Rest)
      /\ current \in Prefix => OnCourse(source, p + 1, todo)
      /\ current \notin {"literal", "name", "("} \cup Prefix => ~ StartsWithClass(source)
  BY <1>1, <1>2, <1>3, TermStep
<1>5. ASSUME current = "literal", Continue(Rest), Advance PROVE Outcome
  BY <1>4, <1>5, Further
<1>6. ASSUME current = "name", Continue(<<Simple("named")>> \o Rest), Advance PROVE Outcome
  BY <1>4, <1>6, Further
<1>7. ASSUME current = "(", Continue(<<Simple("expression"), Need(")")>> \o Rest), Advance PROVE Outcome
  BY <1>4, <1>7, Further
<1>8. ASSUME current \in Prefix, Continue(todo), Advance PROVE Outcome
  BY <1>4, <1>8, Further
<1>9. ASSUME current \notin {"literal", "name", "("} \cup Prefix, Panic PROVE Outcome
  BY <1>4, <1>9 DEF Panic, Outcome
<1> QED
  BY <1>5, <1>6, <1>7, <1>8, <1>9 DEF DoTerm

(* What may be left out, contexts, and the entries of loops *)
LEMMA OtherCourse ==
  ASSUME NEW p, OnTheWay(p), DoOptional \/ DoPush \/ DoPop \/ DoEnter \/ Declared
  PROVE  Outcome
<1>1. todo # <<>>
  BY DEF DoOptional, DoPush, DoPop, DoEnter, Declared, Doing
<1>2. current = Word(source, p) /\ p \in Nat /\ Now \in Items /\ Rest \in Seq(Items)
  BY <1>1, NowOnTop
<1>3. CASE DoOptional
  <2>1. PICK n : n = IF current \in Now.words THEN Now.then \o Rest ELSE Rest
    OBVIOUS
  <2>2. Now.do = "optional" /\ Continue(n) /\ Stay
    BY <1>3, <2>1 DEF DoOptional, Doing
  <2>3. PICK Y : Top(source, p, Now, Rest, Y)
    BY <1>1, <2>2, NowOnTop
  <2>4. OnCourse(source, p, n)
    BY <1>2, <2>1, <2>2, <2>3, OptionStep
  <2> QED
    BY <2>2, <2>4, Further
<1>4. CASE DoPush \/ DoPop
  <2>1. Now.do \in {"push", "pop"} /\ Continue(Rest) /\ Stay
    BY <1>4 DEF DoPush, DoPop, Doing
  <2>2. PICK Y : Top(source, p, Now, Rest, Y)
    BY <1>1, <2>1, NowOnTop
  <2>3. OnCourse(source, p, Rest)
    BY <1>2, <2>1, <2>2, ContextStep
  <2> QED
    BY <2>1, <2>3, Further
<1>5. PICK Y \in Rests :
        /\ Laid(source, Rest, Y) /\ Fits(source, Now, Y)
        /\ StartsWithClass(source) <=> p \in Places(source, Meaning(Now, Y))
        /\ Rest # <<>> => Pair(Now, Head(Rest))
  BY <1>1, NowOnTop
<1>6. CASE DoEnter
  <2>1. Now.do = "enter" /\ Continue(<<Now.loop>> \o Rest) /\ Stay
    BY <1>6 DEF DoEnter, Doing
  <2>2. OnCourse(source, p, <<Now.loop>> \o Rest)
    BY <1>2, <1>5, <2>1, EnterStep
  <2> QED
    BY <2>1, <2>2, Further
<1>7. CASE Declared
  <2>1. Now.do = "declared" /\ Continue(<<[Rest[1] EXCEPT !.any = TRUE]>> \o Tail(Rest)) /\ Stay
    BY <1>7 DEF Declared, Doing
  <2>2. Rest # <<>>
    <3>1. 2 \in DOMAIN todo /\ DOMAIN todo = 1..Len(todo) /\ DOMAIN Rest = 1..Len(todo) - 1 /\ Len(todo) \in Nat
      BY <1>1, <2>1, Taken DEF OnTheWay, ItemPlaced
    <3>2. 1 \in DOMAIN Rest
      BY <3>1
    <3> QED
      BY <3>2
  <2>3. Rest[1] = Head(Rest)
    BY <1>2, <2>2, HeadTailProperties
  <2>4. OnCourse(source, p, <<[Rest[1] EXCEPT !.any = TRUE]>> \o Tail(Rest))
    BY <1>2, <1>5, <2>1, <2>2, <2>3, DeclaredStep
  <2> QED
    BY <2>1, <2>4, Further
<1> QED
  BY <1>3, <1>4, <1>6, <1>7

(* The loops of the bodies and of statements *)
LEMMA ClassBodyCourse ==
  ASSUME NEW p, OnTheWay(p), ClassBodyEnds \/ ClassMember \/ ClassBodyError
  PROVE  Outcome
<1>1. todo # <<>> /\ Now.do = "classBody" /\ Stay
  BY DEF ClassBodyEnds, ClassMember, ClassBodyError, Doing
<1>2. /\ current = Word(source, p) /\ p \in Nat /\ Rest \in Seq(Items) /\ todo \in Seq(Items)
      /\ ~ panic /\ ~ hadError /\ ~ Behind(Now)
  BY <1>1, NowOnTop DEF OnTheWay, Behind
<1>3. PICK Y : Top(source, p, Now, Rest, Y) /\ Settled(source, todo, Meaning(Now, Y))
  BY <1>1, <1>2, NowOnTop
<1>4. /\ current \in RcurlOrEof => OnCourse(source, p, Rest)
      /\ current = "classVar" /\ ~ Now.seen => OnCourse(source, p, VarDec("classVar") \o todo)
      /\ current = "classVar" /\ Now.seen => ~ StartsWithClass(source)
      /\ current \in SubroutineStart => OnCourse(source, p, Subroutine \o (<<Body("classBody", TRUE)>> \o Rest))
      /\ current \notin RcurlOrEof \cup ClassMemberStart => ~ StartsWithClass(source)
  BY <1>1, <1>2, <1>3, ClassBodyStep
<1>5. CASE ClassBodyEnds
  <2>1. Continue(Rest) /\ current \in RcurlOrEof
    BY <1>5 DEF ClassBodyEnds
  <2> QED
    BY <1>1, <1>4, <2>1, Further
<1>6. CASE ClassMember /\ current = "classVar"
  <2>1. todo' = VarDec("classVar") \o todo /\ hadError' = (hadError \/ Now.seen) /\ ~ panic'
    BY <1>2, <1>6 DEF ClassMember
  <2>2. CASE Now.seen
    BY <1>4, <1>6, <2>1, <2>2 DEF Outcome
  <2>3. CASE ~ Now.seen
    <3>1. ~ hadError' /\ OnCourse(source, p, VarDec("classVar") \o todo)
      BY <1>2, <1>4, <1>6, <2>1, <2>3
    <3> QED
      BY <1>1, <2>1, <3>1, Reached
  <2> QED
    BY <2>2, <2>3
<1>7. CASE ClassMember /\ current # "classVar"
  <2>1. todo' = Subroutine \o <<Body("classBody", TRUE)>> \o Rest /\ ~ hadError' /\ ~ panic' /\
        current \in SubroutineStart
    BY <1>2, <1>7 DEF ClassMember, ClassMemberStart
  <2>2. PICK x \in Seq(Items), y \in Seq(Items) : x = Subroutine /\ y = <<Body("classBody", TRUE)>>
    <3>1. <<Body("classBody", TRUE)>> \in Seq(Items)
      BY ItemForms, Tuples
    <3> QED
      BY <3>1, SubroutinePlaced
  <2>3. (x \o y) \o Rest = x \o (y \o Rest)
    BY <1>2, Concats
  <2>4. PICK n : n = x \o (y \o Rest)
    OBVIOUS
  <2>5. todo' = n
    BY <2>1, <2>2, <2>3, <2>4, Zenon
  <2>6. OnCourse(source, p, n)
    BY <1>4, <2>1, <2>2, <2>4
  <2> QED
    BY <1>1, <2>1, <2>5, <2>6, Reached
<1>8. CASE ClassBodyError
  <2>1. ~ StartsWithClass(source) /\ ~ hadError'
    BY <1>2, <1>4, <1>8 DEF ClassBodyError, Continue
  <2>2. PICK a \in Items, b \in Items : a = Simple("sync") /\ b = Simple("skipBrace") /\ a.do = "sync"
    BY Forms, ListForms DEF Simple
  <2>3. todo' = <<a, b>> \o todo
    BY <1>8, <2>2 DEF ClassBodyError, Continue
  <2>4. <<a, b>> \o todo = <<a>> \o (<<b>> \o todo)
    <3>1. \A c, d : <<c, d>> \o todo = <<c>> \o (<<d>> \o todo)
      BY <1>2, InFront
    <3> QED
      BY <3>1, Zenon
  <2>5. todo' # <<>> /\ Head(todo') = a
    <3>1. PICK t \in Seq(Items) : t = <<b>> \o todo
      BY <1>2, Fronted
    <3> QED
      BY <2>3, <2>4, <3>1, Fronted
  <2> QED
    BY <2>1, <2>2, <2>5 DEF Outcome
<1> QED
  BY <1>5, <1>6, <1>7, <1>8

(* The step that skips to where parsing may go on, after an error. *)
LEMMA Synchronizes ==
  ASSUME NEW p, OnTheWay(p), Synchronize, ~ StartsWithClass(source)
  PROVE  Outcome
<1>1. PICK a \in Items : a = Simple("sync") /\ a.do = "sync"
  BY ListForms DEF Simple
<1>2. todo \in Seq(Items) /\ ~ hadError
  BY DEF OnTheWay, PInv
<1>3. todo' = <<a>> \o todo /\ ~ hadError'
  BY <1>1, <1>2 DEF Synchronize, Continue
<1>4. todo' # <<>> /\ Head(todo') = a
  BY <1>1, <1>2, <1>3, Fronted
<1> QED
  BY <1>1, <1>3, <1>4 DEF Outcome

(* The steps of a subroutine's body. *)
LEMMA SubBodyCourse ==
  ASSUME NEW p, OnTheWay(p), SubBodyEnds \/ SubMember \/ SubBodyError
  PROVE  Outcome
<1>1. todo # <<>> /\ Now.do = "subBody" /\ Stay
  BY DEF SubBodyEnds, SubMember, SubBodyError, Synchronize, Doing
<1>2. /\ current = Word(source, p) /\ p \in Nat /\ Rest \in Seq(Items) /\ todo \in Seq(Items)
      /\ ~ panic /\ ~ hadError
  BY <1>1, NowOnTop DEF OnTheWay
<1>3. PICK Y : /\ Top(source, p, Now, Rest, Y)
               /\ ~ Behind(Now) => Settled(source, todo, Meaning(Now, Y))
               /\ Behind(Now) => current \notin StatementStart
  BY <1>1, NowOnTop
<1>4. /\ current \in RcurlOrEof \cup ClassMemberStart => OnCourse(source, p, Rest)
      /\ current = "var" /\ ~ Now.seen => OnCourse(source, p, VarDec("var") \o todo)
      /\ current = "var" /\ Now.seen => ~ StartsWithClass(source)
      /\ current \in StatementStart => OnCourse(source, p, Statements \o (<<Body("subBody", TRUE)>> \o Rest))
      /\ current \notin RcurlOrEof \cup ClassMemberStart \cup StatementStart \cup {"var"} => ~ StartsWithClass(source)
  <2>1. /\ ~ Now.seen => Settled(source, todo, Meaning(Now, Y))
        /\ Now.seen => current \notin StatementStart
    BY <1>1, <1>3 DEF Behind
  <2> QED
    BY <1>1, <1>2, <1>3, <2>1, SubBodyStep
<1>5. CASE SubBodyEnds
  <2>1. Continue(Rest) /\ current \in RcurlOrEof \cup ClassMemberStart
    BY <1>5 DEF SubBodyEnds
  <2> QED
    BY <1>1, <1>4, <2>1, Further
<1>6. CASE SubMember /\ current = "var"
  <2>1. todo' = VarDec("var") \o todo /\ hadError' = (hadError \/ Now.seen) /\ ~ panic'
    BY <1>2, <1>6 DEF SubMember
  <2>2. CASE Now.seen
    BY <1>4, <1>6, <2>1, <2>2 DEF Outcome
  <2>3. CASE ~ Now.seen
    <3>1. ~ hadError' /\ OnCourse(source, p, VarDec("var") \o todo)
      BY <1>2, <1>4, <1>6, <2>1, <2>3
    <3> QED
      BY <1>1, <2>1, <3>1, Reached
  <2> QED
    BY <2>2, <2>3
<1>7. CASE SubMember /\ current # "var"
  <2>1. todo' = Statements \o <<Body("subBody", TRUE)>> \o Rest /\ ~ hadError' /\ ~ panic' /\
        current \in StatementStart
    BY <1>2, <1>7 DEF SubMember
  <2>2. PICK x \in Seq(Items), y \in Seq(Items) : x = Statements /\ y = <<Body("subBody", TRUE)>>
    <3>1. <<Body("subBody", TRUE)>> \in Seq(Items)
      BY ItemForms, Tuples
    <3>2. Statements \in Seq(Items)
      <4>1. Single \subseteq Items
        BY Forms
      <4> QED
        BY <4>1, Pieces, SeqMonotonic
    <3> QED
      BY <3>1, <3>2
  <2>3. (x \o y) \o Rest = x \o (y \o Rest)
    BY <1>2, Concats
  <2>4. PICK n : n = x \o (y \o Rest)
    OBVIOUS
  <2>5. todo' = n
    BY <2>1, <2>2, <2>3, <2>4, Zenon
  <2>6. OnCourse(source, p, n)
    BY <1>4, <2>1, <2>2, <2>4
  <2> QED
    BY <1>1, <2>1, <2>5, <2>6, Reached
<1>8. CASE SubBodyError
  <2>1. ~ StartsWithClass(source) /\ Synchronize
    BY <1>2, <1>4, <1>8 DEF SubBodyError
  <2> QED
    BY <2>1, Synchronizes
<1> QED
  BY <1>5, <1>6, <1>7, <1>8

(* The steps of a list of statements. *)
LEMMA StatementsCourse ==
  ASSUME NEW p, OnTheWay(p), StatementsEnd \/ StatementsReturn \/ OneStatement \/ StatementError
  PROVE  Outcome
<1>1. todo # <<>> /\ Now.do = "statements" /\ ~ Behind(Now)
  BY DEF StatementsEnd, StatementsReturn, OneStatement, StatementError, Synchronize, Doing, Behind
<1>2. current = Word(source, p) /\ p \in Nat /\ Rest \in Seq(Items) /\ ~ panic
  BY <1>1, NowOnTop DEF OnTheWay
<1>3. PICK Y \in Rests :
        /\ Laid(source, Rest, Y) /\ Fits(source, Now, Y)
        /\ StartsWithClass(source) <=> p \in Places(source, Meaning(Now, Y))
        /\ Rest # <<>> => Pair(Now, Head(Rest))
        /\ Settled(source, todo, Meaning(Now, Y))
  BY <1>1, NowOnTop
<1>4. /\ current \notin StatementStart => OnCourse(source, p, Rest)
      /\ current \in StatementStart => OnCourse(source, p, Statement(current) \o todo)
  BY <1>1, <1>2, <1>3, StatementsStep
<1>5. CASE StatementsEnd \/ StatementsReturn
  <2>1. Continue(Rest) /\ Stay /\ current \notin StatementStart
    BY <1>5 DEF StatementsEnd, StatementsReturn, RcurlOrEof, StatementStart
  <2> QED
    BY <1>4, <2>1, Further
<1>6. CASE OneStatement
  <2>1. PICK n : n = Statement(current) \o todo
    OBVIOUS
  <2>2. Continue(n) /\ Stay /\ current \in StatementStart
    BY <1>6, <2>1 DEF OneStatement
  <2> QED
    BY <1>4, <2>1, <2>2, Further
<1>7. ~ StatementError
  BY <1>2 DEF StatementError
<1> QED
  BY <1>5, <1>6, <1>7

(* The loop of a list of variables *)
LEMMA VariablesCourse ==
  ASSUME NEW p, OnTheWay(p), VariablesEnd \/ OneVariable \/ VariableError
  PROVE  Outcome
<1>1. todo # <<>> /\ Now.do = "variables"
  BY DEF VariablesEnd, OneVariable, VariableError, Synchronize, Doing
<1>2. current = Word(source, p) /\ p \in Nat /\ Now \in Items /\ ~ panic /\ ~ hadError
  BY <1>1, NowOnTop DEF OnTheWay
<1>3. PICK Y : Top(source, p, Now, Rest, Y) /\ ~ Uncounted(Now)
  BY <1>1, NowOnTop
<1>4. Now \in ListLoops
  BY <1>1, <1>2, ItemKinds
<1>5. VariablesDone <=> current \in RcurlOrEof \cup ClassMemberStart \cup {Now.end}
  BY DEF VariablesDone
<1>6. /\ VariablesDone /\ Now.end = ";" /\ ~ Now.any => ~ StartsWithClass(source)
      /\ VariablesDone /\ ~ (Now.end = ";" /\ ~ Now.any) => OnCourse(source, p, Rest)
      /\ ~ VariablesDone => OnCourse(source, p, Round(Now) \o Rest)
  BY <1>2, <1>3, <1>4, <1>5, VariablesStep
<1>7. CASE VariablesEnd
  <2>1. VariablesDone /\ hadError' = (hadError \/ (Now.end = ";" /\ ~ Now.any)) /\ todo' = Rest /\ Stay /\ ~ panic'
    BY <1>2, <1>7 DEF VariablesEnd
  <2>2. CASE Now.end = ";" /\ ~ Now.any
    BY <1>6, <2>1, <2>2 DEF Outcome
  <2>3. CASE ~ (Now.end = ";" /\ ~ Now.any)
    <3>1. ~ hadError' /\ OnCourse(source, p, Rest)
      BY <1>2, <1>6, <2>1, <2>3
    <3> QED
      BY <2>1, <3>1, Reached
  <2> QED
    BY <2>2, <2>3
<1>8. CASE OneVariable
  <2>1. PICK n : n = Round(Now) \o Rest
    OBVIOUS
  <2>2. Continue(n) /\ Stay /\ ~ VariablesDone
    BY <1>8, <2>1 DEF OneVariable, Variable, Round
  <2> QED
    BY <1>6, <2>1, <2>2, Further
<1>9. ~ VariableError
  BY <1>2 DEF VariableError
<1> QED
  BY <1>7, <1>8, <1>9

(* No error, no synchronisation *)
LEMMA OnlyForward ==
  ASSUME NEW p, OnTheWay(p), SyncSkip \/ SyncDone \/ SkipBrace
  PROVE  FALSE
<1>1. todo # <<>> /\ Now.do \in {"sync", "skipBrace"}
  BY DEF SyncSkip, SyncDone, SkipBrace, Doing
<1>2. PICK Y \in Rests : Fits(source, Now, Y)
  BY <1>1, NowOnTop
<1> QED
  BY <1>1, <1>2 DEF Fits, Loops

-----------------------------------------------------------------------------
(* The grammar *)

(* An error, or a synchronisation on the way to one, tells that the source is *)
(* no class; otherwise the parser is on its way.                           *)
Grammatical ==
  source # <<>> =>
    \/ hadError /\ ~ StartsWithClass(source)
    \/ ~ hadError /\ todo # <<>> /\ Head(todo).do = "sync" /\ ~ StartsWithClass(source)
    \/ ~ hadError /\ ~ panic /\ \E p \in Nat : At(source, current, ahead, p) /\ OnCourse(source, p, todo)

(* The first word is the source's, and the class is all there is to read. *)
LEMMA StartsGrammatical == Init => Grammatical
<1> SUFFICES ASSUME Init, source # <<>> PROVE Grammatical
  BY DEF Grammatical
<1>1. /\ source \in Seq(Words) /\ ahead = Tail(source) /\ current = Head(source) /\ todo = Class
      /\ ~ panic /\ ~ hadError
  BY ParserAssumption DEF Init, AnyInput
<1>2. /\ ahead \in Seq(Words) /\ Len(ahead) = Len(source) - 1 /\ Len(source) \in Nat \ {0} /\ current = source[1]
      /\ \A k \in 1..Len(ahead) : ahead[k] = source[k + 1]
  BY <1>1, HeadTailProperties, EmptySeq
<1>3. DOMAIN source = 1..Len(source) /\ DOMAIN ahead = 1..Len(ahead)
  BY <1>1, <1>2
<1>4. At(source, current, ahead, 1)
  <2>1. current = Word(source, 1)
    <3>1. 1 \in DOMAIN source
      BY <1>2, <1>3
    <3> QED
      BY <1>2, <3>1 DEF Word
  <2>2. ASSUME NEW k \in Nat \ {0} PROVE Word(ahead, k) = Word(source, 1 + k)
    <3>1. k \in DOMAIN ahead <=> 1 + k \in DOMAIN source
      BY <1>2, <1>3
    <3>2. k \in DOMAIN ahead => ahead[k] = source[1 + k]
      BY <1>2, <1>3
    <3> QED
      BY <3>1, <3>2 DEF Word
  <2> QED
    BY <1>2, <2>1, <2>2 DEF At
<1>5. Reads(source, Class, Then("Class", {<<>>}))
  BY ClassLaid
<1>6. StartsWithClass(source) <=> 1 \in Places(source, Then("Class", {<<>>}))
  <2>1. <<"Class">> \o <<>> = <<"Class">>
    OBVIOUS
  <2>2. \A s : s \in Then("Class", {<<>>}) <=> s = <<"Class">>
    BY <2>1, Zenon DEF Then, Put
  <2> QED
    BY <2>2 DEF Places, StartsWithClass
<1>7. OnCourse(source, 1, todo)
  BY <1>1, <1>5, <1>6, CourseRead
<1> QED
  BY <1>1, <1>4, <1>7 DEF Grammatical

(* Every step keeps it. *)
LEMMA StaysGrammatical == PInv /\ Grammatical /\ [Next]_vars => Grammatical'
<1> SUFFICES ASSUME PInv, Grammatical, [Next]_vars, source' # <<>> PROVE Grammatical'
  BY DEF Grammatical
<1>1. source' = source /\ source # <<>>
  BY DEF Next, Step, Finished, vars, DoExpect, DoType, DoOptional, DoPush, DoPop, DoEnter, DoValue,
         DoExpression, DoInfix, DoTerm, DoNamed, DoArguments, SyncSkip, SyncDone, SkipBrace, ClassBodyEnds,
         ClassMember, ClassBodyError, SubBodyEnds, SubMember, SubBodyError, StatementsEnd, StatementsReturn,
         OneStatement, StatementError, VariablesEnd, OneVariable, Declared, VariableError, Synchronize
<1>2. Outcome => Grammatical'
  BY <1>1 DEF Outcome, Grammatical
<1>3. CASE Finished \/ UNCHANGED vars
  <2>1. UNCHANGED <<source, ahead, current, todo, panic, hadError>>
    BY <1>3 DEF Finished, vars
  <2> QED
    BY <1>1, <2>1 DEF Grammatical
<1>4. CASE Step /\ hadError /\ ~ StartsWithClass(source)
  <2>1. hadError'
    BY <1>4 DEF Step, Continue, Panic, DoExpect, DoType, DoOptional, DoPush, DoPop, DoEnter, DoValue,
         DoExpression, DoInfix, DoTerm, DoNamed, DoArguments, SyncSkip, SyncDone, SkipBrace, ClassBodyEnds,
         ClassMember, ClassBodyError, SubBodyEnds, SubMember, SubBodyError, StatementsEnd, StatementsReturn,
         OneStatement, StatementError, VariablesEnd, OneVariable, Declared, VariableError, Synchronize
  <2> QED
    BY <1>2, <1>4, <2>1 DEF Outcome
<1>5. CASE Step /\ ~ hadError /\ todo # <<>> /\ Head(todo).do = "sync" /\ ~ StartsWithClass(source)
  <2>1. Now.do = "sync"
    BY <1>5 DEF Now
  <2>2. SyncSkip \/ SyncDone
    BY <1>5, <2>1 DEF Step, Doing, DoExpect, DoType, DoOptional, DoPush, DoPop, DoEnter, DoValue,
         DoExpression, DoInfix, DoTerm, DoNamed, DoArguments, SkipBrace, ClassBodyEnds,
         ClassMember, ClassBodyError, SubBodyEnds, SubMember, SubBodyError, StatementsEnd, StatementsReturn,
         OneStatement, StatementError, VariablesEnd, OneVariable, Declared, VariableError
  <2>3. CASE SyncSkip
    <3>1. todo' = todo /\ hadError' = hadError
      BY <2>3 DEF SyncSkip, Continue
    <3> QED
      BY <1>2, <1>5, <3>1 DEF Outcome
  <2>4. CASE SyncDone
    <3>1. hadError'
      BY <2>4 DEF SyncDone
    <3> QED
      BY <1>2, <1>5, <3>1 DEF Outcome
  <2> QED
    BY <2>2, <2>3, <2>4
<1>6. ASSUME Step, NEW p, OnTheWay(p) PROVE Grammatical'
  <2>1. Outcome
    BY <1>6, WordCourse, ExpressionCourse, TermCourse, OtherCourse, ClassBodyCourse, SubBodyCourse,
       StatementsCourse, VariablesCourse, OnlyForward DEF Step
  <2> QED
    BY <1>2, <2>1
<1>7. \/ hadError /\ ~ StartsWithClass(source)
      \/ ~ hadError /\ todo # <<>> /\ Head(todo).do = "sync" /\ ~ StartsWithClass(source)
      \/ \E p : OnTheWay(p)
  BY <1>1 DEF Grammatical, OnTheWay
<1> QED
  BY <1>3, <1>4, <1>5, <1>6, <1>7 DEF Next

(* Whatever the input, the parser has reported an error exactly if it does   *)
(* not start with a class that the grammar derives: one word ahead is enough *)
(* for every choice the routines make, and no class is turned down.        *)
THEOREM AcceptsTheGrammar == Spec => []AcceptsExactlyGrammar
<1>1. Init => PInv /\ Grammatical
  BY Begins, StartsGrammatical
<1>2. PInv /\ Grammatical /\ [Next]_vars => (PInv /\ Grammatical)'
  BY Steps, StaysGrammatical
<1>3. Grammatical => AcceptsExactlyGrammar
  <2> SUFFICES ASSUME Grammatical, Over, ~ AnyInput
               PROVE  StartsWithClass(source) <=> ~ hadError /\ ~ panic
    BY DEF AcceptsExactlyGrammar
  <2>1. source # <<>> /\ todo = <<>>
    BY DEF AnyInput, Over
  <2>2. CASE hadError /\ ~ StartsWithClass(source)
    BY <2>2
  <2>3. CASE ~ hadError /\ ~ panic /\ \E p \in Nat : At(source, current, ahead, p) /\ OnCourse(source, p, todo)
    <3>1. PICK p \in Nat : OnCourse(source, p, todo)
      BY <2>3
    <3>2. StartsWithClass(source) <=> p \in Places(source, {<<>>})
      BY <2>1, <3>1, LaidNothing DEF OnCourse
    <3>3. p \in Places(source, {<<>>})
      <4>1. <<<<>>, p>> \in Goals
        <5>1. PICK e \in Seq(Symbols) : e = <<>>
          BY EmptySeq
        <5>2. <<e, p>> \in Goals
          BY DEF Goals
        <5> QED
          BY <5>1, <5>2
      <4>2. Derived(source)[<<<<>>, p>>]
        BY <4>1, DerivedIs DEF DerivedAt
      <4> QED
        BY <4>2 DEF Places
    <3> QED
      BY <2>3, <3>2, <3>3
  <2> QED
    BY <2>1, <2>2, <2>3 DEF Grammatical
<1> QED
  BY <1>1, <1>2, <1>3, PTL DEF Spec
=============================================================================
