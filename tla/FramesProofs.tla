---------------------------- MODULE FramesProofs ----------------------------
(***************************************************************************)
(* For every program, stack and direction of growth: the frames on the      *)
(* stack follow one another without a gap, and the emitted code implements   *)
(* the stack of activations that VM commands mean.                          *)
(***************************************************************************)
EXTENDS FrameRefinement, SequenceTheorems, WellFoundedInduction, TLAPS

(* A set that holds 0, and the successor of every number it holds, holds      *)
(* every number.                                                            *)
LEMMA SetInduction ==
  ASSUME NEW S, 0 \in S, \A n \in Nat : n \in S => n + 1 \in S
  PROVE  Nat \subseteq S
<1> DEFINE T == Nat \ S
<1>1. SUFFICES ASSUME T # {} PROVE FALSE
  OBVIOUS
<1>2. PICK x \in T : \A y \in T : ~ (<<y, x>> \in OpToRel(<, Nat))
  BY <1>1, WFMin, NatLessThanWellFounded
<1>3. \A y \in T : ~ (y < x)
  BY <1>2 DEF OpToRel
<1>4. x # 0 /\ x \in Nat /\ x \notin S
  OBVIOUS
<1>5. x - 1 \in Nat /\ x - 1 < x /\ (x - 1) + 1 = x
  BY <1>4
<1>6. x - 1 \in S
  BY <1>3, <1>5
<1>7. x \in S
  BY <1>5, <1>6
<1> QED
  BY <1>4, <1>7

(* How far an address is from the bottom of the stack, either way it grows. *)
Depth(a) == FrameOffset(Bottom - a)

LEMMA BottomExists ==
  ASSUME program \in Programs
  PROVE  Bottom \in StackCells /\ \A b \in StackCells : FrameOffset(Bottom - b) >= 0
<1>0. StackCells \subseteq Nat
  BY FrameAssumption DEF StackCells
<1>1. PICK first \in StackCells, last \in StackCells : first < last /\ StackCells = first..last
  BY FrameAssumption DEF StackCells
<1>2. \E a \in StackCells : \A b \in StackCells : FrameOffset(a - b) >= 0
  <2>1. CASE program.up
    <3>1. \A b \in StackCells : FrameOffset(first - b) >= 0
      BY <1>0, <1>1, <2>1 DEF FrameOffset
    <3> QED
      BY <1>1, <3>1
  <2>2. CASE ~program.up
    <3>1. \A b \in StackCells : FrameOffset(last - b) >= 0
      BY <1>0, <1>1, <2>2 DEF FrameOffset
    <3> QED
      BY <1>1, <3>1
  <2> QED
    BY <2>1, <2>2
<1> QED
  BY <1>2 DEF Bottom

(* The stack, measured from its bottom. *)
LEMMA Depths ==
  ASSUME program \in Programs
  PROVE  /\ Bottom \in StackCells /\ StackCells \subseteq Nat
         /\ \A a \in Int : Depth(a) \in Int
         /\ \A a, i \in Int : Slot(a, i) \in Int /\ Depth(Slot(a, i)) = Depth(a) - i
         /\ \A a, b \in Int : Depth(a) = Depth(b) => a = b
         /\ \A a, b \in Int : FrameOffset(a - b) = Depth(b) - Depth(a)
         /\ \A a \in StackCells : Depth(a) \in 0..5 * MaxFrames
         /\ \A a \in Int, b \in StackCells : Depth(a) \in 0..Depth(b) => a \in StackCells
         /\ Depth(Bottom) = 0
<1>0. StackCells \subseteq Nat
  BY FrameAssumption DEF StackCells
<1>1. PICK first \in StackCells, last \in StackCells : first < last /\ StackCells = first..last
  BY FrameAssumption DEF StackCells
<1>2. Bottom \in StackCells /\ \A b \in StackCells : FrameOffset(Bottom - b) >= 0
  BY BottomExists
<1>3. Bottom = IF program.up THEN first ELSE last
  BY <1>0, <1>1, <1>2 DEF FrameOffset
<1>4. last - first <= 5 * MaxFrames /\ MaxFrames \in Nat
  BY <1>1, RoomAssumption DEF StackCells
<1> HIDE DEF Bottom, StackCells
<1>5. first \in Nat /\ last \in Nat /\ Bottom \in StackCells
  BY <1>0, <1>1, <1>2
<1>6. \A a \in Int : Depth(a) = IF program.up THEN a - first ELSE last - a
  BY <1>3, <1>5 DEF Depth, FrameOffset
<1>7. \A a, i \in Int : Slot(a, i) = IF program.up THEN a - i ELSE a + i
  BY DEF Slot, FrameOffset
<1>8. \A a, b \in Int : FrameOffset(a - b) = IF program.up THEN b - a ELSE a - b
  BY DEF FrameOffset
<1>9. \A a \in Int : a \in StackCells <=> first <= a /\ a <= last
  BY <1>1, <1>5
<1> HIDE DEF Depth, Slot, FrameOffset
<1> DEFINE room == 5 * MaxFrames
<1>10. room \in Int /\ last - first <= room
  BY <1>4
<1> HIDE DEF room
<1>11. \A a \in Int : Depth(a) \in Int
  BY <1>5, <1>6
<1>12. \A a, i \in Int : Slot(a, i) \in Int /\ Depth(Slot(a, i)) = Depth(a) - i
  <2> SUFFICES ASSUME NEW a \in Int, NEW i \in Int
               PROVE Slot(a, i) \in Int /\ Depth(Slot(a, i)) = Depth(a) - i
    OBVIOUS
  <2>1. Slot(a, i) \in Int
    BY <1>7
  <2> QED
    BY <1>5, <1>6, <1>7, <2>1
<1>13. \A a, b \in Int : Depth(a) = Depth(b) => a = b
  BY <1>5, <1>6
<1>14. \A a, b \in Int : FrameOffset(a - b) = Depth(b) - Depth(a)
  BY <1>5, <1>6, <1>8
<1>15. \A a \in StackCells : Depth(a) \in 0..room
  BY <1>0, <1>5, <1>6, <1>9, <1>10
<1>16. \A a \in Int, b \in StackCells : Depth(a) \in 0..Depth(b) => a \in StackCells
  BY <1>0, <1>5, <1>6, <1>9
<1>17. Depth(Bottom) = 0
  BY <1>0, <1>3, <1>5, <1>6
<1> QED
  BY <1>0, <1>2, <1>11, <1>12, <1>13, <1>14, <1>15, <1>16, <1>17 DEF room

-----------------------------------------------------------------------------
(* The inductive invariant *)

Register == [fn : Functions, sp : Int, lcl : Int, arg : Int, this : Words, that : Words, ra : Int]

(* Where the registers saved below a function's locals end. *)
Base(r) == Slot(r.lcl, NLocals[r.fn])

(* fr are the registers of the n functions under way, the running one last: *)
(* what the machine would restore, one after the other.                    *)
Layout(n, fr) ==
  /\ n \in Nat \ {0} /\ fr \in [1..n -> Register]
  /\ \A k \in 1..n : Depth(fr[k].lcl) <= Depth(fr[k].sp)
  /\ fr[1].ra = Halt /\ Depth(Base(fr[1])) = 1 /\ fr[1].arg = Base(fr[1])
  /\ \A k \in 2..n : /\ fr[k].ra \in Calls /\ fr[k - 1] = CallerOf(fr[k])
                     /\ ArgsOf(fr[k]) > 0 => fr[k].arg = Slot(Base(fr[k]), SlotCount)

(* What the callee finds between the jump to it and its first line. *)
Entered ==
  /\ fn = Line.to /\ this = Current.this /\ that = Current.that
  /\ Line.n > 0 => arg = Slot(sp, SlotCount)

Typed ==
  /\ program \in Programs
  /\ phase \in {"enter", "run", "return", "halted"}
  /\ fn \in Functions /\ sp \in StackCells
  /\ {lcl, arg, this, that, ra, a0} \subseteq Words
  /\ mem \in [Cells \cup Stack(sp) -> Words]

FInv ==
  /\ Typed
  /\ ra \in Calls \cup {Halt}
  /\ Started => \E n, fr : Layout(n, fr) /\ fr[n] = Current
  /\ phase = "return" => ra # Halt
  /\ phase = "enter" => IF ra = Halt THEN fn = Entry /\ Depth(sp) = 1 /\ arg = sp ELSE Entered

-----------------------------------------------------------------------------
(* Frames lie one behind the other. *)

LEMMA CallLineTyped ==
  ASSUME NEW r \in Calls
  PROVE  /\ CallLines[r - CodeBase] \in [in : Functions, to : Functions, n : Nat]
         /\ r - CodeBase \in DOMAIN CallLines /\ r \in Int /\ r # Halt
<1>1. PICK k \in DOMAIN CallLines : r = CodeBase + k
  BY DEF Calls
<1>2. CodeBase \in Nat /\ CallLines \in Seq([in : Functions, to : Functions, n : Nat])
  BY FrameAssumption DEF VM!MachineAssumption
<1>3. k \in 1..Len(CallLines) /\ r - CodeBase = k
  BY <1>1, <1>2
<1>4. CallLines[k] \in [in : Functions, to : Functions, n : Nat]
  BY <1>2, <1>3, ElementOfSeq
<1>5. r \in Int /\ r # Halt
  BY <1>1, <1>2, <1>3 DEF Halt
<1> QED
  BY <1>1, <1>3, <1>4, <1>5

LEMMA LocalsTyped ==
  ASSUME NEW f \in Functions
  PROVE  NLocals[f] \in Nat
BY FrameAssumption DEF VM!MachineAssumption

LEMMA BaseDepth ==
  ASSUME program \in Programs, NEW r \in Register
  PROVE  /\ Base(r) \in Int /\ Depth(Base(r)) = Depth(r.lcl) - NLocals[r.fn]
         /\ NLocals[r.fn] \in Nat /\ Depth(r.lcl) \in Int /\ Depth(r.sp) \in Int
<1>1. r.lcl \in Int /\ r.sp \in Int /\ r.fn \in Functions
  BY DEF Register
<1>2. NLocals[r.fn] \in Nat
  BY <1>1, LocalsTyped
<1>3. \A a \in Int : Depth(a) \in Int
  BY Depths
<1>4. \A a, i \in Int : Slot(a, i) \in Int /\ Depth(Slot(a, i)) = Depth(a) - i
  BY Depths
<1>5. Base(r) \in Int /\ Depth(Base(r)) = Depth(r.lcl) - NLocals[r.fn]
  <2>1. NLocals[r.fn] \in Int
    BY <1>2
  <2> QED
    BY <1>1, <2>1, <1>4 DEF Base
<1> QED
  BY <1>1, <1>2, <1>3, <1>5

LEMMA ArgsTyped ==
  ASSUME NEW r \in Register, r.ra \in Calls \cup {Halt}
  PROVE  ArgsOf(r) \in Nat
BY CallLineTyped DEF ArgsOf

(* The caller's frame ends where the arguments start. *)
LEMMA CallerDepth ==
  ASSUME program \in Programs, NEW n, NEW fr, Layout(n, fr), NEW k \in 2..n
  PROVE  /\ Depth(fr[k - 1].sp) = Depth(Base(fr[k])) - SlotCount - ArgsOf(fr[k])
         /\ Depth(Base(fr[k - 1])) <= Depth(fr[k - 1].sp)
         /\ ArgsOf(fr[k]) \in Nat
<1>1. /\ fr[k] \in Register /\ fr[k - 1] \in Register /\ fr[k].ra \in Calls /\ fr[k - 1] = CallerOf(fr[k])
      /\ Depth(fr[k - 1].lcl) <= Depth(fr[k - 1].sp)
  BY DEF Layout
<1>2. ArgsOf(fr[k]) \in Nat /\ ArgsOf(fr[k]) = CallLines[fr[k].ra - CodeBase].n
  BY <1>1, ArgsTyped, CallLineTyped DEF ArgsOf
<1>3. fr[k - 1].sp = Slot(Base(fr[k]), SlotCount + ArgsOf(fr[k]))
  BY <1>1, <1>2 DEF CallerOf, Caller, Registers, Base
<1>4. Depth(fr[k - 1].sp) = Depth(Base(fr[k])) - (SlotCount + ArgsOf(fr[k]))
  <2>1. Base(fr[k]) \in Int /\ SlotCount + ArgsOf(fr[k]) \in Int
    BY <1>1, <1>2, BaseDepth DEF SlotCount
  <2> QED
    BY <1>3, <2>1, Depths
<1>5. Depth(Base(fr[k - 1])) <= Depth(fr[k - 1].sp)
  BY <1>1, BaseDepth
<1> QED
  BY <1>1, <1>2, <1>4, <1>5, BaseDepth DEF SlotCount

LEMMA BasesGrow ==
  ASSUME program \in Programs, NEW n, NEW fr, Layout(n, fr), NEW k \in 1..n
  PROVE  \A i \in 1..k : Depth(Base(fr[i])) + 5 * (k - i) <= Depth(Base(fr[k]))
<1> DEFINE B(i) == Depth(Base(fr[i]))
           S == {m \in Nat : m < k => B(k - m) + 5 * m <= B(k)}
<1>1. n \in Nat /\ \A i \in 1..n : B(i) \in Int
  <2>1. n \in Nat /\ \A i \in 1..n : fr[i] \in Register
    BY DEF Layout
  <2>2. \A r \in Register : Depth(Base(r)) \in Int
    BY BaseDepth, Depths
  <2> QED
    BY <2>1, <2>2
<1>2. 0 \in S
  BY <1>1
<1>3. ASSUME NEW m \in Nat, m \in S PROVE m + 1 \in S
  <2>1. SUFFICES ASSUME m + 1 < k PROVE B(k - (m + 1)) + 5 * (m + 1) <= B(k)
    OBVIOUS
  <2>2. k - m \in 2..n /\ k - (m + 1) = (k - m) - 1 /\ k - m \in 1..n /\ k - (m + 1) \in 1..n
    BY <1>1, <2>1
  <2>3. B(k - m) + 5 * m <= B(k)
    BY <1>3, <2>1
  <2> DEFINE a == k - m
  <2>4. /\ Depth(fr[a - 1].sp) = B(a) - 5 - ArgsOf(fr[a])
        /\ B(a - 1) <= Depth(fr[a - 1].sp) /\ ArgsOf(fr[a]) \in Nat
    <3>1. a \in 2..n
      BY <2>2
    <3> HIDE DEF a
    <3> QED
      BY <3>1, CallerDepth DEF SlotCount
  <2>5. B(a - 1) + 5 <= B(a)
    BY <1>1, <2>2, <2>4
  <2> QED
    BY <1>1, <2>2, <2>3, <2>5
<1>4. Nat \subseteq S
  <2> HIDE DEF S
  <2> QED
    BY <1>2, <1>3, SetInduction
<1>5. ASSUME NEW i \in 1..k PROVE B(i) + 5 * (k - i) <= B(k)
  <2>1. k - i \in Nat /\ k - i < k /\ k - (k - i) = i
    BY <1>1
  <2> QED
    BY <1>4, <2>1
<1> QED
  BY <1>5

(* The words of the functions below the running one: their frames, and what *)
(* was saved of the last of them.  The arguments are between the two.       *)
Owned(n, fr) ==
  {a \in StackCells :
     /\ n > 1 /\ Depth(a) <= Depth(Base(fr[n]))
     /\ Depth(a) <= Depth(fr[n - 1].sp) \/ Depth(a) > Depth(Base(fr[n])) - SlotCount}

LEMMA SavedOwned ==
  ASSUME program \in Programs, NEW n, NEW fr, Layout(n, fr), NEW k \in 2..n, NEW i \in 0..4,
         NEW b \in StackCells, Depth(Base(fr[n])) <= Depth(b)
  PROVE  Slot(Base(fr[k]), i) \in Owned(n, fr)
<1>1. /\ n \in Nat /\ n > 1 /\ 1 \in 1..k /\ k \in 1..n /\ n \in 1..n /\ n \in 2..n /\ k >= 2
      /\ \A j \in 1..n : fr[j] \in Register
  BY DEF Layout
<1>2. /\ \A j \in 1..n : Base(fr[j]) \in Int /\ Depth(Base(fr[j])) \in Int
      /\ Depth(Base(fr[1])) = 1 /\ Depth(b) \in Int /\ b \in Int
  <2>1. \A r \in Register : Base(r) \in Int /\ Depth(Base(r)) \in Int
    BY BaseDepth, Depths
  <2>2. b \in Int
    BY Depths
  <2> QED
    BY <1>1, <2>1, <2>2, Depths DEF Layout
<1> DEFINE a == Slot(Base(fr[k]), i)
<1>3. a \in Int /\ Depth(a) = Depth(Base(fr[k])) - i
  <2>1. i \in Int /\ Base(fr[k]) \in Int
    BY <1>1, <1>2
  <2> QED
    BY <2>1, Depths
<1>4. 6 <= Depth(Base(fr[k]))
  <2>1. Depth(Base(fr[1])) + 5 * (k - 1) <= Depth(Base(fr[k]))
    BY <1>1, BasesGrow
  <2> QED
    BY <1>1, <1>2, <2>1
<1>5. Depth(Base(fr[k])) <= Depth(Base(fr[n]))
  <2>1. Depth(Base(fr[k])) + 5 * (n - k) <= Depth(Base(fr[n]))
    BY <1>1, BasesGrow
  <2> QED
    BY <1>1, <1>2, <2>1
<1> HIDE DEF a
<1>6. a \in StackCells
  <2>1. Depth(a) \in 0..Depth(b)
    BY <1>1, <1>2, <1>3, <1>4, <1>5
  <2> QED
    BY <1>3, <2>1, Depths
<1>7. CASE k = n
  BY <1>1, <1>2, <1>3, <1>5, <1>6, <1>7 DEF Owned, SlotCount, a
<1>8. CASE k # n
  <2>1. k \in 1..n - 1 /\ n - 1 \in 1..n
    BY <1>1, <1>8
  <2>2. Depth(Base(fr[k])) + 5 * (n - 1 - k) <= Depth(Base(fr[n - 1]))
    BY <2>1, BasesGrow
  <2>3. Depth(Base(fr[n - 1])) <= Depth(fr[n - 1].sp) /\ Depth(fr[n - 1].sp) \in Int
    BY <1>1, <2>1, CallerDepth, BaseDepth
  <2>4. Depth(a) <= Depth(fr[n - 1].sp)
    BY <1>1, <1>2, <1>3, <2>1, <2>2, <2>3
  <2> QED
    BY <1>1, <1>2, <1>3, <1>5, <1>6, <2>4 DEF Owned, a
<1> QED
  BY <1>7, <1>8

LEMMA Unmoved ==
  ASSUME UNCHANGED program
  PROVE  /\ StackCells' = StackCells /\ Bottom' = Bottom
         /\ \A a : Depth(a)' = Depth(a)
         /\ \A a, i : Slot(a, i)' = Slot(a, i)
         /\ \A a : FrameOffset(a)' = FrameOffset(a)
         /\ \A s : Stack(s)' = Stack(s)
<1>1. program' = program
  OBVIOUS
<1> QED
  BY <1>1 DEF StackCells, Bottom, Depth, Slot, FrameOffset, Stack

LEMMA LayoutKept ==
  ASSUME program \in Programs, UNCHANGED program, NEW n, NEW fr, Layout(n, fr),
         NEW b \in StackCells, Depth(Base(fr[n])) <= Depth(b),
         \A a \in Owned(n, fr) : mem'[a] = mem[a]
  PROVE  /\ Layout(n, fr)'
         /\ \A k \in 2..n : CallerOf(fr[k])' = CallerOf(fr[k])
<1>1. \A r : Base(r)' = Base(r)
  BY Unmoved DEF Base
<1>2. \A k \in 2..n, i \in 0..4 : mem'[Slot(Base(fr[k]), i)] = mem[Slot(Base(fr[k]), i)]
  BY SavedOwned
<1>3. ASSUME NEW k \in 2..n PROVE CallerOf(fr[k])' = CallerOf(fr[k])
  <2> DEFINE base == Base(fr[k])
  <2>1. /\ mem'[Slot(base, 0)] = mem[Slot(base, 0)] /\ mem'[Slot(base, 1)] = mem[Slot(base, 1)]
        /\ mem'[Slot(base, 2)] = mem[Slot(base, 2)] /\ mem'[Slot(base, 3)] = mem[Slot(base, 3)]
        /\ mem'[Slot(base, 4)] = mem[Slot(base, 4)]
    BY <1>2
  <2> QED
    BY <2>1 DEF CallerOf, Caller, Registers, Base, Slot, FrameOffset, RetAddr, This, That, Arg, Local
<1>4. Layout(n, fr)'
  BY <1>1, <1>3, Unmoved DEF Layout
<1> QED
  BY <1>3, <1>4

(* The running function's stack pointer and pointers change. *)
LEMMA TopChanges ==
  ASSUME program \in Programs, NEW n, NEW fr, Layout(n, fr), NEW r \in Register,
         r.fn = fr[n].fn, r.lcl = fr[n].lcl, r.arg = fr[n].arg, r.ra = fr[n].ra,
         Depth(r.lcl) <= Depth(r.sp)
  PROVE  Layout(n, [fr EXCEPT ![n] = r])
<1> DEFINE gr == [fr EXCEPT ![n] = r]
<1>1. n \in Nat \ {0} /\ fr \in [1..n -> Register] /\ n \in 1..n
  BY DEF Layout
<1>2. gr \in [1..n -> Register] /\ gr[n] = r /\ \A k \in 1..n : k # n => gr[k] = fr[k]
  BY <1>1
<1> HIDE DEF gr
<1>3. /\ Base(r) = Base(fr[n]) /\ CallerOf(r) = CallerOf(fr[n]) /\ ArgsOf(r) = ArgsOf(fr[n])
  BY DEF Base, CallerOf, ArgsOf
<1>4. \A k \in 1..n : /\ Base(gr[k]) = Base(fr[k]) /\ CallerOf(gr[k]) = CallerOf(fr[k])
                      /\ ArgsOf(gr[k]) = ArgsOf(fr[k]) /\ gr[k].arg = fr[k].arg /\ gr[k].ra = fr[k].ra
                      /\ Depth(gr[k].lcl) <= Depth(gr[k].sp)
  BY <1>1, <1>2, <1>3 DEF Layout
<1>5. 1 \in 1..n /\ \A k \in 2..n : k \in 1..n /\ k - 1 \in 1..n /\ k - 1 # n
  BY <1>1
<1>6. /\ gr[1].ra = Halt /\ Depth(Base(gr[1])) = 1 /\ gr[1].arg = Base(gr[1])
  BY <1>4, <1>5 DEF Layout
<1>7. ASSUME NEW k \in 2..n
      PROVE  /\ gr[k].ra \in Calls /\ gr[k - 1] = CallerOf(gr[k])
             /\ ArgsOf(gr[k]) > 0 => gr[k].arg = Slot(Base(gr[k]), SlotCount)
  BY <1>2, <1>4, <1>5, <1>7 DEF Layout
<1> QED
  BY <1>1, <1>2, <1>4, <1>6, <1>7 DEF Layout, gr

-----------------------------------------------------------------------------
(* The walk from the registers finds the frames. *)

LEMMA FewFrames ==
  ASSUME program \in Programs, NEW n, NEW fr, Layout(n, fr),
         NEW b \in StackCells, Depth(fr[n].sp) <= Depth(b)
  PROVE  n \in 1..MaxFrames
<1>1. n \in Nat \ {0} /\ n \in 1..n /\ 1 \in 1..n /\ fr[n] \in Register /\ fr[1] \in Register
  BY DEF Layout
<1>2. Depth(Base(fr[1])) + 5 * (n - 1) <= Depth(Base(fr[n])) /\ Depth(Base(fr[1])) = 1
  BY <1>1, BasesGrow DEF Layout
<1>3. /\ Depth(Base(fr[n])) <= Depth(fr[n].sp) /\ Depth(Base(fr[n])) \in Int
      /\ Depth(fr[n].sp) \in Int
  <2>1. Depth(fr[n].lcl) <= Depth(fr[n].sp)
    BY <1>1 DEF Layout
  <2>2. Depth(Base(fr[n])) = Depth(fr[n].lcl) - NLocals[fr[n].fn]
    BY <1>1, BaseDepth
  <2>3. NLocals[fr[n].fn] \in Nat /\ Depth(fr[n].lcl) \in Int /\ Depth(fr[n].sp) \in Int
    BY <1>1, BaseDepth
  <2> QED
    BY <2>1, <2>2, <2>3
<1> DEFINE room == 5 * MaxFrames
<1>4. Depth(b) \in Int /\ Depth(b) <= room /\ room \in Int
  BY Depths, RoomAssumption
<1>5. 1 + 5 * (n - 1) <= room
  <2> HIDE DEF room
  <2> QED
    BY <1>1, <1>2, <1>3, <1>4
<1> QED
  BY <1>1, <1>5, RoomAssumption

(* The last j of n frames. *)
Last(n, fr, j) ==
  LET m == IF j < n THEN j ELSE n IN [i \in 1..m |-> fr[n - m + i]]

Longer(inner) == IF inner[1].ra \in Calls THEN <<CallerOf(inner[1])>> \o inner ELSE inner

IsWalk(w) ==
  w = [k \in 1..MaxFrames |->
         IF k = 1 THEN <<Current>>
         ELSE CHOOSE longer \in {Longer(inner) : inner \in {w[k - 1]}} : TRUE]

LEMMA LongerLast ==
  ASSUME NEW n, NEW fr, Layout(n, fr), NEW j \in Nat \ {0}
  PROVE  Longer(Last(n, fr, j)) = Last(n, fr, j + 1)
<1>1. n \in Nat \ {0} /\ fr \in [1..n -> Register]
  BY DEF Layout
<1>2. CASE j < n
  <2> DEFINE inner == Last(n, fr, j)
  <2>1. inner = [i \in 1..j |-> fr[n - j + i]]
    BY <1>2 DEF Last
  <2>2. Last(n, fr, j + 1) = [i \in 1..j + 1 |-> fr[n - (j + 1) + i]]
    BY <1>1, <1>2 DEF Last
  <2> DEFINE c == n - j + 1
  <2>3. c \in 2..n /\ inner[1] = fr[c] /\ c - 1 = n - j
    BY <1>1, <1>2, <2>1
  <2>4. inner \in Seq(Register) /\ Len(inner) = j
    <3>1. \A i \in 1..j : n - j + i \in 1..n
      BY <1>1, <1>2
    <3>2. inner \in [1..j -> Register]
      BY <1>1, <2>1, <3>1
    <3> QED
      BY <3>2
  <2> HIDE DEF inner, c
  <2>5. fr[c].ra \in Calls /\ fr[c - 1] = CallerOf(fr[c]) /\ fr[c - 1] \in Register
    BY <1>1, <2>3 DEF Layout
  <2>6. Longer(inner) = <<fr[c - 1]>> \o inner
    BY <2>3, <2>5 DEF Longer
  <2> DEFINE all == <<fr[c - 1]>> \o inner
  <2>7. /\ all \in Seq(Register) /\ Len(all) = j + 1 /\ all[1] = fr[c - 1]
        /\ \A i \in 2..j + 1 : all[i] = inner[i - 1]
    BY <2>4, <2>5
  <2>8. \A i \in 1..j + 1 : all[i] = fr[n - (j + 1) + i]
    <3> HIDE DEF all
    <3> TAKE i \in 1..j + 1
    <3>1. CASE i = 1
      BY <1>1, <2>3, <2>7, <3>1
    <3>2. CASE i # 1
      <4>1. i \in 2..j + 1 /\ i - 1 \in 1..j /\ n - j + (i - 1) = n - (j + 1) + i
        BY <1>1, <3>2
      <4> QED
        BY <2>1, <2>7, <4>1
    <3> QED
      BY <3>1, <3>2
  <2>9. all = [i \in 1..j + 1 |-> fr[n - (j + 1) + i]]
    <3> HIDE DEF all
    <3> QED
      BY <2>7, <2>8
  <2> QED
    BY <2>2, <2>6, <2>9 DEF inner
<1>3. CASE ~ (j < n)
  <2>1. Last(n, fr, j) = [i \in 1..n |-> fr[n - n + i]] /\ Last(n, fr, j + 1) = Last(n, fr, j)
    BY <1>1, <1>3 DEF Last
  <2>2. Last(n, fr, j)[1] = fr[1]
    BY <1>1, <2>1
  <2>3. fr[1].ra \notin Calls
    BY CallLineTyped DEF Layout
  <2> QED
    BY <2>1, <2>2, <2>3 DEF Longer
<1> QED
  BY <1>2, <1>3

LEMMA WalkFinds ==
  ASSUME NEW n, NEW fr, Layout(n, fr), fr[n] = Current, n \in 1..MaxFrames
  PROVE  Walk[MaxFrames] = fr
<1> DEFINE w == [j \in 1..MaxFrames |-> Last(n, fr, j)]
<1>1. n \in Nat \ {0} /\ fr \in [1..n -> Register] /\ MaxFrames \in Nat \ {0}
  BY RoomAssumption DEF Layout
<1>2. Last(n, fr, 1) = <<Current>>
  <2>1. Last(n, fr, 1) = [i \in 1..1 |-> fr[n - 1 + i]]
    BY <1>1 DEF Last
  <2>2. \A i \in 1..1 : fr[n - 1 + i] = Current
    BY <1>1
  <2> QED
    BY <2>1, <2>2
<1>3. IsWalk(w)
  <2>1. ASSUME NEW k \in 1..MaxFrames, k # 1
        PROVE  Last(n, fr, k) = CHOOSE longer \in {Longer(inner) : inner \in {w[k - 1]}} : TRUE
    <3>1. k - 1 \in 1..MaxFrames /\ k - 1 \in Nat \ {0} /\ (k - 1) + 1 = k
      BY <1>1, <2>1
    <3>2. Longer(w[k - 1]) = Last(n, fr, k)
      BY <3>1, LongerLast
    <3> QED
      BY <3>2
  <2> QED
    BY <1>2, <2>1 DEF IsWalk
<1>4. IsWalk(Walk)
  <2>1. Walk = CHOOSE v : IsWalk(v)
    BY DEF Walk, IsWalk, Longer
  <2> QED
    BY <1>3, <2>1
<1> HIDE DEF w
<1> DEFINE S == {j \in Nat : j + 1 \in 1..MaxFrames => Walk[j + 1] = Last(n, fr, j + 1)}
<1>5. Nat \subseteq S
  <2>1. 0 \in S
    BY <1>1, <1>2, <1>4 DEF IsWalk
  <2>2. ASSUME NEW j \in Nat, j \in S PROVE j + 1 \in S
    <3>1. SUFFICES ASSUME (j + 1) + 1 \in 1..MaxFrames
                   PROVE  Walk[(j + 1) + 1] = Last(n, fr, (j + 1) + 1)
      OBVIOUS
    <3>2. j + 1 \in 1..MaxFrames /\ (j + 1) + 1 # 1 /\ ((j + 1) + 1) - 1 = j + 1 /\ j + 1 \in Nat \ {0}
      BY <1>1, <3>1
    <3>3. Walk[j + 1] = Last(n, fr, j + 1)
      BY <2>2, <3>2
    <3> DEFINE k == (j + 1) + 1
    <3>4. k \in 1..MaxFrames /\ k # 1 /\ k - 1 = j + 1
      BY <3>1, <3>2
    <3> HIDE DEF k
    <3>5. Walk[k] = CHOOSE longer \in {Longer(inner) : inner \in {Walk[k - 1]}} : TRUE
      BY <1>4, <3>4 DEF IsWalk
    <3>6. Walk[k] = Longer(Walk[j + 1])
      BY <3>4, <3>5
    <3> QED
      BY <3>2, <3>3, <3>6, LongerLast DEF k
  <2> HIDE DEF S
  <2> QED
    BY <2>1, <2>2, SetInduction
<1>6. Walk[MaxFrames] = Last(n, fr, MaxFrames)
  <2>1. MaxFrames - 1 \in Nat /\ (MaxFrames - 1) + 1 = MaxFrames
    BY <1>1
  <2>2. MaxFrames - 1 \in S
    BY <1>5, <2>1
  <2> QED
    BY <1>1, <2>1, <2>2
<1>7. Last(n, fr, MaxFrames) = [i \in 1..n |-> fr[i]]
  <2>1. Last(n, fr, MaxFrames) = [i \in 1..n |-> fr[n - n + i]]
    BY <1>1 DEF Last
  <2>2. \A i \in 1..n : n - n + i = i
    BY <1>1
  <2> QED
    BY <2>1, <2>2
<1> QED
  BY <1>1, <1>6, <1>7

LEMMA CurrentDepth ==
  ASSUME FInv, Started, NEW n, NEW fr, Layout(n, fr), fr[n] = Current
  PROVE  /\ Depth(fr[n].sp) <= Depth(sp) /\ n \in 1..MaxFrames
         /\ phase # "run" => /\ Depth(fr[n].sp) = Depth(sp) - SlotCount - Line.n
                             /\ Line \in [in : Functions, to : Functions, n : Nat] /\ ra \in Calls
<1>1. sp \in StackCells /\ sp \in Int /\ program \in Programs
  BY Depths DEF FInv, Typed
<1>2. phase = "run" => fr[n].sp = sp
  BY DEF Current, Registers
<1>3. ASSUME phase # "run"
      PROVE  /\ Depth(fr[n].sp) = Depth(sp) - SlotCount - Line.n /\ Depth(fr[n].sp) <= Depth(sp)
             /\ Line \in [in : Functions, to : Functions, n : Nat] /\ ra \in Calls
  <2>1. ra \in Calls
    BY <1>3 DEF FInv, Started
  <2>2. Line \in [in : Functions, to : Functions, n : Nat]
    BY <2>1, CallLineTyped DEF Line
  <2>3. fr[n].sp = Slot(sp, SlotCount + Line.n)
    BY <1>3 DEF Current, Caller, Registers, Line
  <2>4. Depth(fr[n].sp) = Depth(sp) - (SlotCount + Line.n) /\ Depth(sp) \in Int
    BY <1>1, <2>2, <2>3, Depths DEF SlotCount
  <2> QED
    BY <2>1, <2>2, <2>4 DEF SlotCount
<1>4. Depth(fr[n].sp) <= Depth(sp)
  <2>1. Depth(sp) \in Int
    BY <1>1, Depths
  <2> QED
    BY <1>2, <1>3, <2>1
<1> QED
  BY <1>1, <1>3, <1>4, FewFrames

LEMMA ChainIs ==
  ASSUME FInv, Started, NEW n, NEW fr, Layout(n, fr), fr[n] = Current
  PROVE  Chain = fr
BY CurrentDepth, WalkFinds DEF Chain

LEMMA Contiguous == FInv => FramesContiguous
<1> SUFFICES ASSUME FInv, phase = "run" PROVE FramesContiguous
  BY DEF FramesContiguous
<1>1. PICK n, fr : Layout(n, fr) /\ fr[n] = Current
  BY DEF FInv, Started
<1>2. Chain = fr /\ DOMAIN fr = 1..n /\ n \in Nat /\ program \in Programs
  BY <1>1, ChainIs DEF Layout, Started, FInv, Typed
<1>3. ASSUME NEW k \in 1..n
      PROVE  /\ FrameOffset(fr[k].lcl - fr[k].sp) >= 0
             /\ k = 1 => fr[k].ra = Halt /\ Base(fr[k]) = Bottom - FrameOffset(1) /\ fr[k].arg = Base(fr[k])
             /\ k > 1 => /\ fr[k - 1].sp = Slot(Base(fr[k]), SlotCount + ArgsOf(fr[k]))
                         /\ ArgsOf(fr[k]) > 0 => fr[k].arg = Slot(Base(fr[k]), SlotCount)
  <2>1. fr[k] \in Register /\ Depth(fr[k].lcl) <= Depth(fr[k].sp) /\ Base(fr[k]) \in Int
    BY <1>1, <1>2, BaseDepth DEF Layout
  <2>2. FrameOffset(fr[k].lcl - fr[k].sp) >= 0
    <3>1. fr[k].lcl \in Int /\ fr[k].sp \in Int
      BY <2>1 DEF Register
    <3>2. FrameOffset(fr[k].lcl - fr[k].sp) = Depth(fr[k].sp) - Depth(fr[k].lcl)
      BY <1>2, <3>1, Depths
    <3>3. Depth(fr[k].lcl) \in Int /\ Depth(fr[k].sp) \in Int
      BY <1>2, <3>1, Depths
    <3> QED
      BY <2>1, <3>2, <3>3
  <2>3. k = 1 => fr[k].ra = Halt /\ Base(fr[k]) = Bottom - FrameOffset(1) /\ fr[k].arg = Base(fr[k])
    <3> SUFFICES ASSUME k = 1 PROVE Base(fr[k]) = Bottom - FrameOffset(1)
      BY <1>1 DEF Layout
    <3>1. Depth(Base(fr[k])) = 1
      BY <1>1 DEF Layout
    <3>2. FrameOffset(Bottom - Base(fr[k])) = 1 /\ Bottom \in Int
      BY <1>2, <3>1, Depths DEF Depth
    <3> QED
      BY <2>1, <3>2 DEF FrameOffset
  <2>4. ASSUME k > 1
        PROVE  /\ fr[k - 1].sp = Slot(Base(fr[k]), SlotCount + ArgsOf(fr[k]))
               /\ ArgsOf(fr[k]) > 0 => fr[k].arg = Slot(Base(fr[k]), SlotCount)
    <3>1. k \in 2..n
      BY <1>2, <2>4
    <3>2. /\ fr[k].ra \in Calls /\ fr[k - 1] = CallerOf(fr[k])
          /\ ArgsOf(fr[k]) > 0 => fr[k].arg = Slot(Base(fr[k]), SlotCount)
      BY <1>1, <3>1 DEF Layout
    <3>3. fr[k].ra # Halt
      BY <3>2, CallLineTyped
    <3> QED
      BY <3>2, <3>3 DEF CallerOf, Caller, Registers, Base, ArgsOf
  <2> QED
    BY <2>2, <2>3, <2>4
<1>4. \A k \in DOMAIN Chain : Chain[k] = fr[k] /\ k \in 1..n
  BY <1>2
<1> QED
  BY <1>2, <1>3 DEF FramesContiguous, Base

-----------------------------------------------------------------------------
(* The first state, and a stack's words *)

LEMMA SecondWord ==
  ASSUME program \in Programs
  PROVE  \E b \in StackCells : Depth(b) >= 1
<1>1. PICK first \in StackCells, last \in StackCells : first < last
  BY FrameAssumption DEF StackCells
<1>2. first \in Int /\ last \in Int /\ Depth(first) \in Nat /\ Depth(last) \in Nat
  BY Depths
<1>3. Depth(first) # Depth(last)
  BY <1>1, <1>2, Depths
<1> QED
  BY <1>1, <1>2, <1>3

LEMMA StackWords ==
  ASSUME program \in Programs, NEW s \in Int, NEW a
  PROVE  a \in Stack(s) <=> a \in StackCells /\ Depth(a) <= Depth(s)
<1>1. ASSUME a \in StackCells PROVE a \in Int /\ FrameOffset(a - s) = Depth(s) - Depth(a)
  BY <1>1, Depths
<1>2. ASSUME a \in StackCells PROVE Depth(a) \in Int /\ Depth(s) \in Int
  BY <1>1, <1>2, Depths
<1> QED
  BY <1>1, <1>2 DEF Stack

LEMMA ZeroIsWord == 0 \in Words /\ Words \subseteq Int /\ CodeBase \in Words
<1>1. 0 \in 0..(W - 1) /\ 0..(W - 1) \subseteq Words
  BY FrameAssumption DEF VM!MachineAssumption
<1>2. CodeBase + 0 \in Words /\ CodeBase + 0 = CodeBase
  BY WordsAssumption, FrameAssumption
<1> QED
  BY <1>1, <1>2, WordsAssumption

LEMMA InitFInv == Init => FInv
<1> SUFFICES ASSUME Init PROVE FInv
  OBVIOUS
<1>1. program \in Programs /\ phase = "enter" /\ fn = Entry /\ Entry \in Functions /\ ra = Halt
  BY FrameAssumption DEF Init, VM!MachineAssumption
<1>2. Bottom \in Int /\ Depth(Bottom) = 0
  BY <1>1, Depths
<1>3. sp = Slot(Bottom, -1)
  BY <1>2 DEF Init, Slot, FrameOffset
<1>4. sp \in Int /\ Depth(sp) = 1
  BY <1>1, <1>2, <1>3, Depths
<1>5. sp \in StackCells
  BY <1>1, <1>4, SecondWord, Depths
<1>6. {lcl, arg, this, that, ra, a0} \subseteq Words
  <2>1. sp \in Words
    BY <1>1, <1>5, WordsAssumption DEF StackCells
  <2> QED
    BY <2>1, ZeroIsWord DEF Init, Halt
<1>7. mem \in [Cells \cup Stack(sp) -> Words]
  BY ZeroIsWord DEF Init
<1> QED
  BY <1>1, <1>4, <1>5, <1>6, <1>7 DEF FInv, Typed, Started, Init

-----------------------------------------------------------------------------
(* What is stored, and where *)

LEMMA StoredTyped ==
  ASSUME Typed, NEW s, NEW new, \A a \in DOMAIN new : new[a] \in Words,
         Stack(s) \ Stack(sp) \subseteq DOMAIN new
  PROVE  Stored(new, s) \in [Cells \cup Stack(s) -> Words]
BY DEF Stored, Typed

(* The words that the running function may write. *)
Writable(n, fr) == (Cells \cup StackCells) \ Owned(n, fr)

LEMMA OwnedInFrames ==
  ASSUME program \in Programs, NEW n, NEW fr, Layout(n, fr), NEW a \in Owned(n, fr)
  PROVE  /\ a \in StackCells /\ a \notin Cells /\ Depth(a) <= Depth(Base(fr[n]))
         /\ Depth(a) <= Depth(fr[n].lcl) /\ Depth(a) \in Nat /\ a \in Int
<1>1. a \in StackCells /\ Depth(a) <= Depth(Base(fr[n]))
  BY DEF Owned
<1>2. n \in 1..n
  BY DEF Layout
<1>3. Depth(a) \in Nat /\ a \in Int
  BY <1>1, Depths
<1>4. a \notin Cells
  BY <1>1, FrameAssumption DEF StackCells
<1>5. fr[n] \in Register
  BY <1>2 DEF Layout
<1>6. Depth(Base(fr[n])) = Depth(fr[n].lcl) - NLocals[fr[n].fn] /\ NLocals[fr[n].fn] \in Nat /\ Depth(fr[n].lcl) \in Int
  BY <1>5, BaseDepth
<1> QED
  BY <1>1, <1>3, <1>4, <1>6

(* Above the saved registers everything is the running function's. *)
LEMMA WorkIsFree ==
  ASSUME program \in Programs, NEW n, NEW fr, Layout(n, fr), NEW a \in Cells \cup StackCells,
         a \in StackCells => Depth(a) > Depth(Base(fr[n]))
  PROVE  a \in Writable(n, fr)
<1> SUFFICES ASSUME a \in Owned(n, fr) PROVE FALSE
  BY DEF Writable
<1>1. a \in StackCells /\ Depth(a) <= Depth(Base(fr[n])) /\ Depth(a) \in Nat
  BY OwnedInFrames
<1>2. Depth(Base(fr[n])) \in Int
  <2>1. fr[n] \in Register
    BY DEF Layout
  <2> QED
    BY <2>1, BaseDepth, Depths
<1> QED
  BY <1>1, <1>2

(* The argument words are neither saved registers nor the caller's work. *)
LEMMA ArgumentWords ==
  ASSUME program \in Programs, NEW n, NEW fr, Layout(n, fr), NEW i \in 0..(ArgsOf(fr[n]) - 1)
  PROVE  LET a == Slot(fr[n].arg, i)
         IN  /\ a \in Int /\ Depth(a) >= 0 /\ Depth(a) <= Depth(Base(fr[n])) /\ a \notin Owned(n, fr)
             /\ n > 1 => /\ Depth(a) = Depth(fr[n - 1].sp) + ArgsOf(fr[n]) - i
                         /\ Depth(a) = Depth(Base(fr[n])) - SlotCount - i
             /\ n = 1 => Depth(a) = 1 - i
<1> DEFINE a == Slot(fr[n].arg, i)
<1>1. n \in Nat \ {0} /\ fr[n] \in Register /\ n \in 1..n
  BY DEF Layout
<1>2. fr[n].arg \in Int /\ Base(fr[n]) \in Int /\ Depth(Base(fr[n])) \in Int
  BY <1>1, BaseDepth, Depths DEF Register
<1>3. ArgsOf(fr[n]) \in Nat /\ i \in Nat
  BY <1>1, ArgsTyped DEF Layout
<1>4. a \in Int /\ Depth(a) = Depth(fr[n].arg) - i
  <2>1. i \in Int
    BY <1>3
  <2>2. \A b, j \in Int : Slot(b, j) \in Int /\ Depth(Slot(b, j)) = Depth(b) - j
    BY Depths
  <2> QED
    BY <1>2, <2>1, <2>2
<1> HIDE DEF a
<1>5. CASE n = 1
  <2>1. fr[n].arg = Base(fr[n]) /\ Depth(Base(fr[n])) = 1 /\ ArgsOf(fr[n]) = 2
    BY <1>5 DEF Layout, ArgsOf
  <2>2. a \notin Owned(n, fr)
    BY <1>5 DEF Owned
  <2> QED
    BY <1>1, <1>3, <1>4, <1>5, <2>1, <2>2 DEF a
<1>6. CASE n > 1
  <2>1. n \in 2..n /\ ArgsOf(fr[n]) > 0
    BY <1>1, <1>3, <1>6
  <2>2. fr[n].arg = Slot(Base(fr[n]), SlotCount)
    BY <2>1 DEF Layout
  <2>3. Depth(fr[n].arg) = Depth(Base(fr[n])) - 5
    BY <1>2, <2>2, Depths DEF SlotCount
  <2>4. /\ Depth(fr[n - 1].sp) = Depth(Base(fr[n])) - 5 - ArgsOf(fr[n])
        /\ Depth(Base(fr[n - 1])) <= Depth(fr[n - 1].sp)
    BY <2>1, CallerDepth DEF SlotCount
  <2>5. Depth(Base(fr[n - 1])) >= 1 /\ Depth(Base(fr[n - 1])) \in Int
    <3>1. n - 1 \in 1..n /\ 1 \in 1..n - 1
      BY <1>1, <1>6
    <3>2. Depth(Base(fr[1])) + 5 * ((n - 1) - 1) <= Depth(Base(fr[n - 1])) /\ Depth(Base(fr[1])) = 1
      BY <3>1, BasesGrow DEF Layout
    <3>3. fr[n - 1] \in Register
      BY <3>1 DEF Layout
    <3>4. Depth(Base(fr[n - 1])) \in Int
      BY <3>3, BaseDepth, Depths
    <3> QED
      BY <1>1, <1>6, <3>2, <3>4
  <2>6. /\ Depth(a) = Depth(Base(fr[n])) - 5 - i /\ Depth(a) = Depth(fr[n - 1].sp) + ArgsOf(fr[n]) - i
        /\ Depth(a) > Depth(fr[n - 1].sp) /\ Depth(a) >= 0
    BY <1>2, <1>3, <1>4, <2>3, <2>4, <2>5
  <2>7. a \notin Owned(n, fr)
    BY <1>2, <1>3, <1>6, <2>4, <2>6 DEF Owned, SlotCount
  <2> QED
    BY <1>2, <1>3, <1>4, <1>6, <2>6, <2>7 DEF a, SlotCount
<1> QED
  BY <1>1, <1>5, <1>6

LEMMA InStack ==
  ASSUME Typed, NEW a \in Int, Depth(a) >= 0, Depth(a) <= Depth(sp)
  PROVE  a \in Stack(sp) /\ a \in StackCells
<1>1. sp \in StackCells /\ sp \in Int /\ program \in Programs /\ Depth(sp) \in Int /\ Depth(a) \in Int
  BY Depths DEF Typed
<1>2. Depth(a) \in 0..Depth(sp)
  BY <1>1
<1>3. a \in StackCells
  BY <1>1, <1>2, Depths
<1> QED
  BY <1>1, <1>3, StackWords

(* The word that a segment's word is at is remembered, and may be written.  *)
LEMMA AddressIsOwn ==
  ASSUME FInv, phase = "run", NEW n, NEW fr, Layout(n, fr), fr[n] = Current,
         NEW seg \in program.segments \ {"constant", "pointer"}, NEW i, WellNamed(seg, i)
  PROVE  /\ Address(seg, i) \in Writable(n, fr) \cap DOMAIN mem
         /\ seg \in {"static", "temp", "this", "that"} =>
              /\ Address(seg, i) \in Cells
              /\ Address(seg, i) = CASE seg = "static" -> StaticBase + i
                                     [] seg = "temp" -> TempBase + i
                                     [] seg = "this" -> this + i
                                     [] seg = "that" -> that + i
<1>1. /\ program \in Programs /\ Typed /\ fr[n] = Registers(fn, sp, lcl, arg, this, that, ra)
      /\ DOMAIN mem = Cells \cup Stack(sp) /\ n \in 1..n /\ fr[n] \in Register
  BY DEF FInv, Typed, Current, Layout
<1>2. seg \in VM!Segments
  BY <1>1, FrameAssumption
<1>3. Depth(lcl) <= Depth(sp) /\ lcl \in Int /\ Depth(lcl) \in Int /\ Depth(sp) \in Int
  <2>1. lcl \in Int /\ sp \in Int
    <3>1. sp \in StackCells /\ lcl \in Words
      BY <1>1 DEF Typed
    <3> QED
      BY <1>1, <3>1, ZeroIsWord, Depths
  <2> QED
    BY <1>1, <2>1, Depths DEF Registers, Layout
<1>4. CASE seg \in {"static", "temp", "this", "that"}
  <2>1. i \in program.indices /\ program.indices \subseteq Nat
    BY <1>1, <1>4, FrameAssumption DEF WellNamed, VM!MachineAssumption
  <2>2. Address(seg, i) = CASE seg = "static" -> StaticBase + i
                            [] seg = "temp" -> TempBase + i
                            [] seg = "this" -> this + i
                            [] seg = "that" -> that + i
    <3>1. CASE seg = "that"
      <4>1. program.up => i = 0
        BY <1>1, <2>1, <3>1, ThatAssumption
      <4>2. Slot(that, i) = that + i
        BY <1>1, <4>1, <2>1 DEF Slot, FrameOffset
      <4> QED
        BY <3>1, <4>2 DEF Address
    <3> QED
      BY <1>4, <3>1 DEF Address
  <2>3. Address(seg, i) \in Cells
    BY <1>4, <2>2 DEF WellNamed, Cells, VM!Cells
  <2>4. Address(seg, i) \notin Owned(n, fr)
    BY <1>1, <2>3, OwnedInFrames
  <2> QED
    BY <1>1, <2>2, <2>3, <2>4 DEF Writable
<1>5. CASE seg = "arg"
  <2>1. i \in 0..(ArgsOf(fr[n]) - 1) /\ fr[n].arg = arg
    BY <1>1, <1>5 DEF WellNamed, NArgs, ArgsOf, Registers, Line
  <2> DEFINE a == Slot(arg, i)
  <2>2. a \in Int /\ Depth(a) >= 0 /\ Depth(a) <= Depth(Base(fr[n])) /\ a \notin Owned(n, fr)
    BY <1>1, <2>1, ArgumentWords
  <2>3. Depth(Base(fr[n])) <= Depth(lcl) /\ Depth(Base(fr[n])) \in Int
    <3>1. Depth(Base(fr[n])) = Depth(fr[n].lcl) - NLocals[fr[n].fn] /\ NLocals[fr[n].fn] \in Nat
      BY <1>1, BaseDepth
    <3>2. fr[n].lcl = lcl
      BY <1>1 DEF Registers
    <3> QED
      BY <1>3, <3>1, <3>2
  <2>4. a \in Stack(sp) /\ a \in StackCells
    <3>1. Depth(a) \in Int
      BY <1>1, <2>2, Depths
    <3>2. Depth(a) <= Depth(sp)
      BY <1>3, <2>2, <2>3, <3>1
    <3> HIDE DEF a
    <3> QED
      BY <1>1, <2>2, <3>2, InStack
  <2>5. Address(seg, i) = a
    BY <1>5 DEF Address
  <2> QED
    BY <1>1, <1>5, <2>2, <2>4, <2>5 DEF Writable
<1>6. CASE seg = "local"
  <2>1. i \in 0..(NLocals[fn] - 1) /\ fr[n].lcl = lcl /\ fr[n].fn = fn /\ NLocals[fn] \in Nat
    BY <1>1, <1>6, LocalsTyped DEF WellNamed, Registers, Typed
  <2> DEFINE a == Slot(lcl, i)
  <2>2. a \in Int /\ Depth(a) = Depth(lcl) - i
    BY <1>1, <1>3, <2>1, Depths
  <2>3. Depth(Base(fr[n])) = Depth(lcl) - NLocals[fn] /\ Depth(Base(fr[n])) >= 1
    <3>1. Depth(Base(fr[n])) = Depth(lcl) - NLocals[fn]
      BY <1>1, <2>1, BaseDepth
    <3>2. Depth(Base(fr[1])) + 5 * (n - 1) <= Depth(Base(fr[n])) /\ Depth(Base(fr[1])) = 1 /\ n \in Nat \ {0}
      <4>1. 1 \in 1..n
        BY DEF Layout
      <4> QED
        BY <1>1, <4>1, BasesGrow DEF Layout
    <3> QED
      BY <1>3, <2>1, <3>1, <3>2
  <2> HIDE DEF a
  <2>4. a \in Stack(sp) /\ a \in StackCells
    <3>1. Depth(a) >= 0 /\ Depth(a) <= Depth(sp)
      BY <1>3, <2>1, <2>2, <2>3
    <3> QED
      BY <1>1, <2>2, <3>1, InStack
  <2>5. a \in Writable(n, fr)
    <3>1. Depth(a) > Depth(Base(fr[n]))
      BY <1>3, <2>1, <2>2, <2>3
    <3> QED
      BY <1>1, <2>4, <3>1, WorkIsFree
  <2>6. Address(seg, i) = a
    BY <1>6 DEF Address, a
  <2> QED
    BY <1>1, <1>6, <2>4, <2>5, <2>6
<1> QED
  BY <1>2, <1>4, <1>5, <1>6 DEF VM!Segments

-----------------------------------------------------------------------------
(* Commands within a function *)

LEMMA RunFacts ==
  ASSUME FInv, phase = "run", NEW n, NEW fr, Layout(n, fr), fr[n] = Current
  PROVE  /\ Typed /\ program \in Programs /\ n \in Nat \ {0} /\ n \in 1..n /\ fr[n] \in Register
         /\ fr[n] = Registers(fn, sp, lcl, arg, this, that, ra) /\ Words \subseteq Int
         /\ sp \in Int /\ lcl \in Int /\ Depth(sp) \in Int /\ Depth(lcl) \in Int
         /\ Depth(Base(fr[n])) \in Int /\ 1 <= Depth(Base(fr[n]))
         /\ Depth(Base(fr[n])) = Depth(lcl) - NLocals[fn] /\ NLocals[fn] \in Nat
         /\ Depth(Base(fr[n])) <= Depth(lcl) /\ Depth(lcl) <= Depth(sp)
         /\ WorkWords = Depth(sp) - Depth(lcl)
         /\ sp \in Stack(sp) /\ mem \in [Cells \cup Stack(sp) -> Words]
<1>1. /\ Typed /\ program \in Programs /\ n \in Nat \ {0} /\ n \in 1..n /\ 1 \in 1..n /\ fr[n] \in Register
      /\ fr[n] = Registers(fn, sp, lcl, arg, this, that, ra) /\ Words \subseteq Int
      /\ mem \in [Cells \cup Stack(sp) -> Words] /\ fn \in Functions
  BY ZeroIsWord DEF FInv, Typed, Current, Layout
<1>2. fr[n].fn = fn /\ fr[n].sp = sp /\ fr[n].lcl = lcl
  BY <1>1 DEF Registers
<1>3. sp \in Int /\ lcl \in Int /\ Depth(sp) \in Int /\ Depth(lcl) \in Int
  BY <1>1, <1>2, Depths DEF Register
<1>4. NLocals[fn] \in Nat /\ Depth(Base(fr[n])) = Depth(lcl) - NLocals[fn]
  BY <1>1, <1>2, BaseDepth
<1>5. Depth(lcl) <= Depth(sp)
  BY <1>1, <1>2 DEF Layout
<1>6. 1 <= Depth(Base(fr[n]))
  <2>1. Depth(Base(fr[1])) + 5 * (n - 1) <= Depth(Base(fr[n])) /\ Depth(Base(fr[1])) = 1
    BY <1>1, BasesGrow DEF Layout
  <2> QED
    BY <1>1, <1>3, <1>4, <2>1
<1>7. WorkWords = Depth(sp) - Depth(lcl)
  BY <1>1, <1>3, Depths DEF WorkWords
<1>8. sp \in Stack(sp)
  BY <1>1, <1>3, StackWords DEF Typed
<1> QED
  BY <1>1, <1>3, <1>4, <1>5, <1>6, <1>7, <1>8

LEMMA Moves ==
  ASSUME program \in Programs, sp \in Int, NEW k \in Int
  PROVE  /\ Allocated(k) \in Int /\ Depth(Allocated(k)) = Depth(sp) + k
         /\ Slot(sp, k) \in Int /\ Depth(Slot(sp, k)) = Depth(sp) - k
         /\ Depth(sp) \in Int
<1>1. Slot(sp, k) \in Int /\ Depth(Slot(sp, k)) = Depth(sp) - k /\ Depth(sp) \in Int
  BY Depths
<1>2. Allocated(k) = Slot(sp, -k) /\ -k \in Int
  BY DEF Allocated, Slot, FrameOffset
<1>3. Slot(sp, -k) \in Int /\ Depth(Slot(sp, -k)) = Depth(sp) - (-k)
  BY <1>2, Depths
<1> QED
  BY <1>1, <1>2, <1>3

LEMMA StoredKeeps ==
  ASSUME program \in Programs, NEW n, NEW fr, Layout(n, fr), NEW s \in Int,
         Depth(Base(fr[n])) <= Depth(s), NEW new, DOMAIN new \cap Owned(n, fr) = {}
  PROVE  \A a \in Owned(n, fr) : Stored(new, s)[a] = mem[a]
<1> SUFFICES ASSUME NEW a \in Owned(n, fr) PROVE Stored(new, s)[a] = mem[a]
  OBVIOUS
<1>1. a \in StackCells /\ Depth(a) <= Depth(Base(fr[n])) /\ Depth(a) \in Int
  BY OwnedInFrames
<1>2. Depth(Base(fr[n])) \in Int /\ Depth(s) \in Int
  <2>1. fr[n] \in Register
    BY DEF Layout
  <2> QED
    BY <2>1, BaseDepth, Depths
<1>3. a \in Stack(s)
  BY <1>1, <1>2, StackWords
<1> QED
  BY <1>3 DEF Stored

LEMMA RunKeeps ==
  ASSUME FInv, phase = "run", phase' = "run", UNCHANGED <<program, fn, lcl, arg, ra>>,
         NEW n, NEW fr, Layout(n, fr), fr[n] = Current,
         sp' \in StackCells, Depth(lcl) <= Depth(sp'), {this', that', a0'} \subseteq Words,
         mem' \in [Cells \cup Stack(sp') -> Words],
         \A a \in Owned(n, fr) : mem'[a] = mem[a]
  PROVE  /\ FInv'
         /\ \A r : r = Current' => Layout(n, [fr EXCEPT ![n] = r])' /\ [fr EXCEPT ![n] = r][n] = Current'
<1>1. /\ Typed /\ program \in Programs /\ n \in Nat \ {0} /\ n \in 1..n /\ fr \in [1..n -> Register]
      /\ fr[n] = Registers(fn, sp, lcl, arg, this, that, ra) /\ Words \subseteq Int
      /\ Depth(Base(fr[n])) <= Depth(lcl) /\ Depth(lcl) \in Int /\ Depth(Base(fr[n])) \in Int
  BY RunFacts DEF Layout
<1>2. sp' \in Int /\ Depth(sp') \in Int
  BY <1>1, Depths
<1>3. ASSUME NEW r, r = Current'
      PROVE  Layout(n, [fr EXCEPT ![n] = r])' /\ [fr EXCEPT ![n] = r][n] = Current'
  <2>1. r = Registers(fn, sp', lcl, arg, this', that', ra)
    BY <1>3 DEF Current, Registers
  <2>2. r \in Register
    <3>1. fn \in Functions /\ lcl \in Int /\ arg \in Int /\ ra \in Int
      BY <1>1 DEF Register, Registers
    <3> QED
      BY <1>2, <2>1, <3>1 DEF Register, Registers
  <2>3. r.fn = fr[n].fn /\ r.lcl = fr[n].lcl /\ r.arg = fr[n].arg /\ r.ra = fr[n].ra /\ r.lcl = lcl /\ r.sp = sp'
    BY <1>1, <2>1 DEF Registers
  <2> DEFINE gr == [fr EXCEPT ![n] = r]
  <2>4. Layout(n, gr)
    BY <1>1, <2>2, <2>3, TopChanges
  <2>5. gr[n] = r /\ (n > 1 => gr[n - 1] = fr[n - 1]) /\ Base(gr[n]) = Base(fr[n])
    BY <1>1, <2>3 DEF Base
  <2> HIDE DEF gr
  <2>6. Owned(n, gr) = Owned(n, fr)
    BY <2>5 DEF Owned
  <2>7. Depth(Base(gr[n])) <= Depth(sp')
    BY <1>1, <1>2, <2>5
  <2>8. Layout(n, gr)'
    BY <1>1, <2>4, <2>6, <2>7, LayoutKept
  <2> QED
    BY <1>3, <2>5, <2>8 DEF gr
<1>4. Typed'
  <2>1. Stack(sp)' = Stack(sp') /\ StackCells' = StackCells
    BY DEF Stack, StackCells, FrameOffset
  <2> QED
    BY <1>1, <2>1 DEF Typed
<1>5. Started'
  BY DEF Started
<1>6. (\E m, gr : Layout(m, gr) /\ gr[m] = Current)'
  <2>1. PICK r : r = Current'
    OBVIOUS
  <2> QED
    BY <1>3, <2>1
<1> QED
  BY <1>3, <1>4, <1>5, <1>6 DEF FInv

(* The running function's registers are the only ones that change. *)
StaysIn(n, fr) ==
  /\ FInv'
  /\ \A a \in Owned(n, fr) : mem'[a] = mem[a]
  /\ \A r : r = Current' => Layout(n, [fr EXCEPT ![n] = r])' /\ [fr EXCEPT ![n] = r][n] = Current'

LEMMA ResultTyped ==
  ASSUME NEW op \in Operations, NEW a \in Int, NEW b \in Int
  PROVE  VM!Result(op, a, b) \in Words
<1>1. W \in Nat \ {0} /\ 0..(W - 1) \subseteq Words /\ op \in {"add", "sub", "eq", "gt", "lt"}
  BY FrameAssumption DEF VM!MachineAssumption
<1>2. (a + b) % W \in 0..(W - 1) /\ (a - b) % W \in 0..(W - 1)
  BY <1>1
<1>3. VM!Bit(a = b) \in {0, 1} /\ VM!Bit(a < b) \in {0, 1} /\ VM!Bit(a > b) \in {0, 1}
  BY DEF VM!Bit
<1>4. {0, 1} \subseteq Words
  BY WordsAssumption
<1> QED
  BY <1>1, <1>2, <1>3, <1>4 DEF VM!Result

LEMMA PopMoves ==
  ASSUME FInv, phase = "run", NEW n, NEW fr, Layout(n, fr), fr[n] = Current,
         NEW s, s = Slot(sp, 1), WorkWords >= 1
  PROVE  /\ s \in Int /\ Depth(s) = Depth(sp) - 1 /\ Depth(lcl) <= Depth(s)
         /\ s \in StackCells /\ s \in Stack(s) /\ Stack(s) \subseteq Stack(sp)
<1>1. /\ program \in Programs /\ sp \in Int /\ Depth(sp) \in Int /\ Depth(lcl) \in Int /\ Typed
      /\ 1 <= Depth(Base(fr[n])) /\ Depth(Base(fr[n])) <= Depth(lcl) /\ WorkWords = Depth(sp) - Depth(lcl)
      /\ Depth(Base(fr[n])) \in Int
  BY RunFacts
<1>2. s \in Int /\ Depth(s) = Depth(sp) - 1
  BY <1>1, Moves
<1>3. Depth(lcl) <= Depth(s) /\ Depth(s) >= 0
  BY <1>1, <1>2
<1>4. s \in StackCells
  BY <1>1, <1>2, <1>3, InStack
<1>5. s \in Stack(s)
  BY <1>1, <1>2, <1>4, StackWords
<1>6. ASSUME NEW a \in Stack(s) PROVE a \in Stack(sp)
  <2>1. a \in StackCells /\ Depth(a) <= Depth(s)
    BY <1>1, <1>2, StackWords
  <2>2. Depth(a) \in Int
    BY <1>1, <2>1, Depths
  <2> QED
    BY <1>1, <1>2, <2>1, <2>2, StackWords
<1> QED
  BY <1>2, <1>3, <1>4, <1>5, <1>6

(* A command that pops one word of at least one, and stores something. *)
LEMMA Popping ==
  ASSUME FInv, phase = "run", NEW n, NEW fr, Layout(n, fr), fr[n] = Current, WorkWords >= 1,
         sp' = Slot(sp, 1), NEW new, mem' = Stored(new, sp'),
         \A a \in DOMAIN new : new[a] \in Words /\ a \in Writable(n, fr),
         phase' = "run", UNCHANGED <<program, fn, lcl, arg, ra>>, {this', that', a0'} \subseteq Words
  PROVE  StaysIn(n, fr)
<1>1. /\ sp' \in Int /\ Depth(sp') = Depth(sp) - 1 /\ Depth(lcl) <= Depth(sp')
      /\ sp' \in StackCells /\ sp' \in Stack(sp') /\ Stack(sp') \subseteq Stack(sp)
  BY PopMoves
<1>2. /\ program \in Programs /\ Typed /\ Depth(Base(fr[n])) <= Depth(lcl)
      /\ Depth(Base(fr[n])) \in Int /\ Depth(lcl) \in Int /\ Depth(sp) \in Int
  BY RunFacts
<1>3. mem' \in [Cells \cup Stack(sp') -> Words]
  BY <1>1, <1>2, StoredTyped
<1>4. DOMAIN new \cap Owned(n, fr) = {} /\ Depth(Base(fr[n])) <= Depth(sp')
  BY <1>1, <1>2 DEF Writable
<1>5. \A a \in Owned(n, fr) : mem'[a] = mem[a]
  BY <1>1, <1>2, <1>4, StoredKeeps
<1> QED
  BY <1>1, <1>3, <1>5, RunKeeps DEF StaysIn

LEMMA PushRuns ==
  ASSUME FInv, NEW n, NEW fr, Layout(n, fr), fr[n] = Current,
         NEW seg \in program.segments, NEW i, Push(seg, i)
  PROVE  StaysIn(n, fr)
<1>1. /\ program \in Programs /\ Typed /\ Depth(Base(fr[n])) <= Depth(lcl) /\ sp \in Int /\ Depth(lcl) <= Depth(sp)
      /\ Depth(Base(fr[n])) \in Int /\ Depth(lcl) \in Int /\ Depth(sp) \in Int /\ phase = "run"
      /\ mem \in [Cells \cup Stack(sp) -> Words]
  BY RunFacts DEF Push
<1>2. /\ sp' \in Int /\ Depth(sp') = Depth(sp) + 1 /\ sp' \in StackCells
  BY <1>1, Moves DEF Push
<1> DEFINE v == CASE seg = "constant" -> i
                  [] seg = "pointer"  -> IF i = 0 THEN this ELSE that
                  [] OTHER            -> mem[Address(seg, i)]
<1>3. v \in Words
  <2>1. CASE seg = "constant"
    <3>1. i \in program.constants
      BY <2>1 DEF Push, WellNamed
    <3> QED
      BY <1>1, <2>1, <3>1, FrameAssumption, WordsAssumption
  <2>2. CASE seg = "pointer"
    BY <1>1, <2>2 DEF Typed
  <2>3. CASE seg \notin {"constant", "pointer"}
    <3>1. Address(seg, i) \in DOMAIN mem
      BY <1>1, <2>3, AddressIsOwn DEF Push
    <3> QED
      BY <1>1, <2>3, <3>1
  <2> QED
    BY <2>1, <2>2, <2>3
<1> DEFINE new == Word(sp', v)
<1>4. mem' = Stored(new, sp')
  BY DEF Push
<1>5. DOMAIN new = {sp'} /\ new[sp'] = v
  BY DEF Word
<1> HIDE DEF new, v
<1>6. Stack(sp') \ Stack(sp) \subseteq {sp'}
  <2> SUFFICES ASSUME NEW a \in Stack(sp'), a \notin Stack(sp) PROVE a = sp'
    OBVIOUS
  <2>1. a \in StackCells /\ Depth(a) <= Depth(sp') /\ ~(Depth(a) <= Depth(sp))
    BY <1>1, <1>2, StackWords
  <2>2. a \in Int /\ Depth(a) \in Int
    BY <1>1, <2>1, Depths
  <2>3. Depth(a) = Depth(sp')
    BY <1>1, <1>2, <2>1, <2>2
  <2> QED
    BY <1>1, <1>2, <2>2, <2>3, Depths
<1>7. mem' \in [Cells \cup Stack(sp') -> Words]
  BY <1>1, <1>3, <1>4, <1>5, <1>6, StoredTyped
<1>8. DOMAIN new \cap Owned(n, fr) = {} /\ Depth(Base(fr[n])) <= Depth(sp')
  <2>1. ASSUME sp' \in Owned(n, fr) PROVE FALSE
    <3>1. Depth(sp') <= Depth(fr[n].lcl) /\ fr[n].lcl = lcl
      BY <1>1, <2>1, RunFacts, OwnedInFrames DEF Registers
    <3> QED
      BY <1>1, <1>2, <3>1
  <2> QED
    BY <1>1, <1>2, <1>5, <2>1
<1>9. \A a \in Owned(n, fr) : mem'[a] = mem[a]
  BY <1>1, <1>2, <1>4, <1>8, StoredKeeps
<1>10. Depth(lcl) <= Depth(sp')
  BY <1>1, <1>2
<1>11. phase' = "run" /\ UNCHANGED <<program, fn, lcl, arg, ra>> /\ {this', that', a0'} \subseteq Words
  BY <1>1 DEF Push, Typed
<1> QED
  BY <1>1, <1>2, <1>7, <1>9, <1>10, <1>11, RunKeeps DEF StaysIn

LEMMA PopRuns ==
  ASSUME FInv, NEW n, NEW fr, Layout(n, fr), fr[n] = Current,
         NEW seg \in program.segments, NEW i, Pop(seg, i)
  PROVE  StaysIn(n, fr)
<1>1. /\ Typed /\ phase = "run" /\ mem \in [Cells \cup Stack(sp) -> Words] /\ sp \in Stack(sp)
  BY RunFacts DEF Pop
<1>2. mem[sp] \in Words
  BY <1>1
<1>3. CASE seg = "pointer"
  <2>1. mem' = Stored(<<>>, sp') /\ {this', that', a0'} \subseteq Words /\ DOMAIN <<>> = {}
    BY <1>1, <1>2, <1>3 DEF Pop, Typed
  <2>2. \A a \in DOMAIN <<>> : <<>>[a] \in Words /\ a \in Writable(n, fr)
    BY <2>1
  <2> QED
    BY <2>1, <2>2, Popping DEF Pop
<1>4. CASE seg # "pointer"
  <2> DEFINE new == Word(Address(seg, i), mem[sp])
  <2>1. mem' = Stored(new, sp') /\ {this', that', a0'} \subseteq Words
    BY <1>1, <1>4 DEF Pop, Typed
  <2>2. DOMAIN new = {Address(seg, i)} /\ new[Address(seg, i)] = mem[sp]
    BY DEF Word
  <2>3. Address(seg, i) \in Writable(n, fr)
    BY <1>1, <1>4, AddressIsOwn DEF Pop
  <2> HIDE DEF new
  <2>4. \A a \in DOMAIN new : new[a] \in Words /\ a \in Writable(n, fr)
    BY <1>2, <2>2, <2>3
  <2> QED
    BY <2>1, <2>4, Popping DEF Pop
<1> QED
  BY <1>3, <1>4

LEMMA BinaryRuns ==
  ASSUME FInv, NEW n, NEW fr, Layout(n, fr), fr[n] = Current, NEW op \in Operations, Binary(op)
  PROVE  StaysIn(n, fr)
<1>1. phase = "run" /\ WorkWords >= 2 /\ sp' = Slot(sp, 1)
  BY DEF Binary
<1>2. /\ Typed /\ program \in Programs /\ mem \in [Cells \cup Stack(sp) -> Words] /\ sp \in Stack(sp)
      /\ Words \subseteq Int /\ Depth(Base(fr[n])) <= Depth(lcl) /\ WorkWords = Depth(sp) - Depth(lcl)
      /\ Depth(Base(fr[n])) \in Int /\ Depth(lcl) \in Int /\ Depth(sp) \in Int
  BY <1>1, RunFacts
<1>3. WorkWords >= 1
  BY <1>1, <1>2
<1>4. /\ sp' \in StackCells /\ sp' \in Stack(sp) /\ Depth(sp') = Depth(sp) - 1
  BY <1>1, <1>3, PopMoves
<1> DEFINE v == VM!Result(op, mem[Slot(sp, 1)], mem[sp])
<1>5. v \in Words
  <2>1. mem[Slot(sp, 1)] \in Int /\ mem[sp] \in Int
    BY <1>1, <1>2, <1>4
  <2> QED
    BY <2>1, ResultTyped
<1>6. sp' \in Writable(n, fr)
  <2>1. Depth(sp') > Depth(Base(fr[n]))
    BY <1>1, <1>2, <1>4
  <2> QED
    BY <1>2, <1>4, <2>1, WorkIsFree
<1> DEFINE new == Word(sp', v)
<1>7. mem' = Stored(new, sp') /\ phase' = "run" /\ UNCHANGED <<program, fn, lcl, arg, ra>>
  BY DEF Binary
<1>8. {this', that', a0'} \subseteq Words
  BY <1>2 DEF Binary, Typed
<1>9. \A a \in DOMAIN new : new[a] \in Words /\ a \in Writable(n, fr)
  BY <1>5, <1>6 DEF Word
<1> HIDE DEF new
<1> QED
  BY <1>1, <1>3, <1>7, <1>8, <1>9, Popping

LEMMA IfGotoRuns ==
  ASSUME FInv, NEW n, NEW fr, Layout(n, fr), fr[n] = Current, IfGoto
  PROVE  StaysIn(n, fr)
<1>1. phase = "run" /\ WorkWords >= 1 /\ sp' = Slot(sp, 1)
  BY DEF IfGoto
<1>2. Typed
  BY DEF FInv
<1>3. mem' = Stored(<<>>, sp') /\ phase' = "run" /\ UNCHANGED <<program, fn, lcl, arg, ra>>
  BY DEF IfGoto
<1>4. {this', that', a0'} \subseteq Words
  BY <1>2 DEF IfGoto, Typed
<1>5. \A a \in DOMAIN <<>> : <<>>[a] \in Words /\ a \in Writable(n, fr)
  OBVIOUS
<1> QED
  BY <1>1, <1>3, <1>4, <1>5, Popping

(* A command that overwrites the top of the working stack. *)
LEMMA Overwriting ==
  ASSUME FInv, phase = "run", NEW n, NEW fr, Layout(n, fr), fr[n] = Current, WorkWords >= 1,
         sp' = sp, NEW v \in Words, mem' = [mem EXCEPT ![sp] = v],
         phase' = "run", UNCHANGED <<program, fn, lcl, arg, ra>>, {this', that', a0'} \subseteq Words
  PROVE  StaysIn(n, fr)
<1>1. /\ Typed /\ program \in Programs /\ mem \in [Cells \cup Stack(sp) -> Words] /\ sp \in Stack(sp)
      /\ Depth(Base(fr[n])) <= Depth(lcl) /\ WorkWords = Depth(sp) - Depth(lcl) /\ Depth(lcl) <= Depth(sp)
      /\ Depth(Base(fr[n])) \in Int /\ Depth(lcl) \in Int /\ Depth(sp) \in Int
  BY RunFacts
<1>2. sp \notin Owned(n, fr)
  <2>1. Depth(sp) > Depth(Base(fr[n])) /\ sp \in StackCells
    BY <1>1 DEF Typed
  <2> QED
    BY <1>1, <2>1, WorkIsFree DEF Writable
<1>3. mem' \in [Cells \cup Stack(sp') -> Words]
  BY <1>1
<1>4. \A a \in Owned(n, fr) : mem'[a] = mem[a]
  <2> SUFFICES ASSUME NEW a \in Owned(n, fr) PROVE mem'[a] = mem[a]
    OBVIOUS
  <2>1. a \in StackCells /\ Depth(a) <= Depth(lcl) /\ Depth(a) \in Int
    <3>1. fr[n].lcl = lcl
      BY RunFacts DEF Registers
    <3> QED
      BY <1>1, <3>1, OwnedInFrames
  <2>2. a \in Stack(sp)
    <3>1. Depth(a) <= Depth(sp) /\ sp \in Int
      BY <1>1, <2>1, RunFacts
    <3> QED
      BY <1>1, <2>1, <3>1, StackWords
  <2> QED
    BY <1>1, <1>2, <2>2
<1> QED
  BY <1>1, <1>3, <1>4, RunKeeps DEF StaysIn, Typed

LEMMA UnaryRuns ==
  ASSUME FInv, NEW n, NEW fr, Layout(n, fr), fr[n] = Current, Unary
  PROVE  StaysIn(n, fr)
<1>1. VM!Bit(mem[sp] = 0) \in Words
  BY WordsAssumption DEF VM!Bit
<1>2. mem' = [mem EXCEPT ![sp] = VM!Bit(mem[sp] = 0)]
  BY DEF Unary
<1>3. {this', that', a0'} \subseteq Words
  BY DEF Unary, FInv, Typed
<1> QED
  BY <1>1, <1>2, <1>3, Overwriting DEF Unary

LEMMA PeekRuns ==
  ASSUME FInv, NEW n, NEW fr, Layout(n, fr), fr[n] = Current, Peek
  PROVE  StaysIn(n, fr)
<1>1. mem[mem[sp]] \in Words
  BY RunFacts DEF Peek
<1>2. mem' = [mem EXCEPT ![sp] = mem[mem[sp]]]
  BY DEF Peek
<1>3. {this', that', a0'} \subseteq Words
  BY <1>1 DEF Peek, FInv, Typed
<1> QED
  BY <1>1, <1>2, <1>3, Overwriting DEF Peek

LEMMA PokeRuns ==
  ASSUME FInv, NEW n, NEW fr, Layout(n, fr), fr[n] = Current, Poke
  PROVE  StaysIn(n, fr)
<1>1. phase = "run" /\ WorkWords >= 2 /\ sp' = Slot(sp, 1) /\ mem[sp] \in Cells
  BY DEF Poke
<1>2. /\ Typed /\ program \in Programs /\ mem \in [Cells \cup Stack(sp) -> Words] /\ sp \in Stack(sp)
      /\ Depth(Base(fr[n])) <= Depth(lcl) /\ WorkWords = Depth(sp) - Depth(lcl)
      /\ Depth(Base(fr[n])) \in Int /\ Depth(lcl) \in Int /\ Depth(sp) \in Int
  BY <1>1, RunFacts
<1>3. WorkWords >= 1
  BY <1>1, <1>2
<1>4. /\ sp' \in StackCells /\ sp' \in Stack(sp) /\ Depth(sp') = Depth(sp) - 1
  BY <1>1, <1>3, PopMoves
<1>5. mem[Slot(sp, 1)] \in Words /\ a0 \in Words
  BY <1>1, <1>2, <1>4 DEF Typed
<1>6. sp' \in Writable(n, fr) /\ mem[sp] \in Writable(n, fr)
  <2>1. Depth(sp') > Depth(Base(fr[n]))
    BY <1>1, <1>2, <1>4
  <2>2. mem[sp] \notin StackCells
    BY <1>1, <1>2, FrameAssumption DEF StackCells
  <2> QED
    BY <1>1, <1>2, <1>4, <2>1, <2>2, WorkIsFree
<1> DEFINE new == [a \in {mem[sp], sp'} |-> IF a = sp' THEN a0 ELSE mem[Slot(sp, 1)]]
<1>7. mem' = Stored(new, sp') /\ phase' = "run" /\ UNCHANGED <<program, fn, lcl, arg, ra>>
  BY DEF Poke
<1>8. {this', that', a0'} \subseteq Words
  BY <1>2 DEF Poke, Typed
<1>9. \A a \in DOMAIN new : new[a] \in Words /\ a \in Writable(n, fr)
  BY <1>5, <1>6
<1> HIDE DEF new
<1> QED
  BY <1>1, <1>3, <1>7, <1>8, <1>9, Popping

(* The words `new', above the top of the stack, end at s and hold k values. *)
Above(s, new, values, k) ==
  /\ s \in Int /\ Depth(s) = Depth(sp) + k /\ Depth(sp) \in Int
  /\ \A i \in 0..(k - 1) : Slot(s, i) \in DOMAIN new /\ new[Slot(s, i)] = values[i]
  /\ \A a \in DOMAIN new : /\ \E i \in 0..(k - 1) : new[a] = values[i]
                           /\ Depth(a) > Depth(sp) /\ Depth(a) \in Int
  /\ Stack(s) \ Stack(sp) \subseteq DOMAIN new

LEMMA OnTopWords ==
  ASSUME program \in Programs, sp \in Int, NEW k \in Nat, NEW s, s = Allocated(k),
         NEW values, DOMAIN values = 0..(k - 1)
  PROVE  Above(s, OnTop(s, values), values, k)
<1>1. s \in Int /\ Depth(s) = Depth(sp) + k /\ Depth(sp) \in Int
  BY Moves
<1>2. DOMAIN OnTop(s, values) = {Slot(s, i) : i \in 0..(k - 1)}
  BY DEF OnTop
<1>3. ASSUME NEW i \in 0..(k - 1)
      PROVE  /\ Slot(s, i) \in DOMAIN OnTop(s, values)
             /\ OnTop(s, values)[Slot(s, i)] = values[i]
             /\ Depth(Slot(s, i)) = Depth(s) - i /\ Depth(Slot(s, i)) \in Int
  <2>1. FrameOffset(Slot(s, i) - s) = i
    BY <1>1 DEF Slot, FrameOffset
  <2>2. i \in Int
    OBVIOUS
  <2>3. Depth(Slot(s, i)) = Depth(s) - i
    BY <1>1, <2>2, Depths
  <2> QED
    BY <1>1, <1>2, <2>1, <2>2, <2>3 DEF OnTop
<1>4. ASSUME NEW a \in DOMAIN OnTop(s, values)
      PROVE  /\ \E i \in 0..(k - 1) : OnTop(s, values)[a] = values[i]
             /\ Depth(a) > Depth(sp) /\ Depth(a) \in Int
  <2>1. PICK i \in 0..(k - 1) : a = Slot(s, i)
    BY <1>2
  <2> QED
    BY <1>1, <1>3, <2>1
<1>5. ASSUME NEW a \in Stack(s), a \notin Stack(sp) PROVE a \in DOMAIN OnTop(s, values)
  <2>1. a \in StackCells /\ Depth(a) <= Depth(s) /\ ~(Depth(a) <= Depth(sp))
    BY <1>1, <1>5, StackWords
  <2>2. a \in Int /\ Depth(a) \in Int
    BY <2>1, Depths
  <2> DEFINE i == Depth(s) - Depth(a)
  <2>3. i \in 0..(k - 1) /\ Depth(a) = Depth(s) - i /\ i \in Int
    BY <1>1, <2>1, <2>2
  <2> HIDE DEF i
  <2>4. Slot(s, i) \in Int /\ Depth(Slot(s, i)) = Depth(a)
    BY <1>1, <2>3, Depths
  <2>5. a = Slot(s, i)
    BY <2>2, <2>4, Depths
  <2> QED
    BY <1>3, <2>3, <2>5
<1> QED
  BY <1>1, <1>3, <1>4, <1>5 DEF Above

LEMMA DrawPixelRuns ==
  ASSUME FInv, NEW n, NEW fr, Layout(n, fr), fr[n] = Current, NEW color \in {0, 1}, DrawPixel(color)
  PROVE  StaysIn(n, fr)
<1>1. /\ Typed /\ program \in Programs /\ sp \in Int /\ phase = "run" /\ Depth(lcl) <= Depth(sp)
      /\ Depth(Base(fr[n])) <= Depth(lcl) /\ Depth(Base(fr[n])) \in Int /\ Depth(lcl) \in Int
      /\ fr[n].lcl = lcl
  BY RunFacts DEF DrawPixel, Registers
<1> DEFINE values == [i \in 0..(3 - 1) |-> CASE i = 0 -> color [] i = 1 -> lcl [] i = 2 -> ra]
           new == OnTop(sp', values)
<1>2. sp' = Allocated(3) /\ DOMAIN values = 0..(3 - 1)
  BY DEF DrawPixel
<1>3. \A i \in 0..(3 - 1) : values[i] \in Words
  <2>1. color \in Words /\ lcl \in Words /\ ra \in Words
    BY <1>1, WordsAssumption DEF Typed
  <2> QED
    BY <2>1
<1>4. mem' = Stored(new, sp')
  BY DEF DrawPixel
<1> HIDE DEF values
<1>5. /\ sp' \in Int /\ Depth(sp') = Depth(sp) + 3 /\ Depth(sp) \in Int
      /\ \A a \in DOMAIN new : /\ \E i \in 0..(3 - 1) : new[a] = values[i]
                               /\ Depth(a) > Depth(sp) /\ Depth(a) \in Int
      /\ Stack(sp') \ Stack(sp) \subseteq DOMAIN new
  <2>1. PICK k \in Nat : k = 3
    OBVIOUS
  <2>2. sp' = Allocated(k) /\ DOMAIN values = 0..(k - 1)
    BY <1>2, <2>1
  <2>3. Above(sp', new, values, k)
    BY <1>1, <2>2, OnTopWords
  <2> HIDE DEF new
  <2> QED
    BY <2>1, <2>3 DEF Above
<1> HIDE DEF new
<1>6. sp' \in StackCells
  <2>1. Allocated(4) \in StackCells /\ Depth(Allocated(4)) = Depth(sp) + 4
    BY <1>1, Moves DEF DrawPixel
  <2>2. Depth(sp) >= 0
    BY <1>1, Depths DEF Typed
  <2>3. Depth(sp') \in 0..Depth(Allocated(4))
    BY <1>5, <2>1, <2>2
  <2> QED
    BY <1>1, <1>5, <2>1, <2>3, Depths
<1>7. mem' \in [Cells \cup Stack(sp') -> Words]
  BY <1>1, <1>3, <1>4, <1>5, StoredTyped
<1>8. \A a \in Owned(n, fr) : mem'[a] = mem[a]
  <2>1. DOMAIN new \cap Owned(n, fr) = {}
    BY <1>1, <1>5, OwnedInFrames
  <2>2. Depth(Base(fr[n])) <= Depth(sp')
    BY <1>1, <1>5
  <2> QED
    BY <1>1, <1>4, <1>5, <2>1, <2>2, StoredKeeps
<1>9. Depth(lcl) <= Depth(sp') /\ {this', that', a0'} \subseteq Words
  BY <1>1, <1>5, WordsAssumption DEF DrawPixel, Typed
<1>10. phase' = "run" /\ UNCHANGED <<program, fn, lcl, arg, ra>>
  BY DEF DrawPixel
<1> QED
  BY <1>1, <1>6, <1>7, <1>8, <1>9, <1>10, RunKeeps DEF StaysIn

-----------------------------------------------------------------------------
(* Calls *)

LEMMA KeptTop ==
  ASSUME program \in Programs, UNCHANGED program, NEW n, NEW fr, Layout(n, fr), NEW r \in Register,
         r.fn = fr[n].fn, r.lcl = fr[n].lcl, r.arg = fr[n].arg, r.ra = fr[n].ra,
         Depth(r.lcl) <= Depth(r.sp),
         NEW b \in StackCells, Depth(Base(fr[n])) <= Depth(b),
         \A a \in Owned(n, fr) : mem'[a] = mem[a]
  PROVE  Layout(n, [fr EXCEPT ![n] = r])' /\ [fr EXCEPT ![n] = r][n] = r
<1> DEFINE gr == [fr EXCEPT ![n] = r]
<1>1. n \in Nat \ {0} /\ n \in 1..n /\ fr \in [1..n -> Register]
  BY DEF Layout
<1>2. Layout(n, gr)
  BY TopChanges
<1>3. gr[n] = r /\ (n > 1 => gr[n - 1] = fr[n - 1]) /\ Base(gr[n]) = Base(fr[n])
  BY <1>1 DEF Base
<1> HIDE DEF gr
<1>4. Owned(n, gr) = Owned(n, fr) /\ Depth(Base(gr[n])) <= Depth(b)
  BY <1>3 DEF Owned
<1>5. Layout(n, gr)'
  BY <1>2, <1>4, LayoutKept
<1> QED
  BY <1>3, <1>5 DEF gr

LEMMA CallKeeps ==
  ASSUME FInv, NEW n, NEW fr, Layout(n, fr), fr[n] = Current, NEW k \in program.calls, Call(k)
  PROVE  /\ StaysIn(n, fr) /\ Line' = CallLines[k] /\ CallLines[k].n \in 0..WorkWords
         /\ Current' = Registers(fn, Slot(sp, CallLines[k].n), lcl, arg, this, that, ra)
         /\ \A a \in Cells \cup Stack(sp) : mem'[a] = mem[a]
<1> DEFINE c == CallLines[k]
<1>1. /\ Typed /\ program \in Programs /\ n \in Nat \ {0} /\ n \in 1..n /\ fr[n] \in Register
      /\ fr[n] = Registers(fn, sp, lcl, arg, this, that, ra) /\ Words \subseteq Int
      /\ sp \in Int /\ lcl \in Int /\ Depth(sp) \in Int /\ Depth(lcl) \in Int
      /\ Depth(Base(fr[n])) \in Int /\ 1 <= Depth(Base(fr[n]))
      /\ Depth(Base(fr[n])) <= Depth(lcl) /\ Depth(lcl) <= Depth(sp)
      /\ WorkWords = Depth(sp) - Depth(lcl)
      /\ phase = "run"
  BY RunFacts DEF Call
<1>2. /\ k \in DOMAIN CallLines /\ c \in [in : Functions, to : Functions, n : Nat]
      /\ CodeBase + k \in Calls /\ CodeBase + k \in Words /\ CodeBase \in Nat
      /\ (CodeBase + k) - CodeBase = k
  <2>1. k \in DOMAIN CallLines /\ CallLines \in Seq([in : Functions, to : Functions, n : Nat]) /\ CodeBase \in Nat
    BY <1>1, FrameAssumption DEF VM!MachineAssumption
  <2>2. k \in 1..Len(CallLines)
    BY <2>1
  <2>3. c \in [in : Functions, to : Functions, n : Nat]
    BY <2>1, <2>2, ElementOfSeq
  <2> QED
    BY <2>1, <2>2, <2>3, WordsAssumption DEF Calls
<1>3. ra' = CodeBase + k /\ Line' = c /\ ra' # Halt
  BY <1>2, CallLineTyped DEF Call, Line
<1> DEFINE new == OnTop(sp', Saved)
<1>4. sp' = Allocated(5) /\ DOMAIN Saved = 0..(5 - 1) /\ mem' = Stored(new, sp') /\ sp' \in StackCells
  BY DEF Call, Saved, SlotCount
<1>5. /\ sp' \in Int /\ Depth(sp') = Depth(sp) + 5
      /\ \A i \in 0..(5 - 1) : Slot(sp', i) \in DOMAIN new /\ new[Slot(sp', i)] = Saved[i]
      /\ \A a \in DOMAIN new : /\ \E i \in 0..(5 - 1) : new[a] = Saved[i]
                               /\ Depth(a) > Depth(sp) /\ Depth(a) \in Int
      /\ Stack(sp') \ Stack(sp) \subseteq DOMAIN new
  <2>1. PICK j \in Nat : j = 5
    OBVIOUS
  <2>2. sp' = Allocated(j) /\ DOMAIN Saved = 0..(j - 1)
    BY <1>4, <2>1
  <2>3. Above(sp', new, Saved, j)
    BY <1>1, <2>2, OnTopWords
  <2> HIDE DEF new
  <2> QED
    BY <2>1, <2>3 DEF Above
<1>6. /\ Saved[0] = ra /\ Saved[1] = this /\ Saved[2] = that /\ Saved[3] = arg /\ Saved[4] = lcl
      /\ \A i \in 0..(5 - 1) : Saved[i] \in Words
  <2>1. /\ Saved[0] = ra /\ Saved[1] = this /\ Saved[2] = that /\ Saved[3] = arg /\ Saved[4] = lcl
    BY DEF Saved, SlotCount, RetAddr, This, That, Arg, Local
  <2>2. \A i \in 0..(5 - 1) : i \in {0, 1, 2, 3, 4}
    OBVIOUS
  <2> QED
    BY <1>1, <2>1, <2>2 DEF Typed
<1> HIDE DEF new
<1>7. mem' \in [Cells \cup Stack(sp') -> Words]
  BY <1>1, <1>4, <1>5, <1>6, StoredTyped
<1>8. \A a \in Owned(n, fr) : mem'[a] = mem[a]
  <2>1. DOMAIN new \cap Owned(n, fr) = {}
    <3>1. fr[n].lcl = lcl
      BY <1>1 DEF Registers
    <3> QED
      BY <1>1, <1>5, <3>1, OwnedInFrames
  <2>2. Depth(Base(fr[n])) <= Depth(sp')
    BY <1>1, <1>5
  <2> QED
    BY <1>1, <1>4, <1>5, <2>1, <2>2, StoredKeeps
<1>9. \A i \in 0..(5 - 1) : mem'[Slot(sp', i)] = Saved[i]
  <2> SUFFICES ASSUME NEW i \in 0..(5 - 1) PROVE mem'[Slot(sp', i)] = Saved[i]
    OBVIOUS
  <2>1. Slot(sp', i) \in Int /\ Depth(Slot(sp', i)) = Depth(sp') - i
    <3>1. i \in Int
      OBVIOUS
    <3> QED
      BY <1>1, <1>5, <3>1, Depths
  <2>2. Depth(Slot(sp', i)) \in 0..Depth(sp') /\ Depth(Slot(sp', i)) <= Depth(sp')
    BY <1>1, <1>5, <2>1
  <2>3. Slot(sp', i) \in StackCells
    BY <1>1, <1>4, <2>1, <2>2, Depths
  <2>4. Slot(sp', i) \in Stack(sp')
    BY <1>1, <1>5, <2>2, <2>3, StackWords
  <2> QED
    BY <1>4, <1>5, <2>4 DEF Stored
<1>k. ASSUME NEW a \in Cells \cup Stack(sp) PROVE mem'[a] = mem[a]
  <2>1. a \notin DOMAIN new
    <3>1. ASSUME a \in DOMAIN new, a \in Cells PROVE FALSE
      <4>1. PICK i \in 0..(5 - 1) : a = Slot(sp', i)
        BY <1>4, <3>1 DEF OnTop, new
      <4>2. Slot(sp', i) \in Int /\ Depth(Slot(sp', i)) = Depth(sp') - i
        <5>1. i \in Int
          OBVIOUS
        <5> QED
          BY <1>1, <1>5, <5>1, Depths
      <4>3. Depth(Slot(sp', i)) \in 0..Depth(sp')
        BY <1>1, <1>5, <4>2
      <4>4. a \in StackCells
        BY <1>1, <1>4, <4>1, <4>2, <4>3, Depths
      <4> QED
        BY <1>1, <3>1, <4>4, FrameAssumption DEF StackCells
    <3>2. ASSUME a \in DOMAIN new, a \in Stack(sp) PROVE FALSE
      BY <1>1, <1>5, <3>2, StackWords
    <3> QED
      BY <3>1, <3>2
  <2>2. a \in Cells \cup Stack(sp')
    <3> SUFFICES ASSUME a \in Stack(sp) PROVE a \in Stack(sp')
      OBVIOUS
    <3>1. a \in StackCells /\ Depth(a) <= Depth(sp) /\ Depth(a) \in Int
      BY <1>1, StackWords, Depths
    <3> QED
      BY <1>1, <1>5, <3>1, StackWords
  <2> QED
    BY <1>4, <2>1, <2>2 DEF Stored
<1>r. PICK r : r = Registers(fn, Slot(sp, c.n), lcl, arg, this, that, ra)
  OBVIOUS
<1>10. Slot(sp', SlotCount + c.n) = Slot(sp, c.n) /\ Slot(sp', SlotCount) = sp
  BY <1>1, <1>2, <1>4 DEF Allocated, Slot, FrameOffset, SlotCount
<1>11. Current' = r
  <2>1. program' = program /\ phase' = "enter" /\ c.in = fn
    BY DEF Call
  <2>2. \A a, i : Slot(a, i)' = Slot(a, i)
    BY <2>1, Unmoved
  <2>3. /\ mem'[Slot(sp', 0)] = ra /\ mem'[Slot(sp', 1)] = this /\ mem'[Slot(sp', 2)] = that
        /\ mem'[Slot(sp', 3)] = arg /\ mem'[Slot(sp', 4)] = lcl
    BY <1>6, <1>9
  <2>4. Current' = Caller(sp, ra)'
    BY <2>1 DEF Current
  <2>5. Caller(sp, ra)' = Registers(c.in, Slot(sp', SlotCount + c.n), mem'[Slot(sp', 4)],
                                    mem'[Slot(sp', 3)], mem'[Slot(sp', 1)], mem'[Slot(sp', 2)], mem'[Slot(sp', 0)])
    BY <1>2, <1>3, <2>1 DEF Caller, Registers, Slot, FrameOffset, RetAddr, This, That, Arg, Local
  <2> QED
    BY <1>r, <1>10, <2>1, <2>3, <2>4, <2>5
<1>12. r \in Register /\ Depth(r.lcl) <= Depth(r.sp) /\ r.sp = Slot(sp, c.n)
  <2>1. Slot(sp, c.n) \in Int /\ Depth(Slot(sp, c.n)) = Depth(sp) - c.n /\ c.n \in Nat
    BY <1>1, <1>2, Moves
  <2>2. c.n <= WorkWords
    BY DEF Call
  <2>3. Depth(lcl) <= Depth(Slot(sp, c.n))
    BY <1>1, <2>1, <2>2
  <2>4. fn \in Functions /\ lcl \in Int /\ arg \in Int /\ this \in Words /\ that \in Words /\ ra \in Int
    BY <1>1 DEF Register, Registers
  <2> QED
    BY <1>r, <2>1, <2>3, <2>4 DEF Register, Registers
<1>13. Layout(n, [fr EXCEPT ![n] = r])' /\ [fr EXCEPT ![n] = r][n] = r
  <2>1. r.fn = fr[n].fn /\ r.lcl = fr[n].lcl /\ r.arg = fr[n].arg /\ r.ra = fr[n].ra
    BY <1>1, <1>r DEF Registers
  <2>2. Depth(Base(fr[n])) <= Depth(sp') /\ program' = program
    BY <1>1, <1>5 DEF Call
  <2> QED
    BY <1>1, <1>4, <1>8, <1>12, <2>1, <2>2, KeptTop
<1>14. Typed'
  <2>1. Stack(sp)' = Stack(sp') /\ StackCells' = StackCells
    BY DEF Stack, StackCells, FrameOffset, Call
  <2>2. arg' \in Words
    <3>1. sp \in Words
      BY <1>1, WordsAssumption DEF Typed, StackCells
    <3> QED
      BY <1>1, <1>10, <3>1 DEF Call, Typed
  <2> QED
    BY <1>1, <1>2, <1>4, <1>7, <2>1, <2>2 DEF Typed, Call
<1>15. Entered'
  <2>1. fn' = Line'.to /\ this' = Current'.this /\ that' = Current'.that
    BY <1>r, <1>3, <1>11 DEF Call, Registers
  <2>2. c.n > 0 => arg' = Slot(sp', SlotCount)
    BY DEF Call
  <2> QED
    BY <1>3, <2>1, <2>2 DEF Entered, Slot, FrameOffset, Call
<1>16. FInv'
  <2>1. (\E m, gr : Layout(m, gr) /\ gr[m] = Current)'
    BY <1>11, <1>13
  <2>2. ra' \in Calls /\ phase' = "enter"
    BY <1>2, <1>3 DEF Call
  <2> QED
    BY <1>3, <1>14, <1>15, <2>1, <2>2 DEF FInv
<1>17. StaysIn(n, fr)
  <2> SUFFICES ASSUME NEW q, q = Current'
               PROVE  Layout(n, [fr EXCEPT ![n] = q])' /\ [fr EXCEPT ![n] = q][n] = Current'
    BY <1>8, <1>16 DEF StaysIn
  <2>1. q = r
    BY <1>11
  <2> QED
    BY <1>11, <1>13, <2>1
<1>18. c.n \in 0..WorkWords
  BY <1>1, <1>2 DEF Call
<1> QED
  BY <1>r, <1>3, <1>11, <1>17, <1>18, <1>k

(* The activation that starts: the entry function's, or one above a caller. *)
LEMMA EntryLayout ==
  ASSUME program \in Programs, NEW r \in Register, r.ra = Halt, Depth(Base(r)) = 1, r.arg = Base(r),
         Depth(r.lcl) <= Depth(r.sp)
  PROVE  Layout(1, <<r>>)
<1>1. <<r>> \in [1..1 -> Register] /\ <<r>>[1] = r /\ \A k \in 1..1 : k = 1
  OBVIOUS
<1>2. 2..1 = {} /\ 1 \in Nat \ {0}
  OBVIOUS
<1> QED
  BY <1>1, <1>2 DEF Layout

LEMMA CalleeLayout ==
  ASSUME program \in Programs, NEW n, NEW fr, Layout(n, fr), NEW r \in Register, r.ra \in Calls,
         fr[n] = CallerOf(r), ArgsOf(r) > 0 => r.arg = Slot(Base(r), SlotCount),
         Depth(r.lcl) <= Depth(r.sp),
         NEW gr, gr = [k \in 1..n + 1 |-> IF k = n + 1 THEN r ELSE fr[k]]
  PROVE  Layout(n + 1, gr)
<1>1. n \in Nat \ {0} /\ fr \in [1..n -> Register] /\ n + 1 \in Nat \ {0}
  BY DEF Layout
<1>2. gr \in [1..n + 1 -> Register]
  BY <1>1
<1>3. gr[n + 1] = r /\ gr[1] = fr[1] /\ gr[n] = fr[n] /\ \A k \in 1..n : gr[k] = fr[k]
  BY <1>1
<1>4. \A k \in 1..n + 1 : Depth(gr[k].lcl) <= Depth(gr[k].sp)
  BY <1>1, <1>3 DEF Layout
<1>5. gr[1].ra = Halt /\ Depth(Base(gr[1])) = 1 /\ gr[1].arg = Base(gr[1])
  BY <1>3 DEF Layout
<1>6. ASSUME NEW k \in 2..n + 1
      PROVE  /\ gr[k].ra \in Calls /\ gr[k - 1] = CallerOf(gr[k])
             /\ ArgsOf(gr[k]) > 0 => gr[k].arg = Slot(Base(gr[k]), SlotCount)
  <2>1. CASE k = n + 1
    <3>1. gr[k] = r /\ gr[k - 1] = fr[n]
      BY <1>1, <1>3, <2>1
    <3> QED
      BY <3>1
  <2>2. CASE k # n + 1
    <3>1. k \in 2..n /\ gr[k] = fr[k] /\ gr[k - 1] = fr[k - 1]
      BY <1>1, <1>3, <2>2
    <3> QED
      BY <3>1 DEF Layout
  <2> QED
    BY <2>1, <2>2
<1> QED
  BY <1>1, <1>2, <1>4, <1>5, <1>6 DEF Layout

LEMMA FunctionMoves ==
  ASSUME FInv, Function
  PROVE  /\ sp' \in StackCells /\ sp' \in Int /\ Depth(sp') = Depth(sp) + NLocals[fn] /\ Depth(sp) \in Int
         /\ NLocals[fn] \in Nat /\ Typed' /\ sp' \in Words /\ Slot(sp', NLocals[fn]) = sp
         /\ \A a \in Cells \cup Stack(sp) : mem'[a] = mem[a]
         /\ \A a \in Stack(sp') \ Stack(sp) : mem'[a] \in Leftovers
<1>1. Typed /\ program \in Programs /\ sp \in Int /\ sp \in StackCells /\ NLocals[fn] \in Nat
  BY Depths, LocalsTyped DEF FInv, Typed
<1>2. /\ sp' \in StackCells /\ sp' \in Int /\ Depth(sp') = Depth(sp) + NLocals[fn] /\ Depth(sp) \in Int
  BY <1>1, Moves DEF Function
<1>3. sp' \in Words
  BY <1>1, <1>2, WordsAssumption DEF StackCells
<1>4. Slot(sp', NLocals[fn]) = sp
  BY <1>1, <1>2 DEF Function, Allocated, Slot, FrameOffset
<1>5. PICK found \in [Stack(sp') \ Stack(sp) -> Leftovers] : mem' = Stored(found, sp')
  BY DEF Function
<1>6. mem' \in [Cells \cup Stack(sp') -> Words]
  BY <1>1, <1>5, StoredTyped, WordsAssumption
<1>7. Typed'
  <2>1. Stack(sp)' = Stack(sp') /\ StackCells' = StackCells
    BY DEF Stack, StackCells, FrameOffset, Function
  <2> QED
    BY <1>1, <1>2, <1>3, <1>6, <2>1 DEF Typed, Function
<1>8. \A a \in Cells \cup Stack(sp) : a \in Cells \cup Stack(sp')
  <2> SUFFICES ASSUME NEW a \in Stack(sp) PROVE a \in Stack(sp')
    OBVIOUS
  <2>1. a \in StackCells /\ Depth(a) <= Depth(sp)
    BY <1>1, StackWords
  <2>2. Depth(a) \in Int
    BY <1>1, <2>1, Depths
  <2>3. Depth(a) <= Depth(sp')
    BY <1>1, <1>2, <2>1, <2>2
  <2> QED
    BY <1>1, <1>2, <2>1, <2>3, StackWords
<1>9. \A a \in Cells \cup Stack(sp) : a \notin Stack(sp') \ Stack(sp)
  <2>1. \A a \in Cells : a \notin Stack(sp')
    BY <1>1, FrameAssumption DEF Stack, StackCells
  <2> QED
    BY <2>1
<1>10. \A a \in Cells \cup Stack(sp) : mem'[a] = mem[a]
  BY <1>5, <1>8, <1>9 DEF Stored
<1>11. \A a \in Stack(sp') \ Stack(sp) : mem'[a] \in Leftovers
  BY <1>5 DEF Stored
<1> QED
  BY <1>1, <1>2, <1>3, <1>4, <1>7, <1>10, <1>11

LEMMA FunctionStarts ==
  ASSUME FInv, Function, ra = Halt
  PROVE  /\ FInv'
         /\ \A r : r = Current' => Layout(1, <<r>>)'
<1>1. /\ sp' \in StackCells /\ sp' \in Int /\ Depth(sp') = Depth(sp) + NLocals[fn] /\ Depth(sp) \in Int
      /\ NLocals[fn] \in Nat /\ Typed' /\ Slot(sp', NLocals[fn]) = sp
  BY FunctionMoves
<1>2. /\ program \in Programs /\ Typed /\ Words \subseteq Int /\ Depth(sp) = 1 /\ arg = sp /\ phase = "enter"
  BY ZeroIsWord DEF FInv, Typed, Function
<1>3. PICK r : r = Registers(fn, sp', sp', arg, this, that, ra)
  OBVIOUS
<1>4. r = Current'
  BY <1>3 DEF Function, Current, Registers
<1>5. r \in Register
  <2>1. fn \in Functions /\ arg \in Int /\ this \in Words /\ that \in Words /\ ra \in Int
    BY <1>2 DEF Typed
  <2> QED
    BY <1>1, <1>3, <2>1 DEF Register, Registers
<1>6. Base(r) = sp /\ r.ra = Halt /\ r.arg = sp /\ r.lcl = r.sp
  BY <1>1, <1>2, <1>3 DEF Base, Registers
<1>7. Depth(r.lcl) <= Depth(r.sp)
  BY <1>1, <1>3, <1>6 DEF Registers
<1>8. Layout(1, <<r>>)
  BY <1>2, <1>5, <1>6, <1>7, EntryLayout
<1>9. Layout(1, <<r>>)'
  <2>1. Owned(1, <<r>>) = {} /\ Depth(Base(<<r>>[1])) <= Depth(sp')
    BY <1>1, <1>6 DEF Owned
  <2> QED
    BY <1>1, <1>2, <1>8, <2>1, LayoutKept DEF Function
<1>10. FInv'
  <2>1. (\E m, gr : Layout(m, gr) /\ gr[m] = Current)'
    <3>1. <<r>>[1] = Current'
      BY <1>4
    <3> QED
      BY <1>9, <3>1
  <2>2. phase' = "run" /\ ra' = ra
    BY DEF Function
  <2> QED
    BY <1>1, <2>1, <2>2 DEF FInv
<1> QED
  BY <1>4, <1>9, <1>10

LEMMA FunctionCalled ==
  ASSUME FInv, Function, ra # Halt, NEW n, NEW fr, Layout(n, fr), fr[n] = Current
  PROVE  /\ FInv'
         /\ \A r, gr : r = Current' /\ gr = [k \in 1..n + 1 |-> IF k = n + 1 THEN r ELSE fr[k]]
                         => /\ Layout(n + 1, gr) /\ Layout(n + 1, gr)'
                            /\ \A a \in Owned(n + 1, gr) : mem'[a] = mem[a]
                            /\ Depth(Base(gr[n + 1])) <= Depth(sp')
         /\ \A a \in Owned(n, fr) : mem'[a] = mem[a]
<1>1. /\ sp' \in StackCells /\ sp' \in Int /\ Depth(sp') = Depth(sp) + NLocals[fn] /\ Depth(sp) \in Int
      /\ NLocals[fn] \in Nat /\ Typed' /\ Slot(sp', NLocals[fn]) = sp
      /\ \A a \in Cells \cup Stack(sp) : mem'[a] = mem[a]
  BY FunctionMoves
<1>2. /\ program \in Programs /\ Typed /\ Words \subseteq Int /\ phase = "enter" /\ ra \in Calls /\ Entered
      /\ n \in Nat \ {0} /\ fr \in [1..n -> Register] /\ Started /\ sp \in Int /\ sp \in StackCells
      /\ program' = program
  <2>1. Typed /\ phase = "enter" /\ program' = program /\ ra \in Calls /\ Entered
    BY DEF FInv, Function
  <2>2. program \in Programs /\ sp \in StackCells
    BY <2>1 DEF Typed
  <2>3. Words \subseteq Int /\ sp \in Int
    BY <2>2, ZeroIsWord, Depths
  <2>4. n \in Nat \ {0} /\ fr \in [1..n -> Register]
    BY DEF Layout
  <2>5. Started
    BY <2>1 DEF Started
  <2> QED
    BY <2>1, <2>2, <2>3, <2>4, <2>5
<1>3. PICK r : r = Registers(fn, sp', sp', arg, this, that, ra)
  OBVIOUS
<1>4. r = Current'
  BY <1>3 DEF Function, Current, Registers
<1>5. r \in Register
  <2>1. fn \in Functions /\ arg \in Int /\ this \in Words /\ that \in Words /\ ra \in Int
    BY <1>2 DEF Typed
  <2> QED
    BY <1>1, <1>3, <2>1 DEF Register, Registers
<1>6. Base(r) = sp /\ r.ra = ra /\ r.arg = arg /\ r.lcl = r.sp /\ r.fn = fn
  BY <1>1, <1>2, <1>3 DEF Base, Registers
<1>7. CallerOf(r) = fr[n]
  BY <1>2, <1>6 DEF CallerOf, Current, Base
<1>8. ArgsOf(r) > 0 => r.arg = Slot(Base(r), SlotCount)
  BY <1>2, <1>6 DEF ArgsOf, Entered, Line
<1>9. Depth(r.lcl) <= Depth(r.sp)
  BY <1>1, <1>3, <1>6 DEF Registers
<1>10. PICK gr : gr = [k \in 1..n + 1 |-> IF k = n + 1 THEN r ELSE fr[k]]
  OBVIOUS
<1>11. Layout(n + 1, gr)
  BY <1>2, <1>5, <1>6, <1>7, <1>8, <1>9, <1>10, CalleeLayout
<1>12. \A a \in Owned(n + 1, gr) : mem'[a] = mem[a]
  <2> SUFFICES ASSUME NEW a \in Owned(n + 1, gr) PROVE a \in Stack(sp)
    BY <1>1
  <2>1. gr[n + 1] = r
    BY <1>2, <1>10
  <2>2. a \in StackCells /\ Depth(a) <= Depth(sp)
    BY <1>6, <2>1 DEF Owned
  <2> QED
    BY <1>2, <2>2, StackWords
<1>b. Depth(Base(gr[n + 1])) <= Depth(sp')
  <2>1. gr[n + 1] = r
    BY <1>2, <1>10
  <2> QED
    BY <1>1, <1>6, <2>1
<1>13. Layout(n + 1, gr)'
  BY <1>1, <1>2, <1>11, <1>12, <1>b, LayoutKept
<1>14. FInv'
  <2>1. (\E m, hr : Layout(m, hr) /\ hr[m] = Current)'
    <3>1. gr[n + 1] = Current'
      BY <1>2, <1>4, <1>10
    <3> QED
      BY <1>13, <3>1
  <2>2. phase' = "run" /\ ra' = ra
    BY DEF Function
  <2> QED
    BY <1>1, <1>2, <2>1, <2>2 DEF FInv
<1>15. \A a \in Owned(n, fr) : mem'[a] = mem[a]
  <2> SUFFICES ASSUME NEW a \in Owned(n, fr) PROVE a \in Stack(sp)
    BY <1>1
  <2>1. a \in StackCells /\ Depth(a) <= Depth(fr[n].lcl) /\ Depth(a) \in Int
    BY <1>2, OwnedInFrames
  <2>2. Depth(fr[n].lcl) <= Depth(fr[n].sp) /\ fr[n] \in Register
    BY <1>2 DEF Layout
  <2>3. Depth(fr[n].lcl) \in Int /\ Depth(fr[n].sp) \in Int /\ Depth(fr[n].sp) <= Depth(sp)
    BY <1>2, <2>2, BaseDepth, CurrentDepth
  <2>4. Depth(a) <= Depth(sp)
    BY <1>1, <2>1, <2>2, <2>3
  <2> QED
    BY <1>2, <2>1, <2>4, StackWords
<1> QED
  BY <1>4, <1>10, <1>11, <1>12, <1>13, <1>14, <1>15, <1>b


(* The function that ends leaves its caller's frame as it was. *)
LEMMA Prefix ==
  ASSUME program \in Programs, NEW n, NEW fr, Layout(n, fr), n > 1,
         NEW gr, gr = [k \in 1..n - 1 |-> fr[k]]
  PROVE  /\ Layout(n - 1, gr) /\ gr[n - 1] = fr[n - 1]
         /\ Owned(n - 1, gr) \subseteq Owned(n, fr)
         /\ Depth(Base(gr[n - 1])) <= Depth(Base(fr[n]))
<1>1. n \in Nat \ {0} /\ fr \in [1..n -> Register] /\ n - 1 \in Nat \ {0} /\ n \in 2..n
      /\ \A k \in 1..n - 1 : gr[k] = fr[k] /\ k \in 1..n
  BY DEF Layout
<1>2. gr \in [1..n - 1 -> Register] /\ gr[n - 1] = fr[n - 1] /\ gr[1] = fr[1]
  BY <1>1
<1>3. \A k \in 2..n - 1 : gr[k] = fr[k] /\ gr[k - 1] = fr[k - 1] /\ k \in 2..n
  BY <1>1
<1>4. \A k \in 1..n - 1 : Depth(gr[k].lcl) <= Depth(gr[k].sp)
  BY <1>1 DEF Layout
<1>5. Layout(n - 1, gr)
  BY <1>1, <1>2, <1>3, <1>4 DEF Layout
<1>6. /\ Depth(fr[n - 1].sp) = Depth(Base(fr[n])) - SlotCount - ArgsOf(fr[n])
      /\ Depth(Base(fr[n - 1])) <= Depth(fr[n - 1].sp) /\ ArgsOf(fr[n]) \in Nat
  BY <1>1, CallerDepth
<1>7. Depth(Base(fr[n - 1])) \in Int /\ Depth(Base(fr[n])) \in Int /\ Depth(fr[n - 1].sp) \in Int
  <2>1. fr[n] \in Register /\ fr[n - 1] \in Register
    BY <1>1
  <2> QED
    BY <2>1, BaseDepth, Depths
<1>8. Depth(Base(fr[n - 1])) <= Depth(Base(fr[n]))
  BY <1>6, <1>7 DEF SlotCount
<1>9. ASSUME NEW a \in Owned(n - 1, gr) PROVE a \in Owned(n, fr)
  <2>1. a \in StackCells /\ Depth(a) <= Depth(Base(fr[n - 1])) /\ Depth(a) \in Int
    <3>1. a \in StackCells /\ Depth(a) <= Depth(Base(gr[n - 1])) /\ Depth(a) \in Nat
      BY <1>5, OwnedInFrames
    <3> QED
      BY <1>2, <3>1
  <2>2. Depth(a) <= Depth(Base(fr[n])) /\ Depth(a) <= Depth(fr[n - 1].sp)
    BY <1>6, <1>7, <1>8, <2>1
  <2> QED
    BY <2>1, <2>2 DEF Owned
<1> QED
  BY <1>2, <1>5, <1>8, <1>9

LEMMA ReturnMoves ==
  ASSUME FInv, NEW n, NEW fr, Layout(n, fr), fr[n] = Current, Return
  PROVE  /\ Typed' /\ sp' = Base(fr[n]) /\ sp' \in Int /\ UNCHANGED program /\ sp' \in StackCells
         /\ \A a \in Owned(n, fr) : mem'[a] = mem[a]
         /\ \A a \in Cells : mem'[a] = mem[a]
<1>1. /\ Typed /\ program \in Programs /\ fr[n] = Registers(fn, sp, lcl, arg, this, that, ra)
      /\ sp \in Int /\ Depth(sp) \in Int /\ Depth(lcl) \in Int /\ mem \in [Cells \cup Stack(sp) -> Words]
      /\ Depth(Base(fr[n])) \in Int /\ 1 <= Depth(Base(fr[n])) /\ fr[n] \in Register
      /\ Depth(Base(fr[n])) <= Depth(lcl) /\ Depth(lcl) <= Depth(sp) /\ sp \in Stack(sp)
  BY RunFacts DEF Return
<1>2. sp' = Base(fr[n])
  BY <1>1 DEF Return, Base, Registers
<1>3. sp' \in Int
  BY <1>1, <1>2, BaseDepth
<1>4. Depth(sp') >= 0 /\ Depth(sp') <= Depth(sp)
  BY <1>1, <1>2
<1>5. sp' \in StackCells
  BY <1>1, <1>3, <1>4, InStack
<1>6. Stack(sp') \subseteq Stack(sp)
  <2> SUFFICES ASSUME NEW a \in Stack(sp') PROVE a \in Stack(sp)
    OBVIOUS
  <2>1. a \in StackCells /\ Depth(a) <= Depth(sp')
    BY <1>1, <1>3, StackWords
  <2>2. Depth(a) \in Int
    BY <1>1, <2>1, Depths
  <2>3. Depth(a) <= Depth(sp)
    BY <1>1, <1>2, <1>4, <2>1, <2>2
  <2> QED
    BY <1>1, <2>1, <2>3, StackWords
<1>7. mem' = Stored(<<>>, sp') /\ a0' = mem[sp]
  BY DEF Return
<1>8. mem' \in [Cells \cup Stack(sp') -> Words]
  <2>1. \A a \in DOMAIN <<>> : <<>>[a] \in Words
    OBVIOUS
  <2> QED
    BY <1>1, <1>6, <1>7, <2>1, StoredTyped
<1>9. \A a \in Owned(n, fr) : mem'[a] = mem[a]
  <2>1. DOMAIN <<>> \cap Owned(n, fr) = {} /\ Depth(Base(fr[n])) <= Depth(sp')
    BY <1>1, <1>2
  <2> QED
    BY <1>1, <1>3, <1>7, <2>1, StoredKeeps
<1>10. \A a \in Cells : mem'[a] = mem[a]
  BY <1>7 DEF Stored
<1>11. Typed'
  <2>1. Stack(sp)' = Stack(sp') /\ StackCells' = StackCells
    BY DEF Stack, StackCells, FrameOffset, Return
  <2>2. a0' \in Words
    BY <1>1, <1>7
  <2>3. phase' \in {"return", "halted"}
    BY DEF Return
  <2> QED
    BY <1>1, <1>5, <1>8, <2>1, <2>2, <2>3 DEF Typed, Return
<1> QED
  BY <1>2, <1>3, <1>5, <1>9, <1>10, <1>11 DEF Return

LEMMA ReturnLeaves ==
  ASSUME FInv, NEW n, NEW fr, Layout(n, fr), fr[n] = Current, Return
  PROVE  /\ FInv'
         /\ n = 1 <=> ra = Halt
         /\ n > 1 => \A gr : gr = [k \in 1..n - 1 |-> fr[k]] => Layout(n - 1, gr)' /\ gr[n - 1] = Current'
<1>1. /\ Typed' /\ sp' = Base(fr[n]) /\ sp' \in Int /\ UNCHANGED program /\ sp' \in StackCells
      /\ \A a \in Owned(n, fr) : mem'[a] = mem[a]
  BY ReturnMoves
<1>2. /\ program \in Programs /\ fr[n] = Registers(fn, sp, lcl, arg, this, that, ra) /\ n \in Nat \ {0}
      /\ Depth(Base(fr[n])) \in Int
  BY RunFacts DEF Return
<1>3. fr[n].ra = ra /\ ra' = ra /\ phase' = IF ra = Halt THEN "halted" ELSE "return"
  BY <1>2 DEF Registers, Return
<1>4. n = 1 <=> ra = Halt
  <2>1. n = 1 => ra = Halt
    BY <1>3 DEF Layout
  <2>2. ASSUME n # 1 PROVE ra # Halt
    <3>1. n \in 2..n
      BY <1>2, <2>2
    <3>2. ra \in Calls
      BY <1>3, <3>1 DEF Layout
    <3> QED
      BY <3>2, CallLineTyped
  <2> QED
    BY <2>1, <2>2
<1>5. ra' \in Calls \cup {Halt}
  BY <1>3 DEF FInv
<1>6. CASE n = 1
  <2>1. phase' = "halted"
    BY <1>3, <1>4, <1>6
  <2> QED
    BY <1>1, <1>2, <1>4, <1>5, <1>6, <2>1 DEF FInv, Started
<1>7. CASE n > 1
  <2>1. PICK gr : gr = [k \in 1..n - 1 |-> fr[k]]
    OBVIOUS
  <2>2. /\ Layout(n - 1, gr) /\ gr[n - 1] = fr[n - 1] /\ Owned(n - 1, gr) \subseteq Owned(n, fr)
        /\ Depth(Base(gr[n - 1])) <= Depth(Base(fr[n]))
    BY <1>2, <1>7, <2>1, Prefix
  <2>3. Depth(Base(gr[n - 1])) <= Depth(sp')
    BY <1>1, <2>2
  <2>4. Layout(n - 1, gr)'
    BY <1>1, <1>2, <2>2, <2>3, LayoutKept
  <2>5. phase' = "return"
    BY <1>2, <1>3, <1>4, <1>7
  <2>6. fr[n - 1] = Current'
    <3>1. \A k \in 2..n : CallerOf(fr[k])' = CallerOf(fr[k])
      <4>1. Depth(Base(fr[n])) <= Depth(sp')
        BY <1>1, <1>2
      <4> QED
        BY <1>1, <1>2, <4>1, LayoutKept
    <3>2. n \in 2..n /\ fr[n - 1] = CallerOf(fr[n])
      BY <1>2, <1>7 DEF Layout
    <3>3. fr[n - 1] = CallerOf(fr[n])'
      BY <3>1, <3>2
    <3>4. Current' = Caller(sp, ra)'
      BY <2>5 DEF Current
    <3>5. sp' = Slot(fr[n].lcl, NLocals[fr[n].fn])'
      BY <1>1, Unmoved DEF Base
    <3> QED
      BY <1>3, <3>3, <3>4, <3>5 DEF CallerOf, Caller, Slot, FrameOffset
  <2>7. (\E m, hr : Layout(m, hr) /\ hr[m] = Current)'
    <3>1. gr[n - 1] = Current'
      BY <2>2, <2>6
    <3> QED
      BY <2>4, <3>1
  <2>8. ra' # Halt
    BY <1>2, <1>3, <1>4, <1>7
  <2> QED
    BY <1>1, <1>4, <1>5, <2>1, <2>2, <2>4, <2>5, <2>6, <2>7, <2>8 DEF FInv, Halt
<1> QED
  BY <1>2, <1>6, <1>7


LEMMA RestoreMoves ==
  ASSUME FInv, NEW n, NEW fr, Layout(n, fr), fr[n] = Current, Restore
  PROVE  /\ Typed' /\ UNCHANGED program /\ sp' \in Int /\ sp' = Slot(fr[n].sp, -1)
         /\ Depth(sp') = Depth(fr[n].sp) + 1 /\ Depth(fr[n].sp) \in Int /\ Depth(fr[n].lcl) \in Int
         /\ Depth(sp') < Depth(sp) /\ Depth(sp) \in Int /\ sp \in Int /\ Stack(sp') \subseteq Stack(sp)
         /\ Depth(fr[n].lcl) <= Depth(fr[n].sp) /\ Depth(Base(fr[n])) <= Depth(fr[n].lcl)
         /\ Depth(Base(fr[n])) \in Int
         /\ Current' = [fr[n] EXCEPT !.sp = sp']
         /\ mem' = Stored(Word(sp', a0), sp')
<1>1. /\ Typed /\ program \in Programs /\ phase = "return" /\ ra # Halt /\ ra \in Calls /\ Started
      /\ program' = program
  BY DEF FInv, Typed, Restore, Started
<1>2. n \in Nat \ {0} /\ n \in 1..n /\ 1 \in 1..n /\ fr[n] \in Register /\ Depth(fr[n].lcl) <= Depth(fr[n].sp)
  BY DEF Layout
<1>3. /\ Depth(fr[n].sp) = Depth(sp) - 5 - Line.n /\ Line \in [in : Functions, to : Functions, n : Nat]
  BY <1>1, CurrentDepth DEF SlotCount
<1>4. /\ sp \in Int /\ sp \in StackCells /\ Depth(sp) \in Int /\ mem \in [Cells \cup Stack(sp) -> Words]
      /\ Words \subseteq Int
  BY <1>1, Depths, ZeroIsWord DEF Typed
<1>5. /\ Depth(fr[n].lcl) \in Int /\ Depth(fr[n].sp) \in Int /\ Depth(Base(fr[n])) \in Int
      /\ Depth(Base(fr[n])) <= Depth(fr[n].lcl) /\ 1 <= Depth(Base(fr[n]))
  <2>1. /\ Depth(Base(fr[n])) = Depth(fr[n].lcl) - NLocals[fr[n].fn] /\ NLocals[fr[n].fn] \in Nat
        /\ Depth(fr[n].lcl) \in Int /\ Depth(fr[n].sp) \in Int
    BY <1>1, <1>2, BaseDepth
  <2>2. Depth(Base(fr[1])) + 5 * (n - 1) <= Depth(Base(fr[n])) /\ Depth(Base(fr[1])) = 1
    BY <1>1, <1>2, BasesGrow DEF Layout
  <2> QED
    BY <1>2, <2>1, <2>2
<1>6. /\ Line.n \in Nat /\ Line.in \in Functions
  BY <1>3
<1>7. fr[n] = Registers(Line.in, Slot(sp, 5 + Line.n), mem[Slot(sp, 4)], mem[Slot(sp, 3)],
                        mem[Slot(sp, 1)], mem[Slot(sp, 2)], mem[Slot(sp, 0)])
  BY <1>1 DEF Current, Caller, Line, SlotCount, RetAddr, This, That, Arg, Local
<1>8. sp' = Slot(sp, 5 + Line.n - 1) /\ fr[n].sp = Slot(sp, 5 + Line.n)
  BY <1>7 DEF Restore, Registers, SlotCount
<1>9. sp' = Slot(fr[n].sp, -1)
  BY <1>4, <1>6, <1>8 DEF Slot, FrameOffset
<1>10. sp' \in Int /\ Depth(sp') = Depth(fr[n].sp) + 1
  <2>1. fr[n].sp \in Int
    BY <1>2 DEF Register
  <2>2. Slot(fr[n].sp, -1) \in Int /\ Depth(Slot(fr[n].sp, -1)) = Depth(fr[n].sp) - (-1)
    <3>1. PICK i \in Int : i = -1
      OBVIOUS
    <3>2. Slot(fr[n].sp, i) \in Int /\ Depth(Slot(fr[n].sp, i)) = Depth(fr[n].sp) - i
      BY <1>1, <2>1, Depths
    <3> QED
      BY <3>1, <3>2
  <2> QED
    BY <1>5, <1>9, <2>2
<1>11. Depth(sp') < Depth(sp) /\ Depth(sp') <= Depth(sp) /\ Depth(sp') >= 0
  BY <1>2, <1>3, <1>4, <1>5, <1>6, <1>10
<1>12. sp' \in StackCells
  BY <1>1, <1>4, <1>10, <1>11, InStack
<1>13. Stack(sp') \subseteq Stack(sp)
  <2> SUFFICES ASSUME NEW a \in Stack(sp') PROVE a \in Stack(sp)
    OBVIOUS
  <2>1. a \in StackCells /\ Depth(a) <= Depth(sp')
    BY <1>1, <1>10, StackWords
  <2>2. Depth(a) \in Int
    BY <1>1, <2>1, Depths
  <2>3. Depth(a) <= Depth(sp)
    BY <1>4, <1>5, <1>10, <1>11, <2>1, <2>2
  <2> QED
    BY <1>1, <1>4, <2>1, <2>3, StackWords
<1>14. \A i \in 0..4 : mem[Slot(sp, i)] \in Words
  <2> SUFFICES ASSUME NEW i \in 0..4 PROVE Slot(sp, i) \in Stack(sp)
    BY <1>4
  <2>1. Slot(sp, i) \in Int /\ Depth(Slot(sp, i)) = Depth(sp) - i
    <3>1. i \in Int
      OBVIOUS
    <3> QED
      BY <1>1, <1>4, <3>1, Depths
  <2>2. Depth(Slot(sp, i)) >= 0 /\ Depth(Slot(sp, i)) <= Depth(sp)
    BY <1>2, <1>3, <1>4, <1>5, <1>6, <2>1
  <2> QED
    BY <1>1, <2>1, <2>2, InStack
<1>15. /\ fn' = fr[n].fn /\ lcl' = fr[n].lcl /\ arg' = fr[n].arg /\ this' = fr[n].this
       /\ that' = fr[n].that /\ ra' = fr[n].ra /\ phase' = "run" /\ a0' = a0
  BY <1>7 DEF Restore, Registers, RetAddr, This, That, Arg, Local
<1>16. Current' = [fr[n] EXCEPT !.sp = sp']
  <2>1. Current' = Registers(fr[n].fn, sp', fr[n].lcl, fr[n].arg, fr[n].this, fr[n].that, fr[n].ra)
    BY <1>15 DEF Current, Registers
  <2> QED
    BY <1>2, <2>1 DEF Registers, Register
<1>17. mem' = Stored(Word(sp', a0), sp')
  BY DEF Restore
<1>18. mem' \in [Cells \cup Stack(sp') -> Words]
  <2>1. \A a \in DOMAIN Word(sp', a0) : Word(sp', a0)[a] \in Words
    BY <1>1 DEF Word, Typed
  <2> QED
    BY <1>1, <1>13, <1>17, <2>1, StoredTyped
<1>19. {lcl', arg', this', that', ra', a0'} \subseteq Words
  <2>1. /\ mem[Slot(sp, 0)] \in Words /\ mem[Slot(sp, 1)] \in Words /\ mem[Slot(sp, 2)] \in Words
        /\ mem[Slot(sp, 3)] \in Words /\ mem[Slot(sp, 4)] \in Words
    BY <1>14
  <2>2. a0' \in Words
    BY <1>1, <1>15 DEF Typed
  <2> QED
    BY <2>1, <2>2 DEF Restore, RetAddr, This, That, Arg, Local
<1>20. Typed'
  <2>1. Stack(sp)' = Stack(sp') /\ StackCells' = StackCells
    BY <1>1 DEF Stack, StackCells, FrameOffset
  <2>2. fn' \in Functions
    BY <1>6 DEF Restore
  <2> QED
    BY <1>1, <1>12, <1>15, <1>18, <1>19, <2>1, <2>2 DEF Typed
<1> QED
  BY <1>1, <1>2, <1>4, <1>5, <1>9, <1>10, <1>11, <1>13, <1>16, <1>17, <1>20

LEMMA RestoreRuns ==
  ASSUME FInv, NEW n, NEW fr, Layout(n, fr), fr[n] = Current, Restore
  PROVE  StaysIn(n, fr)
<1>1. /\ Typed' /\ UNCHANGED program /\ sp' \in Int /\ sp' = Slot(fr[n].sp, -1)
      /\ Depth(sp') = Depth(fr[n].sp) + 1 /\ Depth(fr[n].sp) \in Int /\ Depth(fr[n].lcl) \in Int
      /\ Depth(fr[n].lcl) <= Depth(fr[n].sp) /\ Depth(Base(fr[n])) <= Depth(fr[n].lcl)
      /\ Depth(Base(fr[n])) \in Int
      /\ Current' = [fr[n] EXCEPT !.sp = sp'] /\ mem' = Stored(Word(sp', a0), sp')
  BY RestoreMoves
<1>2. program \in Programs /\ fr[n] \in Register /\ phase' = "run" /\ ra' = Current'.ra
  BY DEF FInv, Typed, Layout, Restore, Current, Registers
<1>3. \A a \in Owned(n, fr) : mem'[a] = mem[a]
  <2>1. Depth(Base(fr[n])) <= Depth(sp') /\ ~(Depth(sp') <= Depth(Base(fr[n])))
    BY <1>1
  <2>2. DOMAIN Word(sp', a0) \cap Owned(n, fr) = {}
    BY <2>1 DEF Word, Owned
  <2> QED
    BY <1>1, <1>2, <2>1, <2>2, StoredKeeps
<1>4. PICK r : r = [fr[n] EXCEPT !.sp = sp']
  OBVIOUS
<1>5. /\ r \in Register /\ r.fn = fr[n].fn /\ r.lcl = fr[n].lcl /\ r.arg = fr[n].arg /\ r.ra = fr[n].ra
      /\ r.sp = sp' /\ Depth(r.lcl) <= Depth(r.sp)
  BY <1>1, <1>2, <1>4 DEF Register
<1>6. Layout(n, [fr EXCEPT ![n] = r])' /\ [fr EXCEPT ![n] = r][n] = r
  <2>1. sp' \in StackCells /\ Depth(Base(fr[n])) <= Depth(sp')
    <3>1. (sp \in StackCells)' /\ StackCells' = StackCells
      BY <1>1, Unmoved DEF Typed
    <3> QED
      BY <1>1, <3>1
  <2> QED
    BY <1>1, <1>2, <1>3, <1>5, <2>1, KeptTop
<1>7. ra' \in Calls \cup {Halt}
  <2>1. ra' = fr[n].ra
    BY <1>1, <1>2, <1>4, <1>5
  <2>2. n \in Nat \ {0} /\ fr[1].ra = Halt /\ \A k \in 2..n : fr[k].ra \in Calls
    BY DEF Layout
  <2> QED
    BY <2>1, <2>2
<1>8. FInv'
  <2>1. (\E m, gr : Layout(m, gr) /\ gr[m] = Current)'
    BY <1>1, <1>4, <1>6
  <2> QED
    BY <1>1, <1>2, <1>7, <2>1 DEF FInv, Halt, Calls
<1> QED
  <2> SUFFICES ASSUME NEW q, q = Current'
               PROVE  Layout(n, [fr EXCEPT ![n] = q])' /\ [fr EXCEPT ![n] = q][n] = Current'
    BY <1>3, <1>8 DEF StaysIn
  <2>1. q = r
    BY <1>1, <1>4
  <2> QED
    BY <1>6, <2>1

-----------------------------------------------------------------------------
(* The invariant *)

LEMMA SameFInv == FInv /\ UNCHANGED vars => FInv'
<1> SUFFICES ASSUME FInv, UNCHANGED vars PROVE FInv'
  OBVIOUS
<1>1. Typed'
  BY DEF FInv, Typed, vars, StackCells, Stack, FrameOffset
<1>2. Current' = Current /\ Line' = Line /\ Started' = Started
  BY DEF vars, Current, Line, Started, Caller, Registers, Slot, FrameOffset
<1>3. Entered => Entered'
  BY <1>2 DEF Entered, vars, Slot, FrameOffset
<1>4. Started' => (\E n, fr : Layout(n, fr) /\ fr[n] = Current)'
  <2> SUFFICES ASSUME Started' PROVE (\E n, fr : Layout(n, fr) /\ fr[n] = Current)'
    OBVIOUS
  <2>1. PICK n, fr : Layout(n, fr) /\ fr[n] = Current
    BY <1>2 DEF FInv
  <2>2. Layout(n, fr)'
    BY <2>1 DEF vars, Layout, Base, CallerOf, Caller, Depth, Bottom, StackCells, Slot, FrameOffset
  <2> QED
    BY <1>2, <2>1, <2>2
<1>5. Depth(sp)' = Depth(sp)
  BY DEF vars, Depth, Bottom, StackCells, FrameOffset
<1> QED
  BY <1>1, <1>3, <1>4, <1>5 DEF FInv, vars

LEMMA NextFInv == FInv /\ [Next]_vars => FInv'
<1> SUFFICES ASSUME FInv, [Next]_vars PROVE FInv'
  OBVIOUS
<1>1. ASSUME Started
      PROVE \E n, fr : Layout(n, fr) /\ fr[n] = Current
  BY <1>1 DEF FInv
<1>2. ASSUME phase = "run" \/ phase = "return" PROVE Started
  BY <1>2 DEF FInv, Started
<1>3. CASE Function
  <2>1. CASE ra = Halt
    BY <1>3, <2>1, FunctionStarts
  <2>2. CASE ra # Halt
    <3>1. Started
      BY <1>3, <2>2 DEF Started, Function
    <3> QED
      BY <1>1, <1>3, <2>2, <3>1, FunctionCalled
  <2> QED
    BY <2>1, <2>2
<1>4. CASE Unary
  BY <1>1, <1>2, <1>4, UnaryRuns DEF StaysIn, Unary
<1>5. CASE IfGoto
  BY <1>1, <1>2, <1>5, IfGotoRuns DEF StaysIn, IfGoto
<1>6. CASE Return
  BY <1>1, <1>2, <1>6, ReturnLeaves DEF Return
<1>7. CASE Restore
  BY <1>1, <1>2, <1>7, RestoreRuns DEF StaysIn, Restore
<1>8. CASE Peek
  BY <1>1, <1>2, <1>8, PeekRuns DEF StaysIn, Peek
<1>9. CASE Poke
  BY <1>1, <1>2, <1>9, PokeRuns DEF StaysIn, Poke
<1>10. ASSUME NEW color \in {0, 1}, DrawPixel(color) PROVE FInv'
  BY <1>1, <1>2, <1>10, DrawPixelRuns DEF StaysIn, DrawPixel
<1>11. ASSUME NEW seg \in program.segments, NEW i \in program.indices \cup program.constants, Push(seg, i)
       PROVE  FInv'
  BY <1>1, <1>2, <1>11, PushRuns DEF StaysIn, Push
<1>12. ASSUME NEW seg \in program.segments, NEW i \in program.indices \cup program.constants, Pop(seg, i)
       PROVE  FInv'
  BY <1>1, <1>2, <1>12, PopRuns DEF StaysIn, Pop
<1>13. ASSUME NEW op \in program.operations \cap Operations, Binary(op) PROVE FInv'
  BY <1>1, <1>2, <1>13, BinaryRuns DEF StaysIn, Binary
<1>14. ASSUME NEW k \in program.calls, Call(k) PROVE FInv'
  BY <1>1, <1>2, <1>14, CallKeeps DEF StaysIn, Call
<1>15. CASE UNCHANGED vars
  BY <1>15, SameFInv
<1> QED
  BY <1>3, <1>4, <1>5, <1>6, <1>7, <1>8, <1>9, <1>10, <1>11, <1>12, <1>13, <1>14, <1>15 DEF Next, Halted

(* The registers under way are always a chain of callers, from the entry     *)
(* function to the running one (codegen_call, codegen_function and          *)
(* codegen_return), whatever is pushed, popped or stored between.          *)
THEOREM FramesAreChained == Spec => []FInv
<1>1. Init => FInv
  BY InitFInv
<1>2. FInv /\ [Next]_vars => FInv'
  BY NextFInv
<1> QED
  BY <1>1, <1>2, PTL DEF Spec

(* What stack_frame.h draws holds of every frame at every step: no gap, no  *)
(* overlap, whichever way the stack grows.                                 *)
THEOREM FramesStayContiguous == Spec => []FramesContiguous
<1>1. FInv => FramesContiguous
  BY Contiguous
<1> QED
  BY <1>1, FramesAreChained, PTL

-----------------------------------------------------------------------------
(* Sequences, element by element *)

IsSeq(f, n) == n \in Nat /\ f = [j \in 1..n |-> f[j]]

LEMMA SeqLen ==
  ASSUME NEW f, NEW n, IsSeq(f, n), NEW S, \A j \in 1..n : f[j] \in S
  PROVE  f \in Seq(S) /\ Len(f) = n /\ DOMAIN f = 1..n
<1>1. n \in Nat /\ f \in [1..n -> S]
  BY DEF IsSeq
<1> QED
  BY <1>1

LEMMA SeqSame ==
  ASSUME NEW f, NEW n, IsSeq(f, n)
  PROVE  Len(f) = n /\ DOMAIN f = 1..n /\ f \o <<>> = f /\ <<>> \o f = f
<1> DEFINE S == {f[j] : j \in 1..n}
<1>1. f \in Seq(S) /\ Len(f) = n /\ DOMAIN f = 1..n
  <2>1. \A j \in 1..n : f[j] \in S
    OBVIOUS
  <2> HIDE DEF S
  <2> QED
    BY <2>1, SeqLen
<1> HIDE DEF S
<1> QED
  BY <1>1, ConcatEmptySeq

LEMMA SeqAppend ==
  ASSUME NEW f, NEW n, IsSeq(f, n), NEW v
  PROVE  /\ Append(f, v) = [j \in 1..n + 1 |-> IF j = n + 1 THEN v ELSE f[j]]
         /\ f \o <<v>> = Append(f, v)
<1> DEFINE S == {f[j] : j \in 1..n} \cup {v}
<1>1. f \in Seq(S) /\ Len(f) = n /\ DOMAIN f = 1..n /\ v \in S /\ n \in Nat
  <2>1. \A j \in 1..n : f[j] \in S
    OBVIOUS
  <2>2. v \in S /\ n \in Nat
    BY DEF IsSeq
  <2> HIDE DEF S
  <2> QED
    BY <2>1, <2>2, SeqLen
<1> HIDE DEF S
<1>2. /\ Append(f, v) \in Seq(S) /\ Len(Append(f, v)) = n + 1
      /\ \A i \in 1..n : Append(f, v)[i] = f[i]
      /\ Append(f, v)[n + 1] = v
  BY <1>1, AppendProperties
<1>3. Append(f, v) = [j \in 1..n + 1 |-> Append(f, v)[j]]
  BY <1>2, LenProperties
<1>4. f \o <<v>> = Append(f, v)
  BY <1>1, AppendIsConcat
<1> QED
  BY <1>1, <1>2, <1>3, <1>4

LEMMA SeqPair ==
  ASSUME NEW f, NEW n, IsSeq(f, n), NEW u, NEW v
  PROVE  f \o <<u, v>> = [j \in 1..n + 2 |-> IF j <= n THEN f[j] ELSE IF j = n + 1 THEN u ELSE v]
<1> DEFINE S == {f[j] : j \in 1..n} \cup {u, v}
<1>1. f \in Seq(S) /\ Len(f) = n /\ u \in S /\ v \in S /\ n \in Nat
  <2>1. \A j \in 1..n : f[j] \in S
    OBVIOUS
  <2>2. u \in S /\ v \in S /\ n \in Nat
    BY DEF IsSeq
  <2> HIDE DEF S
  <2> QED
    BY <2>1, <2>2, SeqLen
<1> HIDE DEF S
<1>2. <<u, v>> \in Seq(S) /\ Len(<<u, v>>) = 2
  BY <1>1
<1>3. /\ f \o <<u, v>> \in Seq(S) /\ Len(f \o <<u, v>>) = n + 2
      /\ \A i \in 1..n + 2 : (f \o <<u, v>>)[i] = IF i <= n THEN f[i] ELSE <<u, v>>[i - n]
  BY <1>1, <1>2, ConcatProperties
<1>4. \A i \in 1..n + 2 : ~(i <= n) => <<u, v>>[i - n] = IF i = n + 1 THEN u ELSE v
  BY <1>1
<1>5. f \o <<u, v>> = [i \in 1..n + 2 |-> (f \o <<u, v>>)[i]]
  BY <1>3, LenProperties
<1> QED
  BY <1>3, <1>4, <1>5

LEMMA SeqFront ==
  ASSUME NEW f, NEW n, IsSeq(f, n), NEW m \in 0..n
  PROVE  SubSeq(f, 1, m) = [j \in 1..m |-> f[j]]
<1> DEFINE S == {f[j] : j \in 1..n}
<1>1. n \in Nat /\ m \in Nat
  BY DEF IsSeq
<1>2. \A j \in 1..m : f[j] \in S
  BY <1>1
<1> HIDE DEF S
<1>3. /\ SubSeq(f, 1, m) \in Seq(S)
      /\ Len(SubSeq(f, 1, m)) = IF 1 <= m THEN m - 1 + 1 ELSE 0
      /\ \A i \in 1..m - 1 + 1 : SubSeq(f, 1, m)[i] = f[1 + i - 1]
  <2>1. 1 \in Int /\ m \in Int
    BY <1>1
  <2> QED
    BY <1>2, <2>1, SubSeqProperties
<1>4. Len(SubSeq(f, 1, m)) = m
  BY <1>1, <1>3
<1>5. SubSeq(f, 1, m) = [j \in 1..m |-> SubSeq(f, 1, m)[j]]
  BY <1>3, <1>4, LenProperties
<1>6. \A i \in 1..m : SubSeq(f, 1, m)[i] = f[i]
  BY <1>1, <1>3
<1> QED
  BY <1>5, <1>6

-----------------------------------------------------------------------------
(* The activations *)

Acts(n, fr) == [k \in 1..n |-> Activation(fr[k], k = n)]

ActsFound ==
  FInv /\ Started /\ ~Draws =>
    /\ Status = "running"
    /\ \A n, fr : Layout(n, fr) /\ fr[n] = Current => Frames = Acts(n, fr)

LEMMA RunningFrames == ActsFound
<1> SUFFICES ASSUME FInv, Started, ~Draws, NEW n, NEW fr, Layout(n, fr), fr[n] = Current
             PROVE  Status = "running" /\ Frames = Acts(n, fr)
  BY DEF FInv, ActsFound
<1>1. Status = "running"
  BY DEF Status, Started
<1>2. Chain = fr /\ n \in Nat /\ fr \in [1..n -> Register]
  BY ChainIs DEF Layout
<1>3. Len(fr) = n /\ DOMAIN fr = 1..n
  BY <1>2
<1>4. Activations(fr) = <<>> \o Acts(n, fr)
  BY <1>3 DEF Activations, Acts
<1>5. IsSeq(Acts(n, fr), n)
  BY <1>2 DEF IsSeq, Acts
<1>6. <<>> \o Acts(n, fr) = Acts(n, fr)
  BY <1>5, SeqSame
<1> QED
  BY <1>1, <1>2, <1>4, <1>6 DEF Frames

LEMMA Truncated ==
  ASSUME NEW n, NEW fr, Layout(n, fr), NEW k \in 1..n, NEW gr, gr = [i \in 1..k |-> fr[i]]
  PROVE  Layout(k, gr) /\ gr[k] = fr[k]
<1>1. n \in Nat \ {0} /\ fr \in [1..n -> Register] /\ k \in Nat \ {0} /\ k \in 1..k /\ 1 \in 1..k
      /\ \A i \in 1..k : gr[i] = fr[i] /\ i \in 1..n
  BY DEF Layout
<1>2. gr \in [1..k -> Register] /\ gr[k] = fr[k] /\ gr[1] = fr[1]
  BY <1>1
<1>3. \A i \in 2..k : gr[i] = fr[i] /\ gr[i - 1] = fr[i - 1] /\ i \in 2..n
  BY <1>1
<1>4. \A i \in 1..k : Depth(gr[i].lcl) <= Depth(gr[i].sp)
  BY <1>1 DEF Layout
<1> QED
  BY <1>1, <1>2, <1>3, <1>4 DEF Layout

(* The words of a frame: arguments, locals, and the working stack from its  *)
(* bottom.                                                                 *)
ArgWord(r, j) == Slot(r.arg, j - 1)
LocalWord(r, j) == Slot(r.lcl, j - 1)
WorkWord(r, j) == r.lcl - FrameOffset(j)
WorkSize(r) == FrameOffset(r.lcl - r.sp)

LEMMA FrameWords ==
  ASSUME program \in Programs, NEW n, NEW fr, Layout(n, fr), NEW k \in 1..n, NEW r, r = fr[k]
  PROVE  /\ r \in Register /\ Depth(r.lcl) \in Int /\ Depth(r.sp) \in Int /\ Depth(Base(r)) \in Int
         /\ NLocals[r.fn] \in Nat /\ ArgsOf(r) \in Nat /\ WorkSize(r) \in Nat
         /\ 1 <= Depth(Base(r)) /\ Depth(r.lcl) = Depth(Base(r)) + NLocals[r.fn]
         /\ Depth(r.sp) = Depth(r.lcl) + WorkSize(r)
         /\ \A j \in 1..ArgsOf(r) : /\ ArgWord(r, j) \in Int /\ Depth(ArgWord(r, j)) >= 0
                                    /\ Depth(ArgWord(r, j)) <= Depth(Base(r))
                                    /\ Depth(ArgWord(r, j)) = Depth(r.arg) - (j - 1)
         /\ \A j \in 1..NLocals[r.fn] : LocalWord(r, j) \in Int /\ Depth(LocalWord(r, j)) = Depth(r.lcl) - (j - 1)
         /\ \A j \in Nat : WorkWord(r, j) \in Int /\ Depth(WorkWord(r, j)) = Depth(r.lcl) + j
<1>1. r \in Register /\ Depth(r.lcl) <= Depth(r.sp) /\ r.ra \in Calls \cup {Halt} /\ k \in Nat /\ 1 \in 1..k
      /\ n \in Nat \ {0}
  <2>1. n \in Nat \ {0} /\ k \in Nat /\ (k = 1 \/ k \in 2..n) /\ 1 \in 1..k
    BY DEF Layout
  <2> QED
    BY <2>1 DEF Layout
<1>2. /\ Base(r) \in Int /\ Depth(Base(r)) = Depth(r.lcl) - NLocals[r.fn]
      /\ NLocals[r.fn] \in Nat /\ Depth(r.lcl) \in Int /\ Depth(r.sp) \in Int
  BY <1>1, BaseDepth
<1>3. 1 <= Depth(Base(r))
  <2>1. Depth(Base(fr[1])) + 5 * (k - 1) <= Depth(Base(fr[k])) /\ Depth(Base(fr[1])) = 1
    BY <1>1, BasesGrow DEF Layout
  <2> QED
    BY <1>1, <1>2, <2>1
<1>4. ArgsOf(r) \in Nat
  BY <1>1, ArgsTyped
<1>5. r.lcl \in Int /\ r.sp \in Int /\ r.arg \in Int
  BY <1>1 DEF Register
<1>6. WorkSize(r) = Depth(r.sp) - Depth(r.lcl)
  BY <1>5, Depths DEF WorkSize
<1>7. \A a, i \in Int : Slot(a, i) \in Int /\ Depth(Slot(a, i)) = Depth(a) - i
  BY Depths
<1>8. \A j \in 1..NLocals[r.fn] : LocalWord(r, j) \in Int /\ Depth(LocalWord(r, j)) = Depth(r.lcl) - (j - 1)
  BY <1>2, <1>5, <1>7 DEF LocalWord
<1>9. ASSUME NEW j \in Nat PROVE WorkWord(r, j) \in Int /\ Depth(WorkWord(r, j)) = Depth(r.lcl) + j
  <2>1. PICK i \in Int : i = -j
    OBVIOUS
  <2>2. WorkWord(r, j) = Slot(r.lcl, i)
    BY <1>5, <2>1 DEF WorkWord, Slot, FrameOffset
  <2>3. Slot(r.lcl, i) \in Int /\ Depth(Slot(r.lcl, i)) = Depth(r.lcl) - i
    BY <1>5, <1>7
  <2> QED
    BY <1>2, <2>1, <2>2, <2>3
<1>10. ASSUME NEW j \in 1..ArgsOf(r)
       PROVE  /\ ArgWord(r, j) \in Int /\ Depth(ArgWord(r, j)) >= 0
              /\ Depth(ArgWord(r, j)) <= Depth(Base(r)) /\ Depth(ArgWord(r, j)) = Depth(r.arg) - (j - 1)
  <2>1. PICK gr : gr = [i \in 1..k |-> fr[i]]
    OBVIOUS
  <2>2. Layout(k, gr) /\ gr[k] = r
    BY <2>1, Truncated
  <2>3. PICK i \in 0..(ArgsOf(r) - 1) : i = j - 1
    BY <1>4
  <2>4. Slot(gr[k].arg, i) \in Int /\ Depth(Slot(gr[k].arg, i)) >= 0 /\ Depth(Slot(gr[k].arg, i)) <= Depth(Base(gr[k]))
    BY <2>2, ArgumentWords
  <2>5. Depth(Slot(r.arg, i)) = Depth(r.arg) - i
    <3>1. i \in Int
      OBVIOUS
    <3> QED
      BY <1>5, <1>7, <3>1
  <2> QED
    BY <2>2, <2>3, <2>4, <2>5 DEF ArgWord
<1> QED
  BY <1>1, <1>2, <1>3, <1>4, <1>6, <1>8, <1>9, <1>10

(* What is below the running function's frame is not its own. *)
LEMMA BelowOwned ==
  ASSUME program \in Programs, NEW n, NEW fr, Layout(n, fr), NEW b \in StackCells, Depth(Base(fr[n])) <= Depth(b),
         NEW k \in 1..n - 1, NEW a \in Int, Depth(a) >= 0, Depth(a) <= Depth(fr[k].sp)
  PROVE  a \in Owned(n, fr)
<1>1. n \in Nat /\ n > 1 /\ n \in 2..n /\ n - 1 \in 1..n /\ k \in 1..n /\ k + 1 \in 2..n /\ k + 1 \in 1..n
      /\ k \in Nat /\ n \in 1..n
  BY DEF Layout
<1>2. \A i \in 1..n : Depth(Base(fr[i])) \in Int /\ Depth(fr[i].sp) \in Int
  BY FrameWords
<1>3. Depth(fr[k].sp) <= Depth(Base(fr[k + 1])) - 5
  <2>1. Depth(fr[(k + 1) - 1].sp) = Depth(Base(fr[k + 1])) - SlotCount - ArgsOf(fr[k + 1]) /\ ArgsOf(fr[k + 1]) \in Nat
    BY <1>1, CallerDepth
  <2>2. (k + 1) - 1 = k
    BY <1>1
  <2> QED
    BY <1>1, <1>2, <2>1, <2>2 DEF SlotCount
<1>4. Depth(Base(fr[k + 1])) + 5 * (n - (k + 1)) <= Depth(Base(fr[n]))
  <2>1. k + 1 \in 1..n
    BY <1>1
  <2> QED
    BY <1>1, <2>1, BasesGrow
<1>5. Depth(fr[k].sp) <= Depth(fr[n - 1].sp)
  <2>1. CASE k = n - 1
    BY <1>1, <1>2, <2>1
  <2>2. CASE k # n - 1
    <3>1. k + 1 \in 1..n - 1
      BY <1>1, <2>2
    <3>2. Depth(Base(fr[k + 1])) + 5 * ((n - 1) - (k + 1)) <= Depth(Base(fr[n - 1]))
      BY <1>1, <3>1, BasesGrow
    <3>3. Depth(Base(fr[n - 1])) <= Depth(fr[n - 1].sp)
      BY <1>1, CallerDepth
    <3> QED
      BY <1>1, <1>2, <1>3, <3>1, <3>2, <3>3
  <2> QED
    BY <2>1, <2>2
<1>6. Depth(a) \in Int /\ Depth(b) \in Int
  BY Depths
<1>7. Depth(a) <= Depth(Base(fr[n])) /\ Depth(a) <= Depth(fr[n - 1].sp) /\ Depth(a) <= Depth(b)
  BY <1>1, <1>2, <1>3, <1>4, <1>5, <1>6
<1>8. a \in StackCells
  <2>1. Depth(a) \in 0..Depth(b)
    BY <1>6, <1>7
  <2> QED
    BY <2>1, Depths
<1> QED
  BY <1>1, <1>7, <1>8 DEF Owned

LEMMA ActivationSame ==
  ASSUME UNCHANGED program, NEW r, NLocals[r.fn] \in Nat, ArgsOf(r) \in Nat, WorkSize(r) \in Nat,
         \A j \in 1..ArgsOf(r) : mem'[ArgWord(r, j)] = mem[ArgWord(r, j)],
         \A j \in 1..NLocals[r.fn] : mem'[LocalWord(r, j)] = mem[LocalWord(r, j)],
         \A j \in 1..WorkSize(r) : mem'[WorkWord(r, j)] = mem[WorkWord(r, j)]
  PROVE  Activation(r, FALSE)' = Activation(r, FALSE)
<1>1. \A a : FrameOffset(a)' = FrameOffset(a) /\ \A i : Slot(a, i)' = Slot(a, i)
  BY Unmoved
<1>2. Activation(r, FALSE).args = [j \in 1..ArgsOf(r) |-> mem[ArgWord(r, j)]]
      /\ Activation(r, FALSE)'.args = [j \in 1..ArgsOf(r) |-> mem'[ArgWord(r, j)]]
  BY <1>1 DEF Activation, ArgWord, ArgsOf
<1>3. Activation(r, FALSE).locals = [j \in 1..NLocals[r.fn] |-> mem[LocalWord(r, j)]]
      /\ Activation(r, FALSE)'.locals = [j \in 1..NLocals[r.fn] |-> mem'[LocalWord(r, j)]]
  BY <1>1 DEF Activation, LocalWord
<1>4. WorkOf(r, FALSE) = [j \in 1..WorkSize(r) + 0 |-> mem[WorkWord(r, j)]] \o <<>>
      /\ WorkOf(r, FALSE)' = [j \in 1..WorkSize(r) + 0 |-> mem'[WorkWord(r, j)]] \o <<>>
  BY <1>1 DEF WorkOf, WorkWord, WorkSize
<1>5. WorkSize(r) + 0 = WorkSize(r)
  OBVIOUS
<1>6. WorkOf(r, FALSE)' = WorkOf(r, FALSE)
  BY <1>4, <1>5
<1> QED
  BY <1>2, <1>3, <1>6 DEF Activation

LEMMA BelowKept ==
  ASSUME program \in Programs, UNCHANGED program, NEW n, NEW fr, Layout(n, fr), NEW b \in StackCells,
         Depth(Base(fr[n])) <= Depth(b), \A a \in Owned(n, fr) : mem'[a] = mem[a]
  PROVE  \A k \in 1..n - 1 : Activation(fr[k], FALSE)' = Activation(fr[k], FALSE)
<1> SUFFICES ASSUME NEW k \in 1..n - 1 PROVE Activation(fr[k], FALSE)' = Activation(fr[k], FALSE)
  OBVIOUS
<1>1. PICK r : r = fr[k]
  OBVIOUS
<1>2. k \in 1..n
  BY DEF Layout
<1>3. /\ Depth(r.lcl) \in Int /\ Depth(r.sp) \in Int /\ Depth(Base(r)) \in Int
      /\ NLocals[r.fn] \in Nat /\ ArgsOf(r) \in Nat /\ WorkSize(r) \in Nat
      /\ 1 <= Depth(Base(r)) /\ Depth(r.lcl) = Depth(Base(r)) + NLocals[r.fn]
      /\ Depth(r.sp) = Depth(r.lcl) + WorkSize(r)
      /\ \A j \in 1..ArgsOf(r) : /\ ArgWord(r, j) \in Int /\ Depth(ArgWord(r, j)) >= 0
                                 /\ Depth(ArgWord(r, j)) <= Depth(Base(r))
      /\ \A j \in 1..NLocals[r.fn] : LocalWord(r, j) \in Int /\ Depth(LocalWord(r, j)) = Depth(r.lcl) - (j - 1)
      /\ \A j \in Nat : WorkWord(r, j) \in Int /\ Depth(WorkWord(r, j)) = Depth(r.lcl) + j
  BY <1>1, <1>2, FrameWords
<1>4. \A a \in Int : Depth(a) >= 0 /\ Depth(a) <= Depth(r.sp) => mem'[a] = mem[a]
  BY <1>1, BelowOwned
<1>5. \A a \in Int : Depth(a) \in Int
  BY Depths
<1>6. ASSUME NEW j \in 1..ArgsOf(r) PROVE mem'[ArgWord(r, j)] = mem[ArgWord(r, j)]
  <2>1. ArgWord(r, j) \in Int /\ Depth(ArgWord(r, j)) >= 0 /\ Depth(ArgWord(r, j)) <= Depth(Base(r))
        /\ Depth(ArgWord(r, j)) \in Int
    BY <1>3, <1>5
  <2>2. Depth(ArgWord(r, j)) <= Depth(r.sp)
    BY <1>3, <2>1
  <2> QED
    BY <1>4, <2>1, <2>2
<1>7. ASSUME NEW j \in 1..NLocals[r.fn] PROVE mem'[LocalWord(r, j)] = mem[LocalWord(r, j)]
  <2>1. LocalWord(r, j) \in Int /\ Depth(LocalWord(r, j)) = Depth(r.lcl) - (j - 1)
    BY <1>3
  <2>2. Depth(LocalWord(r, j)) >= 0 /\ Depth(LocalWord(r, j)) <= Depth(r.sp)
    BY <1>3, <2>1
  <2> QED
    BY <1>4, <2>1, <2>2
<1>8. ASSUME NEW j \in 1..WorkSize(r) PROVE mem'[WorkWord(r, j)] = mem[WorkWord(r, j)]
  <2>1. WorkWord(r, j) \in Int /\ Depth(WorkWord(r, j)) = Depth(r.lcl) + j
    <3>1. j \in Nat
      BY <1>3
    <3> QED
      BY <1>3, <3>1
  <2>2. Depth(WorkWord(r, j)) >= 0 /\ Depth(WorkWord(r, j)) <= Depth(r.sp)
    BY <1>3, <2>1
  <2> QED
    BY <1>4, <2>1, <2>2
<1>9. Activation(r, FALSE)' = Activation(r, FALSE)
  BY <1>3, <1>6, <1>7, <1>8, ActivationSame
<1> QED
  BY <1>1, <1>9

-----------------------------------------------------------------------------
(* The running function *)

ArgAt(j) == Slot(arg, j - 1)
LocalAt(j) == Slot(lcl, j - 1)
WorkAt(j) == lcl - FrameOffset(j)

Own ==
  [fn |-> fn, this |-> this, that |-> that,
   args   |-> [j \in 1..NArgs |-> mem[ArgAt(j)]],
   locals |-> [j \in 1..NLocals[fn] |-> mem[LocalAt(j)]],
   work   |-> [j \in 1..WorkWords |-> mem[WorkAt(j)]]]

LEMMA RunningIs == FInv /\ phase = "run" => Activation(Current, TRUE) = Own
<1> SUFFICES ASSUME FInv, phase = "run" PROVE Activation(Current, TRUE) = Own
  OBVIOUS
<1>1. PICK n, fr : Layout(n, fr) /\ fr[n] = Current
  BY DEF FInv, Started
<1>2. WorkWords \in Nat
  <2>1. Depth(sp) \in Int /\ Depth(lcl) \in Int /\ Depth(lcl) <= Depth(sp) /\ WorkWords = Depth(sp) - Depth(lcl)
    BY <1>1, RunFacts
  <2> QED
    BY <2>1
<1>3. PICK r : r = Current
  OBVIOUS
<1>4. r = Registers(fn, sp, lcl, arg, this, that, ra)
  BY <1>3 DEF Current
<1>5. WorkOf(r, TRUE) = [j \in 1..WorkWords |-> mem[WorkAt(j)]]
  <2> DEFINE w == [j \in 1..WorkWords |-> mem[WorkAt(j)]]
  <2>1. WorkWords + 0 = WorkWords
    BY <1>2
  <2>2. WorkOf(r, TRUE) = w \o <<>>
    BY <1>4, <2>1 DEF WorkOf, Registers, WorkWords, WorkAt
  <2>3. IsSeq(w, WorkWords)
    BY <1>2 DEF IsSeq
  <2> HIDE DEF w
  <2>4. w \o <<>> = w
    BY <2>3, SeqSame
  <2> QED
    BY <2>2, <2>4 DEF w
<1>6. ArgsOf(r) = NArgs
  BY <1>4 DEF ArgsOf, NArgs, Registers, Line
<1>7. Activation(r, TRUE) = Own
  BY <1>4, <1>5, <1>6 DEF Activation, Own, Registers, ArgAt, LocalAt
<1> QED
  BY <1>3, <1>7

(* Where the running function's words are. *)
LEMMA OwnPlaces ==
  ASSUME FInv, phase = "run", NEW n, NEW fr, Layout(n, fr), fr[n] = Current
  PROVE  /\ NArgs \in Nat /\ NLocals[fn] \in Nat /\ WorkWords \in Nat
         /\ Depth(lcl) \in Int /\ Depth(sp) \in Int /\ Depth(sp) = Depth(lcl) + WorkWords
         /\ Depth(lcl) - NLocals[fn] >= 1
         /\ \A j \in 1..NArgs : /\ ArgAt(j) \in Int /\ Depth(ArgAt(j)) >= 0
                                /\ Depth(ArgAt(j)) <= Depth(lcl) - NLocals[fn]
                                /\ Depth(ArgAt(j)) = Depth(arg) - (j - 1)
         /\ \A j \in 1..NLocals[fn] : LocalAt(j) \in Int /\ Depth(LocalAt(j)) = Depth(lcl) - (j - 1)
         /\ \A j \in Nat : WorkAt(j) \in Int /\ Depth(WorkAt(j)) = Depth(lcl) + j
         /\ \A a \in Int : Depth(a) \in Int
         /\ \A a \in Int : Depth(a) >= 0 /\ Depth(a) <= Depth(sp) => a \in Stack(sp) /\ a \in StackCells
         /\ Cells \cap StackCells = {}
         /\ Depth(arg) \in Int
<1>1. program \in Programs /\ n \in 1..n /\ Typed /\ fr[n] = Registers(fn, sp, lcl, arg, this, that, ra)
      /\ fr[n] \in Register /\ sp \in Int /\ lcl \in Int /\ Depth(Base(fr[n])) = Depth(lcl) - NLocals[fn]
      /\ WorkWords = Depth(sp) - Depth(lcl)
  BY RunFacts
<1>2. PICK r : r = fr[n]
  OBVIOUS
<1>3. /\ r.fn = fn /\ r.sp = sp /\ r.lcl = lcl /\ r.arg = arg /\ r.ra = ra
  BY <1>1, <1>2 DEF Registers
<1>4. ArgsOf(r) = NArgs
  BY <1>3 DEF ArgsOf, NArgs, Line
<1>5. /\ r \in Register /\ Depth(lcl) \in Int /\ Depth(sp) \in Int /\ Depth(Base(r)) \in Int
      /\ NLocals[fn] \in Nat /\ NArgs \in Nat /\ WorkSize(r) \in Nat
      /\ 1 <= Depth(Base(r)) /\ Depth(lcl) = Depth(Base(r)) + NLocals[fn]
      /\ Depth(sp) = Depth(lcl) + WorkSize(r)
      /\ \A j \in 1..NArgs : /\ ArgWord(r, j) \in Int /\ Depth(ArgWord(r, j)) >= 0
                             /\ Depth(ArgWord(r, j)) <= Depth(Base(r))
                             /\ Depth(ArgWord(r, j)) = Depth(arg) - (j - 1)
      /\ \A j \in 1..NLocals[fn] : LocalWord(r, j) \in Int /\ Depth(LocalWord(r, j)) = Depth(lcl) - (j - 1)
      /\ \A j \in Nat : WorkWord(r, j) \in Int /\ Depth(WorkWord(r, j)) = Depth(lcl) + j
  BY <1>1, <1>2, <1>3, <1>4, FrameWords
<1>6. WorkSize(r) = WorkWords
  BY <1>3 DEF WorkSize, WorkWords
<1>7. \A j : ArgWord(r, j) = ArgAt(j) /\ LocalWord(r, j) = LocalAt(j) /\ WorkWord(r, j) = WorkAt(j)
  BY <1>3 DEF ArgWord, ArgAt, LocalWord, LocalAt, WorkWord, WorkAt
<1>8. \A a \in Int : Depth(a) \in Int
  BY <1>1, Depths
<1>9. \A a \in Int : Depth(a) >= 0 /\ Depth(a) <= Depth(sp) => a \in Stack(sp) /\ a \in StackCells
  BY <1>1, InStack
<1>10. Cells \cap StackCells = {}
  BY <1>1, FrameAssumption DEF StackCells
<1>11. Depth(arg) \in Int
  BY <1>3, <1>5, <1>8 DEF Register
<1> QED
  BY <1>1, <1>2, <1>5, <1>6, <1>7, <1>8, <1>9, <1>10, <1>11

(* The last activation, and a step that changes no other. *)
Mine == Activation(Current, TRUE)

MineChanges(n) ==
  /\ Status = "running" /\ Status' = "running"
  /\ n \in Nat \ {0} /\ IsSeq(Frames, n) /\ Len(Frames) = n /\ Frames[n] = Mine
  /\ Frames' = Append(SubSeq(Frames, 1, n - 1), Mine')

LEMMA FramesChange ==
  ASSUME FInv, Started, ~Draws, NEW n, NEW fr, Layout(n, fr), fr[n] = Current, StaysIn(n, fr),
         Started', UNCHANGED program
  PROVE  MineChanges(n)
<1>1. n \in Nat \ {0} /\ n \in 1..n /\ fr \in [1..n -> Register] /\ program \in Programs /\ Typed
      /\ sp \in StackCells
  BY DEF Layout, FInv, Typed
<1>b. Depth(Base(fr[n])) <= Depth(sp)
  <2>1. Depth(fr[n].sp) <= Depth(sp)
    BY CurrentDepth
  <2>2. Depth(sp) \in Int
    <3>1. sp \in Int
      BY <1>1, Depths
    <3> QED
      BY <1>1, <3>1, Depths
  <2>3. PICK r : r = fr[n]
    OBVIOUS
  <2>4. r \in Register /\ Depth(r.lcl) <= Depth(r.sp)
    BY <1>1, <2>3 DEF Layout
  <2>5. Depth(Base(r)) <= Depth(r.sp) /\ Depth(Base(r)) \in Int /\ Depth(r.sp) \in Int
    <3>1. /\ Base(r) \in Int /\ Depth(Base(r)) = Depth(r.lcl) - NLocals[r.fn]
          /\ NLocals[r.fn] \in Nat /\ Depth(r.lcl) \in Int /\ Depth(r.sp) \in Int
      BY <1>1, <2>4, BaseDepth
    <3> QED
      BY <2>4, <3>1
  <2> QED
    BY <2>1, <2>2, <2>3, <2>4, <2>5
<1>2. (~Draws)'
  BY DEF Draws
<1>3. Status = "running" /\ Frames = Acts(n, fr)
  BY RunningFrames DEF ActsFound
<1>4. PICK q : q = Current'
  OBVIOUS
<1>5. PICK gr : gr = [fr EXCEPT ![n] = q]
  OBVIOUS
<1>6. Layout(n, gr)' /\ gr[n] = Current' /\ FInv' /\ \A a \in Owned(n, fr) : mem'[a] = mem[a]
  BY <1>4, <1>5 DEF StaysIn
<1>7. Status' = "running" /\ Frames' = Acts(n, gr)'
  <2>1. ActsFound'
    BY RunningFrames, PTL
  <2> QED
    BY <1>2, <1>6, <2>1 DEF ActsFound
<1>8. Activation(q, TRUE)' = Mine'
  BY <1>4, <1>6 DEF Mine
<1>9. \A k \in 1..n - 1 : Activation(fr[k], FALSE)' = Activation(fr[k], FALSE)
  BY <1>1, <1>6, <1>b, BelowKept
<1>10. Frames[n] = Mine
  <2>1. (n = n) = TRUE
    OBVIOUS
  <2> QED
    BY <1>1, <1>3, <2>1 DEF Acts, Mine
<1>11. IsSeq(Frames, n) /\ Len(Frames) = n
  <2>1. IsSeq(Frames, n)
    BY <1>1, <1>3 DEF IsSeq, Acts
  <2> QED
    BY <2>1, SeqSame
<1>12. Frames' = [k \in 1..n |-> IF k = n THEN Mine' ELSE Activation(fr[k], FALSE)']
  <2>1. \A k \in 1..n : Activation(gr[k], k = n)' = IF k = n THEN Mine' ELSE Activation(fr[k], FALSE)'
    <3>1. \A k \in 1..n : k # n => gr[k] = fr[k]
      BY <1>1, <1>5
    <3>2. gr[n] = q
      BY <1>1, <1>5
    <3>3. ASSUME NEW k \in 1..n, k # n PROVE Activation(gr[k], k = n)' = Activation(fr[k], FALSE)'
      <4>1. (k = n) = FALSE /\ gr[k] = fr[k]
        BY <3>1, <3>3
      <4> QED
        BY <4>1
    <3>4. Activation(gr[n], n = n)' = Mine'
      <4>1. (n = n) = TRUE
        OBVIOUS
      <4> QED
        BY <1>8, <3>2, <4>1
    <3> QED
      BY <3>3, <3>4
  <2> QED
    BY <1>7, <2>1 DEF Acts
<1>13. \A k \in 1..n - 1 : Frames[k] = Activation(fr[k], FALSE)
  <2> SUFFICES ASSUME NEW k \in 1..n - 1 PROVE Frames[k] = Activation(fr[k], FALSE)
    OBVIOUS
  <2>1. k \in 1..n /\ (k = n) = FALSE
    BY <1>1
  <2>2. Frames[k] = Activation(fr[k], k = n)
    BY <1>3, <2>1 DEF Acts
  <2> QED
    BY <2>1, <2>2
<1>14. Frames' = [k \in 1..n |-> IF k = n THEN Mine' ELSE Frames[k]]
  <2>1. \A k \in 1..n : k # n => k \in 1..n - 1
    BY <1>1
  <2> QED
    BY <1>9, <1>12, <1>13, <2>1
<1>15. Frames' = Append(SubSeq(Frames, 1, n - 1), Mine')
  <2> DEFINE below == SubSeq(Frames, 1, n - 1)
  <2>1. n - 1 \in 0..n /\ n - 1 \in Nat /\ (n - 1) + 1 = n
    BY <1>1
  <2>2. below = [k \in 1..n - 1 |-> Frames[k]]
    BY <1>11, <2>1, SeqFront
  <2>3. IsSeq(below, n - 1)
    BY <2>1, <2>2 DEF IsSeq
  <2> HIDE DEF below
  <2>4. Append(below, Mine') = [j \in 1..(n - 1) + 1 |-> IF j = (n - 1) + 1 THEN Mine' ELSE below[j]]
    BY <2>3, SeqAppend
  <2>5. \A j \in 1..n : j # n => below[j] = Frames[j]
    BY <1>1, <2>2
  <2> QED
    BY <1>14, <2>1, <2>4, <2>5 DEF below
<1> QED
  BY <1>1, <1>3, <1>7, <1>10, <1>11, <1>15 DEF MineChanges

(* A command of the running function changes its own activation only. *)
LastChanges(n) ==
  /\ Status = "running" /\ Status' = "running"
  /\ n \in Nat \ {0} /\ IsSeq(Frames, n) /\ Len(Frames) = n /\ Frames[n] = Own
  /\ Frames' = Append(SubSeq(Frames, 1, n - 1), Own')

LEMMA CommandChanges ==
  ASSUME FInv, phase = "run", ~Draws, NEW n, NEW fr, Layout(n, fr), fr[n] = Current, StaysIn(n, fr),
         phase' = "run", UNCHANGED program
  PROVE  LastChanges(n)
<1>1. Started /\ Started' /\ FInv'
  BY DEF Started, StaysIn
<1>2. MineChanges(n)
  BY <1>1, FramesChange
<1>3. Mine = Own
  BY RunningIs DEF Mine
<1>4. Mine' = Own'
  <2>1. (FInv /\ phase = "run" => Activation(Current, TRUE) = Own)'
    BY RunningIs, PTL
  <2> QED
    BY <1>1, <2>1 DEF Mine
<1> QED
  BY <1>2, <1>3, <1>4 DEF MineChanges, LastChanges

-----------------------------------------------------------------------------
(* What a command leaves of the running function's words *)

Running(t, u, xs, ls, w) == [fn |-> fn, this |-> t, that |-> u, args |-> xs, locals |-> ls, work |-> w]

OwnArgs == [j \in 1..NArgs |-> mem[ArgAt(j)]]
OwnLocals == [j \in 1..NLocals[fn] |-> mem[LocalAt(j)]]
OwnWork(m) == [j \in 1..m |-> mem[WorkAt(j)]]
OwnTop(m, v) == [j \in 1..m |-> IF j = m THEN v ELSE mem[WorkAt(j)]]

LEMMA OwnIs == Own = Running(this, that, OwnArgs, OwnLocals, OwnWork(WorkWords))
BY DEF Own, Running, OwnArgs, OwnLocals, OwnWork

LEMMA Apart ==
  ASSUME FInv, phase = "run", NEW n, NEW fr, Layout(n, fr), fr[n] = Current
  PROVE  /\ \A i, j \in 1..NArgs : ArgAt(i) = ArgAt(j) => i = j
         /\ \A i, j \in 1..NLocals[fn] : LocalAt(i) = LocalAt(j) => i = j
         /\ \A i, j \in Nat : WorkAt(i) = WorkAt(j) => i = j
         /\ \A i \in 1..NArgs, j \in 1..NLocals[fn] : ArgAt(i) # LocalAt(j)
         /\ \A i \in 1..NArgs, j \in Nat \ {0} : ArgAt(i) # WorkAt(j)
         /\ \A i \in 1..NLocals[fn], j \in Nat \ {0} : LocalAt(i) # WorkAt(j)
         /\ \A i \in 1..NArgs : ArgAt(i) \notin Cells /\ ArgAt(i) \in Stack(sp)
         /\ \A i \in 1..NLocals[fn] : LocalAt(i) \notin Cells /\ LocalAt(i) \in Stack(sp)
         /\ \A j \in 1..WorkWords : WorkAt(j) \notin Cells /\ WorkAt(j) \in Stack(sp)
<1>1. /\ NArgs \in Nat /\ NLocals[fn] \in Nat /\ WorkWords \in Nat
      /\ Depth(lcl) \in Int /\ Depth(sp) \in Int /\ Depth(sp) = Depth(lcl) + WorkWords
      /\ Depth(lcl) - NLocals[fn] >= 1
      /\ \A j \in 1..NArgs : /\ ArgAt(j) \in Int /\ Depth(ArgAt(j)) >= 0
                             /\ Depth(ArgAt(j)) <= Depth(lcl) - NLocals[fn]
                             /\ Depth(ArgAt(j)) = Depth(arg) - (j - 1)
      /\ \A j \in 1..NLocals[fn] : LocalAt(j) \in Int /\ Depth(LocalAt(j)) = Depth(lcl) - (j - 1)
      /\ \A j \in Nat : WorkAt(j) \in Int /\ Depth(WorkAt(j)) = Depth(lcl) + j
      /\ \A a \in Int : Depth(a) \in Int
      /\ \A a \in Int : Depth(a) >= 0 /\ Depth(a) <= Depth(sp) => a \in Stack(sp) /\ a \in StackCells
      /\ Cells \cap StackCells = {} /\ Depth(arg) \in Int
  BY OwnPlaces
<1>2. \A j \in 1..NArgs : Depth(ArgAt(j)) \in Int
  BY <1>1
<1>3. \A i, j \in 1..NArgs : ArgAt(i) = ArgAt(j) => i = j
  BY <1>1
<1>4. \A i, j \in 1..NLocals[fn] : LocalAt(i) = LocalAt(j) => i = j
  BY <1>1
<1>5. \A i, j \in Nat : WorkAt(i) = WorkAt(j) => i = j
  BY <1>1
<1>6. \A i \in 1..NArgs, j \in 1..NLocals[fn] : ArgAt(i) # LocalAt(j)
  <2> SUFFICES ASSUME NEW i \in 1..NArgs, NEW j \in 1..NLocals[fn] PROVE Depth(ArgAt(i)) # Depth(LocalAt(j))
    OBVIOUS
  <2> QED
    BY <1>1, <1>2
<1>7. \A i \in 1..NArgs, j \in Nat \ {0} : ArgAt(i) # WorkAt(j)
  <2> SUFFICES ASSUME NEW i \in 1..NArgs, NEW j \in Nat \ {0} PROVE Depth(ArgAt(i)) # Depth(WorkAt(j))
    OBVIOUS
  <2> QED
    BY <1>1, <1>2
<1>8. \A i \in 1..NLocals[fn], j \in Nat \ {0} : LocalAt(i) # WorkAt(j)
  <2> SUFFICES ASSUME NEW i \in 1..NLocals[fn], NEW j \in Nat \ {0} PROVE Depth(LocalAt(i)) # Depth(WorkAt(j))
    OBVIOUS
  <2> QED
    BY <1>1
<1>9. ASSUME NEW a \in Int, Depth(a) >= 0, Depth(a) <= Depth(sp) PROVE a \notin Cells /\ a \in Stack(sp)
  BY <1>1, <1>9
<1>10. ASSUME NEW i \in 1..NArgs PROVE ArgAt(i) \notin Cells /\ ArgAt(i) \in Stack(sp)
  <2>1. ArgAt(i) \in Int /\ Depth(ArgAt(i)) >= 0 /\ Depth(ArgAt(i)) <= Depth(sp)
    BY <1>1, <1>2
  <2> QED
    BY <1>9, <2>1
<1>11. ASSUME NEW i \in 1..NLocals[fn] PROVE LocalAt(i) \notin Cells /\ LocalAt(i) \in Stack(sp)
  <2>1. LocalAt(i) \in Int /\ Depth(LocalAt(i)) >= 0 /\ Depth(LocalAt(i)) <= Depth(sp)
    BY <1>1
  <2> QED
    BY <1>9, <2>1
<1>12. ASSUME NEW i \in 1..WorkWords PROVE WorkAt(i) \notin Cells /\ WorkAt(i) \in Stack(sp)
  <2>1. WorkAt(i) \in Int /\ Depth(WorkAt(i)) >= 0 /\ Depth(WorkAt(i)) <= Depth(sp)
    BY <1>1
  <2> QED
    BY <1>9, <2>1
<1> QED
  BY <1>3, <1>4, <1>5, <1>6, <1>7, <1>8, <1>10, <1>11, <1>12

LEMMA Tops ==
  ASSUME FInv, phase = "run", NEW n, NEW fr, Layout(n, fr), fr[n] = Current
  PROVE  /\ WorkAt(WorkWords) = sp /\ WorkAt(WorkWords + 1) = Allocated(1)
         /\ WorkWords >= 1 => WorkAt(WorkWords - 1) = Slot(sp, 1)
<1>1. WorkWords \in Nat /\ sp \in Int /\ lcl \in Int /\ WorkWords = FrameOffset(lcl - sp)
  BY OwnPlaces, RunFacts DEF WorkWords
<1>2. FrameOffset(WorkWords) = lcl - sp
  BY <1>1 DEF FrameOffset
<1>3. FrameOffset(WorkWords + 1) = FrameOffset(WorkWords) + FrameOffset(1)
      /\ FrameOffset(WorkWords - 1) = FrameOffset(WorkWords) - FrameOffset(1) /\ FrameOffset(1) \in Int
  BY <1>1 DEF FrameOffset
<1> QED
  BY <1>1, <1>2, <1>3 DEF WorkAt, Allocated, Slot

Kept(new, a) == IF a \in DOMAIN new THEN new[a] ELSE mem[a]

LEMMA OwnStored ==
  ASSUME FInv, phase = "run", ~Draws, NEW n, NEW fr, Layout(n, fr), fr[n] = Current,
         phase' = "run", UNCHANGED <<program, fn, lcl, arg, ra>>,
         NEW m \in Nat, sp' = WorkAt(m), sp' \in StackCells, NEW new, mem' = Stored(new, sp')
  PROVE  /\ Own' = Running(this', that', [j \in 1..NArgs |-> Kept(new, ArgAt(j))],
                           [j \in 1..NLocals[fn] |-> Kept(new, LocalAt(j))],
                           [j \in 1..m |-> Kept(new, WorkAt(j))])
         /\ Data' = [c \in Cells |-> Kept(new, c)] /\ Data = [c \in Cells |-> mem[c]]
<1>1. /\ NArgs \in Nat /\ NLocals[fn] \in Nat /\ WorkWords \in Nat
      /\ Depth(lcl) \in Int /\ Depth(sp) \in Int /\ Depth(sp) = Depth(lcl) + WorkWords
      /\ Depth(lcl) - NLocals[fn] >= 1
      /\ \A j \in 1..NArgs : /\ ArgAt(j) \in Int /\ Depth(ArgAt(j)) >= 0
                             /\ Depth(ArgAt(j)) <= Depth(lcl) - NLocals[fn]
      /\ \A j \in 1..NLocals[fn] : LocalAt(j) \in Int /\ Depth(LocalAt(j)) = Depth(lcl) - (j - 1)
      /\ \A j \in Nat : WorkAt(j) \in Int /\ Depth(WorkAt(j)) = Depth(lcl) + j
      /\ \A a \in Int : Depth(a) \in Int
  BY OwnPlaces
<1>2. program \in Programs /\ lcl \in Int
  BY RunFacts
<1>3. sp' \in Int /\ Depth(sp') = Depth(lcl) + m
  BY <1>1
<1>4. ASSUME NEW a \in Int, Depth(a) >= 0, Depth(a) <= Depth(sp') PROVE mem'[a] = Kept(new, a)
  <2>1. Depth(a) \in 0..Depth(sp')
    BY <1>1, <1>3, <1>4
  <2>2. a \in StackCells
    BY <1>2, <2>1, Depths
  <2>3. a \in Stack(sp')
    BY <1>2, <1>3, <1>4, <2>2, StackWords
  <2> QED
    BY <2>3 DEF Stored, Kept
<1>5. ASSUME NEW j \in 1..NArgs PROVE mem'[ArgAt(j)] = Kept(new, ArgAt(j))
  <2>1. ArgAt(j) \in Int /\ Depth(ArgAt(j)) >= 0 /\ Depth(ArgAt(j)) \in Int /\ Depth(ArgAt(j)) <= Depth(lcl) - NLocals[fn]
    BY <1>1
  <2>2. Depth(ArgAt(j)) <= Depth(sp')
    BY <1>1, <1>3, <2>1
  <2> QED
    BY <1>4, <2>1, <2>2
<1>6. ASSUME NEW j \in 1..NLocals[fn] PROVE mem'[LocalAt(j)] = Kept(new, LocalAt(j))
  <2>1. LocalAt(j) \in Int /\ Depth(LocalAt(j)) = Depth(lcl) - (j - 1)
    BY <1>1
  <2>2. Depth(LocalAt(j)) >= 0 /\ Depth(LocalAt(j)) <= Depth(sp')
    BY <1>1, <1>3, <2>1
  <2> QED
    BY <1>4, <2>1, <2>2
<1>7. ASSUME NEW j \in 1..m PROVE mem'[WorkAt(j)] = Kept(new, WorkAt(j))
  <2>1. WorkAt(j) \in Int /\ Depth(WorkAt(j)) = Depth(lcl) + j
    BY <1>1
  <2>2. Depth(WorkAt(j)) >= 0 /\ Depth(WorkAt(j)) <= Depth(sp')
    BY <1>1, <1>3, <2>1
  <2> QED
    BY <1>4, <2>1, <2>2
<1>8. \A c \in Cells : mem'[c] = Kept(new, c)
  BY DEF Stored, Kept
<1>9. NArgs' = NArgs /\ WorkWords' = m
  <2>1. NArgs' = NArgs
    BY DEF NArgs, Line, Halt
  <2>2. WorkWords' = FrameOffset(lcl - sp')
    BY DEF WorkWords, FrameOffset
  <2>3. FrameOffset(lcl - sp') = Depth(sp') - Depth(lcl)
    BY <1>2, <1>3, Depths
  <2> QED
    BY <1>1, <1>3, <2>1, <2>2, <2>3
<1>10. \A j : ArgAt(j)' = ArgAt(j) /\ LocalAt(j)' = LocalAt(j) /\ WorkAt(j)' = WorkAt(j)
  BY DEF ArgAt, LocalAt, WorkAt, Slot, FrameOffset
<1>11. Own' = Running(this', that', [j \in 1..NArgs |-> mem'[ArgAt(j)]],
                      [j \in 1..NLocals[fn] |-> mem'[LocalAt(j)]], [j \in 1..m |-> mem'[WorkAt(j)]])
  BY <1>9, <1>10 DEF Own, Running
<1>12. Own' = Running(this', that', [j \in 1..NArgs |-> Kept(new, ArgAt(j))],
                           [j \in 1..NLocals[fn] |-> Kept(new, LocalAt(j))],
                           [j \in 1..m |-> Kept(new, WorkAt(j))])
  BY <1>5, <1>6, <1>7, <1>11
<1>13. Data' = [c \in Cells |-> Kept(new, c)] /\ Data = [c \in Cells |-> mem[c]]
  BY <1>8 DEF Data, Draws
<1> QED
  BY <1>12, <1>13

LEMMA KeptIs ==
  /\ \A b : Kept(<<>>, b) = mem[b]
  /\ \A a, v, b : Kept(Word(a, v), b) = IF b = a THEN v ELSE mem[b]
BY DEF Kept, Word

(* A command of the running function that leaves m words on its working     *)
(* stack and stores `new'.                                                 *)
Stores(n, fr, m, new) ==
  /\ FInv /\ phase = "run" /\ ~Draws /\ Layout(n, fr) /\ fr[n] = Current
  /\ phase' = "run" /\ UNCHANGED <<program, fn, lcl, arg, ra>>
  /\ m \in Nat /\ sp' = WorkAt(m) /\ sp' \in StackCells /\ mem' = Stored(new, sp')

LEMMA StoresOwn ==
  ASSUME NEW n, NEW fr, NEW m, NEW new, Stores(n, fr, m, new)
  PROVE  /\ Own' = Running(this', that', [j \in 1..NArgs |-> Kept(new, ArgAt(j))],
                           [j \in 1..NLocals[fn] |-> Kept(new, LocalAt(j))],
                           [j \in 1..m |-> Kept(new, WorkAt(j))])
         /\ Data' = [c \in Cells |-> Kept(new, c)] /\ Data = [c \in Cells |-> mem[c]]
<1>1. /\ FInv /\ phase = "run" /\ ~Draws /\ Layout(n, fr) /\ fr[n] = Current
      /\ phase' = "run" /\ UNCHANGED <<program, fn, lcl, arg, ra>>
      /\ m \in Nat /\ sp' = WorkAt(m) /\ sp' \in StackCells /\ mem' = Stored(new, sp')
  BY DEF Stores
<1> QED
  BY <1>1, OwnStored

LEMMA NothingStored ==
  ASSUME NEW n, NEW fr, NEW m, Stores(n, fr, m, <<>>)
  PROVE  Own' = Running(this', that', OwnArgs, OwnLocals, OwnWork(m)) /\ Data' = Data
<1> DEFINE new == <<>>
<1>1. \A b : Kept(new, b) = mem[b]
  BY KeptIs
<1>2. Stores(n, fr, m, new)
  OBVIOUS
<1> HIDE DEF new
<1>3. /\ Own' = Running(this', that', [j \in 1..NArgs |-> Kept(new, ArgAt(j))],
                        [j \in 1..NLocals[fn] |-> Kept(new, LocalAt(j))],
                        [j \in 1..m |-> Kept(new, WorkAt(j))])
      /\ Data' = [c \in Cells |-> Kept(new, c)] /\ Data = [c \in Cells |-> mem[c]]
  BY <1>2, StoresOwn
<1> QED
  BY <1>1, <1>3 DEF OwnArgs, OwnLocals, OwnWork

LEMMA TopStored ==
  ASSUME NEW n, NEW fr, NEW m \in Nat \ {0}, NEW v, Stores(n, fr, m, Word(WorkAt(m), v))
  PROVE  Own' = Running(this', that', OwnArgs, OwnLocals, OwnTop(m, v)) /\ Data' = Data
<1> DEFINE new == Word(WorkAt(m), v)
<1>1. FInv /\ phase = "run" /\ Layout(n, fr) /\ fr[n] = Current /\ WorkAt(m) \in StackCells
  BY DEF Stores
<1>2. /\ \A i \in 1..NArgs : ArgAt(i) # WorkAt(m)
      /\ \A i \in 1..NLocals[fn] : LocalAt(i) # WorkAt(m)
      /\ \A j \in Nat : WorkAt(j) = WorkAt(m) => j = m
  BY <1>1, Apart
<1>3. WorkAt(m) \notin Cells
  BY <1>1, OwnPlaces
<1>4. \A b : Kept(new, b) = IF b = WorkAt(m) THEN v ELSE mem[b]
  BY KeptIs
<1>5. Stores(n, fr, m, new)
  OBVIOUS
<1> HIDE DEF new
<1>6. /\ Own' = Running(this', that', [j \in 1..NArgs |-> Kept(new, ArgAt(j))],
                        [j \in 1..NLocals[fn] |-> Kept(new, LocalAt(j))],
                        [j \in 1..m |-> Kept(new, WorkAt(j))])
      /\ Data' = [c \in Cells |-> Kept(new, c)] /\ Data = [c \in Cells |-> mem[c]]
  BY <1>5, StoresOwn
<1>7. [j \in 1..NArgs |-> Kept(new, ArgAt(j))] = OwnArgs
  BY <1>2, <1>4 DEF OwnArgs
<1>8. [j \in 1..NLocals[fn] |-> Kept(new, LocalAt(j))] = OwnLocals
  BY <1>2, <1>4 DEF OwnLocals
<1>9. [j \in 1..m |-> Kept(new, WorkAt(j))] = OwnTop(m, v)
  BY <1>2, <1>4 DEF OwnTop
<1>10. [c \in Cells |-> Kept(new, c)] = [c \in Cells |-> mem[c]]
  BY <1>3, <1>4
<1> QED
  BY <1>6, <1>7, <1>8, <1>9, <1>10

LEMMA CellStored ==
  ASSUME NEW n, NEW fr, NEW m, NEW a \in Cells, NEW v, Stores(n, fr, m, Word(a, v)), m <= WorkWords
  PROVE  Own' = Running(this', that', OwnArgs, OwnLocals, OwnWork(m)) /\ Data' = [Data EXCEPT ![a] = v]
<1> DEFINE new == Word(a, v)
<1>1. FInv /\ phase = "run" /\ Layout(n, fr) /\ fr[n] = Current /\ m \in Nat
  BY DEF Stores
<1>2. /\ \A i \in 1..NArgs : ArgAt(i) # a
      /\ \A i \in 1..NLocals[fn] : LocalAt(i) # a
      /\ \A j \in 1..WorkWords : WorkAt(j) # a
  BY <1>1, Apart
<1>3. WorkWords \in Nat
  BY <1>1, OwnPlaces
<1>4. \A b : Kept(new, b) = IF b = a THEN v ELSE mem[b]
  BY KeptIs
<1>5. Stores(n, fr, m, new)
  OBVIOUS
<1> HIDE DEF new
<1>6. /\ Own' = Running(this', that', [j \in 1..NArgs |-> Kept(new, ArgAt(j))],
                        [j \in 1..NLocals[fn] |-> Kept(new, LocalAt(j))],
                        [j \in 1..m |-> Kept(new, WorkAt(j))])
      /\ Data' = [c \in Cells |-> Kept(new, c)] /\ Data = [c \in Cells |-> mem[c]]
  BY <1>5, StoresOwn
<1>7. [j \in 1..NArgs |-> Kept(new, ArgAt(j))] = OwnArgs
  BY <1>2, <1>4 DEF OwnArgs
<1>8. [j \in 1..NLocals[fn] |-> Kept(new, LocalAt(j))] = OwnLocals
  BY <1>2, <1>4 DEF OwnLocals
<1>9. [j \in 1..m |-> Kept(new, WorkAt(j))] = OwnWork(m)
  <2>1. \A j \in 1..m : j \in 1..WorkWords
    BY <1>1, <1>3
  <2> QED
    BY <1>2, <1>4, <2>1 DEF OwnWork
<1>10. [c \in Cells |-> Kept(new, c)] = [[c \in Cells |-> mem[c]] EXCEPT ![a] = v]
  BY <1>4
<1> QED
  BY <1>6, <1>7, <1>8, <1>9, <1>10

LEMMA ArgStored ==
  ASSUME NEW n, NEW fr, NEW m, NEW k \in 1..NArgs, NEW v, Stores(n, fr, m, Word(ArgAt(k), v))
  PROVE  Own' = Running(this', that', [OwnArgs EXCEPT ![k] = v], OwnLocals, OwnWork(m)) /\ Data' = Data
<1> DEFINE a == ArgAt(k)
<1> DEFINE new == Word(a, v)
<1>1. FInv /\ phase = "run" /\ Layout(n, fr) /\ fr[n] = Current /\ m \in Nat
  BY DEF Stores
<1>2. /\ \A i \in 1..NArgs : ArgAt(i) = a => i = k
      /\ \A i \in 1..NLocals[fn] : LocalAt(i) # a
      /\ \A j \in Nat \ {0} : WorkAt(j) # a
      /\ a \notin Cells
  BY <1>1, Apart
<1>4. \A b : Kept(new, b) = IF b = a THEN v ELSE mem[b]
  BY KeptIs
<1>5. Stores(n, fr, m, new) /\ a = ArgAt(k)
  OBVIOUS
<1> HIDE DEF new, a
<1>6. /\ Own' = Running(this', that', [j \in 1..NArgs |-> Kept(new, ArgAt(j))],
                        [j \in 1..NLocals[fn] |-> Kept(new, LocalAt(j))],
                        [j \in 1..m |-> Kept(new, WorkAt(j))])
      /\ Data' = [c \in Cells |-> Kept(new, c)] /\ Data = [c \in Cells |-> mem[c]]
  BY <1>5, StoresOwn
<1>7. [j \in 1..NArgs |-> Kept(new, ArgAt(j))] = [OwnArgs EXCEPT ![k] = v]
  <2>1. \A j \in 1..NArgs : Kept(new, ArgAt(j)) = IF j = k THEN v ELSE mem[ArgAt(j)]
    BY <1>2, <1>4, <1>5
  <2> QED
    BY <2>1 DEF OwnArgs
<1>8. [j \in 1..NLocals[fn] |-> Kept(new, LocalAt(j))] = OwnLocals
  BY <1>2, <1>4 DEF OwnLocals
<1>9. [j \in 1..m |-> Kept(new, WorkAt(j))] = OwnWork(m)
  <2>1. \A j \in 1..m : j \in Nat \ {0}
    BY <1>1
  <2> QED
    BY <1>2, <1>4, <2>1 DEF OwnWork
<1>10. [c \in Cells |-> Kept(new, c)] = [c \in Cells |-> mem[c]]
  BY <1>2, <1>4
<1> QED
  BY <1>6, <1>7, <1>8, <1>9, <1>10

LEMMA LocalStored ==
  ASSUME NEW n, NEW fr, NEW m, NEW k \in 1..NLocals[fn], NEW v, Stores(n, fr, m, Word(LocalAt(k), v))
  PROVE  Own' = Running(this', that', OwnArgs, [OwnLocals EXCEPT ![k] = v], OwnWork(m)) /\ Data' = Data
<1> DEFINE a == LocalAt(k)
<1> DEFINE new == Word(a, v)
<1>1. FInv /\ phase = "run" /\ Layout(n, fr) /\ fr[n] = Current /\ m \in Nat
  BY DEF Stores
<1>2. /\ \A i \in 1..NArgs : ArgAt(i) # a
      /\ \A i \in 1..NLocals[fn] : LocalAt(i) = a => i = k
      /\ \A j \in Nat \ {0} : WorkAt(j) # a
      /\ a \notin Cells
  BY <1>1, Apart
<1>4. \A b : Kept(new, b) = IF b = a THEN v ELSE mem[b]
  BY KeptIs
<1>5. Stores(n, fr, m, new) /\ a = LocalAt(k)
  OBVIOUS
<1> HIDE DEF new, a
<1>6. /\ Own' = Running(this', that', [j \in 1..NArgs |-> Kept(new, ArgAt(j))],
                        [j \in 1..NLocals[fn] |-> Kept(new, LocalAt(j))],
                        [j \in 1..m |-> Kept(new, WorkAt(j))])
      /\ Data' = [c \in Cells |-> Kept(new, c)] /\ Data = [c \in Cells |-> mem[c]]
  BY <1>5, StoresOwn
<1>7. [j \in 1..NLocals[fn] |-> Kept(new, LocalAt(j))] = [OwnLocals EXCEPT ![k] = v]
  <2>1. \A j \in 1..NLocals[fn] : Kept(new, LocalAt(j)) = IF j = k THEN v ELSE mem[LocalAt(j)]
    BY <1>2, <1>4, <1>5
  <2> QED
    BY <2>1 DEF OwnLocals
<1>8. [j \in 1..NArgs |-> Kept(new, ArgAt(j))] = OwnArgs
  BY <1>2, <1>4 DEF OwnArgs
<1>9. [j \in 1..m |-> Kept(new, WorkAt(j))] = OwnWork(m)
  <2>1. \A j \in 1..m : j \in Nat \ {0}
    BY <1>1
  <2> QED
    BY <1>2, <1>4, <2>1 DEF OwnWork
<1>10. [c \in Cells |-> Kept(new, c)] = [c \in Cells |-> mem[c]]
  BY <1>2, <1>4
<1> QED
  BY <1>6, <1>7, <1>8, <1>9, <1>10

-----------------------------------------------------------------------------
(* The running activation as the machine sees it *)

LEMMA OwnSequences ==
  ASSUME FInv, phase = "run"
  PROVE  /\ WorkWords \in Nat /\ NArgs \in Nat /\ NLocals[fn] \in Nat
         /\ Len(Own.work) = WorkWords /\ Len(Own.args) = NArgs /\ Len(Own.locals) = NLocals[fn]
         /\ Own.work # <<>> <=> WorkWords >= 1
         /\ WorkWords >= 1 => Machine!Top(Own) = mem[sp]
         /\ WorkWords >= 2 => Machine!Below(Own) = mem[Slot(sp, 1)]
         /\ \A d \in 0..WorkWords :
              Machine!Drop(Own, d) = Running(this, that, OwnArgs, OwnLocals, OwnWork(WorkWords - d))
<1>1. PICK n, fr : Layout(n, fr) /\ fr[n] = Current
  BY DEF FInv, Started
<1>2. WorkWords \in Nat /\ NArgs \in Nat /\ NLocals[fn] \in Nat
  BY <1>1, OwnPlaces
<1>3. WorkAt(WorkWords) = sp /\ (WorkWords >= 1 => WorkAt(WorkWords - 1) = Slot(sp, 1))
  BY <1>1, Tops
<1>4. Own.work = OwnWork(WorkWords) /\ Own.args = OwnArgs /\ Own.locals = OwnLocals
  BY OwnIs DEF Running
<1>5. IsSeq(OwnWork(WorkWords), WorkWords) /\ IsSeq(OwnArgs, NArgs) /\ IsSeq(OwnLocals, NLocals[fn])
  BY <1>2 DEF IsSeq, OwnWork, OwnArgs, OwnLocals
<1>6. Len(Own.work) = WorkWords /\ Len(Own.args) = NArgs /\ Len(Own.locals) = NLocals[fn]
  BY <1>4, <1>5, SeqSame
<1>7. Own.work # <<>> <=> WorkWords >= 1
  <2>1. DOMAIN Own.work = 1..WorkWords
    BY <1>4, <1>5, SeqSame
  <2>2. WorkWords >= 1 => 1 \in DOMAIN Own.work
    BY <1>2, <2>1
  <2>3. ~(WorkWords >= 1) => WorkWords = 0
    BY <1>2
  <2>4. WorkWords = 0 => Own.work = <<>>
    BY <1>4 DEF OwnWork
  <2> QED
    BY <2>2, <2>3, <2>4
<1>8. WorkWords >= 1 => Machine!Top(Own) = mem[sp]
  BY <1>2, <1>3, <1>4, <1>6 DEF Machine!Top, OwnWork
<1>9. WorkWords >= 2 => Machine!Below(Own) = mem[Slot(sp, 1)]
  BY <1>2, <1>3, <1>4, <1>6 DEF Machine!Below, OwnWork
<1>10. ASSUME NEW d \in 0..WorkWords
       PROVE  Machine!Drop(Own, d) = Running(this, that, OwnArgs, OwnLocals, OwnWork(WorkWords - d))
  <2>1. WorkWords - d \in 0..WorkWords /\ WorkWords - d \in Nat
    BY <1>2
  <2>2. SubSeq(OwnWork(WorkWords), 1, WorkWords - d) = [j \in 1..WorkWords - d |-> OwnWork(WorkWords)[j]]
    BY <1>5, <2>1, SeqFront
  <2>3. \A j \in 1..WorkWords - d : j \in 1..WorkWords
    BY <1>2
  <2>4. SubSeq(OwnWork(WorkWords), 1, WorkWords - d) = OwnWork(WorkWords - d)
    BY <2>2, <2>3 DEF OwnWork
  <2>5. Machine!Drop(Own, d) = [Own EXCEPT !.work = SubSeq(Own.work, 1, Len(Own.work) - d)]
    BY DEF Machine!Drop
  <2>6. Machine!Drop(Own, d) = [Own EXCEPT !.work = OwnWork(WorkWords - d)]
    BY <1>4, <1>6, <2>4, <2>5
  <2> QED
    BY <2>6, OwnIs DEF Running
<1> QED
  BY <1>2, <1>6, <1>7, <1>8, <1>9, <1>10

LEMMA PushedIs ==
  ASSUME NEW t, NEW u, NEW xs, NEW ls, NEW m \in Nat, NEW v
  PROVE  Machine!With(Running(t, u, xs, ls, OwnWork(m)), v) = Running(t, u, xs, ls, OwnTop(m + 1, v))
<1>1. IsSeq(OwnWork(m), m)
  BY DEF IsSeq, OwnWork
<1>2. Append(OwnWork(m), v) = [j \in 1..m + 1 |-> IF j = m + 1 THEN v ELSE OwnWork(m)[j]]
  BY <1>1, SeqAppend
<1>3. \A j \in 1..m + 1 : j # m + 1 => j \in 1..m
  OBVIOUS
<1>4. Append(OwnWork(m), v) = OwnTop(m + 1, v)
  BY <1>2, <1>3 DEF OwnWork, OwnTop
<1> DEFINE r == Running(t, u, xs, ls, OwnWork(m))
<1>5. Machine!With(r, v) = [r EXCEPT !.work = Append(r.work, v)]
  BY DEF Machine!With
<1>6. r.work = OwnWork(m)
  BY DEF Running
<1>7. Machine!With(r, v) = [r EXCEPT !.work = OwnTop(m + 1, v)]
  BY <1>4, <1>5, <1>6
<1> QED
  BY <1>7 DEF Running

-----------------------------------------------------------------------------
(* Commands *)

Below(n) == SubSeq(Frames, 1, n - 1)

LEMMA CommandStep ==
  ASSUME NEW n, LastChanges(n), Machine!VMCommand(Below(n), Own, Frames')
  PROVE  Machine!VMNext
<1>1. Status = "running" /\ Len(Frames) = n /\ Frames[n] = Own
  BY DEF LastChanges
<1>2. Machine!VMCommand(SubSeq(Frames, 1, Len(Frames) - 1), Frames[Len(Frames)], Frames')
  BY <1>1 DEF Below
<1>3. \E now \in {Frames}, after \in {Frames'} :
        Machine!VMCommand(SubSeq(now, 1, Len(now) - 1), now[Len(now)], after)
  BY <1>2
<1> QED
  BY <1>1, <1>3 DEF Machine!VMNext

LEMMA Becomes ==
  ASSUME NEW n, LastChanges(n), NEW f, Own' = f
  PROVE  Machine!Become(Below(n), f, Frames')
BY DEF LastChanges, Machine!Become, Below

LEMMA NamedWords ==
  ASSUME FInv, phase = "run", NEW n, NEW fr, Layout(n, fr), fr[n] = Current,
         NEW seg \in program.segments, NEW i \in program.indices \cup program.constants, WellNamed(seg, i)
  PROVE  /\ seg \in Machine!Segments /\ i \in Indices \cup Constants
         /\ Machine!Denotes(Own, seg, i)
         /\ seg = "arg" => i + 1 \in 1..NArgs /\ Address(seg, i) = ArgAt(i + 1)
         /\ seg = "local" => i + 1 \in 1..NLocals[fn] /\ Address(seg, i) = LocalAt(i + 1)
         /\ seg \in {"static", "temp", "this", "that"} =>
              Machine!Cell(Own, seg, i) = Address(seg, i) /\ Address(seg, i) \in Cells
<1>1. program \in Programs
  BY DEF FInv, Typed
<1>2. seg \in Machine!Segments /\ i \in Indices \cup Constants /\ (i \in program.indices => i \in Indices)
      /\ (i \in program.constants => i \in Constants)
  BY <1>1, FrameAssumption DEF VM!Segments, Machine!Segments
<1>3. /\ NArgs \in Nat /\ NLocals[fn] \in Nat /\ Len(Own.args) = NArgs /\ Len(Own.locals) = NLocals[fn]
  BY OwnSequences
<1>4. seg = "arg" => i \in 0..(NArgs - 1) /\ i + 1 \in 1..NArgs /\ Address(seg, i) = ArgAt(i + 1)
  <2> SUFFICES ASSUME seg = "arg" PROVE i \in 0..(NArgs - 1) /\ i + 1 \in 1..NArgs /\ Address(seg, i) = ArgAt(i + 1)
    OBVIOUS
  <2>1. i \in 0..(NArgs - 1)
    BY DEF WellNamed
  <2>2. (i + 1) - 1 = i /\ i + 1 \in 1..NArgs
    BY <1>3, <2>1
  <2>3. Address("arg", i) = Slot(arg, i)
    BY DEF Address
  <2> QED
    BY <2>1, <2>2, <2>3 DEF ArgAt
<1>5. seg = "local" => i \in 0..(NLocals[fn] - 1) /\ i + 1 \in 1..NLocals[fn] /\ Address(seg, i) = LocalAt(i + 1)
  <2> SUFFICES ASSUME seg = "local"
               PROVE i \in 0..(NLocals[fn] - 1) /\ i + 1 \in 1..NLocals[fn] /\ Address(seg, i) = LocalAt(i + 1)
    OBVIOUS
  <2>1. i \in 0..(NLocals[fn] - 1)
    BY DEF WellNamed
  <2>2. (i + 1) - 1 = i /\ i + 1 \in 1..NLocals[fn]
    BY <1>3, <2>1
  <2>3. Address("local", i) = Slot(lcl, i)
    BY DEF Address
  <2> QED
    BY <2>1, <2>2, <2>3 DEF LocalAt
<1>6. Own.this = this /\ Own.that = that
  BY DEF Own
<1>7. seg \in {"static", "temp", "this", "that"} =>
        Machine!Cell(Own, seg, i) = Address(seg, i) /\ Address(seg, i) \in Cells
  <2> SUFFICES ASSUME seg \in {"static", "temp", "this", "that"}
               PROVE Machine!Cell(Own, seg, i) = Address(seg, i) /\ Address(seg, i) \in Cells
    OBVIOUS
  <2>1. /\ Address(seg, i) \in Cells
        /\ Address(seg, i) = CASE seg = "static" -> StaticBase + i
                               [] seg = "temp" -> TempBase + i
                               [] seg = "this" -> this + i
                               [] seg = "that" -> that + i
    BY AddressIsOwn
  <2>2. Machine!Cell(Own, seg, i) = CASE seg = "static" -> StaticBase + i
                               [] seg = "temp" -> TempBase + i
                               [] seg = "this" -> this + i
                               [] seg = "that" -> that + i
    BY <1>6 DEF Machine!Cell
  <2> QED
    BY <2>1, <2>2
<1>8. Machine!Denotes(Own, seg, i)
  <2>1. CASE seg = "constant"
    BY <1>2, <2>1 DEF WellNamed, Machine!Denotes
  <2>2. CASE seg = "arg"
    BY <1>3, <1>4, <2>2 DEF Machine!Denotes
  <2>3. CASE seg = "local"
    BY <1>3, <1>5, <2>3 DEF Machine!Denotes
  <2>4. CASE seg = "pointer"
    BY <2>4 DEF WellNamed, Machine!Denotes
  <2>5. CASE seg = "static"
    <3>1. i \in Indices
      BY <1>2, <2>5 DEF WellNamed
    <3> QED
      BY <1>7, <2>5, <3>1 DEF Machine!Denotes, Cells, Machine!Cells, VM!Cells
  <2>6. CASE seg = "temp"
    <3>1. i \in Indices
      BY <1>2, <2>6 DEF WellNamed
    <3> QED
      BY <1>7, <2>6, <3>1 DEF Machine!Denotes, Cells, Machine!Cells, VM!Cells
  <2>7. CASE seg = "this"
    <3>1. i \in Indices /\ this + i \in Heap
      BY <1>2, <2>7 DEF WellNamed
    <3>2. Machine!Cell(Own, seg, i) = this + i
      BY <1>6, <2>7 DEF Machine!Cell
    <3> QED
      BY <2>7, <3>1, <3>2 DEF Machine!Denotes
  <2>8. CASE seg = "that"
    <3>1. i \in Indices /\ that + i \in Heap
      BY <1>2, <2>8 DEF WellNamed
    <3>2. Machine!Cell(Own, seg, i) = that + i
      BY <1>6, <2>8 DEF Machine!Cell
    <3> QED
      BY <2>8, <3>1, <3>2 DEF Machine!Denotes
  <2> QED
    BY <1>2, <2>1, <2>2, <2>3, <2>4, <2>5, <2>6, <2>7, <2>8 DEF Machine!Segments
<1> QED
  BY <1>2, <1>4, <1>5, <1>7, <1>8

LEMMA PushImplements ==
  ASSUME FInv, ~Draws, NEW n, NEW fr, Layout(n, fr), fr[n] = Current, NEW seg \in program.segments,
         NEW i \in program.indices \cup program.constants, Push(seg, i)
  PROVE  Machine!VMNext
<1> DEFINE v == CASE seg = "constant" -> i
                  [] seg = "pointer"  -> IF i = 0 THEN this ELSE that
                  [] OTHER            -> mem[Address(seg, i)]
<1>1. phase = "run" /\ phase' = "run" /\ WellNamed(seg, i) /\ sp' = Allocated(1) /\ mem' = Stored(Word(sp', v), sp')
      /\ UNCHANGED <<program, fn, lcl, arg, ra>> /\ UNCHANGED <<this, that>> /\ Allocated(1) \in StackCells
  BY DEF Push
<1>2. StaysIn(n, fr)
  BY PushRuns
<1>3. LastChanges(n)
  BY <1>1, <1>2, CommandChanges
<1>4. WorkWords \in Nat /\ WorkAt(WorkWords + 1) = Allocated(1)
  BY <1>1, OwnSequences, Tops
<1>5. /\ seg \in Machine!Segments /\ i \in Indices \cup Constants
      /\ Machine!Denotes(Own, seg, i)
      /\ seg = "arg" => i + 1 \in 1..NArgs /\ Address(seg, i) = ArgAt(i + 1)
      /\ seg = "local" => i + 1 \in 1..NLocals[fn] /\ Address(seg, i) = LocalAt(i + 1)
      /\ seg \in {"static", "temp", "this", "that"} =>
           Machine!Cell(Own, seg, i) = Address(seg, i) /\ Address(seg, i) \in Cells
  BY <1>1, NamedWords
<1>6. Machine!Value(Own, seg, i) = v
  <2>1. CASE seg = "constant"
    BY <2>1 DEF Machine!Value
  <2>2. CASE seg = "arg"
    BY <1>5, <2>2 DEF Machine!Value, Own
  <2>3. CASE seg = "local"
    BY <1>5, <2>3 DEF Machine!Value, Own
  <2>4. CASE seg = "pointer"
    BY <2>4 DEF Machine!Value, Own
  <2>5. CASE seg \in {"static", "temp", "this", "that"}
    <3>1. Data = [c \in Cells |-> mem[c]]
      BY DEF Data
    <3>2. Machine!Value(Own, seg, i) = Data[Machine!Cell(Own, seg, i)]
      BY <2>5 DEF Machine!Value
    <3>3. v = mem[Address(seg, i)]
      BY <2>5
    <3> QED
      BY <1>5, <2>5, <3>1, <3>2, <3>3
  <2> QED
    BY <1>5, <2>1, <2>2, <2>3, <2>4, <2>5 DEF Machine!Segments
<1> HIDE DEF v
<1>7. Stores(n, fr, WorkWords + 1, Word(WorkAt(WorkWords + 1), v))
  BY <1>1, <1>4 DEF Stores
<1>8. Own' = Running(this', that', OwnArgs, OwnLocals, OwnTop(WorkWords + 1, v)) /\ Data' = Data
  BY <1>4, <1>7, TopStored
<1>9. Own' = Machine!With(Own, v)
  BY <1>1, <1>4, <1>8, PushedIs, OwnIs
<1>10. Machine!VMPush(Below(n), Own, Frames', seg, i)
  BY <1>3, <1>5, <1>6, <1>8, <1>9, Becomes DEF Machine!VMPush
<1>11. Machine!VMCommand(Below(n), Own, Frames')
  BY <1>5, <1>10 DEF Machine!VMCommand
<1> QED
  BY <1>3, <1>11, CommandStep

(* A command that pops the top word: m words are left. *)
LEMMA PopsTo ==
  ASSUME FInv, ~Draws, NEW n, NEW fr, Layout(n, fr), fr[n] = Current, NEW new,
         phase = "run", phase' = "run", UNCHANGED <<program, fn, lcl, arg, ra>>,
         WorkWords >= 1, sp' = Slot(sp, 1), mem' = Stored(new, sp')
  PROVE  Stores(n, fr, WorkWords - 1, new) /\ WorkAt(WorkWords - 1) = sp' /\ WorkWords - 1 \in Nat
<1>1. WorkWords \in Nat /\ WorkAt(WorkWords - 1) = Slot(sp, 1)
  BY OwnSequences, Tops
<1>2. sp' \in StackCells
  BY PopMoves
<1> QED
  BY <1>1, <1>2 DEF Stores

LEMMA PopImplements ==
  ASSUME FInv, ~Draws, NEW n, NEW fr, Layout(n, fr), fr[n] = Current, NEW seg \in program.segments,
         NEW i \in program.indices \cup program.constants, Pop(seg, i)
  PROVE  Machine!VMNext
<1>1. phase = "run" /\ phase' = "run" /\ WellNamed(seg, i) /\ seg # "constant" /\ WorkWords >= 1 /\ sp' = Slot(sp, 1)
      /\ UNCHANGED <<program, fn, lcl, arg, ra>>
  BY DEF Pop
<1>2. LastChanges(n)
  <2>1. StaysIn(n, fr)
    BY PopRuns
  <2> QED
    BY <1>1, <2>1, CommandChanges
<1>3. /\ WorkWords \in Nat /\ 1 \in 0..WorkWords /\ Own.work # <<>> /\ Machine!Top(Own) = mem[sp]
      /\ Machine!Drop(Own, 1) = Running(this, that, OwnArgs, OwnLocals, OwnWork(WorkWords - 1))
  BY <1>1, OwnSequences
<1>4. /\ seg \in Machine!Segments /\ i \in Indices \cup Constants
      /\ Machine!Denotes(Own, seg, i)
      /\ seg = "arg" => i + 1 \in 1..NArgs /\ Address(seg, i) = ArgAt(i + 1)
      /\ seg = "local" => i + 1 \in 1..NLocals[fn] /\ Address(seg, i) = LocalAt(i + 1)
      /\ seg \in {"static", "temp", "this", "that"} =>
           Machine!Cell(Own, seg, i) = Address(seg, i) /\ Address(seg, i) \in Cells
  BY <1>1, NamedWords
<1> DEFINE v == mem[sp]
<1> DEFINE f == Machine!Stored(Machine!Drop(Own, 1), seg, i, v)
<1>5. /\ Own' = f
      /\ Data' = IF seg \in {"arg", "local", "pointer"} THEN Data
                 ELSE [Data EXCEPT ![Machine!Cell(Own, seg, i)] = v]
  <2>1. CASE seg = "pointer"
    <3>1. mem' = Stored(<<>>, sp') /\ this' = (IF i = 0 THEN v ELSE this) /\ that' = (IF i = 0 THEN that ELSE v)
      BY <2>1 DEF Pop
    <3>2. Own' = Running(this', that', OwnArgs, OwnLocals, OwnWork(WorkWords - 1)) /\ Data' = Data
      BY <1>1, <3>1, PopsTo, NothingStored
    <3>3. f = IF i = 0 THEN [Machine!Drop(Own, 1) EXCEPT !.this = v] ELSE [Machine!Drop(Own, 1) EXCEPT !.that = v]
      BY <2>1 DEF Machine!Stored
    <3>4. f = Running(this', that', OwnArgs, OwnLocals, OwnWork(WorkWords - 1))
      BY <1>3, <3>1, <3>3 DEF Running
    <3> QED
      BY <2>1, <3>2, <3>4
  <2>2. CASE seg # "pointer"
    <3>1. mem' = Stored(Word(Address(seg, i), v), sp') /\ this' = this /\ that' = that
      BY <2>2 DEF Pop
    <3>2. WorkWords - 1 \in Nat /\ WorkWords - 1 <= WorkWords
          /\ Stores(n, fr, WorkWords - 1, Word(Address(seg, i), v))
      BY <1>1, <1>3, <3>1, PopsTo
    <3>3. CASE seg = "arg"
      <4>1. Own' = Running(this, that, [OwnArgs EXCEPT ![i + 1] = v], OwnLocals, OwnWork(WorkWords - 1))
            /\ Data' = Data
        BY <1>4, <3>1, <3>2, <3>3, ArgStored
      <4>2. f = [Machine!Drop(Own, 1) EXCEPT !.args[i + 1] = v]
        BY <3>3 DEF Machine!Stored
      <4>3. f = Running(this, that, [OwnArgs EXCEPT ![i + 1] = v], OwnLocals, OwnWork(WorkWords - 1))
        BY <1>3, <4>2 DEF Running
      <4> QED
        BY <3>3, <4>1, <4>3
    <3>4. CASE seg = "local"
      <4>1. Own' = Running(this, that, OwnArgs, [OwnLocals EXCEPT ![i + 1] = v], OwnWork(WorkWords - 1))
            /\ Data' = Data
        BY <1>4, <3>1, <3>2, <3>4, LocalStored
      <4>2. f = [Machine!Drop(Own, 1) EXCEPT !.locals[i + 1] = v]
        BY <3>4 DEF Machine!Stored
      <4>3. f = Running(this, that, OwnArgs, [OwnLocals EXCEPT ![i + 1] = v], OwnWork(WorkWords - 1))
        BY <1>3, <4>2 DEF Running
      <4> QED
        BY <3>4, <4>1, <4>3
    <3>5. CASE seg \in {"static", "temp", "this", "that"}
      <4>1. Address(seg, i) \in Cells /\ Machine!Cell(Own, seg, i) = Address(seg, i)
        BY <1>4, <3>5
      <4>2. Own' = Running(this, that, OwnArgs, OwnLocals, OwnWork(WorkWords - 1))
            /\ Data' = [Data EXCEPT ![Address(seg, i)] = v]
        BY <3>1, <3>2, <4>1, CellStored
      <4>3. f = Machine!Drop(Own, 1)
        BY <3>5 DEF Machine!Stored
      <4> QED
        BY <1>3, <3>5, <4>1, <4>2, <4>3
    <3> QED
      BY <1>1, <1>4, <2>2, <3>3, <3>4, <3>5 DEF Machine!Segments
  <2> QED
    BY <2>1, <2>2
<1> HIDE DEF v
<1>6. Machine!Become(Below(n), f, Frames')
  BY <1>2, <1>5, Becomes
<1>7. Machine!VMPop(Below(n), Own, Frames', seg, i)
  BY <1>1, <1>3, <1>4, <1>5, <1>6 DEF Machine!VMPop, v
<1>8. Machine!VMCommand(Below(n), Own, Frames')
  BY <1>4, <1>7 DEF Machine!VMCommand
<1> QED
  BY <1>2, <1>8, CommandStep

LEMMA IfGotoImplements ==
  ASSUME FInv, ~Draws, NEW n, NEW fr, Layout(n, fr), fr[n] = Current, IfGoto
  PROVE  Machine!VMNext
<1>1. phase = "run" /\ phase' = "run" /\ WorkWords >= 1 /\ sp' = Slot(sp, 1) /\ mem' = Stored(<<>>, sp')
      /\ UNCHANGED <<program, fn, lcl, arg, ra>> /\ UNCHANGED <<this, that>>
  BY DEF IfGoto
<1>2. LastChanges(n)
  <2>1. StaysIn(n, fr)
    BY IfGotoRuns
  <2> QED
    BY <1>1, <2>1, CommandChanges
<1>3. /\ WorkWords \in Nat /\ Own.work # <<>>
      /\ Machine!Drop(Own, 1) = Running(this, that, OwnArgs, OwnLocals, OwnWork(WorkWords - 1))
  BY <1>1, OwnSequences
<1>4. Own' = Running(this', that', OwnArgs, OwnLocals, OwnWork(WorkWords - 1)) /\ Data' = Data
  BY <1>1, PopsTo, NothingStored
<1>5. Own' = Machine!Drop(Own, 1)
  BY <1>1, <1>3, <1>4
<1>6. Machine!VMIfGoto(Below(n), Own, Frames')
  BY <1>2, <1>3, <1>4, <1>5, Becomes DEF Machine!VMIfGoto
<1> QED
  BY <1>2, <1>6, CommandStep DEF Machine!VMCommand

(* A command that leaves v on a working stack that loses d words first. *)
LEMMA ResultLeft ==
  ASSUME FInv, phase = "run", NEW n, LastChanges(n), NEW d \in 1..WorkWords, NEW v,
         Own' = Running(this, that, OwnArgs, OwnLocals, OwnTop(WorkWords - d + 1, v))
  PROVE  Own' = Machine!With(Machine!Drop(Own, d), v)
         /\ Machine!Become(Below(n), Machine!With(Machine!Drop(Own, d), v), Frames')
<1>1. /\ WorkWords \in Nat /\ d \in 0..WorkWords /\ WorkWords - d \in Nat
      /\ Machine!Drop(Own, d) = Running(this, that, OwnArgs, OwnLocals, OwnWork(WorkWords - d))
  <2>1. /\ WorkWords \in Nat
        /\ \A e \in 0..WorkWords :
             Machine!Drop(Own, e) = Running(this, that, OwnArgs, OwnLocals, OwnWork(WorkWords - e))
    BY OwnSequences
  <2>2. d \in 0..WorkWords /\ WorkWords - d \in Nat
    BY <2>1
  <2> QED
    BY <2>1, <2>2
<1>2. Own' = Machine!With(Machine!Drop(Own, d), v)
  BY <1>1, PushedIs
<1> QED
  BY <1>2, Becomes

LEMMA BinaryImplements ==
  ASSUME FInv, ~Draws, NEW n, NEW fr, Layout(n, fr), fr[n] = Current, NEW op \in Operations, Binary(op)
  PROVE  Machine!VMNext
<1> DEFINE v == VM!Result(op, mem[Slot(sp, 1)], mem[sp])
<1>1. phase = "run" /\ phase' = "run" /\ WorkWords >= 2 /\ sp' = Slot(sp, 1) /\ mem' = Stored(Word(sp', v), sp')
      /\ UNCHANGED <<program, fn, lcl, arg, ra>> /\ UNCHANGED <<this, that>>
  BY DEF Binary
<1> HIDE DEF v
<1>2. LastChanges(n)
  <2>1. StaysIn(n, fr)
    BY BinaryRuns
  <2> QED
    BY <1>1, <2>1, CommandChanges
<1>3. /\ WorkWords \in Nat /\ WorkWords >= 1 /\ 2 \in 1..WorkWords /\ Len(Own.work) = WorkWords
      /\ Machine!Top(Own) = mem[sp] /\ Machine!Below(Own) = mem[Slot(sp, 1)]
  BY <1>1, OwnSequences
<1>4. Stores(n, fr, WorkWords - 1, Word(sp', v)) /\ WorkAt(WorkWords - 1) = sp' /\ WorkWords - 1 \in Nat
  BY <1>1, <1>3, PopsTo
<1>5. Own' = Running(this', that', OwnArgs, OwnLocals, OwnTop(WorkWords - 1, v)) /\ Data' = Data
  <2>1. WorkWords - 1 \in Nat \ {0}
    BY <1>1, <1>3
  <2> QED
    BY <1>4, <2>1, TopStored
<1>6. Machine!Become(Below(n), Machine!With(Machine!Drop(Own, 2), v), Frames')
  <2>1. WorkWords - 2 + 1 = WorkWords - 1
    BY <1>3
  <2> QED
    BY <1>1, <1>2, <1>3, <1>5, <2>1, ResultLeft
<1>7. v = Machine!Result(op, Machine!Below(Own), Machine!Top(Own))
  BY <1>3 DEF v, VM!Result, Machine!Result, VM!Bit, Machine!Bit
<1>8. Machine!VMBinary(Below(n), Own, Frames', op)
  BY <1>1, <1>3, <1>5, <1>6, <1>7 DEF Machine!VMBinary
<1>9. Machine!VMCommand(Below(n), Own, Frames')
  BY <1>8 DEF Machine!VMCommand
<1> QED
  BY <1>2, <1>9, CommandStep

(* A command that overwrites the top of the working stack. *)
LEMMA Overwrites ==
  ASSUME FInv, ~Draws, NEW n, NEW fr, Layout(n, fr), fr[n] = Current, phase = "run", phase' = "run",
         UNCHANGED <<program, fn, lcl, arg, ra, this, that>>, WorkWords >= 1, sp' = sp,
         NEW v, mem' = [mem EXCEPT ![sp] = v]
  PROVE  Own' = Running(this, that, OwnArgs, OwnLocals, OwnTop(WorkWords - 1 + 1, v)) /\ Data' = Data
<1>1. WorkWords \in Nat /\ WorkAt(WorkWords) = sp /\ sp \in StackCells /\ sp \in Stack(sp)
      /\ mem \in [Cells \cup Stack(sp) -> Words]
  BY OwnSequences, Tops, RunFacts DEF Typed
<1>2. mem' = Stored(Word(sp, v), sp)
  BY <1>1 DEF Stored, Word
<1>3. WorkWords \in Nat \ {0}
  BY <1>1
<1>4. mem' = Stored(Word(WorkAt(WorkWords), v), sp') /\ sp' = WorkAt(WorkWords) /\ sp' \in StackCells
  BY <1>1, <1>2
<1>5. Stores(n, fr, WorkWords, Word(WorkAt(WorkWords), v))
  BY <1>1, <1>4 DEF Stores
<1>6. WorkWords - 1 + 1 = WorkWords
  BY <1>1
<1> QED
  BY <1>3, <1>5, <1>6, TopStored

LEMMA UnaryImplements ==
  ASSUME FInv, ~Draws, NEW n, NEW fr, Layout(n, fr), fr[n] = Current, Unary
  PROVE  Machine!VMNext
<1> DEFINE v == VM!Bit(mem[sp] = 0)
<1>1. phase = "run" /\ phase' = "run" /\ WorkWords >= 1 /\ mem' = [mem EXCEPT ![sp] = v] /\ sp' = sp
      /\ UNCHANGED <<program, fn, lcl, arg, ra, this, that>>
  BY DEF Unary
<1>2. LastChanges(n)
  <2>1. StaysIn(n, fr)
    BY UnaryRuns
  <2> QED
    BY <1>1, <2>1, CommandChanges
<1>3. 1 \in 1..WorkWords /\ Own.work # <<>> /\ Machine!Top(Own) = mem[sp]
  BY <1>1, OwnSequences
<1>4. v = Machine!Bit(Machine!Top(Own) = 0)
  BY <1>3 DEF VM!Bit, Machine!Bit
<1> HIDE DEF v
<1>5. Own' = Running(this, that, OwnArgs, OwnLocals, OwnTop(WorkWords - 1 + 1, v)) /\ Data' = Data
  BY <1>1, Overwrites
<1>6. Machine!Become(Below(n), Machine!With(Machine!Drop(Own, 1), v), Frames')
  BY <1>1, <1>2, <1>3, <1>5, ResultLeft
<1>7. Machine!VMUnary(Below(n), Own, Frames')
  BY <1>3, <1>4, <1>5, <1>6 DEF Machine!VMUnary
<1> QED
  BY <1>2, <1>7, CommandStep DEF Machine!VMCommand

LEMMA PeekImplements ==
  ASSUME FInv, ~Draws, NEW n, NEW fr, Layout(n, fr), fr[n] = Current, Peek
  PROVE  Machine!VMNext
<1> DEFINE v == mem[mem[sp]]
<1>1. phase = "run" /\ phase' = "run" /\ WorkWords >= 1 /\ mem' = [mem EXCEPT ![sp] = v] /\ sp' = sp
      /\ UNCHANGED <<program, fn, lcl, arg, ra, this, that>> /\ mem[sp] \in Cells
  BY DEF Peek
<1>2. LastChanges(n)
  <2>1. StaysIn(n, fr)
    BY PeekRuns
  <2> QED
    BY <1>1, <2>1, CommandChanges
<1>3. 1 \in 1..WorkWords /\ Own.work # <<>> /\ Machine!Top(Own) = mem[sp]
  BY <1>1, OwnSequences
<1>4. v = Data[Machine!Top(Own)] /\ Machine!Top(Own) \in Machine!Cells
  BY <1>1, <1>3 DEF Data, Cells, VM!Cells, Machine!Cells
<1> HIDE DEF v
<1>5. Own' = Running(this, that, OwnArgs, OwnLocals, OwnTop(WorkWords - 1 + 1, v)) /\ Data' = Data
  BY <1>1, Overwrites
<1>6. Machine!Become(Below(n), Machine!With(Machine!Drop(Own, 1), v), Frames')
  BY <1>1, <1>2, <1>3, <1>5, ResultLeft
<1>7. Machine!VMPeek(Below(n), Own, Frames')
  BY <1>3, <1>4, <1>5, <1>6 DEF Machine!VMPeek
<1> QED
  BY <1>2, <1>7, CommandStep DEF Machine!VMCommand

LEMMA PokeImplements ==
  ASSUME FInv, ~Draws, NEW n, NEW fr, Layout(n, fr), fr[n] = Current, Poke
  PROVE  Machine!VMNext
<1> DEFINE c == mem[sp]
<1> DEFINE w == mem[Slot(sp, 1)]
<1> DEFINE new == [a \in {c, sp'} |-> IF a = sp' THEN a0 ELSE w]
<1>1. phase = "run" /\ phase' = "run" /\ WorkWords >= 2 /\ sp' = Slot(sp, 1) /\ mem' = Stored(new, sp')
      /\ UNCHANGED <<program, fn, lcl, arg, ra>> /\ UNCHANGED <<this, that>> /\ c \in Cells
  BY DEF Poke
<1>2. LastChanges(n)
  <2>1. StaysIn(n, fr)
    BY PokeRuns
  <2> QED
    BY <1>1, <2>1, CommandChanges
<1>3. /\ WorkWords \in Nat /\ WorkWords >= 1 /\ 2 \in 1..WorkWords /\ Len(Own.work) = WorkWords
      /\ Machine!Top(Own) = c /\ Machine!Below(Own) = w
  BY <1>1, OwnSequences
<1>4. \A a : Kept(new, a) = IF a = sp' THEN a0 ELSE IF a = c THEN w ELSE mem[a]
  BY DEF Kept
<1> HIDE DEF new, c, w
<1>5. Stores(n, fr, WorkWords - 1, new) /\ WorkAt(WorkWords - 1) = sp' /\ WorkWords - 1 \in Nat \ {0}
  <2>1. Stores(n, fr, WorkWords - 1, new) /\ WorkAt(WorkWords - 1) = sp'
    BY <1>1, <1>3, PopsTo
  <2> QED
    BY <1>1, <1>3, <2>1
<1> DEFINE m == WorkWords - 1
<1>6. /\ Own' = Running(this', that', [j \in 1..NArgs |-> Kept(new, ArgAt(j))],
                        [j \in 1..NLocals[fn] |-> Kept(new, LocalAt(j))],
                        [j \in 1..m |-> Kept(new, WorkAt(j))])
      /\ Data' = [e \in Cells |-> Kept(new, e)] /\ Data = [e \in Cells |-> mem[e]]
  BY <1>5, StoresOwn
<1>7. /\ \A j \in 1..NArgs : ArgAt(j) # WorkAt(m) /\ ArgAt(j) # c
      /\ \A j \in 1..NLocals[fn] : LocalAt(j) # WorkAt(m) /\ LocalAt(j) # c
      /\ \A j \in 1..WorkWords : WorkAt(j) # c
      /\ \A j \in Nat : WorkAt(j) = WorkAt(m) => j = m
  BY <1>1, <1>5, Apart
<1>8. WorkAt(m) \notin Cells /\ m \in 1..WorkWords /\ \A j \in 1..m : j \in 1..WorkWords /\ j \in Nat
  <2>1. m \in 1..WorkWords /\ \A j \in 1..m : j \in 1..WorkWords /\ j \in Nat
    BY <1>3, <1>5
  <2>2. WorkAt(m) \notin Cells
    BY <1>1, <2>1, Apart
  <2> QED
    BY <2>1, <2>2
<1>9. sp' = WorkAt(m) /\ m \in Nat
  BY <1>5
<1> HIDE DEF m
<1>10. [j \in 1..NArgs |-> Kept(new, ArgAt(j))] = OwnArgs
  BY <1>4, <1>7, <1>9 DEF OwnArgs
<1>11. [j \in 1..NLocals[fn] |-> Kept(new, LocalAt(j))] = OwnLocals
  BY <1>4, <1>7, <1>9 DEF OwnLocals
<1>12. [j \in 1..m |-> Kept(new, WorkAt(j))] = OwnTop(m, a0)
  BY <1>4, <1>7, <1>8, <1>9 DEF OwnTop
<1>13. [e \in Cells |-> Kept(new, e)] = [[e \in Cells |-> mem[e]] EXCEPT ![c] = w]
  BY <1>1, <1>4, <1>8, <1>9
<1>14. Own' = Running(this, that, OwnArgs, OwnLocals, OwnTop(m, a0)) /\ Data' = [Data EXCEPT ![c] = w]
  BY <1>1, <1>6, <1>10, <1>11, <1>12, <1>13
<1>15. /\ Own' = Machine!With(Machine!Drop(Own, 2), a0)
       /\ Machine!Become(Below(n), Machine!With(Machine!Drop(Own, 2), a0), Frames')
  <2>1. WorkWords - 2 + 1 = m
    BY <1>3 DEF m
  <2> QED
    BY <1>1, <1>2, <1>3, <1>14, <2>1, ResultLeft
<1>16. Frames' # <<>> /\ Frames'[Len(Frames')] = Own' /\ Own'.work # <<>> /\ Machine!Top(Own') = a0
  <2>1. IsSeq(Below(n), n - 1) /\ Frames' = Append(Below(n), Own') /\ n - 1 \in Nat /\ n \in Nat
    <3>1. n \in Nat \ {0} /\ IsSeq(Frames, n) /\ Frames' = Append(Below(n), Own')
      BY <1>2 DEF LastChanges, Below
    <3>2. n - 1 \in 0..n /\ n - 1 \in Nat
      BY <3>1
    <3>3. Below(n) = [j \in 1..n - 1 |-> Frames[j]]
      BY <3>1, <3>2, SeqFront DEF Below
    <3> QED
      BY <3>1, <3>2, <3>3 DEF IsSeq
  <2>2. Frames' = [j \in 1..n |-> IF j = n THEN Own' ELSE Below(n)[j]]
    <3>1. (n - 1) + 1 = n
      BY <2>1
    <3> QED
      BY <2>1, <3>1, SeqAppend
  <2>3. IsSeq(Frames', n) /\ Frames'[n] = Own' /\ n \in 1..n
    <3>1. n \in 1..n
      BY <1>2 DEF LastChanges
    <3> QED
      BY <2>1, <2>2, <3>1 DEF IsSeq
  <2>4. Len(Frames') = n /\ DOMAIN Frames' = 1..n
    BY <2>3, SeqSame
  <2>5. Own'.work = OwnTop(m, a0)
    BY <1>14 DEF Running
  <2>6. IsSeq(Own'.work, m) /\ m \in 1..m
    BY <1>8, <1>9, <2>5 DEF IsSeq, OwnTop
  <2>7. Len(Own'.work) = m /\ DOMAIN Own'.work = 1..m
    BY <2>6, SeqSame
  <2>8. Machine!Top(Own') = a0
    BY <2>5, <2>6, <2>7 DEF Machine!Top, OwnTop
  <2> QED
    BY <2>3, <2>4, <2>6, <2>7, <2>8
<1>17. Machine!LeavesAWord(Below(n), Own, Frames')
  <2>1. a0 \in Words
    BY DEF FInv, Typed
  <2> QED
    BY <1>15, <1>16, <2>1 DEF Machine!LeavesAWord
<1>18. Machine!VMPoke(Below(n), Own, Frames')
  BY <1>1, <1>3, <1>14, <1>17 DEF Machine!VMPoke, Cells, VM!Cells, Machine!Cells
<1> QED
  BY <1>2, <1>18, CommandStep DEF Machine!VMCommand

-----------------------------------------------------------------------------
(* Calls and returns *)

LEMMA SameFrames ==
  ASSUME NEW n, MineChanges(n), Mine' = Mine
  PROVE  UNCHANGED <<Status, Frames>>
<1>1. n \in Nat \ {0} /\ IsSeq(Frames, n) /\ Frames[n] = Mine /\ Frames' = Append(SubSeq(Frames, 1, n - 1), Mine)
      /\ Status' = Status
  BY DEF MineChanges
<1>2. n - 1 \in 0..n /\ n - 1 \in Nat /\ (n - 1) + 1 = n
  BY <1>1
<1> DEFINE below == SubSeq(Frames, 1, n - 1)
<1>3. below = [k \in 1..n - 1 |-> Frames[k]]
  BY <1>1, <1>2, SeqFront
<1>4. IsSeq(below, n - 1)
  BY <1>2, <1>3 DEF IsSeq
<1> HIDE DEF below
<1>5. Append(below, Mine) = [j \in 1..(n - 1) + 1 |-> IF j = (n - 1) + 1 THEN Mine ELSE below[j]]
  BY <1>4, SeqAppend
<1>6. \A j \in 1..n : j # n => below[j] = Frames[j]
  BY <1>1, <1>3
<1>7. Append(below, Mine) = [j \in 1..n |-> Frames[j]]
  BY <1>1, <1>2, <1>5, <1>6
<1>8. Frames = [j \in 1..n |-> Frames[j]]
  BY <1>1 DEF IsSeq
<1> QED
  BY <1>1, <1>7, <1>8 DEF below

Framed(f, t, u, xs, ls, w) ==
  [fn |-> f, this |-> t, that |-> u, args |-> xs, locals |-> ls, work |-> w]

LEMMA OtherWork ==
  ASSUME NEW f, NEW t, NEW u, NEW xs, NEW ls, NEW w, NEW v
  PROVE  [Framed(f, t, u, xs, ls, w) EXCEPT !.work = v] = Framed(f, t, u, xs, ls, v)
BY DEF Framed

(* An activation with the registers r and the working stack w. *)
View(r, w) ==
  Framed(r.fn, r.this, r.that, [j \in 1..ArgsOf(r) |-> mem[ArgWord(r, j)]],
         [j \in 1..NLocals[r.fn] |-> mem[LocalWord(r, j)]], w)

LEMMA ViewWork ==
  ASSUME NEW r, NEW w, NEW v
  PROVE  View(r, w).work = w /\ [View(r, w) EXCEPT !.work = v] = View(r, v)
<1>1. PICK xs : xs = [j \in 1..ArgsOf(r) |-> mem[ArgWord(r, j)]]
  OBVIOUS
<1>2. PICK ls : ls = [j \in 1..NLocals[r.fn] |-> mem[LocalWord(r, j)]]
  OBVIOUS
<1>3. View(r, w) = Framed(r.fn, r.this, r.that, xs, ls, w)
      /\ View(r, v) = Framed(r.fn, r.this, r.that, xs, ls, v)
  BY <1>1, <1>2 DEF View
<1>4. Framed(r.fn, r.this, r.that, xs, ls, w).work = w
  BY DEF Framed
<1>5. [Framed(r.fn, r.this, r.that, xs, ls, w) EXCEPT !.work = v] = Framed(r.fn, r.this, r.that, xs, ls, v)
  BY OtherWork
<1> QED
  BY <1>3, <1>4, <1>5

(* The registers are a caller's: between a call and the callee's first      *)
(* line the arguments are on its working stack, and from the callee's last *)
(* line on the result is.                                                  *)
WorkViews ==
  \A r : WorkSize(r) \in Nat =>
    /\ Activation(r, FALSE) = View(r, [j \in 1..WorkSize(r) |-> mem[WorkWord(r, j)]])
    /\ phase = "enter" /\ WorkSize(r) + Line.n \in Nat =>
         Activation(r, TRUE) = View(r, [j \in 1..WorkSize(r) + Line.n |-> mem[WorkWord(r, j)]])
    /\ phase = "return" => Activation(r, TRUE) = Machine!With(Activation(r, FALSE), a0)

LEMMA WorkViewsHold == WorkViews
<1> SUFFICES ASSUME NEW r, WorkSize(r) \in Nat
             PROVE /\ Activation(r, FALSE) = View(r, [j \in 1..WorkSize(r) |-> mem[WorkWord(r, j)]])
                   /\ phase = "enter" /\ WorkSize(r) + Line.n \in Nat =>
                        Activation(r, TRUE) = View(r, [j \in 1..WorkSize(r) + Line.n |-> mem[WorkWord(r, j)]])
                   /\ phase = "return" => Activation(r, TRUE) = Machine!With(Activation(r, FALSE), a0)
  BY DEF WorkViews
<1>1. \A last : Activation(r, last) = View(r, WorkOf(r, last))
  BY DEF Activation, View, Framed, ArgWord, LocalWord
<1> DEFINE w(m) == [j \in 1..m |-> mem[WorkWord(r, j)]]
<1>2. \A m \in Nat : IsSeq(w(m), m)
  BY DEF IsSeq
<1>3. WorkOf(r, FALSE) = w(WorkSize(r) + 0) \o <<>>
  BY DEF WorkOf, WorkWord, WorkSize
<1>4. phase = "enter" => WorkOf(r, TRUE) = w(WorkSize(r) + Line.n) \o <<>>
  BY DEF WorkOf, WorkWord, WorkSize
<1>5. phase = "return" => WorkOf(r, TRUE) = w(WorkSize(r) + 0) \o <<a0>>
  BY DEF WorkOf, WorkWord, WorkSize
<1> HIDE DEF w
<1>6. \A m \in Nat : w(m) \o <<>> = w(m) /\ w(m) \o <<a0>> = Append(w(m), a0)
  <2> SUFFICES ASSUME NEW m \in Nat PROVE w(m) \o <<>> = w(m) /\ w(m) \o <<a0>> = Append(w(m), a0)
    OBVIOUS
  <2>1. IsSeq(w(m), m)
    BY <1>2
  <2> QED
    BY <2>1, SeqSame, SeqAppend
<1>7. WorkSize(r) + 0 = WorkSize(r)
  OBVIOUS
<1>8. Activation(r, FALSE) = View(r, w(WorkSize(r)))
  BY <1>1, <1>3, <1>6, <1>7
<1>9. phase = "enter" /\ WorkSize(r) + Line.n \in Nat => Activation(r, TRUE) = View(r, w(WorkSize(r) + Line.n))
  BY <1>1, <1>4, <1>6
<1>10. phase = "return" => Activation(r, TRUE) = View(r, Append(w(WorkSize(r)), a0))
  BY <1>1, <1>5, <1>6, <1>7
<1>11. Machine!With(View(r, w(WorkSize(r))), a0) = View(r, Append(w(WorkSize(r)), a0))
  <2>1. View(r, w(WorkSize(r))).work = w(WorkSize(r))
    BY ViewWork
  <2>2. Machine!With(View(r, w(WorkSize(r))), a0) = [View(r, w(WorkSize(r))) EXCEPT !.work = Append(w(WorkSize(r)), a0)]
    BY <2>1 DEF Machine!With
  <2> QED
    BY <2>2, ViewWork
<1> QED
  BY <1>8, <1>9, <1>10, <1>11 DEF w

LEMMA CallImplements ==
  ASSUME FInv, ~Draws, NEW n, NEW fr, Layout(n, fr), fr[n] = Current, NEW k \in program.calls, Call(k)
  PROVE  UNCHANGED <<Status, Frames, Data>>
<1> DEFINE c == CallLines[k]
<1>1. /\ StaysIn(n, fr) /\ Line' = c /\ c.n \in 0..WorkWords
      /\ Current' = Registers(fn, Slot(sp, c.n), lcl, arg, this, that, ra)
      /\ \A a \in Cells \cup Stack(sp) : mem'[a] = mem[a]
  BY CallKeeps
<1>2. phase = "run" /\ phase' = "enter" /\ ra' = CodeBase + k /\ UNCHANGED program
  BY DEF Call
<1>3. ra' # Halt /\ program \in Programs /\ sp \in Int /\ lcl \in Int /\ Depth(sp) \in Int /\ Depth(lcl) \in Int
      /\ WorkWords = Depth(sp) - Depth(lcl)
  <2>1. program \in Programs
    BY DEF FInv, Typed
  <2>2. k \in DOMAIN CallLines
    BY <2>1, FrameAssumption
  <2>3. CodeBase + k \in Calls
    BY <2>2 DEF Calls
  <2> QED
    BY <1>2, <2>3, CallLineTyped, RunFacts
<1>4. Started /\ Started'
  BY <1>2, <1>3 DEF Started, Halt
<1>5. MineChanges(n)
  BY <1>1, <1>2, <1>4, FramesChange
<1>6. PICK r : r = Registers(fn, Slot(sp, c.n), lcl, arg, this, that, ra)
  OBVIOUS
<1>7. /\ ArgsOf(r) = NArgs /\ r.fn = fn /\ r.this = this /\ r.that = that
      /\ \A j : ArgWord(r, j)' = ArgAt(j) /\ LocalWord(r, j)' = LocalAt(j) /\ WorkWord(r, j)' = WorkAt(j)
  <2>1. \A a, i : Slot(a, i)' = Slot(a, i) /\ FrameOffset(a)' = FrameOffset(a)
    BY <1>2, Unmoved
  <2> QED
    BY <1>6, <2>1 DEF Registers, ArgsOf, NArgs, Line, ArgWord, ArgAt, LocalWord, LocalAt, WorkWord, WorkAt
<1>8. WorkSize(r)' = WorkWords - c.n /\ WorkWords \in Nat /\ c.n \in Nat
  <2>1. WorkSize(r)' = FrameOffset(lcl - Slot(sp, c.n))
    BY <1>2, <1>6, Unmoved DEF WorkSize, Registers
  <2>2. c.n \in Nat /\ WorkWords \in Nat
    BY <1>1, <1>2, OwnSequences
  <2>3. Slot(sp, c.n) \in Int /\ Depth(Slot(sp, c.n)) = Depth(sp) - c.n
    BY <1>3, <2>2, Moves
  <2>4. FrameOffset(lcl - Slot(sp, c.n)) = Depth(Slot(sp, c.n)) - Depth(lcl)
    BY <1>3, <2>3, Depths
  <2> QED
    BY <1>3, <2>1, <2>2, <2>3, <2>4
<1>9. WorkSize(r)' \in Nat /\ WorkSize(r)' + Line'.n = WorkWords
  BY <1>1, <1>8
<1>10. Activation(r, TRUE)' = View(r, [j \in 1..WorkSize(r) + Line.n |-> mem[WorkWord(r, j)]])'
  <2>1. WorkViews'
    BY WorkViewsHold, PTL
  <2> QED
    BY <1>2, <1>8, <1>9, <2>1 DEF WorkViews
<1>11. Activation(r, TRUE)' =
         [fn |-> fn, this |-> this, that |-> that,
          args   |-> [j \in 1..NArgs |-> mem'[ArgAt(j)]],
          locals |-> [j \in 1..NLocals[fn] |-> mem'[LocalAt(j)]],
          work   |-> [j \in 1..WorkWords |-> mem'[WorkAt(j)]]]
  <2>0. PICK w : w = [j \in 1..WorkWords |-> mem'[WorkAt(j)]]
    OBVIOUS
  <2>1. Activation(r, TRUE)' = View(r, w)'
    <3>1. [j \in 1..WorkSize(r) + Line.n |-> mem[WorkWord(r, j)]]' = w
      BY <1>7, <1>9, <2>0
    <3>2. PICK u : u = [j \in 1..WorkSize(r) + Line.n |-> mem[WorkWord(r, j)]]'
      OBVIOUS
    <3>3. View(r, [j \in 1..WorkSize(r) + Line.n |-> mem[WorkWord(r, j)]])' = View(r, u)'
      BY <3>2
    <3> QED
      BY <1>10, <3>1, <3>2, <3>3
  <2>2. View(r, w)' = [fn |-> r.fn, this |-> r.this, that |-> r.that,
                       args   |-> [j \in 1..ArgsOf(r) |-> mem'[ArgWord(r, j)']],
                       locals |-> [j \in 1..NLocals[r.fn] |-> mem'[LocalWord(r, j)']], work |-> w]
    BY DEF View, Framed, ArgsOf, Halt
  <2>3. [j \in 1..ArgsOf(r) |-> mem'[ArgWord(r, j)']] = [j \in 1..NArgs |-> mem'[ArgAt(j)]]
        /\ [j \in 1..NLocals[r.fn] |-> mem'[LocalWord(r, j)']] = [j \in 1..NLocals[fn] |-> mem'[LocalAt(j)]]
    BY <1>7
  <2> QED
    BY <1>7, <2>0, <2>1, <2>2, <2>3
<1>12. /\ \A j \in 1..NArgs : mem'[ArgAt(j)] = mem[ArgAt(j)]
       /\ \A j \in 1..NLocals[fn] : mem'[LocalAt(j)] = mem[LocalAt(j)]
       /\ \A j \in 1..WorkWords : mem'[WorkAt(j)] = mem[WorkAt(j)]
  BY <1>1, <1>2, Apart
<1>13. Activation(r, TRUE)' = Own
  BY <1>11, <1>12 DEF Own
<1>14. Mine' = Mine
  <2>1. Mine = Own
    BY <1>2, RunningIs DEF Mine
  <2>2. Mine' = Activation(r, TRUE)'
    BY <1>1, <1>6 DEF Mine
  <2> QED
    BY <1>13, <2>1, <2>2
<1>15. Data' = Data
  BY <1>1, <1>2 DEF Data, Draws
<1> QED
  BY <1>5, <1>14, <1>15, SameFrames

LEMMA RestoreImplements ==
  ASSUME FInv, ~Draws, NEW n, NEW fr, Layout(n, fr), fr[n] = Current, Restore
  PROVE  UNCHANGED <<Status, Frames, Data>>
<1>1. PICK r : r = fr[n]
  OBVIOUS
<1>2. /\ UNCHANGED program /\ sp' \in Int
      /\ Depth(sp') = Depth(r.sp) + 1 /\ Depth(r.sp) \in Int /\ Depth(r.lcl) \in Int
      /\ Depth(sp') < Depth(sp) /\ Depth(sp) \in Int
      /\ Depth(Base(r)) <= Depth(r.lcl) /\ Depth(Base(r)) \in Int
      /\ Current' = [r EXCEPT !.sp = sp'] /\ mem' = Stored(Word(sp', a0), sp')
  BY <1>1, RestoreMoves
<1>3. phase = "return" /\ phase' = "run" /\ program \in Programs /\ Typed /\ n \in 1..n /\ StaysIn(n, fr)
  <2>1. phase = "return" /\ phase' = "run"
    BY DEF Restore
  <2>2. Typed /\ program \in Programs
    BY DEF FInv, Typed
  <2>3. n \in 1..n
    BY DEF Layout
  <2> QED
    BY <2>1, <2>2, <2>3, RestoreRuns
<1>4. Started /\ Started' /\ FInv'
  BY <1>3 DEF Started, FInv, StaysIn
<1>5. MineChanges(n)
  BY <1>2, <1>3, <1>4, FramesChange
<1>6. /\ r \in Register /\ NLocals[r.fn] \in Nat /\ ArgsOf(r) \in Nat /\ WorkSize(r) \in Nat
      /\ 1 <= Depth(Base(r)) /\ Depth(r.lcl) = Depth(Base(r)) + NLocals[r.fn]
      /\ Depth(r.sp) = Depth(r.lcl) + WorkSize(r)
      /\ \A j \in 1..ArgsOf(r) : /\ ArgWord(r, j) \in Int /\ Depth(ArgWord(r, j)) >= 0
                                 /\ Depth(ArgWord(r, j)) <= Depth(Base(r))
      /\ \A j \in 1..NLocals[r.fn] : LocalWord(r, j) \in Int /\ Depth(LocalWord(r, j)) = Depth(r.lcl) - (j - 1)
      /\ \A j \in Nat : WorkWord(r, j) \in Int /\ Depth(WorkWord(r, j)) = Depth(r.lcl) + j
  BY <1>1, <1>3, FrameWords
<1>7. PICK m \in Nat : m = WorkSize(r)
  BY <1>6
<1>8. /\ \A a \in Int : Depth(a) \in Int
      /\ \A a, b \in Int : Depth(a) = Depth(b) => a = b
  BY <1>3, Depths
<1>9. sp' \in StackCells /\ sp' \notin Cells
  <2>1. (sp \in StackCells)' /\ StackCells' = StackCells
    BY <1>2, <1>4, Unmoved DEF FInv, Typed
  <2> QED
    BY <1>3, <2>1, FrameAssumption DEF StackCells
<1>10. ASSUME NEW a \in Int, Depth(a) >= 0, Depth(a) <= Depth(sp')
       PROVE  mem'[a] = IF a = sp' THEN a0 ELSE mem[a]
  <2>1. Depth(a) \in 0..Depth(sp')
    BY <1>2, <1>8, <1>10
  <2>2. a \in StackCells
    BY <1>3, <1>9, <2>1, Depths
  <2>3. a \in Stack(sp')
    BY <1>2, <1>3, <1>10, <2>2, StackWords
  <2> QED
    BY <1>2, <2>3 DEF Stored, Word
<1>11. ASSUME NEW j \in 1..ArgsOf(r) PROVE mem'[ArgWord(r, j)] = mem[ArgWord(r, j)]
  <2>1. ArgWord(r, j) \in Int /\ Depth(ArgWord(r, j)) >= 0 /\ Depth(ArgWord(r, j)) <= Depth(Base(r))
        /\ Depth(ArgWord(r, j)) \in Int
    BY <1>6, <1>8
  <2>2. Depth(ArgWord(r, j)) < Depth(sp') /\ Depth(ArgWord(r, j)) <= Depth(sp')
    BY <1>2, <1>6, <2>1
  <2>3. ArgWord(r, j) # sp'
    BY <1>2, <2>1, <2>2
  <2> QED
    BY <1>10, <2>1, <2>2, <2>3
<1>12. ASSUME NEW j \in 1..NLocals[r.fn] PROVE mem'[LocalWord(r, j)] = mem[LocalWord(r, j)]
  <2>1. LocalWord(r, j) \in Int /\ Depth(LocalWord(r, j)) = Depth(r.lcl) - (j - 1)
    BY <1>6
  <2>2. Depth(LocalWord(r, j)) >= 0 /\ Depth(LocalWord(r, j)) < Depth(sp') /\ Depth(LocalWord(r, j)) <= Depth(sp')
    BY <1>2, <1>6, <2>1
  <2>3. LocalWord(r, j) # sp'
    BY <1>2, <2>1, <2>2
  <2> QED
    BY <1>10, <2>1, <2>2, <2>3
<1>13. ASSUME NEW j \in 1..m + 1
       PROVE  mem'[WorkWord(r, j)] = IF j = m + 1 THEN a0 ELSE mem[WorkWord(r, j)]
  <2>1. j \in Nat /\ j >= 1 /\ j <= m + 1
    OBVIOUS
  <2>2. WorkWord(r, j) \in Int /\ Depth(WorkWord(r, j)) = Depth(r.lcl) + j
    BY <1>6, <2>1
  <2>3. Depth(sp') = Depth(r.lcl) + (m + 1) /\ Depth(r.lcl) >= 1
    BY <1>2, <1>6, <1>7
  <2>4. Depth(WorkWord(r, j)) >= 0 /\ Depth(WorkWord(r, j)) <= Depth(sp')
    BY <1>2, <2>1, <2>2, <2>3
  <2>5. WorkWord(r, j) = sp' <=> j = m + 1
    <3>1. Depth(WorkWord(r, j)) = Depth(sp') <=> j = m + 1
      BY <1>2, <2>1, <2>2, <2>3
    <3>2. Depth(WorkWord(r, j)) = Depth(sp') => WorkWord(r, j) = sp'
      BY <1>2, <1>8, <2>2
    <3> QED
      BY <3>1, <3>2
  <2> QED
    BY <1>10, <2>2, <2>4, <2>5
<1>14. Mine = View(r, [j \in 1..m + 1 |-> IF j = m + 1 THEN a0 ELSE mem[WorkWord(r, j)]])
  <2>1. Mine = Machine!With(Activation(r, FALSE), a0)
    BY <1>1, <1>3, <1>6, WorkViewsHold DEF WorkViews, Mine
  <2> DEFINE w == [j \in 1..m |-> mem[WorkWord(r, j)]]
  <2>2. Activation(r, FALSE) = View(r, w)
    BY <1>7, WorkViewsHold DEF WorkViews
  <2>3. View(r, w).work = w
    BY DEF View, Framed
  <2>4. Machine!With(View(r, w), a0) = [View(r, w) EXCEPT !.work = Append(w, a0)]
    BY <2>3 DEF Machine!With
  <2>5. IsSeq(w, m)
    BY DEF IsSeq
  <2>6. \A j \in 1..m + 1 : j # m + 1 => w[j] = mem[WorkWord(r, j)]
    OBVIOUS
  <2> HIDE DEF w
  <2>7. Append(w, a0) = [j \in 1..m + 1 |-> IF j = m + 1 THEN a0 ELSE w[j]]
    BY <2>5, SeqAppend
  <2>8. Append(w, a0) = [j \in 1..m + 1 |-> IF j = m + 1 THEN a0 ELSE mem[WorkWord(r, j)]]
    BY <2>6, <2>7
  <2>9. [View(r, w) EXCEPT !.work = Append(w, a0)] = View(r, Append(w, a0))
    BY ViewWork
  <2> QED
    BY <2>1, <2>2, <2>4, <2>8, <2>9
<1>15. /\ fn' = r.fn /\ lcl' = r.lcl /\ arg' = r.arg /\ this' = r.this /\ that' = r.that /\ ra' = r.ra
  <2>1. Current' = Registers(fn', sp', lcl', arg', this', that', ra')
    BY <1>3 DEF Current, Registers
  <2> QED
    BY <1>2, <1>6, <2>1 DEF Registers, Register
<1>16. NArgs' = ArgsOf(r) /\ WorkWords' = m + 1
  <2>1. NArgs' = ArgsOf(r)
    BY <1>15 DEF NArgs, ArgsOf, Line, Halt
  <2>2. WorkWords' = FrameOffset(r.lcl - sp')
    BY <1>2, <1>15 DEF WorkWords, FrameOffset
  <2>3. FrameOffset(r.lcl - sp') = Depth(sp') - Depth(r.lcl)
    BY <1>2, <1>3, <1>6, Depths DEF Register
  <2> QED
    BY <1>2, <1>6, <1>7, <2>1, <2>2, <2>3
<1>17. \A j : ArgAt(j)' = ArgWord(r, j) /\ LocalAt(j)' = LocalWord(r, j) /\ WorkAt(j)' = WorkWord(r, j)
  BY <1>2, <1>15 DEF ArgAt, ArgWord, LocalAt, LocalWord, WorkAt, WorkWord, Slot, FrameOffset
<1>18. Mine' = [fn |-> r.fn, this |-> r.this, that |-> r.that,
                args   |-> [j \in 1..ArgsOf(r) |-> mem'[ArgWord(r, j)]],
                locals |-> [j \in 1..NLocals[r.fn] |-> mem'[LocalWord(r, j)]],
                work   |-> [j \in 1..m + 1 |-> mem'[WorkWord(r, j)]]]
  <2>1. (FInv /\ phase = "run" => Activation(Current, TRUE) = Own)'
    BY RunningIs, PTL
  <2>2. Mine' = Own'
    BY <1>3, <1>4, <2>1 DEF Mine
  <2> QED
    BY <1>15, <1>16, <1>17, <2>2 DEF Own
<1>19. Mine' = Mine
  BY <1>11, <1>12, <1>13, <1>14, <1>18 DEF View, Framed
<1>20. Data' = Data
  BY <1>2, <1>9 DEF Data, Draws, Stored, Word
<1> QED
  BY <1>5, <1>19, <1>20, SameFrames

LEMMA NoFrames == ~Started => Frames = <<>>
<1> SUFFICES ASSUME ~Started PROVE Frames = <<>>
  OBVIOUS
<1>1. Chain = <<>>
  BY DEF Chain
<1>2. Activations(<<>>) = <<>> \o [k \in {} |-> Activation(<<>>[k], k = Len(<<>>))]
  BY DEF Activations
<1>3. [k \in {} |-> Activation(<<>>[k], k = Len(<<>>))] = <<>>
  OBVIOUS
<1>4. <<>> \o <<>> = <<>>
  OBVIOUS
<1> QED
  BY <1>1, <1>2, <1>3, <1>4 DEF Frames

LEMMA NowIs ==
  ASSUME FInv, Started, ~Draws, NEW n, NEW fr, Layout(n, fr), fr[n] = Current
  PROVE  /\ Status = "running" /\ n \in Nat \ {0} /\ IsSeq(Frames, n) /\ Len(Frames) = n /\ Frames[n] = Mine
         /\ \A k \in 1..n - 1 : Frames[k] = Activation(fr[k], FALSE)
         /\ Below(n) = [k \in 1..n - 1 |-> Frames[k]] /\ IsSeq(Below(n), n - 1)
<1>1. Status = "running" /\ Frames = Acts(n, fr) /\ n \in Nat \ {0} /\ n \in 1..n
  BY RunningFrames DEF ActsFound, Layout
<1>2. IsSeq(Frames, n)
  BY <1>1 DEF IsSeq, Acts
<1>3. Len(Frames) = n
  BY <1>2, SeqSame
<1>4. Frames[n] = Mine
  <2>1. (n = n) = TRUE
    OBVIOUS
  <2> QED
    BY <1>1, <2>1 DEF Acts, Mine
<1>5. ASSUME NEW k \in 1..n - 1 PROVE Frames[k] = Activation(fr[k], FALSE)
  <2>1. k \in 1..n /\ (k = n) = FALSE
    BY <1>1
  <2>2. Frames[k] = Activation(fr[k], k = n)
    BY <1>1, <2>1 DEF Acts
  <2> QED
    BY <2>1, <2>2
<1>6. n - 1 \in 0..n /\ n - 1 \in Nat
  BY <1>1
<1>7. Below(n) = [k \in 1..n - 1 |-> Frames[k]]
  BY <1>2, <1>6, SeqFront DEF Below
<1>8. IsSeq(Below(n), n - 1)
  BY <1>6, <1>7 DEF IsSeq
<1> QED
  BY <1>1, <1>2, <1>3, <1>4, <1>5, <1>7, <1>8

LEMMA StepIs ==
  ASSUME NEW n, Status = "running", Len(Frames) = n, NEW f, Frames[n] = f,
         Machine!VMCommand(Below(n), f, Frames')
  PROVE  Machine!VMNext
<1>1. \E now \in {Frames}, after \in {Frames'} :
        Machine!VMCommand(SubSeq(now, 1, Len(now) - 1), now[Len(now)], after)
  BY DEF Below
<1> QED
  BY <1>1 DEF Machine!VMNext

LEMMA ReturnImplements ==
  ASSUME FInv, ~Draws, NEW n, NEW fr, Layout(n, fr), fr[n] = Current, Return
  PROVE  Machine!VMNext
<1>1. phase = "run" /\ WorkWords >= 1 /\ a0' = mem[sp] /\ UNCHANGED program /\ ra' = ra
      /\ phase' = IF ra = Halt THEN "halted" ELSE "return"
  BY DEF Return
<1>2. /\ sp' = Base(fr[n]) /\ sp' \in StackCells /\ program \in Programs
      /\ \A a \in Owned(n, fr) : mem'[a] = mem[a]
      /\ \A a \in Cells : mem'[a] = mem[a]
  BY ReturnMoves DEF FInv, Typed
<1>3. /\ FInv' /\ (n = 1 <=> ra = Halt)
      /\ n > 1 => \A gr : gr = [k \in 1..n - 1 |-> fr[k]] => Layout(n - 1, gr)' /\ gr[n - 1] = Current'
  BY ReturnLeaves
<1>4. Started /\ (~Draws)'
  BY <1>1 DEF Started, Draws
<1>5. /\ Status = "running" /\ n \in Nat \ {0} /\ IsSeq(Frames, n) /\ Len(Frames) = n /\ Frames[n] = Mine
      /\ \A k \in 1..n - 1 : Frames[k] = Activation(fr[k], FALSE)
      /\ Below(n) = [k \in 1..n - 1 |-> Frames[k]] /\ IsSeq(Below(n), n - 1)
  BY <1>4, NowIs
<1>6. Mine = Own /\ Own.work # <<>> /\ Machine!Top(Own) = a0'
  BY <1>1, OwnSequences, RunningIs DEF Mine
<1>7. Data' = Data
  BY <1>1, <1>2 DEF Data, Draws
<1>8. Len(Below(n)) = n - 1 /\ DOMAIN Below(n) = 1..n - 1
  BY <1>5, SeqSame
<1>9. IF Below(n) = <<>>
      THEN Status' = "halted" /\ Frames' = <<>>
      ELSE /\ Frames' = [Below(n) EXCEPT ![Len(Below(n))] = Machine!With(@, Machine!Top(Own))]
           /\ UNCHANGED Status
  <2>1. CASE n = 1
    <3>1. Below(n) = <<>>
      BY <1>5, <2>1
    <3>2. phase' = "halted" /\ ~ Started'
      BY <1>1, <1>3, <2>1 DEF Started
    <3>3. Frames' = <<>>
      <4>1. (~Started => Frames = <<>>)'
        BY NoFrames, PTL
      <4> QED
        BY <3>2, <4>1
    <3>4. Status' = "halted"
      BY <1>4, <3>2 DEF Status
    <3> QED
      BY <3>1, <3>3, <3>4
  <2>2. CASE n > 1
    <3>1. Below(n) # <<>>
      <4>1. 1 \in 1..n - 1
        BY <1>5, <2>2
      <4> QED
        BY <1>8, <4>1
    <3>2. PICK gr : gr = [k \in 1..n - 1 |-> fr[k]]
      OBVIOUS
    <3>3. Layout(n - 1, gr)' /\ gr[n - 1] = Current' /\ n - 1 \in 1..n - 1 /\ n - 1 \in 1..n
      BY <1>3, <1>5, <2>2, <3>2
    <3>4. Started'
      BY <1>1, <1>3, <2>2 DEF Started, Halt
    <3>5. Status' = "running" /\ Frames' = Acts(n - 1, gr)'
      <4>1. ActsFound'
        BY RunningFrames, PTL
      <4> QED
        BY <1>3, <1>4, <3>3, <3>4, <4>1 DEF ActsFound
    <3>6. \A k \in 1..n - 1 : Activation(fr[k], FALSE)' = Frames[k]
      <4>1. Depth(Base(fr[n])) <= Depth(sp')
        <5>1. Depth(Base(fr[n])) \in Int
          BY <1>1, RunFacts
        <5> QED
          BY <1>2, <5>1
      <4>2. \A k \in 1..n - 1 : Activation(fr[k], FALSE)' = Activation(fr[k], FALSE)
        BY <1>1, <1>2, <4>1, BelowKept
      <4> QED
        BY <1>5, <4>2
    <3>7. PICK r : r = fr[n - 1]
      OBVIOUS
    <3>8. gr[n - 1] = r
      BY <3>2, <3>3, <3>7
    <3>9. Activation(r, TRUE)' = Machine!With(Frames[n - 1], a0')
      <4>1. WorkSize(r) \in Nat
        BY <1>2, <3>3, <3>7, FrameWords
      <4>2. WorkSize(r)' = WorkSize(r)
        BY <1>1, Unmoved DEF WorkSize
      <4>3. WorkViews'
        BY WorkViewsHold, PTL
      <4>4. phase' = "return"
        BY <1>1, <1>3, <2>2
      <4>5. Activation(r, TRUE)' = Machine!With(Activation(r, FALSE), a0)'
        BY <4>1, <4>2, <4>3, <4>4 DEF WorkViews
      <4>6. Activation(r, FALSE)' = Frames[n - 1]
        BY <3>3, <3>6, <3>7
      <4> QED
        BY <4>5, <4>6 DEF Machine!With
    <3>10. ASSUME NEW k \in 1..n - 1
           PROVE  Activation(gr[k], k = n - 1)' = IF k = n - 1 THEN Machine!With(Frames[k], a0') ELSE Frames[k]
      <4>1. CASE k = n - 1
        <5>1. (k = n - 1) = TRUE /\ gr[k] = r
          BY <3>8, <4>1
        <5> QED
          BY <3>9, <4>1, <5>1
      <4>2. CASE k # n - 1
        <5>1. (k = n - 1) = FALSE /\ gr[k] = fr[k]
          BY <3>2, <4>2
        <5> QED
          BY <3>6, <4>2, <5>1
      <4> QED
        BY <4>1, <4>2
    <3>11. Frames' = [k \in 1..n - 1 |-> IF k = n - 1 THEN Machine!With(Frames[k], a0') ELSE Frames[k]]
      BY <3>5, <3>10 DEF Acts
    <3>12. Frames' = [Below(n) EXCEPT ![n - 1] = Machine!With(@, a0')]
      BY <1>5, <3>3, <3>11
    <3> QED
      BY <1>5, <1>6, <1>8, <3>1, <3>5, <3>12
  <2> QED
    BY <1>5, <2>1, <2>2
<1>10. Machine!VMReturn(Below(n), Own, Frames')
  BY <1>6, <1>7, <1>9 DEF Machine!VMReturn
<1>11. Machine!VMCommand(Below(n), Own, Frames')
  BY <1>10 DEF Machine!VMCommand
<1> QED
  BY <1>5, <1>6, <1>11, StepIs

(* What the function that starts finds: its arguments as the caller pushed  *)
(* them, and locals of some kind.                                          *)
LEMMA FunctionOwn ==
  ASSUME FInv, Function
  PROVE  /\ phase' = "run" /\ UNCHANGED <<program, fn, arg, this, that, ra>> /\ NArgs' = NArgs
         /\ Own' = [fn |-> fn, this |-> this, that |-> that,
                    args   |-> [j \in 1..NArgs |-> mem'[ArgAt(j)]],
                    locals |-> [j \in 1..NLocals[fn] |-> mem'[LocalAt(j)']],
                    work   |-> <<>>]
         /\ \A j \in 1..NLocals[fn] : mem'[LocalAt(j)'] \in Words
<1>1. /\ sp' \in StackCells /\ sp' \in Int /\ Depth(sp') = Depth(sp) + NLocals[fn] /\ Depth(sp) \in Int
      /\ NLocals[fn] \in Nat /\ Typed' /\ sp' \in Words
  BY FunctionMoves
<1>2. phase' = "run" /\ UNCHANGED <<program, fn, arg, this, that, ra>> /\ lcl' = sp'
  BY DEF Function
<1>3. NArgs' = NArgs
  BY <1>2 DEF NArgs, Line, Halt
<1>4. \A j : ArgAt(j)' = ArgAt(j)
  BY <1>2 DEF ArgAt, Slot, FrameOffset
<1>5. WorkWords' = 0
  <2>1. WorkWords' = IF program'.up THEN -(lcl' - sp') ELSE lcl' - sp'
    BY DEF WorkWords, FrameOffset
  <2>2. lcl' - sp' = 0
    <3>1. PICK x \in Int : x = sp'
      BY <1>1
    <3>2. x - x = 0
      OBVIOUS
    <3>3. lcl' = sp'
      BY <1>2
    <3>4. lcl' - sp' = x - x
      BY <3>1, <3>3
    <3> QED
      BY <3>2, <3>4
  <2>3. -(lcl' - sp') = 0
    BY <2>2
  <2> QED
    BY <2>1, <2>2, <2>3
<1>6. Own' = [fn |-> fn, this |-> this, that |-> that,
              args   |-> [j \in 1..NArgs |-> mem'[ArgAt(j)]],
              locals |-> [j \in 1..NLocals[fn] |-> mem'[LocalAt(j)']],
              work   |-> [j \in 1..0 |-> mem'[WorkAt(j)']]]
  BY <1>2, <1>3, <1>4, <1>5 DEF Own
<1>7. [j \in 1..0 |-> mem'[WorkAt(j)']] = <<>>
  OBVIOUS
<1>8. program \in Programs /\ sp \in StackCells
  BY DEF FInv, Typed
<1>9. Depth(sp) >= 0
  BY <1>8, Depths
<1>10. ASSUME NEW j \in 1..NLocals[fn] PROVE mem'[LocalAt(j)'] \in Words
  <2>1. LocalAt(j)' = Slot(sp', j - 1)
    BY <1>2 DEF LocalAt, Slot, FrameOffset
  <2>2. PICK i \in Int : i = j - 1
    BY <1>1
  <2>3. Slot(sp', i) \in Int /\ Depth(Slot(sp', i)) = Depth(sp') - i
    BY <1>1, <1>8, Depths
  <2>4. Depth(Slot(sp', i)) \in 0..Depth(sp') /\ Depth(Slot(sp', i)) <= Depth(sp')
    BY <1>1, <1>9, <2>2, <2>3
  <2>5. Slot(sp', i) \in StackCells
    BY <1>1, <1>8, <2>3, <2>4, Depths
  <2>6. Slot(sp', i) \in Stack(sp')
    BY <1>1, <1>8, <2>4, <2>5, StackWords
  <2>7. mem' \in [Cells \cup Stack(sp') -> Words]
    <3>1. Stack(sp)' = Stack(sp')
      BY <1>2 DEF Stack, StackCells, FrameOffset
    <3> QED
      BY <1>1, <3>1 DEF Typed
  <2> QED
    BY <2>1, <2>2, <2>6, <2>7
<1> QED
  BY <1>2, <1>3, <1>6, <1>7, <1>10

LEMMA StartImplements ==
  ASSUME FInv, ~Draws, Function, ra = Halt
  PROVE  Machine!VMNext
<1>1. FInv' /\ \A r : r = Current' => Layout(1, <<r>>)'
  BY FunctionStarts
<1>2. /\ phase' = "run" /\ UNCHANGED <<program, fn, arg, this, that, ra>> /\ NArgs' = NArgs
      /\ Own' = [fn |-> fn, this |-> this, that |-> that,
                 args   |-> [j \in 1..NArgs |-> mem'[ArgAt(j)]],
                 locals |-> [j \in 1..NLocals[fn] |-> mem'[LocalAt(j)']],
                 work   |-> <<>>]
      /\ \A j \in 1..NLocals[fn] : mem'[LocalAt(j)'] \in Words
  BY FunctionOwn
<1>3. /\ phase = "enter" /\ fn = Entry /\ Depth(sp) = 1 /\ arg = sp /\ program \in Programs /\ sp \in StackCells
      /\ {this, that} \subseteq Words /\ mem \in [Cells \cup Stack(sp) -> Words] /\ NArgs = 2
  BY DEF FInv, Typed, Function, NArgs
<1>4. Status = "ready" /\ (~Draws)' /\ Started'
  BY <1>2, <1>3 DEF Status, Started, Draws
<1>5. PICK r : r = Current'
  OBVIOUS
<1>6. Layout(1, <<r>>)' /\ <<r>>[1] = Current'
  BY <1>1, <1>5
<1>7. Status' = "running" /\ Frames' = Acts(1, <<r>>)'
  <2>1. ActsFound'
    BY RunningFrames, PTL
  <2> QED
    BY <1>1, <1>4, <1>6, <2>1 DEF ActsFound
<1>8. Activation(r, TRUE)' = Own'
  <2>1. (FInv /\ phase = "run" => Activation(Current, TRUE) = Own)'
    BY RunningIs, PTL
  <2> QED
    BY <1>1, <1>2, <1>5, <2>1
<1>9. Frames' = <<Own'>>
  <2>1. (1 = 1) = TRUE /\ \A k \in 1..1 : k = 1
    OBVIOUS
  <2>2. Frames' = [k \in 1..1 |-> Activation(<<r>>[k], k = 1)']
    BY <1>7 DEF Acts
  <2>3. \A k \in 1..1 : Activation(<<r>>[k], k = 1)' = Own'
    <3> SUFFICES ASSUME NEW k \in 1..1 PROVE Activation(<<r>>[k], k = 1)' = Own'
      OBVIOUS
    <3>1. <<r>>[k] = r /\ (k = 1) = TRUE
      BY <2>1
    <3> QED
      BY <1>8, <3>1
  <2>4. <<Own'>> = [k \in 1..1 |-> Own']
    OBVIOUS
  <2> QED
    BY <2>2, <2>3, <2>4
<1>10. [j \in 1..NArgs |-> mem'[ArgAt(j)]] \in [1..2 -> Words]
  <2> SUFFICES ASSUME NEW j \in 1..2 PROVE mem'[ArgAt(j)] \in Words
    BY <1>3
  <2>1. PICK i \in Int : i = j - 1
    OBVIOUS
  <2>2. sp \in Int
    BY <1>3, Depths
  <2>3. Slot(sp, i) \in Int /\ Depth(Slot(sp, i)) = Depth(sp) - i
    BY <1>3, <2>2, Depths
  <2>4. Depth(Slot(sp, i)) >= 0 /\ Depth(Slot(sp, i)) <= Depth(sp)
    BY <1>3, <2>1, <2>3
  <2>5. Slot(sp, i) \in Stack(sp)
    BY <2>3, <2>4, InStack DEF FInv
  <2>6. mem'[Slot(sp, i)] = mem[Slot(sp, i)]
    BY <2>5, FunctionMoves
  <2> QED
    BY <1>3, <2>1, <2>5, <2>6 DEF ArgAt
<1>11. Data' = Data
  <2>1. \A c \in Cells : mem'[c] = mem[c]
    BY FunctionMoves
  <2> QED
    BY <1>2, <2>1 DEF Data, Draws
<1>12. PICK f : f = Own'
  OBVIOUS
<1>13. /\ f = Machine!Activation(Entry, f.args, f.this, f.that, f.locals)
       /\ f.args \in [1..2 -> Words] /\ {f.this, f.that} \subseteq Words
       /\ Machine!AnyLocals(Entry, f.locals)
  <2>1. /\ f.args = [j \in 1..NArgs |-> mem'[ArgAt(j)]] /\ f.this = this /\ f.that = that
        /\ f.locals = [j \in 1..NLocals[fn] |-> mem'[LocalAt(j)']]
    BY <1>2, <1>12
  <2>2. f = [fn |-> Entry, args |-> f.args, locals |-> f.locals, work |-> <<>>, this |-> f.this, that |-> f.that]
    BY <1>2, <1>3, <1>12, <2>1
  <2> QED
    BY <1>2, <1>3, <1>10, <2>1, <2>2 DEF Machine!Activation, Machine!AnyLocals
<1>14. f \in {Frames'[k] : k \in DOMAIN Frames'} /\ Frames' = <<f>>
  <2>1. Frames' = <<f>> /\ 1 \in DOMAIN <<f>> /\ <<f>>[1] = f
    BY <1>9, <1>12
  <2> QED
    BY <2>1
<1>15. Machine!VMStart
  BY <1>4, <1>7, <1>11, <1>13, <1>14 DEF Machine!VMStart
<1> QED
  BY <1>15 DEF Machine!VMNext

LEMMA FunctionImplements ==
  ASSUME FInv, ~Draws, Function, ra # Halt, NEW n, NEW fr, Layout(n, fr), fr[n] = Current
  PROVE  Machine!VMNext
<1>1. PICK r : r = Current'
  OBVIOUS
<1>2. PICK gr : gr = [k \in 1..n + 1 |-> IF k = n + 1 THEN r ELSE fr[k]]
  OBVIOUS
<1>3. /\ FInv' /\ Layout(n + 1, gr) /\ Layout(n + 1, gr)'
      /\ \A a \in Owned(n + 1, gr) : mem'[a] = mem[a]
      /\ Depth(Base(gr[n + 1])) <= Depth(sp')
  BY <1>1, <1>2, FunctionCalled
<1>4. /\ sp' \in StackCells /\ Depth(sp) \in Int /\ \A a \in Cells \cup Stack(sp) : mem'[a] = mem[a]
  BY FunctionMoves
<1>5. /\ phase' = "run" /\ UNCHANGED <<program, fn, arg, this, that, ra>> /\ NArgs' = NArgs
      /\ Own' = [fn |-> fn, this |-> this, that |-> that,
                 args   |-> [j \in 1..NArgs |-> mem'[ArgAt(j)]],
                 locals |-> [j \in 1..NLocals[fn] |-> mem'[LocalAt(j)']],
                 work   |-> <<>>]
      /\ \A j \in 1..NLocals[fn] : mem'[LocalAt(j)'] \in Words
  BY FunctionOwn
<1>6. /\ phase = "enter" /\ Started /\ program \in Programs /\ Typed /\ Entered /\ ra \in Calls
      /\ sp \in Int /\ sp \in StackCells
  <2>1. phase = "enter" /\ Typed /\ program \in Programs /\ ra \in Calls /\ Entered /\ sp \in StackCells
    BY DEF FInv, Typed, Function
  <2> QED
    BY <2>1, Depths DEF Started
<1>7. Started' /\ (~Draws)'
  BY <1>5 DEF Started, Draws
<1>8. /\ Status = "running" /\ n \in Nat \ {0} /\ IsSeq(Frames, n) /\ Len(Frames) = n /\ Frames[n] = Mine
      /\ \A k \in 1..n - 1 : Frames[k] = Activation(fr[k], FALSE)
      /\ Below(n) = [k \in 1..n - 1 |-> Frames[k]] /\ IsSeq(Below(n), n - 1)
  BY <1>6, NowIs
<1>9. /\ n + 1 \in Nat /\ n \in 1..n /\ gr[n + 1] = r /\ \A k \in 1..n : gr[k] = fr[k]
  BY <1>2, <1>8
<1>10. Status' = "running" /\ Frames' = Acts(n + 1, gr)'
  <2>1. ActsFound'
    BY RunningFrames, PTL
  <2>2. gr[n + 1] = Current'
    BY <1>1, <1>9
  <2> QED
    BY <1>3, <1>7, <2>1, <2>2 DEF ActsFound
<1>11. Activation(r, TRUE)' = Own'
  <2>1. (FInv /\ phase = "run" => Activation(Current, TRUE) = Own)'
    BY RunningIs, PTL
  <2> QED
    BY <1>1, <1>3, <1>5, <2>1
<1>12. \A k \in 1..n : Activation(fr[k], FALSE)' = Activation(fr[k], FALSE)
  <2>1. \A k \in 1..(n + 1) - 1 : Activation(gr[k], FALSE)' = Activation(gr[k], FALSE)
    BY <1>3, <1>4, <1>5, <1>6, BelowKept
  <2>2. (n + 1) - 1 = n
    BY <1>8
  <2> QED
    BY <1>9, <2>1, <2>2
<1>13. PICK q : q = fr[n]
  OBVIOUS
<1>14. Frames' = [k \in 1..n + 1 |-> IF k = n + 1 THEN Own' ELSE Activation(fr[k], FALSE)]
  <2>1. ASSUME NEW k \in 1..n + 1
        PROVE  Activation(gr[k], k = n + 1)' = IF k = n + 1 THEN Own' ELSE Activation(fr[k], FALSE)
    <3>1. CASE k = n + 1
      <4>1. (k = n + 1) = TRUE /\ gr[k] = r
        BY <1>9, <3>1
      <4> QED
        BY <1>11, <3>1, <4>1
    <3>2. CASE k # n + 1
      <4>1. (k = n + 1) = FALSE /\ k \in 1..n /\ gr[k] = fr[k]
        BY <1>8, <1>9, <3>2
      <4> QED
        BY <1>12, <3>2, <4>1
    <3> QED
      BY <3>1, <3>2
  <2> QED
    BY <1>10, <2>1 DEF Acts
<1> DEFINE c == Line
<1>15. /\ WorkSize(q) \in Nat /\ Depth(q.lcl) \in Int /\ Depth(q.sp) = Depth(q.lcl) + WorkSize(q)
       /\ Depth(q.sp) = Depth(sp) - SlotCount - c.n /\ c \in [in : Functions, to : Functions, n : Nat]
       /\ \A j \in Nat : WorkWord(q, j) \in Int /\ Depth(WorkWord(q, j)) = Depth(q.lcl) + j
  <2>1. /\ WorkSize(q) \in Nat /\ Depth(q.lcl) \in Int /\ Depth(q.sp) = Depth(q.lcl) + WorkSize(q)
        /\ \A j \in Nat : WorkWord(q, j) \in Int /\ Depth(WorkWord(q, j)) = Depth(q.lcl) + j
    BY <1>6, <1>9, <1>13, FrameWords
  <2>2. Depth(fr[n].sp) = Depth(sp) - SlotCount - Line.n /\ Line \in [in : Functions, to : Functions, n : Nat]
    BY <1>6, CurrentDepth
  <2> QED
    BY <1>13, <2>1, <2>2
<1>16. PICK m \in Nat : m = WorkSize(q)
  BY <1>15
<1>17. PICK d \in Nat : d = c.n
  BY <1>15
<1>18. Mine = View(q, [j \in 1..m + d |-> mem[WorkWord(q, j)]])
       /\ Activation(q, FALSE) = View(q, [j \in 1..m |-> mem[WorkWord(q, j)]])
  <2>1. WorkSize(q) + Line.n \in Nat
    BY <1>16, <1>17
  <2> QED
    BY <1>6, <1>13, <1>15, <1>16, <1>17, <2>1, WorkViewsHold DEF WorkViews, Mine
<1> DEFINE w == [j \in 1..m + d |-> mem[WorkWord(q, j)]]
<1>19. /\ Mine.work = w /\ Len(w) = m + d /\ Machine!Drop(Mine, d) = Activation(q, FALSE)
       /\ \A j \in 1..m + d : w[j] = mem[WorkWord(q, j)]
  <2>1. IsSeq(w, m + d) /\ \A j \in 1..m + d : w[j] = mem[WorkWord(q, j)]
    BY DEF IsSeq
  <2>2. Mine = View(q, w)
    BY <1>18
  <2>3. \A j \in 1..m : j \in 1..m + d
    OBVIOUS
  <2>4. [j \in 1..m |-> w[j]] = [j \in 1..m |-> mem[WorkWord(q, j)]]
    BY <2>1, <2>3
  <2> HIDE DEF w
  <2>5. Mine.work = w
    BY <2>2, ViewWork
  <2>6. Len(w) = m + d
    BY <2>1, SeqSame
  <2>7. SubSeq(w, 1, m) = [j \in 1..m |-> mem[WorkWord(q, j)]]
    <3>1. m \in 0..(m + d)
      OBVIOUS
    <3> QED
      BY <2>1, <2>4, <3>1, SeqFront
  <2>8. (m + d) - d = m
    OBVIOUS
  <2>9. Machine!Drop(Mine, d) = [Mine EXCEPT !.work = SubSeq(Mine.work, 1, Len(Mine.work) - d)]
    BY DEF Machine!Drop
  <2>10. Machine!Drop(Mine, d) = [View(q, w) EXCEPT !.work = [j \in 1..m |-> mem[WorkWord(q, j)]]]
    BY <2>2, <2>5, <2>6, <2>7, <2>8, <2>9
  <2>11. Machine!Drop(Mine, d) = Activation(q, FALSE)
    <3>1. [View(q, w) EXCEPT !.work = [j \in 1..m |-> mem[WorkWord(q, j)]]]
            = View(q, [j \in 1..m |-> mem[WorkWord(q, j)]])
      BY ViewWork
    <3> QED
      BY <1>18, <2>10, <3>1
  <2> QED
    BY <2>1, <2>5, <2>6, <2>11
<1> HIDE DEF w
<1>20. q.fn = c.in /\ fn = c.to /\ this = q.this /\ that = q.that /\ NArgs = d
       /\ (d > 0 => arg = Slot(sp, SlotCount))
  <2>1. q = Caller(sp, ra)
    BY <1>6, <1>13 DEF Current
  <2>2. q.fn = c.in
    BY <2>1 DEF Caller, Registers, Line
  <2>3. fn = c.to /\ this = q.this /\ that = q.that
    BY <1>6, <1>13 DEF Entered
  <2>4. NArgs = d /\ (d > 0 => arg = Slot(sp, SlotCount))
    BY <1>6, <1>17 DEF Entered, NArgs
  <2> QED
    BY <2>2, <2>3, <2>4
<1> HIDE DEF c
<1>21. ASSUME NEW j \in 1..d PROVE mem'[ArgAt(j)] = mem[WorkWord(q, m + d + 1 - j)] /\ m + d + 1 - j \in 1..m + d
  <2>1. PICK i \in Nat : i = m + d + 1 - j
    OBVIOUS
  <2>2. i \in 1..m + d
    BY <2>1
  <2>3. WorkWord(q, i) \in Int /\ Depth(WorkWord(q, i)) = Depth(q.lcl) + i
    BY <1>15
  <2>4. PICK e \in Int : e = j - 1
    OBVIOUS
  <2>5. ArgAt(j) = Slot(Slot(sp, SlotCount), e)
    BY <1>20, <2>4 DEF ArgAt
  <2>6. /\ Slot(sp, SlotCount) \in Int /\ Depth(Slot(sp, SlotCount)) = Depth(sp) - 5
    BY <1>6, Depths DEF SlotCount
  <2>7. ArgAt(j) \in Int /\ Depth(ArgAt(j)) = Depth(sp) - 5 - e
    BY <1>6, <2>5, <2>6, Depths
  <2>8. Depth(ArgAt(j)) = Depth(WorkWord(q, i))
    BY <1>4, <1>15, <1>16, <1>17, <2>1, <2>3, <2>4, <2>7 DEF SlotCount
  <2>9. ArgAt(j) = WorkWord(q, i)
    BY <1>6, <2>3, <2>7, <2>8, Depths
  <2>10. ArgAt(j) \in Stack(sp)
    <3>1. Depth(q.lcl) >= 0
      <4>1. /\ 1 <= Depth(Base(q)) /\ Depth(q.lcl) = Depth(Base(q)) + NLocals[q.fn] /\ NLocals[q.fn] \in Nat
            /\ Depth(Base(q)) \in Int
        BY <1>6, <1>9, <1>13, FrameWords
      <4> QED
        BY <4>1
    <3>2. Depth(ArgAt(j)) >= 0 /\ Depth(ArgAt(j)) <= Depth(sp)
      BY <1>4, <1>15, <2>1, <2>3, <2>4, <2>7, <2>8, <3>1
    <3> QED
      BY <1>6, <2>7, <3>2, InStack
  <2> QED
    BY <1>4, <2>1, <2>2, <2>9, <2>10
<1>22. PICK g : g = Own'
  OBVIOUS
<1>23. /\ g = Machine!Activation(c.to, Machine!TopArgs(Mine, d), Mine.this, Mine.that, g.locals)
       /\ Machine!AnyLocals(c.to, g.locals)
  <2>1. g.locals = [j \in 1..NLocals[fn] |-> mem'[LocalAt(j)']]
    BY <1>5, <1>22
  <2>2. Machine!AnyLocals(c.to, g.locals)
    BY <1>5, <1>20, <2>1 DEF Machine!AnyLocals
  <2>3. Machine!TopArgs(Mine, d) = [j \in 1..NArgs |-> mem'[ArgAt(j)]]
    BY <1>19, <1>20, <1>21 DEF Machine!TopArgs
  <2>4. Mine.this = this /\ Mine.that = that
    BY <1>18, <1>20 DEF View, Framed
  <2>5. g = [fn |-> c.to, args |-> Machine!TopArgs(Mine, d), locals |-> g.locals, work |-> <<>>,
             this |-> Mine.this, that |-> Mine.that]
    BY <1>5, <1>20, <1>22, <2>1, <2>3, <2>4
  <2> QED
    BY <2>2, <2>5 DEF Machine!Activation
<1>24. Frames' = Below(n) \o <<Machine!Drop(Mine, d), g>>
  <2>1. \A k \in 1..n - 1 : Below(n)[k] = Activation(fr[k], FALSE)
    BY <1>8
  <2>2. PICK h : h = Machine!Drop(Mine, d)
    OBVIOUS
  <2>3. h = Activation(fr[n], FALSE)
    BY <1>13, <1>19, <2>2
  <2>4. Below(n) \o <<h, g>> = [k \in 1..(n - 1) + 2 |-> IF k <= n - 1 THEN Below(n)[k] ELSE IF k = n THEN h ELSE g]
    BY <1>8, SeqPair
  <2>5. (n - 1) + 2 = n + 1
    BY <1>8
  <2>6. ASSUME NEW k \in 1..n + 1
        PROVE  (IF k = n + 1 THEN Own' ELSE Activation(fr[k], FALSE))
                 = IF k <= n - 1 THEN Below(n)[k] ELSE IF k = n THEN h ELSE g
    <3>1. n \in Nat \ {0} /\ k \in Int
      BY <1>8
    <3>2. CASE k = n + 1
      <4>1. ~ k <= n - 1 /\ k # n
        BY <3>1, <3>2
      <4> QED
        BY <1>22, <3>2, <4>1
    <3>3. CASE k = n
      <4>1. ~ k <= n - 1 /\ k # n + 1
        BY <3>1, <3>3
      <4> QED
        BY <2>3, <3>3, <4>1
    <3>4. CASE k \in 1..n - 1
      <4>1. k <= n - 1 /\ k # n + 1
        BY <3>1, <3>4
      <4>2. Below(n)[k] = Activation(fr[k], FALSE)
        BY <2>1, <3>4
      <4> QED
        BY <4>1, <4>2
    <3>5. k = n + 1 \/ k = n \/ k \in 1..n - 1
      BY <3>1
    <3> QED
      BY <3>2, <3>3, <3>4, <3>5
  <2> QED
    BY <1>14, <2>2, <2>4, <2>5, <2>6
<1>25. g \in {Frames'[k] : k \in DOMAIN Frames'}
  <2>1. n + 1 \in 1..n + 1
    BY <1>9
  <2> QED
    BY <1>14, <1>22, <2>1
<1>26. Data' = Data
  BY <1>4, <1>5 DEF Data, Draws
<1>27. Status' = Status
  BY <1>8, <1>10
<1>28. Machine!VMCall(Below(n), Mine, Frames', c)
  <2>1. c.in = Mine.fn /\ Len(Mine.work) >= c.n
    BY <1>15, <1>17, <1>18, <1>19, <1>20 DEF View, Framed
  <2> QED
    BY <1>17, <1>23, <1>24, <1>25, <1>26, <1>27, <2>1 DEF Machine!VMCall
<1>29. Machine!VMCommand(Below(n), Mine, Frames')
  <2>1. ra - CodeBase \in DOMAIN CallLines /\ c = CallLines[ra - CodeBase]
    BY <1>6, CallLineTyped DEF c, Line
  <2> QED
    BY <1>28, <2>1 DEF Machine!VMCommand
<1> QED
  BY <1>8, <1>29, StepIs

-----------------------------------------------------------------------------
(* Every step of the emitted code is a step of the machine, or none *)

LEMMA DrawsNothing == Draws => Status = "ready" /\ Frames = <<>> /\ Data = [c \in Cells |-> 0]
BY DEF Status, Frames, Data

LEMMA SameView == UNCHANGED vars => UNCHANGED <<Status, Frames, Data>>
<1> SUFFICES ASSUME UNCHANGED vars PROVE UNCHANGED <<Status, Frames, Data>>
  OBVIOUS
<1>1. UNCHANGED <<program, phase, fn, sp, lcl, arg, this, that, ra, a0, mem>>
  BY DEF vars
<1>2. Draws' = Draws /\ Started' = Started
  BY <1>1 DEF Draws, Started, Halt
<1>3. Status' = Status
  BY <1>1, <1>2 DEF Status
<1>4. Data' = Data
  BY <1>1, <1>2 DEF Data
<1>5. Frames' = Frames
  BY <1>1 DEF Frames, Draws, Activations, Chain, Started, Walk, Current, CallerOf, Caller, Registers,
              Activation, ArgsOf, WorkOf, Line, Slot, FrameOffset, Halt, Calls
<1> QED
  BY <1>3, <1>4, <1>5

LEMMA VMStep == FInv /\ [Next]_vars => [Machine!VMNext]_<<Status, Frames, Data>>
<1> SUFFICES ASSUME FInv, [Next]_vars
             PROVE  Machine!VMNext \/ UNCHANGED <<Status, Frames, Data>>
  OBVIOUS
<1>1. CASE UNCHANGED vars
  BY <1>1, SameView
<1>2. CASE Next /\ Draws
  <2>1. program' = program
    BY <1>2 DEF Next, Function, Unary, IfGoto, Return, Restore, Peek, Poke, DrawPixel, Push, Pop, Binary,
                Call, Halted, vars
  <2>2. Draws'
    BY <1>2, <2>1 DEF Draws
  <2>3. (Status = "ready" /\ Frames = <<>> /\ Data = [c \in Cells |-> 0])'
    BY <2>2, DrawsNothing, PTL
  <2> QED
    BY <1>2, <2>3, DrawsNothing
<1>3. CASE Next /\ ~Draws
  <2>1. ASSUME Started
        PROVE \E n, fr : Layout(n, fr) /\ fr[n] = Current
    BY <2>1 DEF FInv
  <2>2. ASSUME phase = "run" \/ phase = "return" PROVE Started
    BY <2>2 DEF FInv, Started
  <2>3. CASE Function
    <3>1. CASE ra = Halt
      BY <1>3, <2>3, <3>1, StartImplements
    <3>2. CASE ra # Halt
      <4>1. Started
        BY <2>3, <3>2 DEF Started, Function
      <4> QED
        BY <1>3, <2>1, <2>3, <3>2, <4>1, FunctionImplements
    <3> QED
      BY <3>1, <3>2
  <2>4. CASE Unary
    BY <1>3, <2>1, <2>2, <2>4, UnaryImplements DEF Unary
  <2>5. CASE IfGoto
    BY <1>3, <2>1, <2>2, <2>5, IfGotoImplements DEF IfGoto
  <2>6. CASE Return
    BY <1>3, <2>1, <2>2, <2>6, ReturnImplements DEF Return
  <2>7. CASE Restore
    BY <1>3, <2>1, <2>2, <2>7, RestoreImplements DEF Restore
  <2>8. CASE Peek
    BY <1>3, <2>1, <2>2, <2>8, PeekImplements DEF Peek
  <2>9. CASE Poke
    BY <1>3, <2>1, <2>2, <2>9, PokeImplements DEF Poke
  <2>10. ASSUME NEW color \in {0, 1}, DrawPixel(color) PROVE FALSE
    BY <1>3, <2>10 DEF DrawPixel, Draws
  <2>11. ASSUME NEW seg \in program.segments, NEW i \in program.indices \cup program.constants, Push(seg, i)
         PROVE  Machine!VMNext
    BY <1>3, <2>1, <2>2, <2>11, PushImplements DEF Push
  <2>12. ASSUME NEW seg \in program.segments, NEW i \in program.indices \cup program.constants, Pop(seg, i)
         PROVE  Machine!VMNext
    BY <1>3, <2>1, <2>2, <2>12, PopImplements DEF Pop
  <2>13. ASSUME NEW op \in program.operations \cap Operations, Binary(op)
         PROVE  Machine!VMNext
    BY <1>3, <2>1, <2>2, <2>13, BinaryImplements DEF Binary
  <2>14. ASSUME NEW k \in program.calls, Call(k)
         PROVE  UNCHANGED <<Status, Frames, Data>>
    BY <1>3, <2>1, <2>2, <2>14, CallImplements DEF Call
  <2>15. CASE Halted
    BY <2>15, SameView DEF Halted
  <2> QED
    BY <1>3, <2>3, <2>4, <2>5, <2>6, <2>7, <2>8, <2>9, <2>10, <2>11, <2>12, <2>13, <2>14, <2>15 DEF Next
<1> QED
  BY <1>1, <1>2, <1>3

LEMMA VMStarts == Init => Machine!VMInit
<1> SUFFICES ASSUME Init PROVE Machine!VMInit
  OBVIOUS
<1>1. phase = "enter" /\ ra = Halt /\ mem = [a \in Cells \cup Stack(sp) |-> 0]
  BY DEF Init
<1>2. ~Started
  BY <1>1 DEF Started
<1>3. Status = "ready"
  BY <1>1, <1>2 DEF Status
<1>4. Frames = <<>>
  BY <1>2, NoFrames
<1>5. Machine!Cells = Cells
  BY DEF Machine!Cells, Cells, VM!Cells
<1>6. Data \in [Cells -> {0}]
  BY <1>1 DEF Data
<1> QED
  BY <1>3, <1>4, <1>5, <1>6 DEF Machine!VMInit

(* The emitted code does what the VM commands mean, for every program over  *)
(* every choice of functions, call lines, cells and words, and on a stack   *)
(* that grows either way (codegen_call, codegen_function, codegen_return    *)
(* and the code of the commands between them): no call, return or store of  *)
(* one function disturbs what another one has.                             *)
THEOREM CodeImplementsVM == Spec => ImplementsVM
<1>1. Init => Machine!VMInit
  BY VMStarts
<1>2. FInv /\ [Next]_vars => [Machine!VMNext]_<<Status, Frames, Data>>
  BY VMStep
<1>3. FInv /\ [Next]_vars => [Machine!VMNext]_(Machine!vmVars)
  BY <1>2 DEF Machine!vmVars
<1> QED
  BY <1>1, <1>3, FramesAreChained, PTL DEF Spec, ImplementsVM, Machine!VMSpec
=============================================================================
