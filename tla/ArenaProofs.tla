---------------------------- MODULE ArenaProofs ----------------------------
(***************************************************************************)
(* For every block size, alignment and sequence of requests: the regions    *)
(* the arena hands out lie inside their blocks, have no byte in common and  *)
(* are aligned, and every step of it is one of the abstract allocator's.    *)
(***************************************************************************)
EXTENDS Arena, SequenceTheorems, FiniteSetTheorems, TLAPS

(* A block that cannot be filled any further may have a size that is no     *)
(* multiple of the alignment: the cap of Place set it.                     *)
Multiple(n) == \E k \in Nat : n = Alignment * k

SizesAligned ==
  \A k \in DOMAIN blocks :
    blocks[k].size = blocks[k].capacity \/ Multiple(blocks[k].size)

(* What each step of a call relies on. *)
PhaseOK ==
  /\ pc \in {"idle", "grow", "place"} => blocks # <<>>
  /\ pc = "destroy" => blocks # <<>>
  /\ pc \in {"grow", "place"} => bytes > 0 /\ bytes \in Requests
  /\ pc = "place" => Current.size + bytes <= Current.capacity

OffsetsAligned == \A r \in regions : Multiple(r.offset)

IInv ==
  /\ TypeOK
  /\ PhaseOK
  /\ SizesAligned
  /\ InBounds
  /\ Disjoint
  /\ OffsetsAligned

-----------------------------------------------------------------------------
(* What ALIGN_UP gives: a multiple, and no less than it was asked. *)
LEMMA AlignUpMultiple ==
  ASSUME NEW n \in Nat
  PROVE  /\ AlignUp(n) \in Nat
         /\ AlignUp(n) >= n
         /\ Multiple(AlignUp(n))
<1>1. Alignment \in Nat \ {0}
  BY ArenaAssumption
<1> DEFINE q == (n + Alignment - 1) \div Alignment
<1>2. q \in Nat
  BY <1>1, SMT
<1>3. Alignment * q \in Nat /\ Alignment * q >= n
  BY <1>1, SMT
<1>4. QED
  BY <1>2, <1>3 DEF AlignUp, Multiple

LEMMA MultipleSum ==
  ASSUME NEW m \in Nat, NEW n \in Nat, Multiple(m), Multiple(n)
  PROVE  Multiple(m + n)
<1>1. PICK j \in Nat : m = Alignment * j
  BY DEF Multiple
<1>2. PICK k \in Nat : n = Alignment * k
  BY DEF Multiple
<1>3. m + n = Alignment * (j + k)
  BY <1>1, <1>2, ArenaAssumption, SMT
<1>4. QED
  BY <1>3 DEF Multiple
-----------------------------------------------------------------------------
LEMMA InitInv == Init => IInv
<1> SUFFICES ASSUME Init PROVE IInv
  OBVIOUS
<1>1. Multiple(0)
  BY ArenaAssumption, 0 = Alignment * 0 DEF Multiple
<1>2. TypeOK
  BY ArenaAssumption DEF Init, TypeOK, Block
<1>3. PhaseOK /\ InBounds /\ Disjoint /\ OffsetsAligned
  BY DEF Init, PhaseOK, InBounds, Disjoint, OffsetsAligned
<1>4. SizesAligned
  BY <1>1 DEF Init, SizesAligned
<1>5. QED
  BY <1>2, <1>3, <1>4 DEF IInv

(* The steps that leave blocks and regions alone. *)
LEMMA ControlStep ==
  ASSUME IInv, UNCHANGED <<blocks, regions>>,
         pc' \in {"idle", "grow", "place", "destroy"} \cup Over,
         bytes' \in Nat, nextCapacity' \in Nat, PhaseOK'
  PROVE  IInv'
<1>1. TypeOK'
  BY DEF IInv, TypeOK
<1>2. SizesAligned' /\ InBounds' /\ Disjoint' /\ OffsetsAligned'
  BY DEF IInv, SizesAligned, InBounds, Disjoint, OffsetsAligned
<1>3. QED
  BY <1>1, <1>2 DEF IInv

LEMMA CurrentType ==
  ASSUME IInv, blocks # <<>>
  PROVE  /\ Len(blocks) \in DOMAIN blocks
         /\ Len(blocks) \in Nat \ {0}
         /\ Current \in Block
         /\ Current.size \in Nat /\ Current.capacity \in Nat
         /\ Current.size <= Current.capacity
<1>1. blocks \in Seq(Block)
  BY DEF IInv, TypeOK
<1>2. Len(blocks) \in Nat \ {0} /\ DOMAIN blocks = 1..Len(blocks)
  BY <1>1
<1>3. Len(blocks) \in DOMAIN blocks
  BY <1>2
<1>4. Current \in Block
  BY <1>1, <1>3 DEF Current
<1>5. Current.size <= Current.capacity
  BY <1>3 DEF IInv, TypeOK, Current
<1>6. QED
  BY <1>2, <1>3, <1>4, <1>5 DEF Block

LEMMA AllocStep ==
  ASSUME IInv, NEW n \in Requests, Alloc(n)
  PROVE  IInv'
<1> USE DEF IInv
<1>1. n \in Nat
  BY ArenaAssumption
<1>2. blocks # <<>>
  BY DEF PhaseOK, Alloc
<1>3. Current' = Current
  BY DEF Alloc, Current
<1>4. PhaseOK'
  BY <1>1, <1>2, <1>3 DEF PhaseOK, Alloc, Fits
<1>5. nextCapacity' \in Nat
  BY <1>2, CurrentType DEF Alloc, TypeOK
<1>6. pc' \in {"idle", "grow", "place", "destroy"} \cup Over
  BY DEF Alloc, Over
<1>7. QED
  BY <1>1, <1>4, <1>5, <1>6, ControlStep DEF Alloc

LEMMA DoubleStep ==
  ASSUME IInv, Double
  PROVE  IInv'
<1>1. PhaseOK'
  BY DEF IInv, PhaseOK, Double, Current
<1>2. QED
  BY <1>1, ControlStep DEF Double, IInv, TypeOK

LEMMA NewBlockStep ==
  ASSUME IInv, NewBlock
  PROVE  IInv'
<1> USE DEF IInv
<1>1. CASE UNCHANGED blocks /\ pc' = "exited"
  <2>1. PhaseOK'
    BY <1>1 DEF PhaseOK
  <2>2. QED
    BY <1>1, <2>1, ControlStep DEF NewBlock, TypeOK, Over
<1>2. CASE pc' = "place" /\ blocks' = Append(blocks, [size |-> 0, capacity |-> nextCapacity])
  <2> DEFINE new == [size |-> 0, capacity |-> nextCapacity]
  <2>1. new \in Block /\ new.size = 0 /\ new.capacity = nextCapacity
    BY DEF TypeOK, Block
  <2>2. /\ blocks' \in Seq(Block)
        /\ Len(blocks') = Len(blocks) + 1
        /\ blocks'[Len(blocks')] = new
        /\ \A k \in DOMAIN blocks : k \in DOMAIN blocks' /\ blocks'[k] = blocks[k]
        /\ \A k \in DOMAIN blocks' : k \in DOMAIN blocks \/ k = Len(blocks')
    BY <1>2, <2>1 DEF TypeOK
  <2>3. /\ nextCapacity \in Nat /\ bytes \in Nat /\ nextCapacity >= bytes /\ bytes > 0
        /\ bytes \in Requests
    BY DEF TypeOK, NewBlock, PhaseOK
  <2>4. TypeOK'
    <3>1. \A k \in DOMAIN blocks' : blocks'[k].size <= blocks'[k].capacity
      BY <2>1, <2>2, <2>3 DEF TypeOK
    <3>2. QED
      BY <1>2, <2>2, <3>1 DEF TypeOK, NewBlock
  <2>5. PhaseOK'
    <3>1. Current' = new
      BY <2>2 DEF Current
    <3>2. blocks' # <<>>
      BY <1>2, <2>1 DEF TypeOK
    <3>3. Current'.size + bytes' <= Current'.capacity
      BY <2>1, <2>3, <3>1 DEF NewBlock
    <3>4. QED
      BY <1>2, <2>3, <3>2, <3>3 DEF PhaseOK, NewBlock
  <2>6. SizesAligned'
    <3>1. Multiple(0)
      BY ArenaAssumption, 0 = Alignment * 0 DEF Multiple
    <3>2. QED
      BY <2>1, <2>2, <3>1 DEF SizesAligned
  <2>7. InBounds' /\ Disjoint' /\ OffsetsAligned'
    BY <2>2 DEF InBounds, Disjoint, OffsetsAligned, NewBlock
  <2>8. QED
    BY <2>4, <2>5, <2>6, <2>7
<1>3. QED
  BY <1>1, <1>2 DEF NewBlock

LEMMA PlaceStep ==
  ASSUME IInv, Place
  PROVE  IInv'
<1> USE DEF IInv
<1> DEFINE top == Len(blocks)
           new == [block |-> top, offset |-> Current.size, bytes |-> bytes]
           filled == Lesser(Current.size + AlignUp(bytes), Current.capacity)
<1>1. blocks # <<>> /\ bytes \in Nat /\ bytes > 0
      /\ Current.size + bytes <= Current.capacity
  BY DEF Place, PhaseOK, TypeOK
<1>2. /\ top \in DOMAIN blocks /\ top \in Nat \ {0}
      /\ Current \in Block /\ Current.size \in Nat /\ Current.capacity \in Nat
  BY <1>1, CurrentType
<1>3. AlignUp(bytes) \in Nat /\ AlignUp(bytes) >= bytes /\ Multiple(AlignUp(bytes))
  BY <1>1, AlignUpMultiple
<1>4. /\ filled \in Nat
      /\ Current.size + bytes <= filled
      /\ filled <= Current.capacity
  BY <1>1, <1>2, <1>3 DEF Lesser
<1>5. /\ blocks' \in Seq(Block) /\ DOMAIN blocks' = DOMAIN blocks
      /\ blocks'[top].size = filled /\ blocks'[top].capacity = Current.capacity
      /\ \A k \in DOMAIN blocks : k # top => blocks'[k] = blocks[k]
  <2>1. blocks' = [blocks EXCEPT ![top] = [size |-> filled, capacity |-> Current.capacity]]
    <3>1. [Current EXCEPT !.size = filled] = [size |-> filled, capacity |-> Current.capacity]
      BY <1>2 DEF Block
    <3>2. blocks' = [blocks EXCEPT ![top] = [Current EXCEPT !.size = filled]]
      BY DEF Place, Current
    <3>3. QED
      BY <3>1, <3>2
  <2>2. [size |-> filled, capacity |-> Current.capacity] \in Block
    BY <1>2, <1>4 DEF Block
  <2>3. QED
    BY <1>2, <2>1, <2>2 DEF TypeOK
<1>6. new \in Region
  BY <1>1, <1>2 DEF Region
<1>7. TypeOK'
  <2>1. \A k \in DOMAIN blocks' : blocks'[k].size <= blocks'[k].capacity
    BY <1>4, <1>5 DEF TypeOK
  <2>2. QED
    BY <1>5, <1>6, <2>1 DEF TypeOK, Place
<1>8. PhaseOK'
  BY <1>1, <1>5 DEF Place, PhaseOK, TypeOK
<1>9. Multiple(Current.size)
  BY <1>1, <1>2 DEF SizesAligned, Current
<1>10. SizesAligned'
  <2>1. Multiple(Current.size + AlignUp(bytes))
    BY <1>2, <1>3, <1>9, MultipleSum
  <2>2. filled = Current.capacity \/ Multiple(filled)
    BY <2>1 DEF Lesser
  <2>3. QED
    BY <1>5, <2>2 DEF SizesAligned
<1>11. InBounds'
  <2>1. \A r \in regions : r.block \in DOMAIN blocks' /\ r.offset + r.bytes <= blocks'[r.block].size
    <3> SUFFICES ASSUME NEW r \in regions
                 PROVE  r.block \in DOMAIN blocks' /\ r.offset + r.bytes <= blocks'[r.block].size
      OBVIOUS
    <3>1. r.block \in DOMAIN blocks /\ r.offset + r.bytes <= blocks[r.block].size
      BY DEF InBounds
    <3>2. r.offset \in Nat /\ r.bytes \in Nat
      BY DEF TypeOK, Region
    <3>3. CASE r.block = top
      BY <1>1, <1>2, <1>4, <1>5, <3>1, <3>2, <3>3 DEF Current
    <3>4. CASE r.block # top
      BY <1>5, <3>1, <3>4
    <3>5. QED
      BY <3>3, <3>4
  <2>2. new.block \in DOMAIN blocks' /\ new.offset + new.bytes <= blocks'[new.block].size
    BY <1>2, <1>4, <1>5
  <2>3. QED
    BY <2>1, <2>2 DEF InBounds, Place
<1>12. Disjoint'
  <2>1. \A r \in regions : r.block # new.block \/ r.offset + r.bytes <= new.offset
    BY DEF InBounds, Current
  <2>2. regions' = regions \cup {new}
    BY DEF Place
  <2>3. QED
    BY <2>1, <2>2 DEF Disjoint
<1>13. OffsetsAligned'
  BY <1>9 DEF OffsetsAligned, Place
<1>14. QED
  BY <1>7, <1>8, <1>10, <1>11, <1>12, <1>13

LEMMA DestroyStep ==
  ASSUME IInv, Destroy
  PROVE  IInv'
<1>1. PhaseOK'
  BY DEF IInv, PhaseOK, Destroy
<1>2. QED
  BY <1>1, ControlStep DEF Destroy, IInv, TypeOK

LEMMA FreeBlockStep ==
  ASSUME IInv, FreeBlock
  PROVE  IInv'
<1> USE DEF IInv
<1>1. blocks # <<>>
  BY DEF PhaseOK, FreeBlock
<1>2. /\ blocks' \in Seq(Block)
      /\ Len(blocks') = Len(blocks) - 1
      /\ DOMAIN blocks' = 1..(Len(blocks) - 1)
      /\ \A k \in DOMAIN blocks' : k \in DOMAIN blocks /\ blocks'[k] = blocks[k]
  <2>1. blocks \in Seq(Block) /\ Len(blocks) \in Nat \ {0}
    BY <1>1 DEF TypeOK
  <2> DEFINE n == Len(blocks) - 1
  <2>2. n \in Nat /\ \A k \in 1..n : blocks[k] \in Block
    BY <2>1
  <2>3. blocks' = SubSeq(blocks, 1, n)
    BY DEF FreeBlock
  <2>4. /\ blocks' \in Seq(Block)
        /\ Len(blocks') = IF 1 <= n THEN n - 1 + 1 ELSE 0
        /\ \A k \in 1..(n - 1 + 1) : blocks'[k] = blocks[1 + k - 1]
    <3> HIDE DEF n
    <3>1. QED
      BY <2>2, <2>3, SubSeqProperties
  <2>5. Len(blocks') = n
    <3> HIDE DEF n
    <3>1. QED
      BY <2>2, <2>4
  <2>6. DOMAIN blocks' = 1..n
    BY <2>4, <2>5
  <2>7. \A k \in 1..n : k \in DOMAIN blocks
    BY <2>1
  <2>8. \A k \in 1..n : blocks'[k] = blocks[k]
    BY <2>2, <2>4
  <2>9. QED
    BY <2>4, <2>5, <2>6, <2>7, <2>8
<1>3. TypeOK'
  BY <1>2 DEF TypeOK, FreeBlock, Over
<1>4. PhaseOK'
  <2>1. pc' = "destroy" => Len(blocks') # 0
    BY <1>1, <1>2 DEF FreeBlock, TypeOK
  <2>2. pc' \in {"destroy", "destroyed"}
    BY DEF FreeBlock
  <2>3. blocks' = <<>> => Len(blocks') = 0
    OBVIOUS
  <2>4. QED
    BY <2>1, <2>2, <2>3 DEF PhaseOK
<1>5. SizesAligned' /\ Disjoint' /\ OffsetsAligned'
  BY <1>2 DEF SizesAligned, Disjoint, OffsetsAligned, FreeBlock
<1>6. InBounds'
  <2> SUFFICES ASSUME NEW r \in regions'
               PROVE  r.block \in DOMAIN blocks' /\ r.offset + r.bytes <= blocks'[r.block].size
    BY DEF InBounds
  <2>1. r \in regions /\ r.block < Len(blocks)
    BY DEF FreeBlock
  <2>2. r.block \in DOMAIN blocks /\ r.offset + r.bytes <= blocks[r.block].size
    BY <2>1 DEF InBounds
  <2>3. r.block \in DOMAIN blocks'
    BY <1>2, <2>1, <2>2 DEF TypeOK
  <2>4. QED
    BY <1>2, <2>2, <2>3
<1>7. QED
  BY <1>3, <1>4, <1>5, <1>6

LEMMA StepInv == IInv /\ [Next]_vars => IInv'
<1> SUFFICES ASSUME IInv, [Next]_vars PROVE IInv'
  OBVIOUS
<1>1. ASSUME NEW n \in Requests, Alloc(n) PROVE IInv'
  BY <1>1, AllocStep
<1>2. CASE Double
  BY <1>2, DoubleStep
<1>3. CASE NewBlock
  BY <1>3, NewBlockStep
<1>4. CASE Place
  BY <1>4, PlaceStep
<1>5. CASE Destroy
  BY <1>5, DestroyStep
<1>6. CASE FreeBlock
  BY <1>6, FreeBlockStep
<1>7. CASE UNCHANGED vars
  BY <1>7 DEF vars, IInv, TypeOK, PhaseOK, SizesAligned, InBounds, Disjoint,
              OffsetsAligned, Current
<1>8. QED
  BY <1>1, <1>2, <1>3, <1>4, <1>5, <1>6, <1>7 DEF Next, Finished

(* The inductive invariant holds in every reachable state of the arena. *)
THEOREM ArenaInductive == Spec => []IInv
  BY InitInv, StepInv, PTL DEF Spec

(* No two regions that arena_allocator_alloc returned have a byte in common *)
(* while their blocks live.                                                *)
THEOREM ArenaDisjoint == Spec => []Disjoint
<1>1. IInv => Disjoint
  BY DEF IInv
<1>2. QED
  BY <1>1, ArenaInductive, PTL

(* A region never runs past what its block counts as used, nor that past    *)
(* the block's capacity.                                                   *)
THEOREM ArenaInBounds == Spec => [](TypeOK /\ InBounds)
<1>1. IInv => TypeOK /\ InBounds
  BY DEF IInv
<1>2. QED
  BY <1>1, ArenaInductive, PTL

LEMMA MultipleRemainder ==
  ASSUME NEW n \in Nat, Multiple(n)
  PROVE  n % Alignment = 0
<1>1. PICK k \in Nat : n = Alignment * k
  BY DEF Multiple
<1>2. QED
  BY <1>1, ArenaAssumption, SMT

(* Every region starts at a multiple of ALIGNMENT, whatever the block size. *)
THEOREM ArenaAligned == Spec => []Aligned
<1>1. IInv => Aligned
  BY MultipleRemainder DEF IInv, TypeOK, Region, OffsetsAligned, Aligned
<1>2. QED
  BY <1>1, ArenaInductive, PTL

-----------------------------------------------------------------------------
(* The arena implements the allocator of Regions. *)

LEMMA BytesCounted ==
  ASSUME NEW r \in Region
  PROVE  /\ Cardinality(Bytes(r)) = r.bytes
         /\ r.bytes > 0 => Bytes(r) # {}
<1> DEFINE range == r.offset..(r.offset + r.bytes - 1)
           f == [b \in range |-> <<r.block, b>>]
<1>1. r.offset \in Nat /\ r.bytes \in Nat
  BY DEF Region
<1>2. IsFiniteSet(range) /\ Cardinality(range) = r.bytes
  <2> DEFINE last == r.offset + r.bytes - 1
  <2>1. r.offset \in Int /\ last \in Int
    BY <1>1
  <2>2. /\ IsFiniteSet(r.offset..last)
        /\ Cardinality(r.offset..last) = IF r.offset > last THEN 0 ELSE last - r.offset + 1
    <3> HIDE DEF last
    <3>1. QED
      BY <2>1, FS_Interval
  <2>3. (IF r.offset > last THEN 0 ELSE last - r.offset + 1) = r.bytes
    BY <1>1
  <2>4. QED
    BY <2>2, <2>3
<1>3. f \in Bijection(range, Bytes(r))
  BY DEF Bytes, Bijection, Injection, Surjection, IsInjective
<1>4. ExistsBijection(range, Bytes(r))
  BY <1>3 DEF ExistsBijection
<1>5. Cardinality(Bytes(r)) = r.bytes
  <2> HIDE DEF range
  <2>1. QED
    BY <1>2, <1>4, FS_Bijection
<1>6. r.bytes > 0 => r.offset \in range
  BY <1>1
<1>7. QED
  BY <1>5, <1>6 DEF Bytes

(* Placing a region is the abstract allocation of its bytes. *)
LEMMA PlaceAllocates ==
  ASSUME IInv, IInv', Place
  PROVE  Promise!Allocate
<1> DEFINE new == [block |-> Len(blocks), offset |-> Current.size, bytes |-> bytes]
           cells == Bytes(new)
           before == {Bytes(r) : r \in regions}
<1>1. regions' = regions \cup {new}
  BY DEF Place
<1>2. new \in Region /\ bytes \in Requests /\ bytes > 0
  BY <1>1 DEF IInv, TypeOK, PhaseOK, Place
<1>3. Cardinality(cells) \in Requests /\ cells # {}
  BY <1>2, BytesCounted
<1>4. \A r \in regions : Bytes(r) \cap cells = {}
  <2> SUFFICES ASSUME NEW r \in regions, NEW c \in Bytes(r) \cap cells
               PROVE  FALSE
    OBVIOUS
  <2>1. r \in Region /\ r.block \in DOMAIN blocks /\ r.offset + r.bytes <= blocks[r.block].size
    BY DEF IInv, TypeOK, InBounds
  <2>2. PICK b \in r.offset..(r.offset + r.bytes - 1) : c = <<r.block, b>>
    BY DEF Bytes
  <2>3. PICK d \in new.offset..(new.offset + new.bytes - 1) : c = <<new.block, d>>
    BY DEF Bytes
  <2>4. r.block = new.block /\ b = d
    BY <2>2, <2>3
  <2>5. b < blocks[r.block].size /\ b \in Int
    <3>1. r.offset \in Nat /\ r.bytes \in Nat
      BY <2>1 DEF Region
    <3>2. blocks[r.block].size \in Nat
      <4>1. blocks[r.block] \in Block
        BY <2>1 DEF IInv, TypeOK
      <4>2. QED
        BY <4>1 DEF Block
    <3>3. QED
      BY <2>1, <2>2, <3>1, <3>2
  <2>6. new.offset <= d /\ new.offset = blocks[new.block].size
    BY <1>2, <2>3 DEF Current, Region
  <2>7. blocks[new.block].size \in Nat /\ d \in Int
    BY <1>2, <2>3, <2>6 DEF Region
  <2>8. QED
    BY <2>4, <2>5, <2>6, <2>7
<1>5. {Bytes(r) : r \in regions'} = before \cup {cells}
  BY <1>1
<1>6. cells \cap UNION before = {}
  BY <1>4
<1>7. cells \notin before
  BY <1>3, <1>6
<1>8. cells \in {Bytes(r) : r \in regions'} \ before
  BY <1>5, <1>7
<1>9. Promise!Cardinality(cells) \in Requests
  BY <1>3 DEF Cardinality, Promise!Cardinality
<1>10. QED
  BY <1>5, <1>6, <1>8, <1>9 DEF Promise!Allocate, Promise!Cells

(* For every sequence of requests the arena is an allocator as Regions      *)
(* describes one: placing a region allocates it, freeing a block releases   *)
(* the regions in it, and nothing else touches them.                       *)
THEOREM ArenaImplementsRegions == Spec => IsAllocator
<1>1. Init => Promise!RegionsInit
  BY DEF Init, Promise!RegionsInit
<1>2. IInv /\ IInv' /\ [Next]_vars
        => [Promise!Allocate \/ Promise!Release]_({Bytes(r) : r \in regions})
  <2> SUFFICES ASSUME IInv, IInv', [Next]_vars
               PROVE  \/ Promise!Allocate \/ Promise!Release
                      \/ UNCHANGED {Bytes(r) : r \in regions}
    OBVIOUS
  <2>1. CASE Place
    BY <2>1, PlaceAllocates
  <2>2. CASE FreeBlock
    <3>1. regions' \subseteq regions
      BY <2>2 DEF FreeBlock
    <3>2. {Bytes(r) : r \in regions'} \subseteq {Bytes(r) : r \in regions}
      BY <3>1
    <3>3. QED
      BY <3>2 DEF Promise!Release
  <2>3. CASE UNCHANGED regions
    BY <2>3
  <2>4. QED
    BY <2>1, <2>2, <2>3
       DEF Next, Alloc, Double, NewBlock, Destroy, Finished, vars
<1>3. QED
  BY <1>1, <1>2, ArenaInductive, PTL DEF Spec, IsAllocator, Promise!RegionsSpec
=============================================================================
