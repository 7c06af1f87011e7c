------------------------------- MODULE Arena -------------------------------
(***************************************************************************)
(* The arena allocator every AST node, token, scope and path of the         *)
(* compiler lives in (jackc/core/allocators/allocators.c): a list of blocks *)
(* of growing capacity, of which only the newest is still filled.           *)
(*                                                                         *)
(* A call is a few steps, one per decision of the code, so that the loop    *)
(* that doubles a capacity is a loop here too.  The regions handed out are  *)
(* remembered; the code keeps no such list.                                 *)
(***************************************************************************)
EXTENDS Integers, Sequences, FiniteSets

CONSTANTS StartSize,      (* ARENA_START_BLOCK_SIZE                           *)
          Alignment,      (* ALIGNMENT                                        *)
          Requests,       (* byte counts the compiler asks for                *)
          MaxBlocks,      (* bound: blocks of the arena                       *)
          MaxRegions      (* bound: regions handed out                        *)

ASSUME ArenaAssumption ==
  /\ StartSize \in Nat \ {0}
  /\ Alignment \in Nat \ {0}
  /\ Requests \subseteq Nat
  /\ MaxBlocks \in Nat /\ MaxRegions \in Nat

VARIABLES pc,             (* what the allocator does next                     *)
          blocks,         (* the blocks, allocator->current_block last        *)
          bytes,          (* the argument of the call under way               *)
          nextCapacity,   (* nextBlockCapacity                                *)
          regions         (* history: the regions handed out                  *)

vars == <<pc, blocks, bytes, nextCapacity, regions>>

Block == [size : Nat, capacity : Nat]

Region == [block : Nat, offset : Nat, bytes : Nat]

Current == blocks[Len(blocks)]

(* Mutant of AlignUp: sizes are rounded down. *)
AlignDown(n) == Alignment * (n \div Alignment)

(* ALIGN_UP for a power of two, and for any other multiple too. *)
AlignUp(n) == Alignment * ((n + Alignment - 1) \div Alignment)

Lesser(m, n) == IF m <= n THEN m ELSE n

(* Mutant of Fits: what the block holds already is not looked at. *)
FitsEmptyBlock(n) == n <= Current.capacity

Fits(n) == Current.size + n <= Current.capacity

-----------------------------------------------------------------------------
(* arena_allocator_init *)
Init ==
  /\ pc = "idle"
  /\ blocks = <<[size |-> 0, capacity |-> StartSize]>>
  /\ bytes = 0
  /\ nextCapacity = 0
  /\ regions = {}

(* arena_allocator_alloc: the assertion, and the choice whether to grow. *)
Alloc(n) ==
  /\ pc = "idle"
  /\ Len(blocks) < MaxBlocks /\ Cardinality(regions) < MaxRegions
  /\ bytes' = n
  /\ IF n = 0
     THEN pc' = "aborted" /\ UNCHANGED nextCapacity
     ELSE IF Fits(n)
     THEN pc' = "place" /\ UNCHANGED nextCapacity
     ELSE pc' = "grow" /\ nextCapacity' = Current.capacity * 2
  /\ UNCHANGED <<blocks, regions>>

(* Mutant of Double: a capacity that is still too small is not grown. *)
DoubleNever ==
  /\ pc = "grow" /\ nextCapacity < bytes
  /\ UNCHANGED vars

Double ==
  /\ pc = "grow" /\ nextCapacity < bytes
  /\ nextCapacity' = nextCapacity * 2
  /\ UNCHANGED <<pc, blocks, bytes, regions>>

(* The new block becomes the current one; jackc_alloc ends the program when *)
(* the system has no memory left.                                          *)
NewBlock ==
  /\ pc = "grow" /\ nextCapacity >= bytes
  /\ \/ /\ pc' = "place"
        /\ blocks' = Append(blocks, [size |-> 0, capacity |-> nextCapacity])
     \/ /\ pc' = "exited"
        /\ UNCHANGED blocks
  /\ UNCHANGED <<bytes, nextCapacity, regions>>

(* The region starts at the block's size, which is then rounded up, but no  *)
(* further than to the block's end.                                        *)
Place ==
  /\ pc = "place"
  /\ regions' = regions \cup
       {[block |-> Len(blocks), offset |-> Current.size, bytes |-> bytes]}
  /\ blocks' = [blocks EXCEPT ![Len(blocks)].size =
                  Lesser(@ + AlignUp(bytes), Current.capacity)]
  /\ pc' = "idle"
  /\ UNCHANGED <<bytes, nextCapacity>>

(* arena_allocator_destroy, one block at a time. *)
Destroy ==
  /\ pc = "idle"
  /\ pc' = "destroy"
  /\ UNCHANGED <<blocks, bytes, nextCapacity, regions>>

FreeBlock ==
  /\ pc = "destroy"
  /\ blocks' = SubSeq(blocks, 1, Len(blocks) - 1)
  /\ regions' = {r \in regions : r.block < Len(blocks)}
  /\ pc' = IF Len(blocks) = 1 THEN "destroyed" ELSE pc
  /\ UNCHANGED <<bytes, nextCapacity>>

Over == {"aborted", "exited", "destroyed"}

Finished == pc \in Over /\ UNCHANGED vars

Next ==
  \/ \E n \in Requests : Alloc(n)
  \/ Double \/ NewBlock \/ Place
  \/ Destroy \/ FreeBlock
  \/ Finished

Spec == Init /\ [][Next]_vars

(* A call is straight-line code and a loop: it goes on until it returns. *)
FairSpec == Spec /\ WF_vars(Double \/ NewBlock \/ Place)

-----------------------------------------------------------------------------
(* Properties *)

(* The sizes never run past the capacities. *)
TypeOK ==
  /\ pc \in {"idle", "grow", "place", "destroy"} \cup Over
  /\ blocks \in Seq(Block)
  /\ \A k \in DOMAIN blocks : blocks[k].size <= blocks[k].capacity
  /\ bytes \in Nat /\ nextCapacity \in Nat
  /\ regions \subseteq Region

(* Every region lies inside the block it was taken from, in the part that   *)
(* the block counts as used: nothing placed later can reach it.            *)
InBounds ==
  \A r \in regions :
    /\ r.block \in DOMAIN blocks
    /\ r.offset + r.bytes <= blocks[r.block].size

(* No two regions have a byte in common. *)
Disjoint ==
  \A r, s \in regions :
    \/ r = s
    \/ r.block # s.block
    \/ r.offset + r.bytes <= s.offset
    \/ s.offset + s.bytes <= r.offset

(* Every region starts at a multiple of ALIGNMENT, even in a block that is  *)
(* no multiple of it: objects of any type can be stored there.             *)
Aligned == \A r \in regions : r.offset % Alignment = 0

(* The arena is an allocator. *)
Bytes(r) == {<<r.block, b>> : b \in r.offset..(r.offset + r.bytes - 1)}

Promise == INSTANCE Regions WITH live <- {Bytes(r) : r \in regions}, Sizes <- Requests

IsAllocator == Promise!RegionsSpec

(* The doubling loop finds a capacity, and the call returns. *)
Answered == pc = "grow" ~> pc \in {"idle", "exited"}
=============================================================================
