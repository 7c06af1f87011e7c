------------------------------ MODULE JackHeap ------------------------------
(***************************************************************************)
(* The heap of the compiled program (stdlib/Memory.jack): a first-fit       *)
(* allocator whose headers and free list live in the memory it manages.     *)
(* Free blocks hold their size (header included) and the next free block;  *)
(* an allocated one keeps its size in the word before its first usable one. *)
(*                                                                         *)
(* `alloc' takes one step per round of its loop.  Between two calls the     *)
(* program writes into what it was given.  A word holds the numbers from    *)
(* -2 * RamSize to 2 * RamSize - 1, and `+' and `-' wrap around; peek and   *)
(* poke shift a word address left by two, so that four of these numbers     *)
(* find the same word of memory.                                           *)
(***************************************************************************)
EXTENDS Integers, FiniteSets

CONSTANTS HeapBase, TotalWords,  (* heapBase, and the words init puts in the list *)
          RamSize,               (* words of memory, 2^30 on the machine      *)
          Requests,              (* sizes the program asks for                *)
          UserWords,             (* what it writes                            *)
          MaxLive                (* bound: regions it holds at a time         *)

RAM == 0..(RamSize - 1)

ASSUME HeapAssumption ==
  /\ RamSize \in Nat
  /\ HeapBase \in Nat \ {0} /\ TotalWords \in Nat /\ TotalWords >= 2
  /\ HeapBase + TotalWords \in RAM

(* The program asks for a word at least, and for no number that wraps.      *)
ASSUME RequestsAssumption == Requests \subseteq 1..(2 * RamSize - 3)

VARIABLES pc,             (* "user" or "scan": who runs                       *)
          mem,            (* the words                                        *)
          freeList,       (* head of the list of free blocks, 0 if none       *)
          size,           (* alloc's argument                                 *)
          curBlockPtr, prevBlockPtr,
          result,         (* what the last alloc returned                     *)
          live            (* history: [ptr, size] of the regions handed out   *)

vars == <<pc, mem, freeList, size, curBlockPtr, prevBlockPtr, result, live>>

Heap == HeapBase..(HeapBase + TotalWords - 1)

Wrap(n) == ((n + 2 * RamSize) % (4 * RamSize)) - 2 * RamSize

Usable(r) == r.ptr..(r.ptr + r.size - 1)

(* The word that peek and poke of an address find. *)
At(a) == a % RamSize

(* Memory.poke of v at each address of a set. *)
Poked(addresses, v) ==
  [a \in RAM |-> IF a \in {At(b) : b \in addresses} THEN v ELSE mem[a]]

BlockSize == mem[At(curBlockPtr)]

NextBlock == mem[At(curBlockPtr + 1)]

-----------------------------------------------------------------------------
(* Memory.init *)
Init ==
  /\ pc = "user"
  /\ mem = [a \in RAM |-> IF a = HeapBase THEN TotalWords ELSE 0]
  /\ freeList = HeapBase
  /\ size = 0 /\ curBlockPtr = 0 /\ prevBlockPtr = 0 /\ result = 0
  /\ live = {}

(* Memory.alloc, up to its loop. *)
Alloc(n) ==
  /\ pc = "user" /\ Cardinality(live) < MaxLive
  /\ size' = n
  /\ prevBlockPtr' = 0
  /\ curBlockPtr' = freeList
  /\ pc' = "scan"
  /\ UNCHANGED <<mem, freeList, result, live>>

(* Another round of the loop. *)
Scanning == pc = "scan" /\ curBlockPtr # 0

(* Mutant of LargeEnough: the header is not counted. *)
LargeEnoughForSize == ~ (BlockSize < size)

LargeEnough == ~ (BlockSize < Wrap(size + 1))

(* Mutant of Splittable: a rest too small for a free block is split off too. *)
SplittableToOne == BlockSize > Wrap(size + 1)

Splittable == BlockSize > Wrap(size + 2)

(* The call returns the word after the header of the block at b. *)
Return(b) ==
  /\ result' = Wrap(b + 1)
  /\ live' = live \cup {[ptr |-> result', size |-> size]}
  /\ pc' = "user"

(* The block's end becomes the region, its start stays in the free list. *)
Split ==
  LET rest  == Wrap(BlockSize - size - 1)
      taken == Wrap(curBlockPtr + rest)
  IN  /\ Scanning /\ LargeEnough /\ Splittable
      /\ mem' = [Poked({curBlockPtr}, rest) EXCEPT ![At(taken)] = Wrap(size + 1)]
      /\ curBlockPtr' = taken
      /\ Return(taken)
      /\ UNCHANGED <<freeList, size, prevBlockPtr>>

(* Mutant of TakeWhole: the head of the list is not moved on. *)
TakeWholeKeepsHead ==
  /\ Scanning /\ LargeEnough /\ ~ Splittable
  /\ mem' = IF prevBlockPtr = 0 THEN mem
            ELSE Poked({prevBlockPtr + 1}, NextBlock)
  /\ Return(curBlockPtr)
  /\ UNCHANGED <<freeList, size, curBlockPtr, prevBlockPtr>>

(* The block is unlinked as it is, a word more than needed perhaps. *)
TakeWhole ==
  /\ Scanning /\ LargeEnough /\ ~ Splittable
  /\ IF prevBlockPtr = 0
     THEN freeList' = NextBlock /\ UNCHANGED mem
     ELSE /\ mem' = Poked({prevBlockPtr + 1}, NextBlock)
          /\ UNCHANGED freeList
  /\ Return(curBlockPtr)
  /\ UNCHANGED <<size, curBlockPtr, prevBlockPtr>>

(* The block is too small. *)
Advance ==
  /\ Scanning /\ ~ LargeEnough
  /\ prevBlockPtr' = curBlockPtr
  /\ curBlockPtr' = NextBlock
  /\ UNCHANGED <<pc, mem, freeList, size, result, live>>

OutOfMemory ==
  /\ pc = "scan" /\ curBlockPtr = 0
  /\ result' = 0
  /\ pc' = "user"
  /\ UNCHANGED <<mem, freeList, size, curBlockPtr, prevBlockPtr, live>>

(* Mutant of DeAlloc: the list's head is set before it is read. *)
DeAllocHeadFirst(r) ==
  LET obj == Wrap(r.ptr - 1)
  IN  /\ pc = "user" /\ r \in live
      /\ mem' = Poked({obj + 1}, obj)
      /\ freeList' = obj
      /\ live' = live \ {r}
      /\ UNCHANGED <<pc, size, curBlockPtr, prevBlockPtr, result>>

(* Memory.deAlloc of a region that the program holds. *)
DeAlloc(r) ==
  LET obj == Wrap(r.ptr - 1)
  IN  /\ pc = "user" /\ r \in live
      /\ mem' = Poked({obj + 1}, freeList)
      /\ freeList' = obj
      /\ live' = live \ {r}
      /\ UNCHANGED <<pc, size, curBlockPtr, prevBlockPtr, result>>

(* The program's own stores, into what it holds. *)
Write(a, v) ==
  /\ pc = "user" /\ \E r \in live : a \in Usable(r)
  /\ mem' = Poked({a}, v)
  /\ UNCHANGED <<pc, freeList, size, curBlockPtr, prevBlockPtr, result, live>>

Scan == Split \/ TakeWhole \/ Advance \/ OutOfMemory

Next ==
  \/ \E n \in Requests : Alloc(n)
  \/ Scan
  \/ \E r \in live : DeAlloc(r)
  \/ \E a \in RAM, v \in UserWords : Write(a, v)

Spec == Init /\ [][Next]_vars

(* Between its loop's rounds alloc waits for nothing. *)
FairSpec == Spec /\ WF_vars(Scan)

-----------------------------------------------------------------------------
(* Properties *)

(* The free blocks, found the way alloc finds them: n links are followed. *)
Link[n \in 0..TotalWords] ==
  IF n = 0 THEN freeList
  ELSE IF Link[n - 1] \in Heap THEN mem[Link[n - 1] + 1] ELSE 0

FreeBlocks == {Link[n] : n \in 0..TotalWords} \ {0}

Blocks == FreeBlocks \cup {r.ptr - 1 : r \in live}

Extent(b) == b..(b + mem[b] - 1)

(* Between two calls the headers tile the heap: every word belongs to       *)
(* exactly one block, free or handed out, so that nothing is lost and      *)
(* nothing is given out twice; and no region ends behind its block.        *)
HeapTiled ==
  pc = "user" =>
    /\ UNION {Extent(b) : b \in Blocks} = Heap
    /\ \A b, c \in Blocks : b # c => Extent(b) \cap Extent(c) = {}
    /\ \A r \in live : Usable(r) \subseteq Extent(r.ptr - 1) \ {r.ptr - 1}
    /\ FreeBlocks \cap {r.ptr - 1 : r \in live} = {}

(* The regions are an allocator's. *)
Promise == INSTANCE Regions WITH live <- {Usable(r) : r \in live}, Sizes <- Requests

IsAllocator == Promise!RegionsSpec

(* The allocator touches neither what the program stored in a region it    *)
(* still holds, nor anything outside of the heap: its bookkeeping stays     *)
(* between the regions.                                                    *)
KeepsContents ==
  [][~ (\E a \in RAM, v \in UserWords : Write(a, v))
       => \A a \in (RAM \ Heap) \cup UNION {Usable(r) : r \in live \cap live'} :
            mem'[a] = mem[a]]_vars

(* The loop comes to the end of the list: the list is never circular. *)
AllocReturns == pc = "scan" ~> pc = "user"

=============================================================================
