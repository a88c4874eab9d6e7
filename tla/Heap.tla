-------------------------------- MODULE Heap ---------------------------------
(***************************************************************************)
(* The heap of kernel/mm.c: first-fit over a list of blocks that are       *)
(* neither split nor merged, grown at heap_brk.  Addresses and sizes are   *)
(* machine words.  The kernel only initialises the heap and reports on it: *)
(* kmalloc and kfree have no caller yet, so the callers here are any that  *)
(* keep to the contract and free what they hold, once.                     *)
(***************************************************************************)
EXTENDS Integers, FiniteSetsExt, SequencesExt

CONSTANTS
  WORD,                   (* words are taken modulo it, 2^32 in the code   *)
  HEAP_START, HEAP_END,   (* the arguments of mm_init                      *)
  SIZES                   (* what callers ask for                          *)

Words == 0..WORD - 1

ASSUME HeapAssumption ==
  /\ WORD \in Nat \ {0}
  /\ HEAP_START \in Words /\ HEAP_END \in Words
  /\ SIZES \subseteq Words

HEADER == 12              (* sizeof(block_t) on the i386                   *)

(* `(x + 3) & ~3u`, and the sum of two words                               *)
ALIGN4(x) == LET y == (x + 3) % WORD IN y - (y % 4)
Plus(x, y) == (x + y) % WORD

(* No request comes near the size of the address space: the sums kmalloc   *)
(* compares with heap_end do not wrap.                                     *)
NoWrap == /\ HEAP_START + 3 < WORD
          /\ ALIGN4(HEAP_START) <= HEAP_END
          /\ \A want \in SIZES : HEAP_END + HEADER + want + 3 < WORD

VARIABLES
  blocks,                 (* the list, its head last: blocks[i + 1].next   *)
                          (* is blocks[i]                                  *)
  heap_brk,
  lent                    (* history: the pointers callers hold, each with *)
                          (* the size that was asked for                   *)

vars == <<blocks, heap_brk, lent>>

Blocks == [at : Words, size : Words, free : BOOLEAN]

TypeOK ==
  /\ blocks \in Seq(Blocks) /\ heap_brk \in Words
  /\ lent \subseteq [ptr : Nat, size : SIZES]

(* The memory of a block                                                   *)
Start(b) == b.at + HEADER
End(b)   == b.at + HEADER + b.size

-----------------------------------------------------------------------------
Init == blocks = <<>> /\ heap_brk = ALIGN4(HEAP_START) /\ lent = {}

Lend(at, want) == lent' = lent \cup {[ptr |-> at, size |-> want]}

Fits(i, size) == blocks[i].free /\ blocks[i].size >= size

(* Mutant of find_free: the first free block, whatever its size.           *)
find_free_any(i, size) ==
  /\ blocks[i].free
  /\ \A j \in i + 1..Len(blocks) : ~ blocks[j].free

(* The first block from the head on that is free and large enough          *)
find_free(i, size) ==
  /\ Fits(i, size)
  /\ \A j \in i + 1..Len(blocks) : ~ Fits(j, size)

(* Mutant of kmalloc_reuse: the size of the block is cut to the request.   *)
kmalloc_reuse_cut(want) ==
  /\ want # 0
  /\ \E i \in DOMAIN blocks :
       /\ find_free(i, ALIGN4(want))
       /\ blocks' = [blocks EXCEPT ![i].free = FALSE,
                                   ![i].size = ALIGN4(want)]
       /\ Lend(Start(blocks[i]), want)
  /\ UNCHANGED heap_brk

kmalloc_reuse(want) ==
  /\ want # 0
  /\ \E i \in DOMAIN blocks :
       /\ find_free(i, ALIGN4(want))
       /\ blocks' = [blocks EXCEPT ![i].free = FALSE]
       /\ Lend(Start(blocks[i]), want)
  /\ UNCHANGED heap_brk

(* Mutant of kmalloc_extend: the header is left out of what is needed.     *)
kmalloc_extend_bare(want) ==
  LET size == ALIGN4(want)
  IN  /\ want # 0
      /\ \A i \in DOMAIN blocks : ~ Fits(i, size)
      /\ Plus(heap_brk, size) <= HEAP_END
      /\ heap_brk' = Plus(heap_brk, size)
      /\ blocks' = Append(blocks, [at |-> heap_brk, size |-> size,
                                   free |-> FALSE])
      /\ Lend(heap_brk + HEADER, want)

kmalloc_extend(want) ==
  LET size == ALIGN4(want)
      need == Plus(HEADER, size)
  IN  /\ want # 0
      /\ \A i \in DOMAIN blocks : ~ Fits(i, size)
      /\ Plus(heap_brk, need) <= HEAP_END
      /\ heap_brk' = Plus(heap_brk, need)
      /\ blocks' = Append(blocks, [at |-> heap_brk, size |-> size,
                                   free |-> FALSE])
      /\ Lend(heap_brk + HEADER, want)

(* A request for nothing, and one the heap has no room for, gets the null  *)
(* pointer and changes nothing.                                            *)
kmalloc(want) == kmalloc_reuse(want) \/ kmalloc_extend(want)

(* Callers give back what they hold: the header is the word before it.     *)
kfree(r) ==
  /\ \E i \in DOMAIN blocks :
       /\ Start(blocks[i]) = r.ptr
       /\ blocks' = [blocks EXCEPT ![i].free = TRUE]
  /\ lent' = lent \ {r}
  /\ UNCHANGED heap_brk

Next == \/ \E want \in SIZES : kmalloc(want)
        \/ \E r \in lent : kfree(r)

Spec == Init /\ [][Next]_vars

mm_used ==
  MapThenSumSet(LAMBDA i : blocks[i].size,
                {i \in DOMAIN blocks : ~ blocks[i].free})

head == IF blocks = <<>> THEN 0 ELSE Last(blocks).at

mm_total == (HEAP_END - head) % WORD

-----------------------------------------------------------------------------
(***************************************************************************)
(* Properties.                                                             *)
(***************************************************************************)
BlocksDisjoint ==
  /\ heap_brk \in ALIGN4(HEAP_START)..HEAP_END
  /\ heap_brk % 4 = 0
  /\ \A i \in DOMAIN blocks :
       /\ blocks[i].at % 4 = 0
       /\ ALIGN4(HEAP_START) <= blocks[i].at
       /\ End(blocks[i]) <= heap_brk
       /\ \A j \in DOMAIN blocks :
            i < j => End(blocks[i]) <= blocks[j].at

Holds(r, b) == r.ptr = Start(b) /\ r.size <= b.size /\ ~ b.free

(* Every block, header and memory, lies between the start of the heap and  *)
(* heap_brk, which never passes the end; no block reaches into another,    *)
(* and every caller holds a block of its own that is at least what it      *)
(* asked for and not free: who writes all of what it asked for harms no    *)
(* header and no other caller's memory.                                    *)
BlocksApart ==
  /\ BlocksDisjoint
  /\ \A r \in lent : \E i \in DOMAIN blocks : Holds(r, blocks[i])
  /\ \A r, q \in lent : r.ptr = q.ptr => r = q

(* No byte is lost: what was taken from the heap is the memory in use, the *)
(* memory of the free blocks and a header for each, and every block in use *)
(* is held by a caller who can give it back.                               *)
AccountsForHeap ==
  /\ Cardinality(lent) = Cardinality({i \in DOMAIN blocks : ~ blocks[i].free})
  /\ heap_brk - ALIGN4(HEAP_START) =
       mm_used + HEADER * Len(blocks)
         + MapThenSumSet(LAMBDA i : blocks[i].size,
                         {i \in DOMAIN blocks : blocks[i].free})

(* The heap keeps the promise of an allocator to those who call it.        *)
Promise == INSTANCE Allocator

ImplementsAllocator == Promise!Spec

-----------------------------------------------------------------------------
(* "HEAP_SIZE 0x00200000u /* 2MB */": the total `mem` reports is the size  *)
(* of the heap.                                                            *)
TotalIsHeapSize == mm_total = HEAP_END - HEAP_START
=============================================================================
