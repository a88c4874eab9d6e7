----------------------------- MODULE HeapProofs ------------------------------
(***************************************************************************)
(* The heap of kernel/mm.c keeps its blocks apart and implements an        *)
(* allocator, whatever its size and whatever is asked of it, as long as no *)
(* request is so large that the sums in kmalloc wrap (NoWrap).             *)
(***************************************************************************)
EXTENDS Heap, FiniteSetTheorems, TLAPS

(* Sizes are rounded up, never down.                                       *)
LEMMA AlignUp ==
  ASSUME NEW x \in Nat, x + 3 < WORD
  PROVE  /\ ALIGN4(x) \in Nat
         /\ ALIGN4(x) % 4 = 0
         /\ x <= ALIGN4(x) /\ ALIGN4(x) <= x + 3
<1>1. WORD \in Nat \ {0}
  BY HeapAssumption
<1>2. (x + 3) % WORD = x + 3
  BY <1>1
<1>3. ALIGN4(x) = (x + 3) - ((x + 3) % 4)
  BY <1>2 DEF ALIGN4
<1>. QED
  BY <1>3

(* A sum below the modulus is the sum.                                     *)
LEMMA PlusIsSum ==
  ASSUME NEW x \in Nat, NEW y \in Nat, x + y < WORD
  PROVE  Plus(x, y) = x + y
<1>1. WORD \in Nat \ {0}
  BY HeapAssumption
<1>. QED
  BY <1>1 DEF Plus

(* What NoWrap gives for a request: its rounded size, and what kmalloc     *)
(* compares with heap_end.                                                 *)
LEMMA Request ==
  ASSUME NoWrap, NEW want \in SIZES, NEW brk \in Nat, brk <= HEAP_END
  PROVE  /\ ALIGN4(want) \in Words
         /\ ALIGN4(want) % 4 = 0
         /\ want <= ALIGN4(want)
         /\ Plus(brk, Plus(HEADER, ALIGN4(want))) = brk + HEADER + ALIGN4(want)
<1>1. /\ want \in Nat /\ HEAP_END \in Nat /\ WORD \in Nat
      /\ HEAP_END + HEADER + want + 3 < WORD
  BY HeapAssumption DEF NoWrap, Words
<1>2. HEADER = 12
  BY DEF HEADER
<1>3. want + 3 < WORD
  BY <1>1, <1>2
<1>4. /\ ALIGN4(want) \in Nat /\ ALIGN4(want) % 4 = 0
      /\ want <= ALIGN4(want) /\ ALIGN4(want) <= want + 3
  BY <1>1, <1>3, AlignUp
<1>5. Plus(HEADER, ALIGN4(want)) = HEADER + ALIGN4(want)
  BY <1>1, <1>2, <1>4, PlusIsSum
<1>6. Plus(brk, HEADER + ALIGN4(want)) = brk + (HEADER + ALIGN4(want))
  BY <1>1, <1>2, <1>4, PlusIsSum
<1>. QED
  BY <1>1, <1>2, <1>4, <1>5, <1>6 DEF Words

-----------------------------------------------------------------------------
(* The list of blocks, apart from who holds them                           *)
Shape ==
  /\ blocks \in Seq(Blocks) /\ heap_brk \in Words
  /\ BlocksDisjoint

IInv == Shape /\ TypeOK /\ BlocksApart

LEMMA InitShape == ASSUME NoWrap, Init PROVE Shape
<1>1. HEAP_START \in Nat /\ HEAP_END \in Nat /\ WORD \in Nat /\ HEAP_END < WORD
  BY HeapAssumption DEF Words
<1>2. ALIGN4(HEAP_START) \in Nat /\ ALIGN4(HEAP_START) % 4 = 0
      /\ ALIGN4(HEAP_START) <= HEAP_END
  BY <1>1, AlignUp DEF NoWrap
<1>3. blocks \in Seq(Blocks) /\ heap_brk \in Words
  BY <1>1, <1>2 DEF Init, Words
<1>4. BlocksDisjoint
  BY <1>1, <1>2 DEF Init, BlocksDisjoint
<1>. QED
  BY <1>3, <1>4 DEF Shape

(* A block that only changes hands stays where it is.                      *)
LEMMA FlagKeepsShape ==
  ASSUME Shape, NEW i \in DOMAIN blocks, NEW flag \in BOOLEAN,
         blocks' = [blocks EXCEPT ![i].free = flag], UNCHANGED heap_brk
  PROVE  Shape'
<1>. USE DEF Shape
<1>1. \A j \in DOMAIN blocks : blocks[j] \in Blocks
  OBVIOUS
<1>2. [blocks[i] EXCEPT !.free = flag] \in Blocks
  BY <1>1 DEF Blocks
<1>3. blocks' = [blocks EXCEPT ![i] = [blocks[i] EXCEPT !.free = flag]]
  OBVIOUS
<1>4. blocks' \in Seq(Blocks) /\ DOMAIN blocks' = DOMAIN blocks
  BY <1>2, <1>3
<1>5. \A j \in DOMAIN blocks : /\ blocks'[j].at = blocks[j].at
                              /\ blocks'[j].size = blocks[j].size
  BY <1>1, <1>3 DEF Blocks
<1>6. BlocksDisjoint'
  BY <1>4, <1>5 DEF BlocksDisjoint, End
<1>. QED
  BY <1>4, <1>6

LEMMA ExtendKeepsShape ==
  ASSUME NoWrap, Shape, NEW want \in SIZES, kmalloc_extend(want)
  PROVE  Shape'
<1>. DEFINE size == ALIGN4(want)
            b == [at |-> heap_brk, size |-> size, free |-> FALSE]
<1>. HIDE DEF size
<1>1. /\ HEAP_END \in Nat /\ WORD \in Nat /\ HEAP_END < WORD
      /\ heap_brk \in Nat /\ heap_brk <= HEAP_END
      /\ heap_brk \in Words /\ heap_brk % 4 = 0
      /\ ALIGN4(HEAP_START) <= heap_brk
      /\ ALIGN4(HEAP_START) \in Nat
  <2>1. HEAP_START \in Nat /\ HEAP_END \in Nat /\ WORD \in Nat /\ HEAP_END < WORD
    BY HeapAssumption DEF Words
  <2>2. ALIGN4(HEAP_START) \in Nat
    BY <2>1, AlignUp DEF NoWrap
  <2>. QED
    BY <2>1, <2>2 DEF Shape, BlocksDisjoint, Words
<1>2. /\ size \in Words /\ size % 4 = 0
      /\ Plus(heap_brk, Plus(HEADER, size)) = heap_brk + HEADER + size
  BY <1>1, Request DEF size
<1>3. /\ heap_brk' = heap_brk + HEADER + size
      /\ heap_brk' <= HEAP_END
      /\ blocks' = Append(blocks, b)
  BY <1>2 DEF kmalloc_extend, size
<1>4. heap_brk' \in Words /\ heap_brk' % 4 = 0 /\ heap_brk <= heap_brk'
  <2>1. HEADER = 12 /\ size \in Nat /\ size % 4 = 0
    BY <1>1, <1>2 DEF HEADER, Words
  <2>2. heap_brk' = heap_brk + 12 + size /\ heap_brk' <= HEAP_END
    BY <1>3, <2>1
  <2>3. heap_brk' \in Nat /\ heap_brk <= heap_brk' /\ heap_brk' < WORD
    BY <1>1, <2>1, <2>2
  <2>4. heap_brk' % 4 = 0
    BY <1>1, <2>1, <2>2
  <2>5. heap_brk' \in Words
    BY <1>1, <2>3 DEF Words
  <2>. QED
    BY <2>3, <2>4, <2>5
<1>5. b \in Blocks
  BY <1>1, <1>2 DEF Blocks
<1>6. /\ blocks \in Seq(Blocks) /\ blocks' \in Seq(Blocks)
      /\ DOMAIN blocks = 1..Len(blocks) /\ Len(blocks) \in Nat
      /\ DOMAIN blocks' = 1..Len(blocks) + 1
      /\ \A j \in DOMAIN blocks : blocks'[j] = blocks[j]
      /\ blocks'[Len(blocks) + 1] = b
  BY <1>3, <1>5 DEF Shape
<1>7. \A j \in DOMAIN blocks : /\ blocks[j].at \in Nat /\ blocks[j].size \in Nat
                              /\ End(blocks[j]) \in Nat
  <2>. SUFFICES ASSUME NEW j \in DOMAIN blocks
       PROVE  /\ blocks[j].at \in Nat /\ blocks[j].size \in Nat
              /\ End(blocks[j]) \in Nat
    OBVIOUS
  <2>1. blocks[j] \in Blocks
    BY <1>6
  <2>2. blocks[j].at \in Nat /\ blocks[j].size \in Nat
    BY <2>1, <1>1 DEF Blocks, Words
  <2>. QED
    BY <2>2 DEF End, HEADER
<1>8. End(b) = heap_brk' /\ b.at = heap_brk
  BY <1>1, <1>2, <1>3 DEF End, HEADER, Words
<1>9. \A i \in DOMAIN blocks' :
        /\ blocks'[i].at % 4 = 0
        /\ ALIGN4(HEAP_START) <= blocks'[i].at
        /\ End(blocks'[i]) <= heap_brk'
        /\ \A j \in DOMAIN blocks' : i < j => End(blocks'[i]) <= blocks'[j].at
  <2>. SUFFICES ASSUME NEW i \in DOMAIN blocks'
       PROVE  /\ blocks'[i].at % 4 = 0
              /\ ALIGN4(HEAP_START) <= blocks'[i].at
              /\ End(blocks'[i]) <= heap_brk'
              /\ \A j \in DOMAIN blocks' : i < j => End(blocks'[i]) <= blocks'[j].at
    OBVIOUS
  <2>. HIDE DEF b
  <2>1. CASE i \in DOMAIN blocks
    <3>1. /\ blocks'[i] = blocks[i] /\ End(blocks[i]) <= heap_brk
          /\ blocks[i].at % 4 = 0 /\ ALIGN4(HEAP_START) <= blocks[i].at
          /\ \A j \in DOMAIN blocks : i < j => End(blocks[i]) <= blocks[j].at
      BY <1>6, <2>1 DEF Shape, BlocksDisjoint
    <3>2. End(blocks[i]) <= heap_brk'
      BY <3>1, <1>1, <1>4, <1>7, <2>1 DEF Words
    <3>3. \A j \in DOMAIN blocks' : i < j => End(blocks[i]) <= blocks'[j].at
      BY <3>1, <1>6, <1>8
    <3>. QED
      BY <3>1, <3>2, <3>3
  <2>2. CASE i = Len(blocks) + 1
    <3>1. \A j \in DOMAIN blocks' : ~ (i < j)
      BY <1>6, <2>2
    <3>2. End(b) <= heap_brk'
      BY <1>8, <1>4 DEF Words
    <3>. QED
      BY <3>1, <3>2, <1>1, <1>6, <1>8, <2>2
  <2>. QED
    BY <2>1, <2>2, <1>6
<1>10. heap_brk' \in ALIGN4(HEAP_START)..HEAP_END
  BY <1>1, <1>3, <1>4 DEF Words
<1>11. BlocksDisjoint'
  BY <1>4, <1>9, <1>10 DEF BlocksDisjoint, End, ALIGN4
<1>. QED
  BY <1>4, <1>6, <1>11 DEF Shape

-----------------------------------------------------------------------------
(***************************************************************************)
(* Blocks and the loans on them.                                           *)
(***************************************************************************)
LEMMA BlockIsTyped ==
  ASSUME Shape, NEW i \in DOMAIN blocks
  PROVE  /\ blocks[i] \in Blocks
         /\ i \in Nat
         /\ blocks[i].at \in Nat /\ blocks[i].size \in Nat
         /\ Start(blocks[i]) = blocks[i].at + 12
<1>1. blocks[i] \in Blocks /\ i \in Nat
  BY DEF Shape
<1>2. WORD \in Nat
  BY HeapAssumption
<1>. QED
  BY <1>1, <1>2 DEF Blocks, Words, Start, HEADER

(* Of two blocks one ends before the header of the other.                  *)
LEMMA BlocksOrdered ==
  ASSUME Shape, NEW i \in DOMAIN blocks, NEW j \in DOMAIN blocks, i # j
  PROVE  \/ Start(blocks[i]) + blocks[i].size <= blocks[j].at
         \/ Start(blocks[j]) + blocks[j].size <= blocks[i].at
<1>1. i \in Nat /\ j \in Nat
  BY BlockIsTyped
<1>2. CASE i < j
  BY <1>2 DEF Shape, BlocksDisjoint, End, Start
<1>3. CASE j < i
  BY <1>3 DEF Shape, BlocksDisjoint, End, Start
<1>. QED
  BY <1>1, <1>2, <1>3

(* The memory of a block is the heap's, and aligned.                       *)
LEMMA BlockInHeap ==
  ASSUME NoWrap, Shape, NEW i \in DOMAIN blocks
  PROVE  /\ Start(blocks[i]) \in HEAP_START..HEAP_END
         /\ Start(blocks[i]) % 4 = 0
         /\ Start(blocks[i]) + blocks[i].size <= HEAP_END
<1>1. /\ HEAP_START \in Nat /\ HEAP_END \in Nat /\ WORD \in Nat
      /\ ALIGN4(HEAP_START) \in Nat /\ HEAP_START <= ALIGN4(HEAP_START)
  <2>1. HEAP_START \in Nat /\ HEAP_END \in Nat /\ WORD \in Nat
    BY HeapAssumption DEF Words
  <2>. QED
    BY <2>1, AlignUp DEF NoWrap
<1>2. /\ blocks[i].at \in Nat /\ blocks[i].size \in Nat
      /\ Start(blocks[i]) = blocks[i].at + 12
  BY BlockIsTyped
<1>3. /\ HEAP_START <= blocks[i].at /\ blocks[i].at % 4 = 0
      /\ blocks[i].at + 12 + blocks[i].size <= HEAP_END
  <2>1. /\ heap_brk \in ALIGN4(HEAP_START)..HEAP_END
        /\ blocks[i].at % 4 = 0 /\ ALIGN4(HEAP_START) <= blocks[i].at
        /\ blocks[i].at + 12 + blocks[i].size <= heap_brk
    BY DEF Shape, BlocksDisjoint, End, HEADER
  <2>. QED
    BY <1>1, <1>2, <2>1
<1>. QED
  BY <1>1, <1>2, <1>3

(* What a request means for the sizes of blocks                            *)
LEMMA Enough ==
  ASSUME NoWrap, Shape, NEW want \in SIZES
  PROVE  /\ want \in Nat /\ ALIGN4(want) \in Nat /\ want <= ALIGN4(want)
         /\ Plus(heap_brk, Plus(HEADER, ALIGN4(want)))
              = heap_brk + HEADER + ALIGN4(want)
<1>1. WORD \in Nat /\ SIZES \subseteq Words /\ HEAP_START \in Nat /\ HEAP_END \in Nat
  BY HeapAssumption DEF Words
<1>2. heap_brk \in Nat /\ heap_brk <= HEAP_END
  <2>1. ALIGN4(HEAP_START) \in Nat
    BY <1>1, AlignUp DEF NoWrap
  <2>. QED
    BY <1>1, <2>1 DEF Shape, BlocksDisjoint
<1>. QED
  BY <1>1, <1>2, Request DEF Words

(* A place from which memory can be lent: of the heap, aligned, and apart  *)
(* from what callers hold                                                  *)
Loan(ptr, want)  == [ptr |-> ptr, size |-> want]
Fresh(ptr, want) ==
  /\ ptr \in HEAP_START..HEAP_END /\ ptr % 4 = 0 /\ ptr + want <= HEAP_END
  /\ \A q \in lent : Promise!Apart(Loan(ptr, want), q) /\ q.ptr # ptr

LEMMA LoanIsTyped ==
  ASSUME TypeOK, NEW q \in lent
  PROVE  q.size \in Nat
<1>1. q \in [ptr : Nat, size : SIZES]
  BY DEF TypeOK
<1>2. q.size \in SIZES
  BY <1>1
<1>3. SIZES \subseteq Words
  BY HeapAssumption
<1>4. q.size \in Words
  BY <1>2, <1>3
<1>. QED
  BY <1>4, HeapAssumption DEF Words

LEMMA ReuseIsFresh ==
  ASSUME NoWrap, IInv, NEW want \in Nat, NEW i \in DOMAIN blocks,
         blocks[i].free, want <= blocks[i].size
  PROVE  Fresh(Start(blocks[i]), want)
<1>1. Shape
  BY DEF IInv
<1>2. /\ Start(blocks[i]) \in HEAP_START..HEAP_END
      /\ Start(blocks[i]) % 4 = 0
      /\ Start(blocks[i]) + blocks[i].size <= HEAP_END
  BY <1>1, BlockInHeap
<1>3. /\ blocks[i].at \in Nat /\ blocks[i].size \in Nat
      /\ Start(blocks[i]) = blocks[i].at + 12
  BY <1>1, BlockIsTyped
<1>4. HEAP_END \in Nat
  BY HeapAssumption DEF Words
<1>5. ASSUME NEW q \in lent
      PROVE  /\ Promise!Apart(Loan(Start(blocks[i]), want), q)
             /\ q.ptr # Start(blocks[i])
  <2>1. PICK j \in DOMAIN blocks : Holds(q, blocks[j])
    BY DEF IInv, BlocksApart
  <2>2. j # i
    BY <2>1 DEF Holds
  <2>3. \/ Start(blocks[i]) + blocks[i].size <= blocks[j].at
        \/ Start(blocks[j]) + blocks[j].size <= blocks[i].at
    BY <1>1, <2>2, BlocksOrdered
  <2>4. /\ blocks[j].at \in Nat /\ blocks[j].size \in Nat
        /\ Start(blocks[j]) = blocks[j].at + 12
    BY <1>1, BlockIsTyped
  <2>5. q.ptr = blocks[j].at + 12 /\ q.size <= blocks[j].size /\ q.size \in Nat
    <3>1. q.size \in Nat
      BY LoanIsTyped DEF IInv
    <3>. QED
      BY <2>1, <2>4, <3>1 DEF Holds
  <2>6. \/ Start(blocks[i]) + want <= q.ptr
        \/ q.ptr + q.size <= Start(blocks[i])
    BY <1>3, <2>3, <2>4, <2>5
  <2>7. q.ptr # Start(blocks[i])
    BY <1>3, <2>3, <2>4, <2>5
  <2>. QED
    BY <2>6, <2>7 DEF Promise!Apart, Loan
<1>6. Start(blocks[i]) + want <= HEAP_END
  BY <1>2, <1>3, <1>4
<1>. QED
  BY <1>2, <1>5, <1>6 DEF Fresh

LEMMA ExtendIsFresh ==
  ASSUME NoWrap, IInv, NEW want \in SIZES, kmalloc_extend(want)
  PROVE  Fresh(heap_brk + HEADER, want)
<1>1. Shape
  BY DEF IInv
<1>2. /\ want \in Nat /\ ALIGN4(want) \in Nat /\ want <= ALIGN4(want)
      /\ heap_brk + HEADER + ALIGN4(want) <= HEAP_END
  BY <1>1, Enough DEF kmalloc_extend
<1>3. /\ HEAP_START \in Nat /\ HEAP_END \in Nat
      /\ heap_brk \in Nat /\ heap_brk % 4 = 0 /\ HEAP_START <= heap_brk
  <2>1. HEAP_START \in Nat /\ HEAP_END \in Nat /\ WORD \in Nat
    BY HeapAssumption DEF Words
  <2>2. ALIGN4(HEAP_START) \in Nat /\ HEAP_START <= ALIGN4(HEAP_START)
    BY <2>1, AlignUp DEF NoWrap
  <2>. QED
    BY <1>1, <2>1, <2>2 DEF Shape, BlocksDisjoint, Words
<1>4. HEADER = 12
  BY DEF HEADER
<1>5. ASSUME NEW q \in lent
      PROVE  /\ Promise!Apart(Loan(heap_brk + HEADER, want), q)
             /\ q.ptr # heap_brk + HEADER
  <2>1. PICK j \in DOMAIN blocks : Holds(q, blocks[j])
    BY DEF IInv, BlocksApart
  <2>2. /\ blocks[j].at \in Nat /\ blocks[j].size \in Nat
        /\ Start(blocks[j]) = blocks[j].at + 12
    BY <1>1, BlockIsTyped
  <2>3. blocks[j].at + 12 + blocks[j].size <= heap_brk
    BY <1>1 DEF Shape, BlocksDisjoint, End, HEADER
  <2>4. q.ptr = blocks[j].at + 12 /\ q.size <= blocks[j].size /\ q.size \in Nat
    <3>1. q.size \in Nat
      BY LoanIsTyped DEF IInv
    <3>. QED
      BY <2>1, <2>2, <3>1 DEF Holds
  <2>5. q.ptr + q.size <= heap_brk + HEADER /\ q.ptr # heap_brk + HEADER
    BY <1>3, <1>4, <2>2, <2>3, <2>4
  <2>. QED
    BY <2>5 DEF Promise!Apart, Loan
<1>6. /\ heap_brk + HEADER \in HEAP_START..HEAP_END
      /\ (heap_brk + HEADER) % 4 = 0
      /\ heap_brk + HEADER + want <= HEAP_END
  BY <1>2, <1>3, <1>4
<1>. QED
  BY <1>5, <1>6 DEF Fresh

(* A loan from a fresh place leaves every caller with a block of its own,  *)
(* when it is on block i after the step and the blocks that others hold    *)
(* are as they were.                                                       *)
LEMMA LoanHolds ==
  ASSUME IInv, Shape', NEW want \in SIZES, NEW ptr \in Nat,
         Fresh(ptr, want), Lend(ptr, want),
         NEW i \in DOMAIN blocks', Holds(Loan(ptr, want), blocks'[i]),
         DOMAIN blocks \subseteq DOMAIN blocks',
         \A j \in DOMAIN blocks : ~ blocks[j].free => blocks'[j] = blocks[j]
  PROVE  IInv'
<1>1. lent' = lent \cup {Loan(ptr, want)}
  BY DEF Lend, Loan
<1>2. \A q \in lent : q.ptr # Loan(ptr, want).ptr
  BY DEF Fresh, Loan
<1>3. Loan(ptr, want) \in [ptr : Nat, size : SIZES]
  BY DEF Loan
<1>4. \A q \in lent : \E j \in DOMAIN blocks' : Holds(q, blocks'[j])
  <2>. SUFFICES ASSUME NEW q \in lent
       PROVE  \E j \in DOMAIN blocks' : Holds(q, blocks'[j])
    OBVIOUS
  <2>1. PICK j \in DOMAIN blocks : Holds(q, blocks[j])
    BY DEF IInv, BlocksApart
  <2>2. j \in DOMAIN blocks' /\ blocks'[j] = blocks[j]
    BY <2>1 DEF Holds
  <2>. QED
    BY <2>1, <2>2
<1>5. \A q \in lent' : \E j \in DOMAIN blocks' : Holds(q, blocks'[j])
  BY <1>1, <1>4
<1>6. \A p, q \in lent' : p.ptr = q.ptr => p = q
  BY <1>1, <1>2 DEF IInv, BlocksApart
<1>7. BlocksApart'
  BY <1>5, <1>6 DEF Shape, BlocksApart, Holds, Start
<1>. QED
  BY <1>1, <1>3, <1>7 DEF IInv, Shape, TypeOK

LEMMA ReuseHolds ==
  ASSUME NoWrap, IInv, NEW want \in SIZES, kmalloc_reuse(want)
  PROVE  /\ IInv'
         /\ \E ptr \in Nat : Fresh(ptr, want) /\ Lend(ptr, want)
<1>1. PICK i \in DOMAIN blocks :
        /\ find_free(i, ALIGN4(want))
        /\ blocks' = [blocks EXCEPT ![i].free = FALSE]
        /\ Lend(Start(blocks[i]), want)
  BY DEF kmalloc_reuse
<1>2. Shape'
  BY <1>1, FlagKeepsShape DEF kmalloc_reuse, IInv
<1>3. /\ want \in Nat /\ ALIGN4(want) \in Nat /\ want <= ALIGN4(want)
  BY Enough DEF IInv
<1>4. /\ blocks[i] \in Blocks /\ blocks[i].size \in Nat
      /\ Start(blocks[i]) \in Nat
  BY BlockIsTyped DEF IInv
<1>5. /\ DOMAIN blocks' = DOMAIN blocks
      /\ ~ (blocks'[i]).free /\ (blocks'[i]).size = blocks[i].size
      /\ (blocks'[i]).at = blocks[i].at
      /\ \A j \in DOMAIN blocks : j # i => blocks'[j] = blocks[j]
  BY <1>1, <1>4 DEF Blocks
<1>6. blocks[i].free /\ want <= blocks[i].size
  BY <1>1, <1>3, <1>4 DEF find_free, Fits
<1>7. Fresh(Start(blocks[i]), want)
  BY <1>3, <1>6, ReuseIsFresh
<1>8. Holds(Loan(Start(blocks[i]), want), blocks'[i])
  BY <1>5, <1>6 DEF Holds, Loan, Start
<1>9. IInv'
  <2>. DEFINE ptr == Start(blocks[i])
  <2>1. /\ ptr \in Nat /\ Fresh(ptr, want) /\ Lend(ptr, want)
        /\ Holds(Loan(ptr, want), blocks'[i])
    BY <1>1, <1>4, <1>7, <1>8
  <2>. HIDE DEF ptr
  <2>. QED
    BY <1>2, <1>5, <1>6, <2>1, LoanHolds
<1>. QED
  BY <1>1, <1>4, <1>7, <1>9

LEMMA ExtendHolds ==
  ASSUME NoWrap, IInv, NEW want \in SIZES, kmalloc_extend(want)
  PROVE  /\ IInv'
         /\ \E ptr \in Nat : Fresh(ptr, want) /\ Lend(ptr, want)
<1>. DEFINE b   == [at |-> heap_brk, size |-> ALIGN4(want), free |-> FALSE]
            ptr == heap_brk + HEADER
<1>1. Shape'
  BY ExtendKeepsShape DEF IInv
<1>2. want \in Nat /\ want <= ALIGN4(want)
  BY Enough DEF IInv
<1>3. blocks' = Append(blocks, b) /\ Lend(ptr, want)
  BY DEF kmalloc_extend
<1>4. Holds(Loan(ptr, want), b)
  BY <1>2 DEF Start, Holds, Loan
<1>5. Fresh(ptr, want)
  BY ExtendIsFresh
<1>6. ptr \in Nat
  BY HeapAssumption DEF IInv, Shape, Words, HEADER
<1>. HIDE DEF b, ptr
<1>7. blocks \in Seq(Blocks)
  BY DEF IInv, Shape
<1>8. /\ Len(blocks) + 1 \in DOMAIN blocks'
      /\ blocks'[Len(blocks) + 1] = b
      /\ DOMAIN blocks \subseteq DOMAIN blocks'
      /\ \A j \in DOMAIN blocks : blocks'[j] = blocks[j]
  BY <1>3, <1>7
<1>9. IInv'
  BY <1>1, <1>3, <1>4, <1>5, <1>6, <1>8, LoanHolds
<1>. QED
  BY <1>3, <1>5, <1>6, <1>9

LEMMA FreeHolds ==
  ASSUME IInv, NEW r \in lent, kfree(r)
  PROVE  IInv'
<1>1. PICK i \in DOMAIN blocks :
        /\ Start(blocks[i]) = r.ptr
        /\ blocks' = [blocks EXCEPT ![i].free = TRUE]
  BY DEF kfree
<1>2. Shape' /\ lent' = lent \ {r}
  BY <1>1, FlagKeepsShape DEF kfree, IInv
<1>3. /\ DOMAIN blocks' = DOMAIN blocks
      /\ \A j \in DOMAIN blocks : j # i => blocks'[j] = blocks[j]
  BY <1>1
<1>4. \A q \in lent' : \E j \in DOMAIN blocks' : Holds(q, blocks'[j])
  <2>. SUFFICES ASSUME NEW q \in lent, q # r
       PROVE  \E j \in DOMAIN blocks' : Holds(q, blocks'[j])
    BY <1>2
  <2>1. PICK j \in DOMAIN blocks : Holds(q, blocks[j])
    BY DEF IInv, BlocksApart
  <2>2. j # i
    BY <1>1, <2>1 DEF Holds, IInv, BlocksApart
  <2>. QED
    BY <1>3, <2>1, <2>2
<1>5. BlocksApart'
  BY <1>2, <1>4 DEF IInv, Shape, BlocksApart, Holds, Start
<1>. QED
  BY <1>2, <1>5 DEF IInv, Shape, TypeOK

LEMMA InitHolds == ASSUME NoWrap, Init PROVE IInv
BY InitShape DEF Init, IInv, Shape, TypeOK, BlocksApart

LEMMA StepHolds == ASSUME NoWrap, IInv, [Next]_vars PROVE IInv'
<1>1. ASSUME NEW want \in SIZES, kmalloc(want) PROVE IInv'
  BY <1>1, ReuseHolds, ExtendHolds DEF kmalloc
<1>2. ASSUME NEW r \in lent, kfree(r) PROVE IInv'
  BY <1>2, FreeHolds
<1>3. CASE UNCHANGED vars
  BY <1>3 DEF vars, IInv, Shape, TypeOK, BlocksApart, BlocksDisjoint, Holds,
              Start, End
<1>. QED
  BY <1>1, <1>2, <1>3 DEF Next

THEOREM Invariance == ASSUME NoWrap PROVE Spec => []IInv
<1>1. Init => IInv
  BY InitHolds
<1>2. IInv /\ [Next]_vars => IInv'
  BY StepHolds
<1>. QED
  BY <1>1, <1>2, PTL DEF Spec

(* Blocks lie within the heap and apart from each other, and every caller  *)
(* holds one of its own that is as large as it asked for.                  *)
THEOREM BlocksStayApart ==
  ASSUME NoWrap PROVE Spec => [](TypeOK /\ BlocksApart)
<1>1. IInv => TypeOK /\ BlocksApart
  BY DEF IInv
<1>. QED
  BY <1>1, Invariance, PTL

-----------------------------------------------------------------------------
(***************************************************************************)
(* The heap implements the allocator.                                      *)
(***************************************************************************)
LEMMA LoanImplements ==
  ASSUME NEW want \in SIZES, want \in Nat, want # 0, NEW ptr \in Nat,
         Fresh(ptr, want), Lend(ptr, want)
  PROVE  Promise!Next
<1>1. Loan(ptr, want) \in Promise!Regions
  BY DEF Fresh, Loan, Promise!Regions
<1>2. Promise!Alloc(want)
  BY <1>1 DEF Fresh, Loan, Lend, Promise!Alloc
<1>. QED
  BY <1>2 DEF Promise!Next

LEMMA StepImplements ==
  ASSUME NoWrap, IInv, [Next]_vars
  PROVE  [Promise!Next]_lent
<1>1. ASSUME NEW want \in SIZES, kmalloc(want) PROVE Promise!Next
  <2>1. want \in Nat /\ want # 0
    BY <1>1, Enough DEF IInv, kmalloc, kmalloc_reuse, kmalloc_extend
  <2>2. \E ptr \in Nat : Fresh(ptr, want) /\ Lend(ptr, want)
    BY <1>1, ReuseHolds, ExtendHolds DEF kmalloc
  <2>. QED
    BY <2>1, <2>2, LoanImplements
<1>2. ASSUME NEW r \in lent, kfree(r) PROVE Promise!Next
  BY <1>2 DEF kfree, Promise!Next, Promise!Free
<1>3. CASE UNCHANGED vars
  BY <1>3 DEF vars
<1>. QED
  BY <1>1, <1>2, <1>3 DEF Next

(* Every behaviour of the heap is one of the allocator's: callers get      *)
(* memory of their own, aligned and enough, and the heap never lends what  *)
(* is still held.                                                          *)
THEOREM HeapIsAllocator == ASSUME NoWrap PROVE Spec => ImplementsAllocator
<1>1. Init => Promise!Init
  BY DEF Init, Promise!Init
<1>2. IInv /\ [Next]_vars => [Promise!Next]_lent
  BY StepImplements
<1>3. Spec => []IInv
  BY Invariance
<1>. QED
  BY <1>1, <1>2, <1>3, PTL DEF Spec, ImplementsAllocator, Promise!Spec

-----------------------------------------------------------------------------
(***************************************************************************)
(* No byte is lost.  The sums of AccountsForHeap are recursive functions   *)
(* over sets; the same numbers are the cardinalities of sets of bytes.     *)
(***************************************************************************)
(* The bytes of the memory of the blocks s, by block and position          *)
Bytes(b, s) ==
  {p \in (DOMAIN b) \X (1..WORD) : p[1] \in s /\ p[2] <= b[p[1]].size}

LEMMA SizeIs ==
  ASSUME NEW b \in Seq(Blocks), NEW i \in DOMAIN b
  PROVE  b[i].size \in Nat /\ b[i].size < WORD /\ i \in Nat
<1>1. b[i] \in Blocks /\ i \in Nat
  OBVIOUS
<1>2. WORD \in Nat \ {0}
  BY HeapAssumption
<1>. QED
  BY <1>1, <1>2 DEF Blocks, Words

LEMMA BytesFinite ==
  ASSUME NEW b \in Seq(Blocks), NEW s
  PROVE  IsFiniteSet(Bytes(b, s)) /\ Cardinality(Bytes(b, s)) \in Nat
<1>1. IsFiniteSet(DOMAIN b) /\ IsFiniteSet(1..WORD)
  <2>1. DOMAIN b = 1..Len(b) /\ Len(b) \in Int /\ WORD \in Int
    BY HeapAssumption
  <2>. QED
    BY <2>1, FS_Interval
<1>2. IsFiniteSet((DOMAIN b) \X (1..WORD))
  BY <1>1, FS_Product
<1>3. Bytes(b, s) \in SUBSET ((DOMAIN b) \X (1..WORD))
  BY DEF Bytes
<1>4. IsFiniteSet(Bytes(b, s))
  BY <1>2, <1>3, FS_Subset
<1>. QED
  BY <1>4, FS_CardinalityType

LEMMA BytesOfNone ==
  ASSUME NEW b
  PROVE  Cardinality(Bytes(b, {})) = 0
<1>1. Bytes(b, {}) = {}
  BY DEF Bytes
<1>. QED
  BY <1>1, FS_EmptySet

LEMMA BytesOfOneMore ==
  ASSUME NEW b \in Seq(Blocks), NEW s \in SUBSET DOMAIN b, NEW x \in s
  PROVE  Cardinality(Bytes(b, s)) = b[x].size + Cardinality(Bytes(b, s \ {x}))
<1>. DEFINE k == b[x].size
            A == Bytes(b, s \ {x})
            B == {x} \X (1..k)
<1>1. k \in Nat /\ k < WORD /\ x \in DOMAIN b /\ WORD \in Nat
  BY SizeIs, HeapAssumption
<1>2. IsFiniteSet(B) /\ Cardinality(B) = k
  <2>1. IsFiniteSet({x}) /\ Cardinality({x}) = 1
    BY FS_Singleton
  <2>2. IsFiniteSet(1..k) /\ Cardinality(1..k) = k
    <3>. HIDE DEF k
    <3>1. 1 \in Int /\ k \in Int
      BY <1>1
    <3>2. (IF 1 > k THEN 0 ELSE k - 1 + 1) = k
      BY <1>1
    <3>. QED
      BY <3>1, <3>2, FS_Interval
  <2>. DEFINE K == 1..k
              X == {x}
  <2>. HIDE DEF k, K, X
  <2>3. IsFiniteSet(X \X K) /\ Cardinality(X \X K) = Cardinality(X) * Cardinality(K)
    BY <2>1, <2>2, FS_Product DEF X, K
  <2>4. 1 * k = k
    BY <1>1
  <2>. QED
    BY <2>1, <2>2, <2>3, <2>4 DEF X, K
<1>3. Bytes(b, s) = A \cup B
  <2>1. ASSUME NEW p PROVE p \in Bytes(b, s) <=> p \in A \cup B
    <3>1. CASE p \in Bytes(b, s)
      <4>1. p \in (DOMAIN b) \X (1..WORD) /\ p[1] \in s /\ p[2] <= b[p[1]].size
        BY <3>1 DEF Bytes
      <4>2. CASE p[1] = x
        <5>1. p = <<p[1], p[2]>> /\ p[2] \in 1..k
          BY <1>1, <4>1, <4>2
        <5>2. <<x, p[2]>> \in B
          BY <5>1
        <5>. QED
          BY <3>1, <4>2, <5>1, <5>2
      <4>3. CASE p[1] # x
        BY <4>1, <4>3 DEF Bytes
      <4>. QED
        BY <3>1, <4>2, <4>3
    <3>2. CASE p \in A
      BY <3>2 DEF Bytes
    <3>3. CASE p \in B
      <4>1. p[1] = x /\ p[2] \in 1..k /\ p = <<p[1], p[2]>>
        BY <3>3
      <4>2. p[2] \in 1..WORD /\ p[2] <= k
        <5>. HIDE DEF k
        <5>. QED
          BY <1>1, <4>1
      <4>3. p \in (DOMAIN b) \X (1..WORD)
        BY <1>1, <4>1, <4>2
      <4>. QED
        BY <3>3, <4>1, <4>2, <4>3 DEF Bytes
    <3>. QED
      BY <3>1, <3>2, <3>3
  <2>. QED
    BY <2>1
<1>4. A \cap B = {}
  BY DEF Bytes
<1>5. IsFiniteSet(A) /\ Cardinality(A) \in Nat
  BY BytesFinite
<1>. HIDE DEF A, B, k
<1>6. Cardinality(A \cup B) = Cardinality(A) + Cardinality(B) - Cardinality(A \cap B)
  BY <1>2, <1>5, FS_Union
<1>7. Cardinality(A \cap B) = 0
  BY <1>4, FS_EmptySet
<1>8. Cardinality(Bytes(b, s)) = k + Cardinality(A)
  BY <1>1, <1>2, <1>3, <1>5, <1>6, <1>7
<1>. QED
  BY <1>8 DEF A, k

(* Of the sets of elements of a finite set that are in a collection, one   *)
(* has no other within it.                                                 *)
LEMMA SmallestOf ==
  ASSUME NEW D, IsFiniteSet(D), NEW Bad \in SUBSET SUBSET D, Bad # {}
  PROVE  \E s \in Bad : \A t \in Bad : t \subseteq s => t = s
<1>1. Bad \subseteq FiniteSubsetsOf(D)
  <2>1. ASSUME NEW s \in Bad PROVE s \in FiniteSubsetsOf(D)
    <3>1. s \in SUBSET D
      OBVIOUS
    <3>2. IsFiniteSet(s)
      BY <3>1, FS_Subset
    <3>. QED
      BY <3>1, <3>2 DEF FiniteSubsetsOf
  <2>. QED
    BY <2>1
<1>2. PICK s \in Bad : \A t \in Bad : <<t, s>> \notin StrictSubsetOrdering(D)
  BY <1>1, FS_StrictSubsetOrderingWellFounded, WFMin
<1>. QED
  BY <1>2 DEF StrictSubsetOrdering

(* The sum of the sizes of the blocks s is the number of their bytes.      *)
Sizes(b, S) == MapThenSumSet(LAMBDA i : b[i].size, S)

IsSum(iter, b, S) ==
  iter = [s \in SUBSET S |->
            IF s = {} THEN 0
            ELSE b[CHOOSE x \in s : TRUE].size
                   + iter[s \ {CHOOSE x \in s : TRUE}]]

LEMMA SizesIs ==
  ASSUME NEW b \in Seq(Blocks), NEW S \in SUBSET DOMAIN b
  PROVE  \E iter : IsSum(iter, b, S) /\ Sizes(b, S) = iter[S]
<1>. DEFINE g == [s \in SUBSET S |-> Cardinality(Bytes(b, s))]
<1>1. ASSUME NEW s \in SUBSET S
      PROVE  g[s] = IF s = {} THEN 0
                    ELSE b[CHOOSE x \in s : TRUE].size
                           + g[s \ {CHOOSE x \in s : TRUE}]
  <2>1. CASE s = {}
    BY <2>1, BytesOfNone
  <2>2. CASE s # {}
    <3>. DEFINE c == CHOOSE x \in s : TRUE
    <3>1. c \in s
      BY <2>2
    <3>. HIDE DEF c
    <3>2. s \ {c} \in SUBSET S /\ s \in SUBSET DOMAIN b
      OBVIOUS
    <3>3. Cardinality(Bytes(b, s)) = b[c].size + Cardinality(Bytes(b, s \ {c}))
      BY <3>1, <3>2, BytesOfOneMore
    <3>4. g[s] = b[c].size + g[s \ {c}]
      BY <3>2, <3>3
    <3>. QED
      BY <2>2, <3>4 DEF c
  <2>. QED
    BY <2>1, <2>2
<1>2. IsSum(g, b, S)
  <2>1. g = [s \in SUBSET S |-> g[s]]
    OBVIOUS
  <2>. HIDE DEF g
  <2>. QED
    BY <1>1, <2>1 DEF IsSum
<1>. HIDE DEF g
<1>3. Sizes(b, S) = (CHOOSE iter : IsSum(iter, b, S))[S]
  BY DEF Sizes, IsSum, MapThenSumSet, MapThenFoldSet
<1>4. IsSum(CHOOSE iter : IsSum(iter, b, S), b, S)
  BY <1>2
<1>. QED
  BY <1>3, <1>4

LEMMA SizesAreBytes ==
  ASSUME NEW b \in Seq(Blocks), NEW S \in SUBSET DOMAIN b
  PROVE  Sizes(b, S) = Cardinality(Bytes(b, S))
<1>1. PICK iter : IsSum(iter, b, S) /\ Sizes(b, S) = iter[S]
  BY SizesIs
<1>. DEFINE Bad == {s \in SUBSET S : iter[s] # Cardinality(Bytes(b, s))}
<1>2. IsFiniteSet(S)
  <2>1. DOMAIN b = 1..Len(b) /\ Len(b) \in Int
    OBVIOUS
  <2>2. IsFiniteSet(DOMAIN b)
    BY <2>1, FS_Interval
  <2>. QED
    BY <2>2, FS_Subset
<1>3. ASSUME Bad # {} PROVE FALSE
  <2>1. PICK s \in Bad : \A t \in Bad : t \subseteq s => t = s
    <3>1. Bad \in SUBSET SUBSET S
      OBVIOUS
    <3>. HIDE DEF Bad
    <3>. QED
      BY <1>2, <1>3, <3>1, SmallestOf
  <2>2. s \in SUBSET S /\ s \in SUBSET DOMAIN b
    OBVIOUS
  <2>3. s # {}
    <3>1. iter[{}] = 0
      BY <1>1 DEF IsSum
    <3>. QED
      BY <3>1, BytesOfNone
  <2>. DEFINE c == CHOOSE x \in s : TRUE
  <2>4. c \in s
    BY <2>3
  <2>5. iter[s] = b[c].size + iter[s \ {c}]
    BY <1>1, <2>2, <2>3 DEF IsSum
  <2>. HIDE DEF c
  <2>6. s \ {c} \notin Bad
    BY <2>1, <2>4
  <2>7. iter[s \ {c}] = Cardinality(Bytes(b, s \ {c}))
    BY <2>2, <2>6
  <2>8. Cardinality(Bytes(b, s)) = b[c].size + Cardinality(Bytes(b, s \ {c}))
    BY <2>2, <2>4, BytesOfOneMore
  <2>. QED
    BY <2>1, <2>5, <2>7, <2>8
<1>4. S \in SUBSET S
  OBVIOUS
<1>. QED
  BY <1>1, <1>3, <1>4

-----------------------------------------------------------------------------
Taken == {i \in DOMAIN blocks : ~ blocks[i].free}
Idle  == {i \in DOMAIN blocks : blocks[i].free}

(* Every block in use is held, and heap_brk has passed a header and the    *)
(* memory of every block.                                                  *)
Accounts ==
  /\ IsFiniteSet(lent)
  /\ Cardinality(lent) = Cardinality(Taken)
  /\ heap_brk - ALIGN4(HEAP_START) =
       Cardinality(Bytes(blocks, DOMAIN blocks)) + HEADER * Len(blocks)

LEMMA TakenFinite ==
  ASSUME blocks \in Seq(Blocks)
  PROVE  IsFiniteSet(Taken)
<1>1. DOMAIN blocks = 1..Len(blocks) /\ Len(blocks) \in Int
  OBVIOUS
<1>2. IsFiniteSet(DOMAIN blocks)
  BY <1>1, FS_Interval
<1>3. Taken \in SUBSET DOMAIN blocks
  BY DEF Taken
<1>. QED
  BY <1>2, <1>3, FS_Subset

(* The memory in use and the memory of the free blocks are all there is.   *)
LEMMA AccountsForAll ==
  ASSUME NoWrap, IInv, Accounts
  PROVE  AccountsForHeap
<1>1. blocks \in Seq(Blocks)
  BY DEF IInv, Shape
<1>. DEFINE T == Bytes(blocks, Taken)
            F == Bytes(blocks, Idle)
<1>2. /\ IsFiniteSet(T) /\ Cardinality(T) \in Nat
      /\ IsFiniteSet(F) /\ Cardinality(F) \in Nat
  BY <1>1, BytesFinite
<1>3. Bytes(blocks, DOMAIN blocks) = T \cup F /\ T \cap F = {}
  BY DEF Bytes, Taken, Idle
<1>4. /\ Sizes(blocks, Taken) = Cardinality(T)
      /\ Sizes(blocks, Idle) = Cardinality(F)
  <2>1. Taken \in SUBSET DOMAIN blocks /\ Idle \in SUBSET DOMAIN blocks
    BY DEF Taken, Idle
  <2>. QED
    BY <1>1, <2>1, SizesAreBytes
<1>. HIDE DEF T, F
<1>5. Cardinality(T \cup F) = Cardinality(T) + Cardinality(F) - Cardinality(T \cap F)
  BY <1>2, FS_Union
<1>6. Cardinality(T \cap F) = 0
  BY <1>3, FS_EmptySet
<1>7. Cardinality(Bytes(blocks, DOMAIN blocks)) = Cardinality(T) + Cardinality(F)
  <2>. DEFINE t == Cardinality(T)
              f == Cardinality(F)
              u == Cardinality(T \cup F)
  <2>1. t \in Nat /\ f \in Nat /\ u = t + f - 0
    BY <1>2, <1>5, <1>6
  <2>. HIDE DEF t, f, u
  <2>2. u = t + f
    BY <2>1
  <2>. QED
    BY <1>3, <2>2 DEF t, f, u
<1>8. heap_brk - ALIGN4(HEAP_START) =
        Cardinality(T) + HEADER * Len(blocks) + Cardinality(F)
  <2>1. Len(blocks) \in Nat /\ HEADER \in Nat
    BY <1>1 DEF HEADER
  <2>2. HEADER * Len(blocks) \in Nat
    BY <2>1 DEF HEADER
  <2>. QED
    BY <1>2, <1>7, <2>2 DEF Accounts
<1>9. heap_brk - ALIGN4(HEAP_START) =
        Sizes(blocks, Taken) + HEADER * Len(blocks) + Sizes(blocks, Idle)
  BY <1>4, <1>8
<1>10. Sizes(blocks, Taken) = mm_used
  BY DEF Sizes, mm_used, Taken
<1>11. /\ Sizes(blocks, Idle) =
            MapThenSumSet(LAMBDA i : blocks[i].size,
                          {i \in DOMAIN blocks : blocks[i].free})
  BY DEF Sizes, Idle
<1>12. Cardinality(lent) = Cardinality({i \in DOMAIN blocks : ~ blocks[i].free})
  BY DEF Accounts, Taken
<1>. QED
  BY <1>9, <1>10, <1>11, <1>12 DEF AccountsForHeap

LEMMA InitAccounts == ASSUME Init PROVE Accounts
<1>1. blocks = <<>> /\ DOMAIN blocks = {} /\ Len(blocks) = 0
  BY DEF Init
<1>2. Taken = {}
  BY <1>1 DEF Taken
<1>3. /\ IsFiniteSet(lent) /\ Cardinality(lent) = 0 /\ Cardinality(Taken) = 0
  BY <1>2, FS_EmptySet DEF Init
<1>4. Cardinality(Bytes(blocks, DOMAIN blocks)) = 0
  BY <1>1, BytesOfNone
<1>5. heap_brk - ALIGN4(HEAP_START) = 0
  <2>1. WORD \in Nat \ {0} /\ HEAP_START \in Nat
    BY HeapAssumption DEF Words
  <2>2. ALIGN4(HEAP_START) \in Int
    BY <2>1 DEF ALIGN4
  <2>. QED
    BY <2>2 DEF Init
<1>. QED
  BY <1>1, <1>3, <1>4, <1>5 DEF Accounts, HEADER

(* A block that changes hands keeps its bytes.                             *)
LEMMA FlagKeepsBytes ==
  ASSUME Shape, NEW i \in DOMAIN blocks, NEW flag \in BOOLEAN,
         blocks' = [blocks EXCEPT ![i].free = flag]
  PROVE  /\ Bytes(blocks, DOMAIN blocks)' = Bytes(blocks, DOMAIN blocks)
         /\ Len(blocks)' = Len(blocks)
         /\ Taken' = IF flag THEN Taken \ {i} ELSE Taken \cup {i}
<1>1. \A j \in DOMAIN blocks : blocks[j] \in Blocks
  BY DEF Shape
<1>2. /\ DOMAIN blocks' = DOMAIN blocks /\ Len(blocks)' = Len(blocks)
      /\ \A j \in DOMAIN blocks : /\ blocks'[j].size = blocks[j].size
                                  /\ j # i => blocks'[j] = blocks[j]
      /\ blocks'[i].free = flag
  BY <1>1 DEF Shape, Blocks
<1>3. Bytes(blocks, DOMAIN blocks)' = Bytes(blocks, DOMAIN blocks)
  BY <1>2 DEF Bytes
<1>4. Taken' = IF flag THEN Taken \ {i} ELSE Taken \cup {i}
  BY <1>2 DEF Taken
<1>. QED
  BY <1>2, <1>3, <1>4

(* What is lent from a fresh place was not lent before.                    *)
LEMMA LoanCounts ==
  ASSUME IsFiniteSet(lent), NEW ptr, NEW want, Fresh(ptr, want), Lend(ptr, want)
  PROVE  IsFiniteSet(lent') /\ Cardinality(lent') = Cardinality(lent) + 1
<1>1. lent' = lent \cup {Loan(ptr, want)}
  BY DEF Lend, Loan
<1>2. Loan(ptr, want) \notin lent
  BY DEF Fresh, Loan
<1>. QED
  BY <1>1, <1>2, FS_AddElement

LEMMA ReuseAccounts ==
  ASSUME NoWrap, IInv, Accounts, NEW want \in SIZES, kmalloc_reuse(want)
  PROVE  Accounts'
<1>1. PICK i \in DOMAIN blocks :
        /\ find_free(i, ALIGN4(want))
        /\ blocks' = [blocks EXCEPT ![i].free = FALSE]
        /\ Lend(Start(blocks[i]), want)
  BY DEF kmalloc_reuse
<1>2. want \in Nat /\ ALIGN4(want) \in Nat /\ want <= ALIGN4(want)
  BY Enough DEF IInv
<1>3. blocks[i].free /\ want <= blocks[i].size
  BY <1>1, <1>2, BlockIsTyped DEF find_free, Fits, IInv
<1>4. Fresh(Start(blocks[i]), want)
  BY <1>2, <1>3, ReuseIsFresh
<1>5. IsFiniteSet(lent') /\ Cardinality(lent') = Cardinality(lent) + 1
  BY <1>1, <1>4, LoanCounts DEF Accounts
<1>6. /\ Bytes(blocks, DOMAIN blocks)' = Bytes(blocks, DOMAIN blocks)
      /\ Len(blocks)' = Len(blocks)
      /\ Taken' = Taken \cup {i}
  BY <1>1, FlagKeepsBytes DEF IInv
<1>7. i \notin Taken
  BY <1>3 DEF Taken
<1>8. Cardinality(Taken') = Cardinality(Taken) + 1
  BY <1>6, <1>7, TakenFinite, FS_AddElement DEF IInv, Shape
<1>9. heap_brk' = heap_brk
  BY DEF kmalloc_reuse
<1>. QED
  BY <1>5, <1>6, <1>8, <1>9 DEF Accounts, ALIGN4

LEMMA ExtendAccounts ==
  ASSUME NoWrap, IInv, Accounts, NEW want \in SIZES, kmalloc_extend(want)
  PROVE  Accounts'
<1>. DEFINE k == ALIGN4(want)
            b == [at |-> heap_brk, size |-> k, free |-> FALSE]
            n == Len(blocks)
            D == 1..n
<1>1. /\ k \in Nat /\ heap_brk' = heap_brk + HEADER + k
      /\ blocks' = Append(blocks, b)
  BY Enough DEF IInv, kmalloc_extend
<1>2. IsFiniteSet(lent') /\ Cardinality(lent') = Cardinality(lent) + 1
  <2>1. Lend(heap_brk + HEADER, want) /\ Fresh(heap_brk + HEADER, want)
    BY ExtendIsFresh DEF kmalloc_extend
  <2>. QED
    BY <2>1, LoanCounts DEF Accounts
<1>3. blocks \in Seq(Blocks) /\ blocks' \in Seq(Blocks)
  BY ExtendHolds DEF IInv, Shape
<1>4. /\ n \in Nat /\ DOMAIN blocks = D /\ DOMAIN blocks' = 1..n + 1
      /\ Len(blocks)' = n + 1
      /\ \A j \in D : blocks'[j] = blocks[j]
      /\ blocks'[n + 1] = b
  <2>. HIDE DEF b
  <2>. QED
    BY <1>1, <1>3
<1>5. b.size = k /\ ~ b.free
  OBVIOUS
<1>. HIDE DEF b, k, n, D
<1>6. n + 1 \notin D /\ 1..n + 1 = D \cup {n + 1} /\ (1..n + 1) \ {n + 1} = D
  BY <1>4 DEF D
<1>7. Taken' = Taken \cup {n + 1} /\ n + 1 \notin Taken
  BY <1>4, <1>5, <1>6 DEF Taken
<1>8. Cardinality(Taken') = Cardinality(Taken) + 1
  BY <1>3, <1>7, TakenFinite, FS_AddElement
<1>9. Cardinality(Bytes(blocks, DOMAIN blocks)')
        = k + Cardinality(Bytes(blocks, DOMAIN blocks))
  <2>. DEFINE c == blocks'
              S == 1..n + 1
  <2>1. c \in Seq(Blocks) /\ S \in SUBSET DOMAIN c /\ n + 1 \in S
    BY <1>3, <1>4, <1>6
  <2>2. Cardinality(Bytes(c, S)) = c[n + 1].size + Cardinality(Bytes(c, S \ {n + 1}))
    <3>. HIDE DEF c, S
    <3>. QED
      BY <2>1, BytesOfOneMore
  <2>3. Bytes(c, D) = Bytes(blocks, D)
    BY <1>4, <1>6 DEF Bytes
  <2>. QED
    BY <1>4, <1>5, <1>6, <2>2, <2>3 DEF Bytes
<1>10. heap_brk' - ALIGN4(HEAP_START) =
         Cardinality(Bytes(blocks, DOMAIN blocks)') + HEADER * Len(blocks)'
  <2>1. /\ heap_brk - ALIGN4(HEAP_START) =
             Cardinality(Bytes(blocks, DOMAIN blocks)) + HEADER * n
        /\ Cardinality(Bytes(blocks, DOMAIN blocks)) \in Nat
    BY <1>3, BytesFinite DEF Accounts, n
  <2>2. heap_brk \in Int /\ ALIGN4(HEAP_START) \in Int
    <3>1. WORD \in Nat \ {0} /\ HEAP_START \in Nat
      BY HeapAssumption DEF Words
    <3>. QED
      BY <3>1 DEF ALIGN4, IInv, Shape, Words
  <2>3. HEADER = 12
    BY DEF HEADER
  <2>4. HEADER * (n + 1) = HEADER * n + HEADER
    BY <1>4, <2>3
  <2>5. HEADER * n \in Nat
    BY <1>4, <2>3
  <2>. DEFINE card == Cardinality(Bytes(blocks, DOMAIN blocks))
              h == HEADER * n
              a == ALIGN4(HEAP_START)
              w == HEADER
  <2>6. /\ card \in Nat /\ h \in Nat /\ a \in Int /\ w \in Nat
        /\ k \in Nat /\ heap_brk \in Int
        /\ heap_brk' = heap_brk + w + k
        /\ heap_brk - a = card + h
        /\ HEADER * (n + 1) = h + w
        /\ Cardinality(Bytes(blocks, DOMAIN blocks)') = k + card
    BY <1>1, <1>9, <2>1, <2>2, <2>3, <2>4, <2>5
  <2>7. HEADER * Len(blocks)' = HEADER * (n + 1)
    BY <1>4
  <2>. HIDE DEF HEADER, card, h, a, w
  <2>8. heap_brk' - a = (k + card) + (h + w)
    BY <2>6
  <2>. QED
    BY <2>6, <2>7, <2>8 DEF a
<1>. QED
  BY <1>2, <1>8, <1>10 DEF Accounts, ALIGN4

LEMMA FreeAccounts ==
  ASSUME IInv, Accounts, NEW r \in lent, kfree(r)
  PROVE  Accounts'
<1>1. PICK i \in DOMAIN blocks :
        /\ Start(blocks[i]) = r.ptr
        /\ blocks' = [blocks EXCEPT ![i].free = TRUE]
  BY DEF kfree
<1>2. Shape
  BY DEF IInv
<1>3. /\ Bytes(blocks, DOMAIN blocks)' = Bytes(blocks, DOMAIN blocks)
      /\ Len(blocks)' = Len(blocks)
      /\ Taken' = Taken \ {i}
  BY <1>1, <1>2, FlagKeepsBytes
<1>4. i \in Taken
  <2>1. PICK j \in DOMAIN blocks : Holds(r, blocks[j])
    BY DEF IInv, BlocksApart
  <2>2. Start(blocks[i]) = Start(blocks[j]) /\ ~ blocks[j].free
    BY <1>1, <2>1 DEF Holds
  <2>3. i = j
    <3>. SUFFICES ASSUME i # j PROVE FALSE
      OBVIOUS
    <3>1. \/ Start(blocks[i]) + blocks[i].size <= blocks[j].at
          \/ Start(blocks[j]) + blocks[j].size <= blocks[i].at
      BY <1>2, BlocksOrdered
    <3>2. /\ blocks[i].at \in Nat /\ blocks[i].size \in Nat
          /\ Start(blocks[i]) = blocks[i].at + 12
          /\ blocks[j].at \in Nat /\ blocks[j].size \in Nat
          /\ Start(blocks[j]) = blocks[j].at + 12
      BY <1>2, BlockIsTyped
    <3>. DEFINE x == blocks[i].at
                y == blocks[j].at
                m == blocks[i].size
                l == blocks[j].size
    <3>3. /\ x \in Nat /\ y \in Nat /\ m \in Nat /\ l \in Nat
          /\ x + 12 = y + 12
          /\ x + 12 + m <= y \/ y + 12 + l <= x
      BY <2>2, <3>1, <3>2
    <3>. HIDE DEF x, y, m, l
    <3>. QED
      BY <3>3
  <2>. QED
    BY <2>2, <2>3 DEF Taken
<1>5. IsFiniteSet(lent') /\ Cardinality(lent') = Cardinality(lent) - 1
  BY FS_RemoveElement DEF kfree, Accounts
<1>6. Cardinality(Taken') = Cardinality(Taken) - 1
  BY <1>2, <1>3, <1>4, TakenFinite, FS_RemoveElement DEF Shape
<1>7. heap_brk' = heap_brk
  BY DEF kfree
<1>. QED
  BY <1>3, <1>5, <1>6, <1>7 DEF Accounts, ALIGN4

LEMMA StepAccounts ==
  ASSUME NoWrap, IInv, Accounts, [Next]_vars
  PROVE  Accounts'
<1>1. ASSUME NEW want \in SIZES, kmalloc(want) PROVE Accounts'
  BY <1>1, ReuseAccounts, ExtendAccounts DEF kmalloc
<1>2. ASSUME NEW r \in lent, kfree(r) PROVE Accounts'
  BY <1>2, FreeAccounts
<1>3. CASE UNCHANGED vars
  BY <1>3 DEF vars, Accounts, Taken, Bytes
<1>. QED
  BY <1>1, <1>2, <1>3 DEF Next

(* No byte of the heap is lost, and no block is in use that no caller      *)
(* holds.                                                                  *)
THEOREM NothingLost == ASSUME NoWrap PROVE Spec => []AccountsForHeap
<1>1. Init => IInv /\ Accounts
  BY InitHolds, InitAccounts
<1>2. IInv /\ Accounts /\ [Next]_vars => IInv' /\ Accounts'
  BY StepHolds, StepAccounts
<1>3. IInv /\ Accounts => AccountsForHeap
  BY AccountsForAll
<1>. QED
  BY <1>1, <1>2, <1>3, PTL DEF Spec
=============================================================================
