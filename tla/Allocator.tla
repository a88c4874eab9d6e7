------------------------------ MODULE Allocator ------------------------------
(***************************************************************************)
(* What kmalloc and kfree of kernel/mm.c promise their caller: memory of   *)
(* the heap, aligned, as much as was asked for, and nobody else's until it *)
(* is given back.                                                          *)
(***************************************************************************)
EXTENDS Integers

CONSTANTS
  HEAP_START, HEAP_END,   (* the memory of the heap, the end exclusive     *)
  SIZES                   (* what callers ask for                          *)

VARIABLE lent             (* the regions callers hold                      *)

Regions == [ptr : HEAP_START..HEAP_END, size : SIZES]

Apart(r, q) == \/ r.ptr + r.size <= q.ptr
               \/ q.ptr + q.size <= r.ptr

Init == lent = {}

Alloc(want) ==
  \E r \in Regions :
    /\ r.size = want
    /\ r.ptr % 4 = 0
    /\ r.ptr + want <= HEAP_END
    /\ \A q \in lent : Apart(r, q) /\ q.ptr # r.ptr
    /\ lent' = lent \cup {r}

Free(r) == lent' = lent \ {r}

Next == \/ \E want \in SIZES : want > 0 /\ Alloc(want)
        \/ \E r \in lent : Free(r)

Spec == Init /\ [][Next]_lent
=============================================================================
