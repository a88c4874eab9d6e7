------------------------------- MODULE MCHeap --------------------------------
(* A heap of 74 bytes, not aligned at either end, in a memory of 128:      *)
(* room for four blocks.                                                   *)
EXTENDS Heap

MCSizes == {0, 1, 4, 5, 12}

ASSUME RequestsDoNotWrap == NoWrap
=============================================================================
