-------------------------------- MODULE MCHeap --------------------------------
(***************************************************************************)
(* A heap for up to four blocks, and requests below, at and above the      *)
(* smallest size of a block.                                               *)
(***************************************************************************)
EXTENDS Heap
=============================================================================
