---------------------------- MODULE MCRingBufIndex ----------------------------
(* RingBufIndex with an array of four elements and two values: the pointers  *)
(* wrap, the buffer fills and empties, and the contents can be told apart.   *)
EXTENDS RingBufIndex
=============================================================================
