--------------------------- MODULE MCTschLinkLayer ---------------------------
(* More senders than the receiver's history has entries.                     *)
EXTENDS TschLinkLayer

Symmetry == Permutations(Senders)
=============================================================================
