-------------------------- MODULE MCTschAssociation --------------------------
(* A node with two neighbors, either of which can be its time source.        *)
EXTENDS TschAssociation
=============================================================================
