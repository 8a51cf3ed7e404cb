----------------------------- MODULE MCSixpTrans -----------------------------
(* Two nodes that may both start transactions, of two and of three steps.    *)
EXTENDS SixpTrans

Symmetry == Permutations(Nodes)
=============================================================================
