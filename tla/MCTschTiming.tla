----------------------------- MODULE MCTschTiming -----------------------------
(* TschTiming with small words, so that the rtimer and both parts of the ASN *)
(* wrap several times.                                                       *)
EXTENDS TschTiming

MCDivisors == 1 .. 4
MCDrifts == {-1, 0, 1}
=============================================================================
