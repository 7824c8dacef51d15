------------------------------ MODULE QueueMC ------------------------------
(* Queue for TLC: the arguments of -m, and the symmetry of the workers.    *)
EXTENDS QueueRefinement, TLC

CONSTANTS w1, w2, w3

NoMax == [w \in Workers |-> 0]
OneEach == [w \in Workers |-> 1]
OnlyW2 == [w \in Workers |-> IF w = w2 THEN 1 ELSE 0]

Symmetry == Permutations(Workers)
=============================================================================
