--------------------------- MODULE MCPresentations --------------------------
(* Instances of Presentations for TLC. *)
EXTENDS Presentations, TLC

CONSTANTS p1, p2

MCLifetime == [p \in Presentations |-> IF p = p1 THEN 1 ELSE 2]

RequestSymmetry == Permutations(Requests)
=============================================================================
