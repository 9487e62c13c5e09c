----------------------------- MODULE MCIssuances ----------------------------
(* Instances of Issuances for TLC. *)
EXTENDS Issuances, TLC

HandlerSymmetry == Permutations(Handlers)
=============================================================================
