------------------------- MODULE MCCredentialStatus -------------------------
(* Instances of CredentialStatus for TLC. *)
EXTENDS CredentialStatus, TLC

OperatorSymmetry == Permutations(Operators)
=============================================================================
