------------------------- MODULE MCRegistrationChain -------------------------
(***************************************************************************)
(* Instances of RegistrationChain for TLC: an entity file as the example   *)
(* has it, one that fails its schema, and one that is filled in.           *)
(***************************************************************************)
EXTENDS RegistrationChain, TLC

Filled == [s \in Sections |-> "good"]

MCEntityFiles ==
  {[Filled EXCEPT !["provider"] = "placeholder"], [Filled EXCEPT !["law"] = "invalid"],
   [Filled EXCEPT !["walletRelyingParty"] = "unlisted"]}
=============================================================================
