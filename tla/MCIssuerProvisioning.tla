------------------------ MODULE MCIssuerProvisioning ------------------------
(***************************************************************************)
(* Instances of IssuerProvisioning for TLC: one credential type kept on a  *)
(* status list, one policy whose versions are gated on a presentation or   *)
(* not, a second provider that may claim the same engine tenant.           *)
(***************************************************************************)
EXTENDS IssuerProvisioning

CONSTANTS a1, t1, g1

Claim(path, valueType, mandatory) ==
  [path |-> path, displayed |-> TRUE, mandatory |-> mandatory, valueType |-> valueType]

Type(claims) ==
  [format |-> "dc+sd-jwt", vct |-> TRUE, doctype |-> FALSE, rulebook |-> TRUE, edition |-> TRUE,
   published |-> FALSE, anchors |-> "RULEBOOK_ONLY", claims |-> claims, displayed |-> TRUE,
   validity |-> 100, status |-> "TOKEN_STATUS_LIST", bound |-> TRUE, schema |-> None,
   provider |-> a1]

MCTypeRows == {Type(<<Claim(<<"degree">>, "string", TRUE)>>)}

Version(gate, flow) ==
  [type |-> t1, purpose |-> TRUE, evaluator |-> "always", connector |-> "register",
   binding |-> "KEY_BOUND", flow |-> flow, validity |-> 90, listed |-> TRUE, suspends |-> TRUE,
   lead |-> None, gate |-> gate]

MCBodies ==
  {Version(None, "PRE_AUTHORIZED_CODE"), Version(g1, "AUTHORIZATION_CODE"),
   Version(g1, "PRE_AUTHORIZED_CODE"),
   [Version(None, "PRE_AUTHORIZED_CODE") EXCEPT !.validity = 200]}

MCProvisionInputs == {[access |-> TRUE, certified |-> TRUE], [access |-> FALSE, certified |-> FALSE]}

Street == <<"address", "street">>
City == <<"address", "city">>

MCExamples ==
  MCTypeRows \cup
  {Type(<<Claim(Street, "string", TRUE), Claim(City, "string", FALSE)>>),
   Type(<<Claim(<<"street">>, "string", FALSE), Claim(Street, "string", FALSE)>>),
   Type(<<Claim(<<"address">>, "string", FALSE), Claim(City, "string", FALSE)>>),
   Type(<<Claim(<<"nationalities">>, "string[]", TRUE), Claim(<<"age">>, "integer", FALSE)>>)}

Leaf(path, kind) == [path |-> path, kind |-> kind]

MCSources ==
  SUBSET {Leaf(Street, "text"), Leaf(City, "date"), Leaf(<<"street">>, "text"),
          Leaf(<<"age">>, "fraction")}
    \cup {{Leaf(<<"nationalities">>, kind), Leaf(<<"age">>, "whole"), Leaf(<<"iban">>, "text")} :
           kind \in {"texts", "empty", "null", "text"}}
    \cup {{Leaf(<<"address">>, "text")}, {Leaf(<<"degree">>, "text"), Leaf(City, "null")}}

Symmetry == Permutations(Clients) \cup Permutations(EngineTenants)
=============================================================================
