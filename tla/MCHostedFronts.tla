--------------------------- MODULE MCHostedFronts ---------------------------
(***************************************************************************)
(* Instances of HostedFronts for TLC: days on which two people come for    *)
(* different things, and samples for the rules of the fronts.              *)
(***************************************************************************)
EXTENDS HostedFronts, TLC

MCVisitors == {"ana", "luis"}

Day(a, b, presented, most, time) ==
  [errand |-> [v \in MCVisitors |-> IF v = "ana" THEN a ELSE b],
   presentations |-> presented, trouble |-> most, time |-> time]

MCDays ==
  {Day("none", "none", 0, 0, FALSE), Day("rep", "rep", 2, 0, TRUE), Day("pid", "other", 0, 2, TRUE),
   Day("rep", "none", 2, 2, TRUE), Day("shop", "none", 2, 2, TRUE), Day("loan", "none", 3, 0, FALSE),
   Day("account", "none", 2, 1, FALSE), Day("account", "none", 1, 1, TRUE)}

(* Times do not go back. *)
InOrder(calls, at(_)) == \A n \in 1..Len(calls) - 1 : at(calls[n]) <= at(calls[n + 1])

Client(cf) == [cf |-> cf, socket |-> "tunnel"]

MCTakes == {c \in [1..4 -> {Client("a"), Client("b"), Client("none")} \X (0..2)] : InOrder(c, LAMBDA x : x[2])}

MCAsked == {<<1>>, <<1, 2>>, <<2, 1, 3>>}
MCTokens == {MacOf(key, id) : key \in {"now", "before"}, id \in 1..3}

MCLinks ==
  {MintStartToken("haip:", nonce, 0, 2) : nonce \in {"n1", "n2"}}
  \cup {MintStartToken("https:", "n3", 0, 2), [MintStartToken("haip:", "n4", 0, 2) EXCEPT !.signed = FALSE]}

MCStartVisits == {c \in [1..4 -> MCLinks \X (0..2)] : InOrder(c, LAMBDA x : x[2])}

Call(call, id, of, at) == [call |-> call, id |-> id, of |-> of, at |-> at]

MCCaseCalls ==
  {c \in [1..4 -> UNION {{Call("expect", 1, "loan", at), Call("identity", 1, 0, at), Call("identity", 2, 0, at),
                          Call("identity", 3, 0, at), Call("link", 4, 1, at), Call("income", 4, 0, at),
                          Call("declare", 1, "account", at)} : at \in 0..1}] :
     InOrder(c, LAMBDA x : x.at)}

MCSent ==
  [method : {"GET", "POST", "PUT"},
   endpoint : {"authorize", "token", "credential", "oid4vp", "issuer-metadata", "return"}
                \cup {probe[2] : probe \in NEGATIVE_PROBES},
   tenant : {"pid-1", "free"}, requestUri : 0..1,
   pass : {NoPass, HostedFormAuthorizePass("pid-1", 1), HostedFormAuthorizePass("pid-1", 2)}]

MCAnswers ==
  [status : {200, 302, 400}, json : BOOLEAN,
   keys : SUBSET {"statusCode", "authorization_details", "attestation", "error"}]

Row(id, tenant, at, parent) ==
  [id |-> id, tenant |-> tenant, at |-> at, name |-> "row", parent |-> parent, state |-> "active",
   published |-> {1, 2}, result |-> "claims", session |-> "session"]

MCRows == {Row(1, "t1", 1, 1), Row(2, "t1", 1, 0), Row(3, "t1", 2, 1), Row(4, "t2", 1, 1), Row(5, "t1", 1, 1)}
=============================================================================
