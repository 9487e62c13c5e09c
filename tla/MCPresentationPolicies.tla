----------------------- MODULE MCPresentationPolicies -----------------------
(***************************************************************************)
(* Instances of PresentationPolicies for TLC: one PID held as an SD-JWT or *)
(* as an mdoc, a diploma with an array of objects, and policy bodies that  *)
(* are valid, ask for too much, or read what they do not ask for.          *)
(***************************************************************************)
EXTENDS PresentationPolicies, TLC

MCMembers == {"ns", "name", "birth", "home", "town", "a", "b", "degrees", "title", "grade"}
               \cup Envelope \cup UniqueElements
MCIndexes == {"0", "1"}

Birth(y, m, d) == [year |-> y, month |-> m, day |-> d]
MCToday == Birth(2026, 6, 15)

MCDateOf == [v \in {"2008-06-15", "2008-06-16", "1990-01-01", "2026-06-15", "2030-01-01"} |->
               CASE v = "2008-06-15" -> Birth(2008, 6, 15)
                 [] v = "2008-06-16" -> Birth(2008, 6, 16)
                 [] v = "1990-01-01" -> Birth(1990, 1, 1)
                 [] v = "2026-06-15" -> MCToday
                 [] v = "2030-01-01" -> Birth(2030, 1, 1)]
MCValues == {"Ann", "Rome", "MSc", "A", "some", "unknown", "", "null"} \cup DOMAIN MCDateOf

Pid(claims) == [format |-> "dc+sd-jwt", types |-> {"pid"}, claims |-> claims]
PidDoc(claims) == [format |-> "mso_mdoc", types |-> {"pid"}, claims |-> claims]
Diploma(claims) == [format |-> "dc+sd-jwt", types |-> {"diploma"}, claims |-> claims]

MCRegistrations ==
  {{Pid({<<"name">>, <<"birth">>, <<"iat">>, <<"salt">>, <<"home">>}),
    PidDoc({<<"ns">>}),
    Diploma({<<"degrees", "*">>, <<"name">>})}}

Body(type, formats, claims, result) ==
  [requirements |-> {[type |-> type, formats |-> formats]}, claims |-> claims,
   result |-> result,
   anchors |-> {[list |-> "pid-list", domain |-> "PID_PROVIDER"],
                [list |-> "access-list", domain |-> "ACCESS_CERTIFICATE_PROVIDER"]},
   english |-> TRUE, lifetime |-> 120]

Allow(paths) == [kind |-> "VERIFIED_CLAIMS", allowed |-> paths]
Derived(derivations) == [kind |-> "DERIVED_CLAIMS", derivations |-> derivations]

AgeFrom(source) == [name |-> "AgeAtLeast", source |-> source, minimum |-> 18, output |-> "over_18"]
Presence(source, output) == [name |-> "ClaimPresence", source |-> source, output |-> output]
IsAnn(source) == [name |-> "ClaimInSet", source |-> source, allowed |-> {{<<"Ann">>}}, output |-> "ann"]

SdJwt(claims, result) == Body("pid", {"dc+sd-jwt"}, claims, result)
Mdoc(claims, result) == Body("pid", {"mso_mdoc"}, claims, result)
OfDegrees(claims, result) == Body("diploma", {"dc+sd-jwt"}, claims, result)

Returning(body(_, _), claims) == body(claims, Allow(claims))

AgePolicy == SdJwt({<<"birth">>}, Derived({AgeFrom(<<"birth">>)}))
NamePolicy == Returning(Mdoc, {<<"ns", "name">>})
GreedyPolicy == SdJwt({<<"birth">>, <<"degrees", "0">>}, Derived({AgeFrom(<<"birth">>)}))
TitlePolicy == Returning(OfDegrees, {<<"degrees", "*", "title">>})

MCBodies == {AgePolicy, NamePolicy, GreedyPolicy}

(* Valid or not, of every kind of claim and of derivation, read where it is *)
(* disclosed, lost with the envelope, stripped, or not asked for at all.    *)
MCExamples ==
  MCBodies \cup {TitlePolicy}
    \cup {Returning(SdJwt, claims) :
             claims \in {{<<"name">>}, {<<"iat">>}, {<<"iat">>, <<"name">>}, {<<"salt">>, <<"name">>},
                         {<<"home">>}, {<<"home", "town">>}, {<<"home", "salt">>}}}
    \cup {Returning(Mdoc, claims) :
             claims \in {{<<"ns", "name">>, <<"ns", "birth">>}, {<<"ns", "nbf">>},
                         {<<"ns", "nbf">>, <<"ns", "name">>}, {<<"ns", "salt">>}}}
    \cup {Returning(OfDegrees, claims) :
             claims \in {{<<"degrees", "0">>}, {<<"degrees", "*">>}, {<<"degrees", "0", "title">>},
                         {<<"degrees", "*", "title">>, <<"name">>}}}
    \cup {SdJwt({<<"name">>, <<"birth">>, <<"iat">>, <<"home">>}, Derived(derivations)) :
             derivations \in {{AgeFrom(<<"birth">>), IsAnn(<<"name">>)},
                              {AgeFrom(<<"name">>)}, {AgeFrom(<<"home">>)},
                              {IsAnn(<<"birth">>), Presence(<<"home">>, "home")},
                              {Presence(<<"iat">>, "issued")},
                              {Presence(<<"name">>, "status"), Presence(<<"home">>, "name")},
                              {AgeFrom(<<"birth">>), Presence(<<"name">>, "over_18")},
                              {AgeFrom(<<"ns">>)}}}
    \cup {Mdoc({<<"ns", "name">>, <<"ns", "birth">>}, Derived({AgeFrom(<<"ns", "birth">>)})),
          Body("pid", Formats, {<<"birth">>}, Derived({AgeFrom(<<"birth">>)})),
          OfDegrees({<<"degrees", "*">>}, Derived({Presence(<<"degrees", "*">>, "graduate")})),
          [AgePolicy EXCEPT !.anchors = {}], [AgePolicy EXCEPT !.lifetime = 300]}

TitleBodies == {TitlePolicy}

(* The attestations: an SD-JWT is disclosed whole or claim by claim. *)
Held(format, type, document, whole) ==
  [format |-> format, type |-> type, document |-> document, whole |-> whole]

Home == {<<"home", "town", "Rome">>, <<"home", "salt", "some">>,
         <<"home", "a", "a", "a", "a", "a", "a", "b", "some">>,
         <<"home", "a", "a", "a", "a", "a", "a", "a", "a", "some">>}

PidOf(name, birth) ==
  {<<"name", name>>, <<"birth", birth>>, <<"iat", "some">>, <<"salt", "some">>,
   <<"status", "a", "some">>} \cup Home

Degrees == {<<"name", "Ann">>,
            <<"degrees", "0", "title", "MSc">>, <<"degrees", "0", "grade", "A">>,
            <<"degrees", "0", "status", "some">>,
            <<"degrees", "1", "title", "MSc">>, <<"degrees", "1", "grade", "A">>}

InNamespace(name, birth) ==
  {<<"ns", "name", name>>, <<"ns", "birth", birth>>, <<"ns", "nbf", "some">>,
   <<"ns", "salt", "a", "some">>}

MCHolders ==
  {Held("dc+sd-jwt", "pid", {<<"name", "Ann">>, <<"birth", "2008-06-15">>, <<"status", "some">>}, TRUE),
   Held("dc+sd-jwt", "pid", {<<"birth", "unknown">>}, FALSE),
   Held("mso_mdoc", "pid", {<<"ns", "name", "Ann">>, <<"ns", "birth", "2008-06-16">>}, FALSE),
   Held("dc+sd-jwt", "diploma", Degrees, TRUE)}

MCOtherHolders ==
  {Held("dc+sd-jwt", "pid", PidOf("Ann", "2008-06-15"), TRUE),
   Held("dc+sd-jwt", "pid", PidOf("unknown", "2008-06-16"), FALSE),
   Held("dc+sd-jwt", "pid", PidOf("", "unknown"), FALSE),
   Held("dc+sd-jwt", "pid", PidOf("Ann", "2030-01-01"), FALSE),
   Held("mso_mdoc", "pid", InNamespace("Ann", "2008-06-16"), FALSE),
   Held("mso_mdoc", "pid", InNamespace("null", "1990-01-01"), FALSE),
   Held("dc+sd-jwt", "diploma", Degrees, TRUE)}

Symmetry == Permutations(Clients) \cup Permutations(EngineTenants)
=============================================================================
