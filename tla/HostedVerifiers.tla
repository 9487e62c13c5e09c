--------------------------- MODULE HostedVerifiers ---------------------------
(***************************************************************************)
(* The demonstration Relying Party (apps/demo-bank/src/main.ts): its three *)
(* sites start a same-device presentation for a visitor and show what the  *)
(* platform says of it. It shares the visitors' windows, the wallet's      *)
(* return and the platform with HostedForms.                               *)
(***************************************************************************)
EXTENDS HostedForms

-----------------------------------------------------------------------------
(* Pages *)

(* What the site has received, or what it makes of it: an age, a discount.  *)
RenderResult(policy, p) ==
  [Page("result") EXCEPT !.site = "verifier", !.policy = policy, !.presentation = p,
                         !.shows = IF HasClaims(p) THEN p ELSE 0]

-----------------------------------------------------------------------------
(* POST /verificar *)
Verificar(v) ==
  /\ day.errand[v] \in HostedVerifierPolicies /\ RoomToStart
  /\ \E at \in {"app", "failure"} :
       Press(v, at, "start", [NoLocals EXCEPT !.for = "start", !.policy = day.errand[v]])

StartAtPlatform(v) ==
  /\ pc[v] = "start"
  /\ LET policy == loc[v].policy
         p == Len(presentations) + 1
     IN IF MayStart(policy, "SAME_DEVICE")
        THEN /\ StartVerification(v, policy, "SAME_DEVICE")
             /\ \E answered \in Answered :
                  /\ Respond(v, IF answered THEN RenderOpenWallet("verifier", policy, 0, p)
                                ELSE RenderFailure)
                  /\ CountTrouble(answered)
        ELSE Respond(v, RenderFailure) /\ UNCHANGED <<presentations, returns, trouble>>
  /\ UNCHANGED <<requests, held, accepted, day>>

(* GET /resultado *)
ReadResult(v) ==
  /\ pc[v] = "result"
  /\ LET policy == loc[v].policy
         p == loc[v].presentation
         status == Outcome(policy, p)
     IN \/ status \in NON_TERMINAL /\ Respond(v, RenderWaiting("verifier", policy, 0, p))
        \/ status = "VERIFIED" /\ Respond(v, RenderResult(policy, p))
        \/ status \notin NON_TERMINAL \cup {"VERIFIED"} /\ Respond(v, RenderFailure)
  /\ UNCHANGED <<platform, day, trouble>>
=============================================================================
