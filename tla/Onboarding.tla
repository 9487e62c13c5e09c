----------------------------- MODULE Onboarding ------------------------------
(***************************************************************************)
(* The bank's onboarding demonstration (apps/demo-onboarding): the page's  *)
(* script (client.ts), which starts presentations, polls them and walks    *)
(* through its screens, and the server behind it (main.ts), which keeps    *)
(* the back office's case book. An account takes one presentation, a loan  *)
(* a second one, of an income certificate. The script's fetches are under  *)
(* way next to each other and next to its timers, and an answer is settled *)
(* whatever screen it finds. The recorded fallback is left out.            *)
(***************************************************************************)
EXTENDS HostedVerifiers

VARIABLES
  desk,      \* the page each visitor has open: screen, data, timers
  fetches,   \* its calls of the server that are under way
  session,   \* localStorage: the PID presentation of a loan, 0 if none
  book       \* the server's CaseBook

onboarding == <<desk, fetches, session, book>>

(* The bounds on presentations of the two kinds of fronts are apart.        *)
ASSUME OnboardingAssumption ==
  \A d \in Days : (\E v \in Visitors : d.errand[v] \in {"account", "loan"}) =>
    \A v \in Visitors : d.errand[v] \in {"account", "loan", "none"}

BookRule == [max |-> 2, ttl |-> 1]

IsLoan(v) == day.errand[v] = "loan"

Onboards(v) == day.errand[v] \in {"account", "loan"}

PolicyFor(kind) == IF kind = "pid" THEN "onboarding" ELSE "income"

(* shown is the presentation whose QR or link is on the screen; data and    *)
(* income are those whose claims the page holds; polling and later are its  *)
(* timers.                                                                  *)
NewDesk == [screen |-> "product", kind |-> "pid", mode |-> "none", shown |-> 0, pid |-> 0,
            data |-> 0, income |-> 0, polling |-> {}, later |-> {}]

(* A fetch is served once, then its answer is on its way to the page.       *)
Fetch(call, kind, id) ==
  [call |-> call, kind |-> kind, mode |-> "none", pid |-> 0, id |-> id, answer |-> "none", stale |-> FALSE]

(* stale: of a connect whose screen is gone. *)
Polling(kind, id, stale) == [kind |-> kind, id |-> id, stale |-> stale]

Set(v, d) == desk' = [desk EXCEPT ![v] = d]

StopTimers(d) == [d EXCEPT !.polling = {}, !.later = {}]

(* screen(): the timers of the last screen stop, its fetches do not.        *)
Screen(d, screen) == [StopTimers(d) EXCEPT !.screen = screen, !.shown = 0]

Fetching(v, f, more) == fetches' = [fetches EXCEPT ![v] = (@ \ {f}) \cup more]

(* The fetches of the screen that is left go on. *)
Leave(v, more) ==
  fetches' = [fetches EXCEPT ![v] = {[f EXCEPT !.stale = TRUE] : f \in @} \cup more]

(* fail(): of a screen that is gone, it only stops the timers. *)
Fail(v, f) == Set(v, IF f.stale THEN StopTimers(desk[v]) ELSE Screen(desk[v], "failed"))

-----------------------------------------------------------------------------
(* The script: connect, its answers and its timers *)

MayConnect(v, kind) ==
  LET d == desk[v] IN
  \/ kind = "pid" /\ d.screen = "product"
  \/ kind = "ingresos" /\ d.screen = "received" /\ IsLoan(v)
  \/ kind = d.kind /\ d.screen = "failed"
  \/ kind = d.kind /\ d.screen = "connect" /\ d.shown # 0

RoomToConnect ==
  Len(presentations) + Cardinality({u \in Visitors : \E f \in fetches[u] : f.call = "start" /\ f.answer = "none"})
    < day.presentations

Connect(v) ==
  /\ Onboards(v) /\ RoomToConnect
  /\ \E kind \in {"pid", "ingresos"}, mode \in {"QR", "SAME_DEVICE"} :
       /\ MayConnect(v, kind)
       /\ Set(v, [Screen(desk[v], "connect") EXCEPT !.kind = kind, !.mode = mode])
       /\ Leave(v, {[Fetch("start", kind, 0) EXCEPT !.mode = mode, !.pid = desk[v].pid]})
  /\ session' = IF IsLoan(v) /\ desk[v].screen = "product" THEN [session EXCEPT ![v] = desk[v].pid] ELSE session
  /\ UNCHANGED <<platform, fronts, book>>

(* POST /api/presentaciones *)
ServeStart(v, f) ==
  /\ f.call = "start" /\ f.answer = "none"
  /\ LET p == Len(presentations) + 1
         policy == PolicyFor(f.kind)
     IN /\ MayStart(policy, f.mode)
        /\ StartVerification(v, policy, f.mode)
        /\ \E answered \in Answered :
             /\ book' = CASE ~answered -> book
                          [] answered /\ f.kind = "pid" -> Expect(book, p, day.errand[v], IsLoan(v), BookRule)
                          [] answered /\ f.kind = "ingresos" /\ f.pid # 0 -> LinkIncome(book, p, f.pid, BookRule)
                          [] OTHER -> book
             /\ Fetching(v, f, {IF answered THEN [f EXCEPT !.id = p, !.answer = "ok"] ELSE [f EXCEPT !.answer = "failed"]})
             /\ CountTrouble(answered)
  /\ UNCHANGED <<requests, held, accepted, day, browser, back, pc, loc, desk, session>>

(* The page shows the QR or the link, if it is still there, and polls. *)
SettleStart(v, f) ==
  /\ f.call = "start" /\ f.answer # "none"
  /\ LET d == desk[v] IN
     IF f.answer = "failed" THEN Fail(v, f) /\ UNCHANGED session
     ELSE /\ Set(v, [d EXCEPT !.pid = IF f.kind = "pid" THEN f.id ELSE @,
                              !.polling = @ \cup {Polling(f.kind, f.id, f.stale)},
                              !.shown = IF f.stale THEN @ ELSE f.id])
          /\ session' = IF IsLoan(v) /\ f.kind = "pid" THEN [session EXCEPT ![v] = f.id] ELSE session
  /\ Fetching(v, f, {})
  /\ UNCHANGED <<platform, fronts, book>>

(* Every second and a half, unless the last poll is still under way.       *)
Poll(v) ==
  /\ \E p \in desk[v].polling :
       /\ ~\E f \in fetches[v] : f.call = "poll" /\ f.id = p.id
       /\ fetches' = [fetches EXCEPT ![v] = @ \cup {[Fetch("poll", p.kind, p.id) EXCEPT !.stale = p.stale]}]
  /\ UNCHANGED <<platform, fronts, desk, session, book>>

(* GET /api/presentaciones/:id. A verified PID opens a case, a verified     *)
(* certificate goes onto the one it was linked to; without claims the PID   *)
(* is no adult's and the certificate is incomplete.                         *)
ServePoll(v, f) ==
  /\ f.call \in {"poll", "resume"} /\ f.answer = "none"
  /\ LET status == Outcome(PolicyFor(f.kind), f.id)
         verified == status = "VERIFIED" /\ HasClaims(f.id)
     IN /\ Fetching(v, f, {[f EXCEPT !.answer = IF status = "VERIFIED" /\ ~verified THEN "without claims" ELSE status]})
        /\ book' = CASE status = "VERIFIED" /\ f.kind = "pid" -> OpenCase(book, f.id, 1, BookRule)
                     [] verified /\ f.kind = "ingresos" -> AddIncome(book, f.id, 1, BookRule)
                     [] OTHER -> book
  /\ UNCHANGED <<platform, fronts, desk, session>>

(* settle: of the last connect or of an earlier one. A verified result is   *)
(* shown after a moment; what is not found is asked for again.              *)
SettlePoll(v, f) ==
  /\ f.call = "poll" /\ f.answer # "none"
  /\ LET d == desk[v]
         done == {p \in d.polling : p.id = f.id}
     IN
     \/ f.answer \in NON_TERMINAL \cup {Refused} /\ UNCHANGED desk
     \/ f.answer = "VERIFIED" /\ f.kind = "pid"
          /\ Set(v, [d EXCEPT !.data = f.id, !.polling = @ \ done, !.later = @ \cup {<<"received", f.id>>}])
     \/ f.answer = "VERIFIED" /\ f.kind = "ingresos"
          /\ Set(v, [d EXCEPT !.polling = @ \ done, !.later = @ \cup {<<"income", f.id>>}])
     \/ f.answer \notin NON_TERMINAL \cup {Refused, "VERIFIED"} /\ Fail(v, f)
  /\ Fetching(v, f, {})
  /\ UNCHANGED <<platform, fronts, session, book>>

(* incomeVerified: the certificate must be the same person's as the PID.    *)
SamePerson(p, q) == q # 0 /\ presentations[p].presenter = presentations[q].presenter

Later(v) ==
  /\ \E next \in desk[v].later :
       LET d == desk[v] IN
       \/ next[1] = "received" /\ Set(v, Screen(d, "received"))
       \/ next[1] = "income" /\ SamePerson(next[2], d.data)
            /\ Set(v, [Screen(d, "granted") EXCEPT !.income = next[2]])
       \/ next[1] = "income" /\ ~SamePerson(next[2], d.data) /\ Set(v, Screen(d, "failed"))
  /\ Leave(v, {})
  /\ UNCHANGED <<platform, fronts, session, book>>

(* The decision, the signature and the report of how it ended.             *)
Sign(v) ==
  /\ desk[v].screen = IF IsLoan(v) THEN "granted" ELSE "received"
  /\ Set(v, Screen(desk[v], "signed"))
  /\ session' = [session EXCEPT ![v] = 0]
  /\ book' = IF desk[v].pid = 0 THEN book
             ELSE DeclareOutcome(book, desk[v].pid, 1, BookRule, day.errand[v])
  /\ Leave(v, {})
  /\ UNCHANGED <<platform, fronts>>

-----------------------------------------------------------------------------
(* The wallet: somebody scans the QR that is shown, or the link opens it on *)
(* the same device, which leaves the page.                                  *)

Scan(v, who) ==
  /\ desk[v].shown # 0 /\ desk[v].mode = "QR"
  /\ Present(who, desk[v].shown)
  /\ UNCHANGED <<requests, held, accepted, returns, fronts, onboarding>>

FollowLink(v) ==
  /\ desk[v].shown # 0 /\ desk[v].mode = "SAME_DEVICE" /\ desk[v].screen = "connect"
  /\ Present(v, desk[v].shown)
  /\ Set(v, [NewDesk EXCEPT !.screen = "away", !.shown = desk[v].shown])
  /\ fetches' = [fetches EXCEPT ![v] = {}]
  /\ UNCHANGED <<requests, held, accepted, returns, fronts, session, book>>

(* Back at /resultado the script starts again: with the presentation it     *)
(* came back from, and a loan's income also with the first result, read     *)
(* again by its id.                                                         *)
ComeBack(v) ==
  LET d == Destination(desk[v].shown)
      p == d.presentation
      resumed == [Screen(NewDesk, "connect") EXCEPT !.mode = "SAME_DEVICE"]
  IN
  /\ desk[v].screen = "away"
  /\ \/ d.front = "nowhere" /\ Set(v, NewDesk) /\ UNCHANGED fetches
     \/ /\ d.front = "verifier" /\ IsLoan(v) /\ d.policy = "income" /\ session[v] # 0
        /\ Set(v, [resumed EXCEPT !.screen = "resuming", !.kind = "ingresos", !.shown = p, !.pid = session[v]])
        /\ fetches' = [fetches EXCEPT ![v] = {Fetch("resume", "pid", session[v])}]
     \/ /\ d.front = "verifier" /\ ~(IsLoan(v) /\ d.policy = "income" /\ session[v] # 0)
        /\ Set(v, [resumed EXCEPT !.pid = IF d.policy = "income" THEN session[v] ELSE p,
                                  !.polling = {Polling("pid", p, FALSE)}])
        /\ UNCHANGED fetches
  /\ UNCHANGED <<platform, fronts, session, book>>

SettleResume(v, f) ==
  /\ f.call = "resume" /\ f.answer # "none"
  /\ LET d == desk[v] IN
     Set(v, IF f.answer \in {"VERIFIED", "without claims"}
            THEN [Screen(d, "connect") EXCEPT !.data = IF f.answer = "VERIFIED" THEN f.id ELSE 0,
                                              !.polling = {Polling("ingresos", d.shown, FALSE)}]
            ELSE Screen([d EXCEPT !.kind = "pid"], "product"))
  /\ Fetching(v, f, {})
  /\ UNCHANGED <<platform, fronts, session, book>>

(* A fetch that fails ends a start; a poll tries again. *)
FetchFails(v, f) ==
  /\ trouble > 0 /\ f.answer = "none"
  /\ trouble' = trouble - 1
  /\ Fetching(v, f, IF f.call = "poll" THEN {} ELSE {[f EXCEPT !.answer = "failed"]})
  /\ UNCHANGED <<platform, day, browser, back, pc, loc, desk, session, book>>

(* The server stops: the case book is gone. *)
RestartOnboarding ==
  /\ trouble > 0 /\ book # EmptyBook
  /\ trouble' = trouble - 1
  /\ book' = EmptyBook
  /\ UNCHANGED <<platform, day, browser, back, pc, loc, desk, fetches, session>>

-----------------------------------------------------------------------------
OnboardingInit ==
  /\ desk = [v \in Visitors |-> NewDesk]
  /\ fetches = [v \in Visitors |-> {}]
  /\ session = [v \in Visitors |-> 0]
  /\ book = EmptyBook

Onboard(v) ==
  \/ Connect(v) \/ Poll(v) \/ Later(v) \/ Sign(v) \/ FollowLink(v) \/ ComeBack(v)
  \/ \E who \in Visitors : Scan(v, who)
  \/ \E f \in fetches[v] :
       ServeStart(v, f) \/ SettleStart(v, f) \/ ServePoll(v, f) \/ SettlePoll(v, f)
       \/ SettleResume(v, f) \/ FetchFails(v, f)
=============================================================================
