-------------------------- MODULE HostedFronts_proofs -------------------------
(***************************************************************************)
(* What the hosted pages promise their visitors, proved for every number   *)
(* of visitors, requests and presentations, whatever they come for, and    *)
(* any trouble. The argument: whose a request or a presentation is never   *)
(* changes (Grows), so it is enough that every page, every request under   *)
(* way, every fetch, timer and store that names one got it from its owner; *)
(* and the form's pages and the wallet's return keep a presentation with   *)
(* the request it was started for.                                         *)
(***************************************************************************)
EXTENDS HostedFronts, WellFoundedInduction, FiniteSetTheorems, TLAPS

-----------------------------------------------------------------------------
(* The inductive invariant: the platform *)

IsSequence(s) == s \in Seq(Range(s))

IsRequest(x) ==
  /\ x = [owner |-> x.owner, policy |-> x.policy, tenant |-> x.tenant, status |-> x.status,
          values |-> x.values]
  /\ x.tenant = IssuedBy(x.policy)

IsPresentation(x) ==
  x = [owner |-> x.owner, policy |-> x.policy, mode |-> x.mode, request |-> x.request,
       presenter |-> x.presenter, status |-> x.status, late |-> x.late, result |-> x.result]

Tables ==
  /\ IsSequence(requests) /\ Len(requests) <= MaxRequests /\ DOMAIN held = Requests
  /\ \A r \in DOMAIN requests : IsRequest(requests[r])
  /\ IsSequence(presentations)
  /\ \A p \in DOMAIN presentations : IsPresentation(presentations[p])

OwnsRequest(v, r) == r \in DOMAIN requests /\ requests[r].owner = v

Owns(v, p) == p \in DOMAIN presentations /\ presentations[p].owner = v

(* An identification for a form. *)
Identifies(p) == presentations[p].policy = "who"

Verified(v, p, policy) ==
  Owns(v, p) /\ presentations[p].status = "VERIFIED" /\ presentations[p].policy = policy

(* It is for a request of the one who presents it. *)
Identifications ==
  \A p \in DOMAIN presentations : Identifies(p) =>
    /\ OwnsRequest(presentations[p].owner, presentations[p].request)
    /\ presentations[p].status \in {"VERIFYING", "VERIFIED"} =>
         presentations[p].presenter = presentations[p].owner

(* Values are what the owner of the request submitted for it. *)
AreGiven(values, r) ==
  /\ values.person = requests[r].owner
  /\ requests[r].policy = "rep" <=> values.presentation # 0
  /\ values.presentation # 0 =>
       /\ Owns(requests[r].owner, values.presentation)
       /\ presentations[values.presentation].request = r

HeldAreGiven ==
  \A r \in Requests : held[r] # NoValues => r \in DOMAIN requests /\ AreGiven(held[r], r)

CodesAreAccepted ==
  \A r \in DOMAIN requests :
    /\ requests[r].status \in {"coded", "collected", "refused"} => r \in accepted
    /\ requests[r].status = "collected" => AreGiven(requests[r].values, r)

(* A return leads back to the request its presentation was started for. *)
ReturnsLead ==
  \A p \in DOMAIN returns :
    /\ p \in DOMAIN presentations /\ returns[p].presentation = p
    /\ returns[p].front = "form" => Identifies(p) /\ returns[p].request = presentations[p].request

PlatformIsSound ==
  Tables /\ Identifications /\ HeldAreGiven /\ CodesAreAccepted /\ ReturnsLead

-----------------------------------------------------------------------------
(* The inductive invariant: pages and requests to a front *)

(* v has started p, and for r if it identifies. *)
Leads(v, r, p) == Owns(v, p) /\ (Identifies(p) => presentations[p].request = r)

PageIsOwn(v, page) ==
  /\ page.request # 0 => OwnsRequest(v, page.request)
  /\ page.presentation # 0 => Leads(v, page.request, page.presentation)
  /\ page.at \in {"form", "identify", "request"} => page.request # 0
  /\ page.at \in {"wallet", "waiting", "request"} => page.presentation # 0
  /\ page.at = "waiting" /\ page.site = "form" => page.request # 0
  /\ page.at = "request" =>
       Identifies(page.presentation) /\ requests[page.request].policy = page.policy
  /\ page.shows # 0 =>
       /\ page.at \in {"request", "result"} /\ page.shows = page.presentation
       /\ presentations[page.shows].status = "VERIFIED"
       /\ page.at = "result" => presentations[page.shows].policy = page.policy

(* The local variables l of a request that awaits call. *)
IsLocals(l) ==
  l = [for |-> l.for, policy |-> l.policy, request |-> l.request, presentation |-> l.presentation,
       person |-> l.person, pass |-> l.pass]

Typed(v, l) == l.presentation = 0 /\ l.person \in {v, "none"}

RequestIsOwn(v, call, l) ==
  /\ IsLocals(l)
  /\ call \in {"gate", "definition", "submit", "identify", "identification"} => OwnsRequest(v, l.request)
  /\ call = "gate" /\ l.pass # NoPass => l.request \in accepted
  /\ call = "definition" /\ l.for = "confirm" => Typed(v, l)
  /\ call = "definition" /\ l.for = "continue" => Leads(v, l.request, l.presentation)
  /\ call \in {"submit", "identification"} => l.policy = requests[l.request].policy
  /\ call = "identification" => l.policy = "rep"
  /\ call = "identification" => Leads(v, l.request, l.presentation)
  /\ call = "submit" =>
       \/ l.for = "confirm" /\ Typed(v, l)
       \/ l.for = "request" /\ Leads(v, l.request, l.presentation) /\ Identifies(l.presentation)
  /\ call = "result" => Owns(v, l.presentation)

WindowIsOwn(v) ==
  PageIsOwn(v, browser[v]) /\ PageIsOwn(v, back[v]) /\ RequestIsOwn(v, pc[v], loc[v])

FrontsAreSound ==
  /\ DOMAIN browser = Visitors /\ DOMAIN back = Visitors /\ DOMAIN pc = Visitors /\ DOMAIN loc = Visitors
  /\ \A v \in Visitors : WindowIsOwn(v)

-----------------------------------------------------------------------------
(* The inductive invariant: the onboarding *)

IsDesk(d) ==
  d = [screen |-> d.screen, kind |-> d.kind, mode |-> d.mode, shown |-> d.shown, pid |-> d.pid,
       data |-> d.data, income |-> d.income, polling |-> d.polling, later |-> d.later]

DeskIsOwn(v, d) ==
  /\ IsDesk(d)
  /\ d.shown # 0 => Owns(v, d.shown) /\ ~Identifies(d.shown)
  /\ d.pid # 0 => Owns(v, d.pid)
  /\ d.data # 0 => Verified(v, d.data, "onboarding")
  /\ d.income # 0 => Verified(v, d.income, "income")
  /\ \A x \in d.polling : Owns(v, x.id)
  /\ \A x \in d.later : x[1] = "income" => Verified(v, x[2], "income")

IsFetch(f) ==
  f = [call |-> f.call, kind |-> f.kind, mode |-> f.mode, pid |-> f.pid, id |-> f.id,
       answer |-> f.answer, stale |-> f.stale]

FetchIsOwn(v, f) ==
  /\ IsFetch(f)
  /\ f.pid # 0 => Owns(v, f.pid)
  /\ f.call = "start" /\ f.answer \notin {"none", "failed"} => Owns(v, f.id) /\ ~Identifies(f.id)
  /\ f.call \in {"poll", "resume"} =>
       /\ Owns(v, f.id)
       /\ f.answer = "VERIFIED" => Verified(v, f.id, PolicyFor(f.kind))
  /\ f.call = "resume" => f.kind = "pid"

(* Until the page knows the first result of a loan again, it does nothing   *)
(* else.                                                                    *)
Resumes(d, calls) ==
  (\E f \in calls : f.call = "resume") =>
    /\ d.screen = "resuming" /\ d.shown # 0 /\ d.polling = {} /\ d.later = {}
    /\ \E f \in calls : calls = {f}

OnboardingIsOwn(v) ==
  /\ DeskIsOwn(v, desk[v])
  /\ \A f \in fetches[v] : FetchIsOwn(v, f)
  /\ Resumes(desk[v], fetches[v])
  /\ session[v] # 0 => Owns(v, session[v])

IsCase(c) ==
  /\ c = [key |-> c.key, at |-> c.at, product |-> c.product, expects |-> c.expects,
          income |-> c.income, declared |-> c.declared]
  /\ c.key \in DOMAIN presentations /\ presentations[c.key].status = "VERIFIED"
  /\ c.income # 0 => Verified(presentations[c.key].owner, c.income, "income")

IsLink(l) ==
  /\ l.key \in DOMAIN presentations /\ l.case \in DOMAIN presentations
  /\ presentations[l.key].owner = presentations[l.case].owner

BookIsSound(b) ==
  /\ b = [cases |-> b.cases, expected |-> b.expected, links |-> b.links]
  /\ IsSequence(b.cases) /\ \A n \in DOMAIN b.cases : IsCase(b.cases[n])
  /\ IsSequence(b.links) /\ \A n \in DOMAIN b.links : IsLink(b.links[n])

OnboardingIsSound ==
  /\ DOMAIN desk = Visitors /\ DOMAIN fetches = Visitors /\ DOMAIN session = Visitors
  /\ \A v \in Visitors : OnboardingIsOwn(v)
  /\ BookIsSound(book)

IInv == PlatformIsSound /\ FrontsAreSound /\ OnboardingIsSound

-----------------------------------------------------------------------------
(* Sequences *)

LEMMA SequenceFacts ==
  ASSUME NEW s, IsSequence(s)
  PROVE  /\ Len(s) \in Nat /\ DOMAIN s = 1 .. Len(s)
         /\ \A n \in DOMAIN s : s[n] \in Range(s)
BY DEF IsSequence, Range

LEMMA IsOne ==
  ASSUME NEW S, NEW s \in Seq(S)
  PROVE  IsSequence(s)
<1>1. /\ Len(s) \in Nat /\ DOMAIN s = 1 .. Len(s) /\ \A n \in 1 .. Len(s) : s[n] \in Range(s)
      /\ s = [n \in 1 .. Len(s) |-> s[n]]
  BY DEF Range
<1>2. QED
  BY <1>1 DEF IsSequence

LEMMA Appended ==
  ASSUME NEW s, IsSequence(s), NEW x
  PROVE  LET t == Append(s, x) IN
         /\ IsSequence(t) /\ Len(t) = Len(s) + 1 /\ DOMAIN t = DOMAIN s \cup {Len(s) + 1}
         /\ \A n \in DOMAIN s : n # Len(s) + 1 /\ t[n] = s[n]
         /\ t[Len(s) + 1] = x
<1>1. s \in Seq(Range(s) \cup {x}) /\ x \in Range(s) \cup {x}
  BY DEF IsSequence
<1>2. PICK S : S = Range(s) \cup {x}
  OBVIOUS
<1>3. s \in Seq(S) /\ x \in S
  BY <1>1, <1>2
<1>4. IsSequence(Append(s, x))
  <2>1. Append(s, x) \in Seq(S)
    BY <1>3
  <2>2. QED
    BY <2>1, IsOne
<1>5. /\ Len(Append(s, x)) = Len(s) + 1 /\ DOMAIN Append(s, x) = 1 .. Len(s) + 1
      /\ Len(s) \in Nat /\ DOMAIN s = 1 .. Len(s)
      /\ \A n \in 1 .. Len(s) : Append(s, x)[n] = s[n]
      /\ Append(s, x)[Len(s) + 1] = x
  BY <1>3
<1>6. QED
  BY <1>4, <1>5

LEMMA Changed ==
  ASSUME NEW s, IsSequence(s), NEW i \in DOMAIN s, NEW x
  PROVE  LET t == [s EXCEPT ![i] = x] IN
         /\ IsSequence(t) /\ Len(t) = Len(s) /\ DOMAIN t = DOMAIN s
         /\ t[i] = x /\ \A n \in DOMAIN s : n # i => t[n] = s[n]
<1>1. PICK S : S = Range(s) \cup {x}
  OBVIOUS
<1>2. s \in Seq(S) /\ x \in S
  BY <1>1 DEF IsSequence
<1>3. IsSequence([s EXCEPT ![i] = x])
  <2>1. [s EXCEPT ![i] = x] \in Seq(S)
    BY <1>2
  <2>2. QED
    BY <2>1, IsOne
<1>4. Len([s EXCEPT ![i] = x]) = Len(s)
  BY <1>2
<1>5. QED
  BY <1>3, <1>4

LEMMA WithoutOldest ==
  ASSUME NEW s, IsSequence(s), s # <<>>
  PROVE  /\ IsSequence(Tail(s))
         /\ \A n \in DOMAIN Tail(s) : \E m \in DOMAIN s : Tail(s)[n] = s[m]
<1>1. PICK S : S = Range(s)
  OBVIOUS
<1>2. s \in Seq(S)
  BY <1>1 DEF IsSequence
<1>3. Tail(s) \in Seq(S) /\ DOMAIN Tail(s) = 1 .. Len(s) - 1
  BY <1>2
<1>4. \A n \in 1 .. Len(s) - 1 : Tail(s)[n] = s[n + 1] /\ n + 1 \in DOMAIN s
  BY <1>2
<1>5. QED
  BY <1>3, <1>4, IsOne

(* A set of numbers that is not empty has a least.                          *)
LEMMA LeastExists ==
  ASSUME NEW S, S \subseteq Nat, S # {}
  PROVE  \E m \in S : \A k \in S : m <= k
<1>1. PICK m \in S : \A k \in S : ~(<<k, m>> \in OpToRel(<, Nat))
  BY WFMin, NatLessThanWellFounded
<1>2. \A k \in S : ~(k < m)
  BY <1>1 DEF OpToRel
<1>3. QED
  BY <1>2

(* The rest of a sequence is its entries but the first, one place earlier.  *)
LEMMA TailShifts ==
  ASSUME NEW s, IsSequence(s), s # <<>>
  PROVE  /\ IsSequence(Tail(s)) /\ Len(s) \in Nat \ {0} /\ Len(Tail(s)) = Len(s) - 1
         /\ \A k \in 1 .. Len(s) - 1 : Tail(s)[k] = s[k + 1]
<1>1. PICK S : S = Range(s)
  OBVIOUS
<1>2. s \in Seq(S)
  BY <1>1 DEF IsSequence
<1>3. Tail(s) \in Seq(S) /\ Len(Tail(s)) = Len(s) - 1 /\ Len(s) \in Nat \ {0}
  BY <1>2
<1>4. \A k \in 1 .. Len(s) - 1 : Tail(s)[k] = s[k + 1]
  BY <1>2
<1>5. QED
  BY <1>3, <1>4, IsOne

(* What the n-th entry of a store does to those kept of the ones before it. *)
KeptBy(kept, n, store, some) ==
  IF n = 0 THEN <<>>
  ELSE IF store[n] \in some THEN Append(kept[n - 1], store[n]) ELSE kept[n - 1]

IsKept(kept, n, store, some) == kept = [k \in 0 .. n |-> KeptBy(kept, k, store, some)]

LEMMA KeptExists ==
  ASSUME NEW store, NEW some, NEW n \in Nat
  PROVE  \E kept : IsKept(kept, n, store, some)
<1>1. PICK B : B = {k \in 0 .. n : ~\E kept : IsKept(kept, k, store, some)}
  OBVIOUS
<1>2. SUFFICES ASSUME B # {} PROVE FALSE
  <2>1. n \in 0 .. n
    OBVIOUS
  <2>2. QED
    BY <1>1, <2>1
<1>3. PICK m \in B : \A k \in B : m <= k
  <2>1. B \subseteq Nat
    BY <1>1
  <2>2. QED
    BY <1>2, <2>1, LeastExists
<1>4. m \in 0 .. n /\ ~\E kept : IsKept(kept, m, store, some)
  BY <1>1, <1>3
<1>5. CASE m = 0
  <2>1. PICK kept : kept = [k \in 0 .. 0 |-> <<>>]
    OBVIOUS
  <2>2. IsKept(kept, 0, store, some)
    BY <2>1 DEF IsKept, KeptBy
  <2>3. QED
    BY <1>4, <1>5, <2>2
<1>6. CASE m # 0
  <2>1. m \in Nat \ {0} /\ m - 1 \in 0 .. n /\ ~(m <= m - 1)
    BY <1>4, <1>6
  <2>2. PICK kept : IsKept(kept, m - 1, store, some)
    BY <1>1, <1>3, <2>1
  <2>3. PICK longer : longer = [k \in 0 .. m |-> IF k = m THEN KeptBy(kept, m, store, some) ELSE kept[k]]
    OBVIOUS
  <2>4. ASSUME NEW k \in 0 .. m PROVE longer[k] = KeptBy(longer, k, store, some)
    <3>1. k # 0 => longer[k - 1] = kept[k - 1]
      <4>1. k # 0 => k - 1 \in 0 .. m /\ k - 1 # m
        BY <2>1
      <4>2. QED
        BY <2>3, <4>1
    <3>2. KeptBy(longer, k, store, some) = KeptBy(kept, k, store, some)
      BY <3>1 DEF KeptBy
    <3>3. CASE k = m
      BY <2>3, <3>2, <3>3
    <3>4. CASE k # m
      <4>1. k \in 0 .. m - 1
        BY <2>1, <3>4
      <4>2. kept[k] = KeptBy(kept, k, store, some)
        BY <2>2, <4>1 DEF IsKept
      <4>3. QED
        BY <2>3, <3>2, <3>4, <4>2
    <3>5. QED
      BY <3>3, <3>4
  <2>5. longer = [k \in 0 .. m |-> longer[k]]
    BY <2>3
  <2>6. IsKept(longer, m, store, some)
    BY <2>4, <2>5 DEF IsKept
  <2>7. QED
    BY <1>4, <2>6
<1>7. QED
  BY <1>5, <1>6

(* t: those of the first n entries of s that are among some, in their order. *)
IsPicked(t, s, some, n) ==
  /\ IsSequence(t) /\ Len(t) <= n
  /\ \A k \in DOMAIN t : t[k] \in some /\ \E i \in 1 .. n : t[k] = s[i]
  /\ \A i \in 1 .. n : s[i] \in some => \E k \in DOMAIN t : t[k] = s[i]
  /\ \A k, l \in DOMAIN t : k < l => \E i, j \in 1 .. n : i < j /\ t[k] = s[i] /\ t[l] = s[j]

LEMMA PickedNext ==
  ASSUME NEW t, NEW s, NEW some, NEW n \in Nat \ {0}, IsPicked(t, s, some, n - 1)
  PROVE  IsPicked(IF s[n] \in some THEN Append(t, s[n]) ELSE t, s, some, n)
<1>1. \A i \in 1 .. n : i = n \/ i \in 1 .. n - 1
  OBVIOUS
<1>2. n \in 1 .. n /\ 1 .. n - 1 \subseteq 1 .. n /\ \A i \in 1 .. n - 1 : i < n
  OBVIOUS
<1>3. IsSequence(t) /\ Len(t) \in Nat /\ Len(t) <= n - 1 /\ DOMAIN t = 1 .. Len(t)
  BY SequenceFacts DEF IsPicked
<1>4. CASE s[n] \in some
  <2>1. PICK u : u = Append(t, s[n])
    OBVIOUS
  <2>2. /\ IsSequence(u) /\ Len(u) = Len(t) + 1 /\ DOMAIN u = DOMAIN t \cup {Len(t) + 1}
        /\ \A k \in DOMAIN t : k # Len(t) + 1 /\ u[k] = t[k]
        /\ u[Len(t) + 1] = s[n]
    BY <1>3, <2>1, Appended
  <2>3. \A k \in DOMAIN u : u[k] \in some /\ \E i \in 1 .. n : u[k] = s[i]
    BY <1>2, <1>4, <2>2 DEF IsPicked
  <2>4. \A i \in 1 .. n : s[i] \in some => \E k \in DOMAIN u : u[k] = s[i]
    <3>1. SUFFICES ASSUME NEW i \in 1 .. n, s[i] \in some PROVE \E k \in DOMAIN u : u[k] = s[i]
      OBVIOUS
    <3>2. CASE i = n
      BY <2>2, <3>2
    <3>3. CASE i \in 1 .. n - 1
      <4>1. PICK k \in DOMAIN t : t[k] = s[i]
        BY <3>1, <3>3 DEF IsPicked
      <4>2. QED
        BY <2>2, <4>1
    <3>4. QED
      BY <1>1, <3>2, <3>3
  <2>5. ASSUME NEW k \in DOMAIN u, NEW l \in DOMAIN u, k < l
        PROVE  \E i, j \in 1 .. n : i < j /\ u[k] = s[i] /\ u[l] = s[j]
    <3>1. k \in DOMAIN t
      BY <1>3, <2>2, <2>5
    <3>2. CASE l = Len(t) + 1
      <4>1. PICK i \in 1 .. n - 1 : t[k] = s[i]
        BY <3>1 DEF IsPicked
      <4>2. QED
        BY <1>2, <2>2, <3>1, <3>2, <4>1
    <3>3. CASE l \in DOMAIN t
      <4>1. PICK i, j \in 1 .. n - 1 : i < j /\ t[k] = s[i] /\ t[l] = s[j]
        BY <2>5, <3>1, <3>3 DEF IsPicked
      <4>2. QED
        BY <1>2, <2>2, <3>1, <3>3, <4>1
    <3>4. QED
      BY <2>2, <3>2, <3>3
  <2>6. Len(u) <= n
    BY <1>3, <2>2
  <2>7. IsPicked(u, s, some, n)
    BY <2>2, <2>3, <2>4, <2>5, <2>6 DEF IsPicked
  <2>8. QED
    BY <1>4, <2>1, <2>7
<1>5. CASE s[n] \notin some
  <2>1. Len(t) <= n
    BY <1>3
  <2>2. IsPicked(t, s, some, n)
    BY <1>1, <1>2, <1>3, <1>5, <2>1 DEF IsPicked
  <2>3. QED
    BY <1>5, <2>2
<1>6. QED
  BY <1>4, <1>5

LEMMA AmongPicks ==
  ASSUME NEW store, IsSequence(store), NEW some
  PROVE  IsPicked(Among(store, some), store, some, Len(store))
<1>1. PICK N : N = Len(store)
  OBVIOUS
<1>2. N \in Nat
  BY <1>1, SequenceFacts
<1>3. PICK kept : kept = CHOOSE k : IsKept(k, N, store, some)
  OBVIOUS
<1>4. IsKept(kept, N, store, some)
  BY <1>2, <1>3, KeptExists
<1>5. Among(store, some) = kept[N]
  BY <1>1, <1>3 DEF Among, IsKept, KeptBy
<1>6. \A k \in 0 .. N : kept[k] = KeptBy(kept, k, store, some)
  BY <1>4 DEF IsKept
<1>7. \A k \in 0 .. N : IsPicked(kept[k], store, some, k)
  <2>1. PICK B : B = {k \in 0 .. N : ~IsPicked(kept[k], store, some, k)}
    OBVIOUS
  <2>2. SUFFICES ASSUME B # {} PROVE FALSE
    BY <2>1
  <2>3. B \subseteq Nat
    BY <2>1
  <2>4. PICK m \in B : \A k \in B : m <= k
    BY <2>2, <2>3, LeastExists
  <2>5. m \in 0 .. N /\ ~IsPicked(kept[m], store, some, m)
    BY <2>1, <2>4
  <2>6. m # 0
    <3>1. kept[0] = <<>>
      BY <1>2, <1>6 DEF KeptBy
    <3>2. IsSequence(<<>>)
      BY DEF IsSequence
    <3>3. IsPicked(<<>>, store, some, 0)
      BY <3>2 DEF IsPicked
    <3>4. QED
      BY <2>5, <3>1, <3>3
  <2>7. m - 1 \in 0 .. N /\ ~(m <= m - 1) /\ m \in Nat \ {0}
    BY <1>2, <2>5, <2>6
  <2>8. IsPicked(kept[m - 1], store, some, m - 1)
    BY <2>1, <2>4, <2>7
  <2>9. kept[m] = IF store[m] \in some THEN Append(kept[m - 1], store[m]) ELSE kept[m - 1]
    BY <1>6, <2>5, <2>6 DEF KeptBy
  <2>10. QED
    BY <2>5, <2>7, <2>8, <2>9, PickedNext
<1>8. N \in 0 .. N
  BY <1>2
<1>9. QED
  BY <1>1, <1>5, <1>7, <1>8

(* What stays of the cases is of the cases.                                 *)
LEMMA StaysOpen ==
  ASSUME NEW cases, IsSequence(cases), NEW time
  PROVE  LET t == OpenedAfter(cases, time) IN
         /\ IsSequence(t)
         /\ \A n \in DOMAIN t : \E m \in DOMAIN cases : t[n] = cases[m]
<1>1. PICK some, t : some = {c \in Range(cases) : c.at > time} /\ t = Among(cases, some)
  OBVIOUS
<1>2. OpenedAfter(cases, time) = t
  BY <1>1 DEF OpenedAfter
<1>3. IsPicked(t, cases, some, Len(cases)) /\ DOMAIN cases = 1 .. Len(cases)
  BY <1>1, AmongPicks, SequenceFacts
<1>4. IsSequence(t) /\ \A n \in DOMAIN t : \E m \in DOMAIN cases : t[n] = cases[m]
  BY <1>3 DEF IsPicked
<1>5. QED
  BY <1>2, <1>4

-----------------------------------------------------------------------------
(* Whose something is never changes                                         *)

Grows ==
  /\ \A r \in DOMAIN requests :
       /\ r \in DOMAIN requests' /\ requests'[r].owner = requests[r].owner
       /\ requests'[r].policy = requests[r].policy /\ requests'[r].tenant = requests[r].tenant
  /\ \A r \in accepted : r \in accepted'
  /\ \A p \in DOMAIN presentations :
       /\ p \in DOMAIN presentations'
       /\ presentations'[p].owner = presentations[p].owner
       /\ presentations'[p].policy = presentations[p].policy
       /\ presentations'[p].request = presentations[p].request
       /\ presentations[p].status = "VERIFIED" => presentations'[p].status = "VERIFIED"

LEMMA NothingGrows ==
  ASSUME UNCHANGED <<requests, accepted, presentations>>
  PROVE  Grows
BY DEF Grows

LEMMA PageStays ==
  ASSUME Grows, NEW v, NEW page, PageIsOwn(v, page)
  PROVE  PageIsOwn(v, page)'
<1>1. page.request # 0 => OwnsRequest(v, page.request)'
  BY DEF Grows, PageIsOwn, OwnsRequest
<1>2. page.presentation # 0 =>
        Leads(v, page.request, page.presentation)' /\ (Identifies(page.presentation)' <=> Identifies(page.presentation))
  BY DEF Grows, PageIsOwn, Leads, Owns, Identifies
<1>3. page.at = "request" =>
        Identifies(page.presentation)' /\ requests'[page.request].policy = page.policy
  BY <1>2 DEF Grows, PageIsOwn, OwnsRequest
<1>4. page.shows # 0 =>
        /\ presentations'[page.shows].status = "VERIFIED"
        /\ page.at = "result" => presentations'[page.shows].policy = page.policy
  BY DEF Grows, PageIsOwn, Leads, Owns
<1>5. QED
  BY <1>1, <1>2, <1>3, <1>4 DEF PageIsOwn

LEMMA LeadStays ==
  ASSUME Grows, NEW v, NEW r, NEW p, Leads(v, r, p)
  PROVE  Leads(v, r, p)' /\ (Identifies(p)' <=> Identifies(p))
BY DEF Grows, Leads, Owns, Identifies

LEMMA RequestStays ==
  ASSUME Grows, NEW v, NEW call, NEW l, RequestIsOwn(v, call, l)
  PROVE  RequestIsOwn(v, call, l)'
<1>1. call \in {"gate", "definition", "submit", "identify", "identification"} =>
        OwnsRequest(v, l.request)' /\ requests'[l.request].policy = requests[l.request].policy
  BY DEF Grows, RequestIsOwn, OwnsRequest
<1>2. call = "gate" /\ l.pass # NoPass => l.request \in accepted'
  BY DEF Grows, RequestIsOwn
<1>3. call = "definition" /\ l.for = "continue" => Leads(v, l.request, l.presentation)'
  BY LeadStays DEF RequestIsOwn
<1>4. call = "identification" => Leads(v, l.request, l.presentation)'
  BY LeadStays DEF RequestIsOwn
<1>5. call = "submit" =>
       \/ l.for = "confirm" /\ Typed(v, l)
       \/ l.for = "request" /\ Leads(v, l.request, l.presentation)' /\ Identifies(l.presentation)'
  BY LeadStays DEF RequestIsOwn
<1>6. call = "result" => Owns(v, l.presentation)'
  BY DEF Grows, RequestIsOwn, Owns
<1>7. QED
  BY <1>1, <1>2, <1>3, <1>4, <1>5, <1>6 DEF RequestIsOwn, Typed

LEMMA OwnStays ==
  ASSUME Grows, NEW v, NEW p, Owns(v, p)
  PROVE  /\ Owns(v, p)' /\ (Identifies(p)' <=> Identifies(p))
         /\ \A policy : Verified(v, p, policy) => Verified(v, p, policy)'
BY DEF Grows, Owns, Identifies, Verified

LEMMA VerifiedStays ==
  ASSUME Grows, NEW v, NEW p, NEW policy, Verified(v, p, policy)
  PROVE  Verified(v, p, policy)'
BY DEF Grows, Owns, Verified

LEMMA DeskStays ==
  ASSUME Grows, NEW v, NEW d, DeskIsOwn(v, d)
  PROVE  DeskIsOwn(v, d)'
<1>1. d.shown # 0 => Owns(v, d.shown)' /\ ~Identifies(d.shown)'
  BY OwnStays DEF DeskIsOwn
<1>2. d.pid # 0 => Owns(v, d.pid)'
  BY OwnStays DEF DeskIsOwn
<1>3. /\ d.data # 0 => Verified(v, d.data, "onboarding")'
      /\ d.income # 0 => Verified(v, d.income, "income")'
      /\ \A x \in d.later : x[1] = "income" => Verified(v, x[2], "income")'
  BY VerifiedStays DEF DeskIsOwn
<1>4. \A x \in d.polling : Owns(v, x.id)'
  BY OwnStays DEF DeskIsOwn
<1>5. QED
  BY <1>1, <1>2, <1>3, <1>4 DEF DeskIsOwn

LEMMA FetchStays ==
  ASSUME Grows, NEW v, NEW f, FetchIsOwn(v, f)
  PROVE  FetchIsOwn(v, f)'
<1>1. f.pid # 0 => Owns(v, f.pid)'
  BY OwnStays DEF FetchIsOwn
<1>2. f.call = "start" /\ f.answer \notin {"none", "failed"} => Owns(v, f.id)' /\ ~Identifies(f.id)'
  BY OwnStays DEF FetchIsOwn
<1>3. f.call \in {"poll", "resume"} => Owns(v, f.id)'
  BY OwnStays DEF FetchIsOwn
<1>4. f.call \in {"poll", "resume"} /\ f.answer = "VERIFIED" => Verified(v, f.id, PolicyFor(f.kind))'
  <2>1. PICK policy : policy = PolicyFor(f.kind)
    OBVIOUS
  <2>2. PolicyFor(f.kind)' = policy
    BY <2>1 DEF PolicyFor
  <2>3. QED
    BY <2>1, <2>2, VerifiedStays DEF FetchIsOwn, Verified, Owns
<1>5. QED
  BY <1>1, <1>2, <1>3, <1>4 DEF FetchIsOwn

LEMMA CaseStays ==
  ASSUME Grows, NEW c, IsCase(c)
  PROVE  IsCase(c)'
<1>1. PICK v : v = presentations[c.key].owner
  OBVIOUS
<1>2. c.key \in DOMAIN presentations' /\ presentations'[c.key].owner = v
      /\ presentations'[c.key].status = "VERIFIED"
  BY <1>1 DEF Grows, IsCase
<1>3. c.income # 0 => Verified(v, c.income, "income")'
  BY <1>1, VerifiedStays DEF IsCase
<1>4. QED
  BY <1>2, <1>3 DEF IsCase, Verified, Owns

LEMMA LinkStays ==
  ASSUME Grows, NEW l, IsLink(l)
  PROVE  IsLink(l)'
BY DEF Grows, IsLink

LEMMA BookStays ==
  ASSUME Grows, NEW b, BookIsSound(b)
  PROVE  BookIsSound(b)'
<1>1. \A n \in DOMAIN b.cases : IsCase(b.cases[n])'
  BY CaseStays DEF BookIsSound
<1>2. \A n \in DOMAIN b.links : IsLink(b.links[n])'
  BY LinkStays DEF BookIsSound
<1>3. QED
  BY <1>1, <1>2 DEF BookIsSound

(* What is not touched stays sound.                                         *)
LEMMA FrontsStay ==
  ASSUME FrontsAreSound, Grows, UNCHANGED <<browser, back, pc, loc>>
  PROVE  FrontsAreSound'
<1>1. ASSUME NEW v \in Visitors PROVE WindowIsOwn(v)'
  <2>1. PICK page, last, call, l :
          page = browser[v] /\ last = back[v] /\ call = pc[v] /\ l = loc[v]
    OBVIOUS
  <2>2. PageIsOwn(v, page)' /\ PageIsOwn(v, last)' /\ RequestIsOwn(v, call, l)'
    BY <2>1, PageStays, RequestStays DEF FrontsAreSound, WindowIsOwn
  <2>3. QED
    BY <2>1, <2>2 DEF WindowIsOwn
<1>2. QED
  BY <1>1 DEF FrontsAreSound

LEMMA OnboardingStays ==
  ASSUME OnboardingIsSound, Grows, UNCHANGED onboarding
  PROVE  OnboardingIsSound'
<1>1. UNCHANGED <<desk, fetches, session, book>>
  BY DEF onboarding
<1>2. ASSUME NEW v \in Visitors PROVE OnboardingIsOwn(v)'
  <2>1. PICK d, calls, s : d = desk[v] /\ calls = fetches[v] /\ s = session[v]
    OBVIOUS
  <2>2. DeskIsOwn(v, d)'
    BY <2>1, DeskStays DEF OnboardingIsSound, OnboardingIsOwn
  <2>3. \A f \in calls : FetchIsOwn(v, f)'
    BY <2>1, FetchStays DEF OnboardingIsSound, OnboardingIsOwn
  <2>4. Resumes(d, calls)
    BY <2>1 DEF OnboardingIsSound, OnboardingIsOwn
  <2>5. s # 0 => Owns(v, s)'
    BY <2>1, OwnStays DEF OnboardingIsSound, OnboardingIsOwn
  <2>6. QED
    BY <1>1, <2>1, <2>2, <2>3, <2>4, <2>5 DEF OnboardingIsOwn
<1>3. BookIsSound(book)'
  <2>1. PICK b : b = book
    OBVIOUS
  <2>2. QED
    BY <1>1, <2>1, BookStays DEF OnboardingIsSound, BookIsSound
<1>4. QED
  BY <1>1, <1>2, <1>3 DEF OnboardingIsSound

-----------------------------------------------------------------------------
(* The platform                                                             *)

LEMMA GivenStays ==
  ASSUME Grows, NEW values, NEW r \in DOMAIN requests, AreGiven(values, r)
  PROVE  AreGiven(values, r)'
<1>1. /\ requests'[r].owner = requests[r].owner /\ requests'[r].policy = requests[r].policy
  BY DEF Grows
<1>2. values.presentation # 0 =>
        /\ Owns(requests[r].owner, values.presentation)'
        /\ presentations'[values.presentation].request = r
  BY <1>1 DEF Grows, AreGiven, Owns
<1>3. QED
  BY <1>1, <1>2 DEF AreGiven

(* A presentation becomes x. *)
LEMMA PresentationChanges ==
  ASSUME PlatformIsSound, NEW p \in DOMAIN presentations, NEW x, IsPresentation(x),
         presentations' = [presentations EXCEPT ![p] = x],
         UNCHANGED <<requests, held, accepted, returns>>,
         x.owner = presentations[p].owner, x.policy = presentations[p].policy,
         x.request = presentations[p].request,
         presentations[p].status = "VERIFIED" => x.status = "VERIFIED",
         Identifies(p) /\ x.status \in {"VERIFYING", "VERIFIED"} => x.presenter = x.owner
  PROVE  PlatformIsSound' /\ Grows
<1>1. /\ IsSequence(presentations)' /\ DOMAIN presentations' = DOMAIN presentations
      /\ presentations'[p] = x
      /\ \A q \in DOMAIN presentations : q # p => presentations'[q] = presentations[q]
  <2>1. PICK s : s = presentations
    OBVIOUS
  <2>2. IsSequence(s) /\ p \in DOMAIN s
    BY <2>1 DEF PlatformIsSound, Tables
  <2>3. PICK t : t = [s EXCEPT ![p] = x]
    OBVIOUS
  <2>4. /\ IsSequence(t) /\ DOMAIN t = DOMAIN s /\ t[p] = x
        /\ \A q \in DOMAIN s : q # p => t[q] = s[q]
    BY <2>2, <2>3, Changed
  <2>5. presentations' = t
    BY <2>1, <2>3
  <2>6. QED
    BY <2>1, <2>4, <2>5 DEF IsSequence
<1>2. Grows
  BY <1>1 DEF Grows
<1>3. Tables'
  <2>1. ASSUME NEW q \in DOMAIN presentations PROVE IsPresentation(presentations'[q])
    BY <1>1, <2>1 DEF PlatformIsSound, Tables
  <2>2. QED
    BY <1>1, <2>1 DEF PlatformIsSound, Tables, IsSequence, IsRequest, IsPresentation
<1>4. Identifications'
  BY <1>1 DEF PlatformIsSound, Identifications, Identifies, OwnsRequest
<1>5. HeldAreGiven' /\ CodesAreAccepted'
  <2>1. PICK H, R : H = held /\ R = requests
    OBVIOUS
  <2>2. \A values : \A r \in DOMAIN requests : AreGiven(values, r) => AreGiven(values, r)'
    BY <1>2, GivenStays
  <2>3. \A r \in DOMAIN R : AreGiven(R[r].values, r) => AreGiven(R[r].values, r)'
    BY <2>1, <2>2
  <2>4. \A r \in DOMAIN R : AreGiven(H[r], r) => AreGiven(H[r], r)'
    BY <2>1, <2>2
  <2>5. QED
    BY <2>1, <2>3, <2>4 DEF PlatformIsSound, HeldAreGiven, CodesAreAccepted, AreGiven
<1>6. ReturnsLead'
  BY <1>1 DEF PlatformIsSound, ReturnsLead, Identifies
<1>7. QED
  BY <1>2, <1>3, <1>4, <1>5, <1>6 DEF PlatformIsSound

(* A presentation is started, and perhaps where its return leads.           *)
LEMMA PresentationStarts ==
  ASSUME PlatformIsSound, NEW x, IsPresentation(x), x.status = "AWAITING_WALLET",
         presentations' = Append(presentations, x),
         UNCHANGED <<requests, held, accepted>>,
         x.policy = "who" => OwnsRequest(x.owner, x.request),
         NEW p, p = Len(presentations) + 1,
         NEW destination, destination.presentation = p,
         destination.front = "form" => x.policy = "who" /\ destination.request = x.request,
         \/ returns' = [q \in DOMAIN returns \cup {p} |-> IF q = p THEN destination ELSE returns[q]]
         \/ UNCHANGED returns
  PROVE  /\ PlatformIsSound' /\ Grows
         /\ p # 0 /\ p \in DOMAIN presentations' /\ presentations'[p] = x
<1>1. /\ IsSequence(presentations)' /\ DOMAIN presentations' = DOMAIN presentations \cup {p}
      /\ p \notin DOMAIN presentations /\ p # 0
      /\ presentations'[p] = x
      /\ \A q \in DOMAIN presentations : presentations'[q] = presentations[q]
  <2>1. PICK s : s = presentations
    OBVIOUS
  <2>2. IsSequence(s) /\ p = Len(s) + 1
    BY <2>1 DEF PlatformIsSound, Tables
  <2>3. PICK t : t = Append(s, x)
    OBVIOUS
  <2>4. /\ IsSequence(t) /\ DOMAIN t = DOMAIN s \cup {p} /\ t[p] = x
        /\ \A q \in DOMAIN s : q # p /\ t[q] = s[q]
    BY <2>2, <2>3, Appended
  <2>5. presentations' = t
    BY <2>1, <2>3
  <2>6. p # 0
    BY <2>2, SequenceFacts
  <2>7. QED
    BY <2>1, <2>4, <2>5, <2>6 DEF IsSequence
<1>2. Grows
  BY <1>1 DEF Grows
<1>3. Tables'
  <2>1. ASSUME NEW q \in DOMAIN presentations' PROVE IsPresentation(presentations'[q])
    BY <1>1, <2>1 DEF PlatformIsSound, Tables
  <2>2. QED
    BY <1>1, <2>1 DEF PlatformIsSound, Tables, IsSequence, IsRequest, IsPresentation
<1>4. Identifications'
  BY <1>1 DEF PlatformIsSound, Identifications, Identifies, OwnsRequest
<1>5. HeldAreGiven' /\ CodesAreAccepted'
  <2>1. PICK H, R : H = held /\ R = requests
    OBVIOUS
  <2>2. \A values : \A r \in DOMAIN requests : AreGiven(values, r) => AreGiven(values, r)'
    BY <1>2, GivenStays
  <2>3. \A r \in DOMAIN R : AreGiven(R[r].values, r) => AreGiven(R[r].values, r)'
    BY <2>1, <2>2
  <2>4. \A r \in DOMAIN R : AreGiven(H[r], r) => AreGiven(H[r], r)'
    BY <2>1, <2>2
  <2>5. QED
    BY <2>1, <2>3, <2>4 DEF PlatformIsSound, HeldAreGiven, CodesAreAccepted, AreGiven
<1>6. ReturnsLead'
  <2>1. CASE UNCHANGED returns
    BY <1>1, <2>1 DEF PlatformIsSound, ReturnsLead, Identifies
  <2>2. CASE returns' = [q \in DOMAIN returns \cup {p} |-> IF q = p THEN destination ELSE returns[q]]
    <3>1. SUFFICES ASSUME NEW q \in DOMAIN returns'
                   PROVE  /\ q \in DOMAIN presentations' /\ returns'[q].presentation = q
                          /\ returns'[q].front = "form" =>
                               Identifies(q)' /\ returns'[q].request = presentations'[q].request
      BY DEF ReturnsLead
    <3>2. CASE q = p
      BY <1>1, <2>2, <3>2 DEF Identifies
    <3>3. CASE q # p
      <4>1. q \in DOMAIN returns /\ returns'[q] = returns[q]
        BY <2>2, <3>1, <3>3
      <4>2. QED
        BY <1>1, <4>1 DEF PlatformIsSound, ReturnsLead, Identifies
    <3>4. QED
      BY <3>2, <3>3
  <2>3. QED
    BY <2>1, <2>2
<1>7. QED
  BY <1>1, <1>2, <1>3, <1>4, <1>5, <1>6 DEF PlatformIsSound

(* Values are held, or no longer.                                           *)
LEMMA HeldChange ==
  ASSUME PlatformIsSound, UNCHANGED <<requests, presentations, returns>>,
         \A r \in accepted : r \in accepted', DOMAIN held' = Requests,
         \A r \in Requests : \/ held'[r] \in {held[r], NoValues}
                             \/ r \in DOMAIN requests /\ AreGiven(held'[r], r)
  PROVE  PlatformIsSound' /\ Grows
<1>1. Grows
  BY DEF Grows
<1>2. Tables' /\ Identifications' /\ ReturnsLead'
  BY DEF PlatformIsSound, Tables, IsSequence, IsRequest, IsPresentation, Identifications, Identifies,
         OwnsRequest, ReturnsLead
<1>3. CodesAreAccepted'
  BY DEF PlatformIsSound, CodesAreAccepted, AreGiven, Owns
<1>4. HeldAreGiven'
  <2>1. PICK H : H = held'
    OBVIOUS
  <2>2. \A r \in Requests : H[r] # NoValues => r \in DOMAIN requests /\ AreGiven(H[r], r)
    BY <2>1 DEF PlatformIsSound, HeldAreGiven
  <2>3. \A r \in DOMAIN requests : AreGiven(H[r], r) => AreGiven(H[r], r)'
    BY <1>1, GivenStays
  <2>4. QED
    BY <2>1, <2>2, <2>3 DEF HeldAreGiven, AreGiven
<1>5. QED
  BY <1>1, <1>2, <1>3, <1>4 DEF PlatformIsSound

(* A request becomes x. *)
LEMMA RequestChanges ==
  ASSUME PlatformIsSound, NEW r \in DOMAIN requests, NEW x, IsRequest(x),
         requests' = [requests EXCEPT ![r] = x],
         UNCHANGED <<accepted, presentations, returns>>,
         x.owner = requests[r].owner, x.policy = requests[r].policy,
         x.status \in {"coded", "collected", "refused"} => r \in accepted,
         x.status = "collected" => AreGiven(x.values, r),
         DOMAIN held' = Requests,
         \A q \in Requests : held'[q] \in {held[q], NoValues}
  PROVE  PlatformIsSound' /\ Grows
<1>1. /\ IsSequence(requests)' /\ DOMAIN requests' = DOMAIN requests /\ Len(requests') = Len(requests)
      /\ requests'[r] = x
      /\ \A q \in DOMAIN requests : q # r => requests'[q] = requests[q]
  <2>1. PICK s : s = requests
    OBVIOUS
  <2>2. IsSequence(s) /\ r \in DOMAIN s
    BY <2>1 DEF PlatformIsSound, Tables
  <2>3. PICK t : t = [s EXCEPT ![r] = x]
    OBVIOUS
  <2>4. /\ IsSequence(t) /\ DOMAIN t = DOMAIN s /\ Len(t) = Len(s) /\ t[r] = x
        /\ \A q \in DOMAIN s : q # r => t[q] = s[q]
    BY <2>2, <2>3, Changed
  <2>5. requests' = t
    BY <2>1, <2>3
  <2>6. QED
    BY <2>1, <2>4, <2>5 DEF IsSequence
<1>2. x.tenant = requests[r].tenant
  BY DEF PlatformIsSound, Tables, IsRequest
<1>3. Grows
  BY <1>1, <1>2 DEF Grows
<1>4. Tables'
  <2>1. ASSUME NEW q \in DOMAIN requests PROVE IsRequest(requests'[q])
    BY <1>1, <2>1 DEF PlatformIsSound, Tables
  <2>2. QED
    BY <1>1, <2>1 DEF PlatformIsSound, Tables, IsSequence, IsRequest, IsPresentation
<1>5. Identifications'
  BY <1>1 DEF PlatformIsSound, Identifications, Identifies, OwnsRequest
<1>6. HeldAreGiven'
  <2>1. PICK H : H = held'
    OBVIOUS
  <2>2. \A q \in Requests : H[q] # NoValues => q \in DOMAIN requests /\ AreGiven(H[q], q)
    BY <2>1 DEF PlatformIsSound, HeldAreGiven
  <2>3. \A q \in DOMAIN requests : AreGiven(H[q], q) => AreGiven(H[q], q)'
    BY <1>3, GivenStays
  <2>4. QED
    BY <1>1, <2>1, <2>2, <2>3 DEF HeldAreGiven, AreGiven
<1>7. CodesAreAccepted'
  <2>1. PICK R : R = requests'
    OBVIOUS
  <2>2. \A q \in DOMAIN requests :
          /\ R[q].status \in {"coded", "collected", "refused"} => q \in accepted
          /\ R[q].status = "collected" => AreGiven(R[q].values, q)
    BY <1>1, <2>1 DEF PlatformIsSound, CodesAreAccepted
  <2>3. \A q \in DOMAIN requests : AreGiven(R[q].values, q) => AreGiven(R[q].values, q)'
    BY <1>3, GivenStays
  <2>4. QED
    BY <1>1, <2>1, <2>2, <2>3 DEF CodesAreAccepted, AreGiven
<1>8. ReturnsLead'
  BY DEF PlatformIsSound, ReturnsLead, Identifies
<1>9. QED
  BY <1>3, <1>4, <1>5, <1>6, <1>7, <1>8 DEF PlatformIsSound

(* The wallet of who answers p; of an identification, its owner's.          *)
LEMMA Presents ==
  ASSUME PlatformIsSound, NEW who, NEW p \in DOMAIN presentations, Present(who, p),
         Identifies(p) => who = presentations[p].owner, UNCHANGED <<requests, held, accepted, returns>>
  PROVE  PlatformIsSound' /\ Grows
<1>1. PICK x : x = [presentations[p] EXCEPT !.status = "VERIFYING", !.presenter = who]
  OBVIOUS
<1>2. IsPresentation(presentations[p]) /\ presentations[p].status = "AWAITING_WALLET"
  BY DEF PlatformIsSound, Tables, Present
<1>3. /\ IsPresentation(x) /\ x.owner = presentations[p].owner /\ x.policy = presentations[p].policy
      /\ x.request = presentations[p].request /\ x.presenter = who
  BY <1>1, <1>2 DEF IsPresentation
<1>4. presentations' = [presentations EXCEPT ![p] = x]
  <2>1. presentations' = [presentations EXCEPT ![p].status = "VERIFYING", ![p].presenter = who]
    BY DEF Present
  <2>2. QED
    BY <1>1, <2>1
<1>5. QED
  BY <1>2, <1>3, <1>4, PresentationChanges

LEMMA Verifies ==
  ASSUME PlatformIsSound, NEW p \in DOMAIN presentations, VerifyPresentation(p)
  PROVE  PlatformIsSound' /\ Grows
<1>1. PICK outcome \in {"VERIFIED", "REJECTED"} :
        presentations' = [presentations EXCEPT ![p].status = outcome,
                                               ![p].result = IF outcome = "VERIFIED" THEN "fresh" ELSE "none"]
  BY DEF VerifyPresentation
<1>2. PICK x : x = [presentations[p] EXCEPT !.status = outcome,
                                            !.result = IF outcome = "VERIFIED" THEN "fresh" ELSE "none"]
  OBVIOUS
<1>3. IsPresentation(presentations[p]) /\ presentations[p].status = "VERIFYING"
  BY DEF PlatformIsSound, Tables, VerifyPresentation
<1>4. /\ IsPresentation(x) /\ x.owner = presentations[p].owner /\ x.policy = presentations[p].policy
      /\ x.request = presentations[p].request /\ x.presenter = presentations[p].presenter
  BY <1>2, <1>3 DEF IsPresentation
<1>5. presentations' = [presentations EXCEPT ![p] = x]
  BY <1>1, <1>2
<1>6. Identifies(p) => x.presenter = x.owner
  BY <1>3, <1>4 DEF PlatformIsSound, Identifications
<1>7. UNCHANGED <<requests, held, accepted, returns>>
  BY DEF VerifyPresentation
<1>8. QED
  BY <1>3, <1>4, <1>5, <1>6, <1>7, PresentationChanges

(* Its lifetime, its status when that is over, and its result.              *)
LEMMA Ages ==
  ASSUME PlatformIsSound, NEW p \in DOMAIN presentations,
         LifetimePasses(p) \/ ExpirePresentation(p) \/ ResultAges(p)
  PROVE  PlatformIsSound' /\ Grows
<1>1. IsPresentation(presentations[p])
  BY DEF PlatformIsSound, Tables
<1>2. PICK x : /\ IsPresentation(x) /\ presentations' = [presentations EXCEPT ![p] = x]
               /\ x.owner = presentations[p].owner /\ x.policy = presentations[p].policy
               /\ x.request = presentations[p].request /\ x.presenter = presentations[p].presenter
               /\ \/ x.status = presentations[p].status
                  \/ x.status = "EXPIRED" /\ presentations[p].status # "VERIFIED"
  <2>1. CASE LifetimePasses(p)
    <3>1. PICK x : x = [presentations[p] EXCEPT !.late = TRUE]
      OBVIOUS
    <3>2. presentations' = [presentations EXCEPT ![p] = x]
      BY <2>1, <3>1 DEF LifetimePasses
    <3>3. /\ IsPresentation(x) /\ x.owner = presentations[p].owner /\ x.policy = presentations[p].policy
          /\ x.request = presentations[p].request /\ x.presenter = presentations[p].presenter
          /\ x.status = presentations[p].status
      BY <1>1, <3>1 DEF IsPresentation
    <3>4. QED
      BY <3>2, <3>3
  <2>2. CASE ExpirePresentation(p)
    <3>1. PICK x : x = [presentations[p] EXCEPT !.status = "EXPIRED"]
      OBVIOUS
    <3>2. presentations' = [presentations EXCEPT ![p] = x] /\ presentations[p].status # "VERIFIED"
      BY <2>2, <3>1 DEF ExpirePresentation, NonTerminal
    <3>3. /\ IsPresentation(x) /\ x.owner = presentations[p].owner /\ x.policy = presentations[p].policy
          /\ x.request = presentations[p].request /\ x.presenter = presentations[p].presenter
          /\ x.status = "EXPIRED"
      BY <1>1, <3>1 DEF IsPresentation
    <3>4. QED
      BY <3>2, <3>3
  <2>3. CASE ResultAges(p)
    <3>1. PICK x : x = [presentations[p] EXCEPT !.result = IF @ = "fresh" THEN "old" ELSE "gone"]
      OBVIOUS
    <3>2. presentations' = [presentations EXCEPT ![p] = x]
      BY <2>3, <3>1 DEF ResultAges
    <3>3. /\ IsPresentation(x) /\ x.owner = presentations[p].owner /\ x.policy = presentations[p].policy
          /\ x.request = presentations[p].request /\ x.presenter = presentations[p].presenter
          /\ x.status = presentations[p].status
      BY <1>1, <3>1 DEF IsPresentation
    <3>4. QED
      BY <3>2, <3>3
  <2>4. QED
    BY <2>1, <2>2, <2>3
<1>3. Identifies(p) /\ x.status \in {"VERIFYING", "VERIFIED"} => x.presenter = x.owner
  BY <1>2 DEF PlatformIsSound, Identifications
<1>4. UNCHANGED <<requests, held, accepted, returns>>
  BY DEF LifetimePasses, ExpirePresentation, ResultAges
<1>5. QED
  BY <1>2, <1>3, <1>4, PresentationChanges

(* The engine asks for the claims; values that waited are gone.             *)
LEMMA Collects ==
  ASSUME PlatformIsSound, NEW r \in DOMAIN requests, Attributes(r)
  PROVE  PlatformIsSound' /\ Grows
<1>1. PICK x : x = [requests[r] EXCEPT !.status = IF held[r] = NoValues THEN "refused" ELSE "collected",
                                       !.values = held[r]]
  OBVIOUS
<1>2. /\ IsRequest(requests[r]) /\ requests[r].status = "coded" /\ r \in Requests
  <2>1. Len(requests) \in Nat /\ DOMAIN requests = 1 .. Len(requests) /\ Len(requests) <= MaxRequests
    BY SequenceFacts DEF PlatformIsSound, Tables
  <2>2. QED
    BY <2>1, HostedPlatformAssumption DEF PlatformIsSound, Tables, Attributes, Requests
<1>3. /\ IsRequest(x) /\ x.owner = requests[r].owner /\ x.policy = requests[r].policy
      /\ x.values = held[r] /\ (x.status = "collected" => held[r] # NoValues)
  BY <1>1, <1>2 DEF IsRequest
<1>4. requests' = [requests EXCEPT ![r] = x]
  BY <1>1 DEF Attributes
<1>5. r \in accepted
  BY <1>2 DEF PlatformIsSound, CodesAreAccepted
<1>6. x.status = "collected" => AreGiven(x.values, r)
  BY <1>2, <1>3 DEF PlatformIsSound, HeldAreGiven
<1>7. /\ DOMAIN held' = Requests /\ \A q \in Requests : held'[q] \in {held[q], NoValues}
      /\ UNCHANGED <<accepted, presentations, returns>>
  BY DEF PlatformIsSound, Tables, Attributes
<1>8. QED
  BY <1>3, <1>4, <1>5, <1>6, <1>7, RequestChanges

LEMMA Forgets ==
  ASSUME PlatformIsSound, NEW r, HeldExpires(r)
  PROVE  PlatformIsSound' /\ Grows
<1>1. DOMAIN held' = Requests /\ \A q \in Requests : held'[q] \in {held[q], NoValues}
  BY DEF PlatformIsSound, Tables, HeldExpires
<1>2. QED
  BY <1>1, HeldChange DEF HeldExpires

(* The process stops.                                                       *)
LEMMA Restarts ==
  ASSUME PlatformIsSound, PlatformRestarts
  PROVE  PlatformIsSound' /\ Grows
<1>1. Grows
  BY NothingGrows DEF PlatformRestarts
<1>2. DOMAIN returns' = {} /\ DOMAIN held' = Requests /\ \A r \in Requests : held'[r] = NoValues
  BY DEF PlatformRestarts
<1>3. UNCHANGED <<requests, accepted, presentations>>
  BY DEF PlatformRestarts
<1>4. Tables' /\ Identifications' /\ ReturnsLead' /\ HeldAreGiven' /\ CodesAreAccepted'
  BY <1>2, <1>3 DEF PlatformIsSound, Tables, IsSequence, IsRequest, IsPresentation, Identifications,
     Identifies, OwnsRequest, ReturnsLead, HeldAreGiven, CodesAreAccepted, AreGiven, Owns
<1>5. QED
  BY <1>1, <1>4 DEF PlatformIsSound

-----------------------------------------------------------------------------
(* Pages and requests to a front                                            *)

(* Which policies have a form, and which of them identify first.            *)
LEMMA FormPolicies ==
  ASSUME NEW policy
  PROVE  /\ [policy |-> policy, identify |-> "none"] \in HostedFormPolicies <=> policy = "pid"
         /\ Binding(policy) # {} => policy \in {"pid", "rep"}
         /\ \A b \in Binding(policy) : b.identify = IF policy = "pid" THEN "none" ELSE "who"
         /\ Form(policy) = "identify" => policy = "rep"
         /\ (\E b \in Binding(policy) : b.identify # "none") =>
              policy = "rep" /\ (CHOOSE b \in Binding(policy) : TRUE).identify = "who"
<1>1. [policy |-> policy, identify |-> "none"] \in HostedFormPolicies <=> policy = "pid"
  BY DEF HostedFormPolicies
<1>2. \A b \in Binding(policy) :
        policy \in {"pid", "rep"} /\ b.identify = IF policy = "pid" THEN "none" ELSE "who"
  BY DEF Binding, HostedFormPolicies
<1>3. Form(policy) = "identify" => policy = "rep"
  BY <1>1, <1>2 DEF Form, Refused
<1>4. ASSUME NEW c \in Binding(policy), c.identify # "none"
      PROVE  policy = "rep" /\ (CHOOSE b \in Binding(policy) : TRUE).identify = "who"
  <2>1. policy = "rep"
    BY <1>2, <1>4
  <2>2. (CHOOSE b \in Binding(policy) : TRUE) \in Binding(policy)
    BY <1>4
  <2>3. QED
    BY <1>2, <2>1, <2>2
<1>5. QED
  BY <1>1, <1>2, <1>3, <1>4

(* Requests and presentations are numbered from one.                        *)
LEMMA NoneIsZero ==
  ASSUME PlatformIsSound
  PROVE  /\ \A r \in DOMAIN requests : r # 0
         /\ \A p \in DOMAIN presentations : p # 0
<1>1. /\ Len(requests) \in Nat /\ DOMAIN requests = 1 .. Len(requests)
      /\ Len(presentations) \in Nat /\ DOMAIN presentations = 1 .. Len(presentations)
  BY SequenceFacts DEF PlatformIsSound, Tables
<1>2. QED
  BY <1>1

LEMMA Awaiting ==
  ASSUME FrontsAreSound, Grows, NEW v \in Visitors, NEW call, NEW l,
         Await(v, call, l), RequestIsOwn(v, call, l)'
  PROVE  FrontsAreSound'
<1>1. ASSUME NEW u \in Visitors PROVE WindowIsOwn(u)'
  <2>1. PICK page, last, calls, locals :
          page = browser[u] /\ last = back[u] /\ calls = pc[u] /\ locals = loc[u]
    OBVIOUS
  <2>2. PageIsOwn(u, page)' /\ PageIsOwn(u, last)' /\ RequestIsOwn(u, calls, locals)'
    BY <2>1, PageStays, RequestStays DEF FrontsAreSound, WindowIsOwn
  <2>3. browser'[u] = page /\ back'[u] = last
    BY <2>1 DEF Await
  <2>4. CASE u = v
    <3>1. pc'[u] = call /\ loc'[u] = l
      BY <2>4 DEF Await, FrontsAreSound
    <3>2. QED
      BY <2>2, <2>3, <2>4, <3>1 DEF WindowIsOwn
  <2>5. CASE u # v
    <3>1. pc'[u] = calls /\ loc'[u] = locals
      BY <2>1, <2>5 DEF Await, FrontsAreSound
    <3>2. QED
      BY <2>2, <2>3, <3>1 DEF WindowIsOwn
  <2>6. QED
    BY <2>4, <2>5
<1>2. DOMAIN pc' = Visitors /\ DOMAIN loc' = Visitors /\ UNCHANGED <<browser, back>>
  BY DEF Await, FrontsAreSound
<1>3. QED
  BY <1>1, <1>2 DEF FrontsAreSound

LEMMA Responding ==
  ASSUME FrontsAreSound, Grows, NEW v \in Visitors, NEW page,
         Respond(v, page), PageIsOwn(v, page)'
  PROVE  FrontsAreSound'
<1>1. ASSUME NEW u \in Visitors PROVE WindowIsOwn(u)'
  <2>1. PICK now, last, calls, locals :
          now = browser[u] /\ last = back[u] /\ calls = pc[u] /\ locals = loc[u]
    OBVIOUS
  <2>2. PageIsOwn(u, now)' /\ PageIsOwn(u, last)' /\ RequestIsOwn(u, calls, locals)'
    BY <2>1, PageStays, RequestStays DEF FrontsAreSound, WindowIsOwn
  <2>3. CASE u = v
    <3>1. pc'[u] = "idle" /\ loc'[u] = NoLocals /\ browser'[u] = page /\ back'[u] \in {now, last}
      BY <2>1, <2>3 DEF Respond, FrontsAreSound
    <3>2. RequestIsOwn(v, "idle", NoLocals)'
      BY DEF RequestIsOwn, IsLocals, NoLocals
    <3>3. QED
      BY <2>2, <2>3, <3>1, <3>2 DEF WindowIsOwn
  <2>4. CASE u # v
    <3>1. pc'[u] = calls /\ loc'[u] = locals /\ browser'[u] = now /\ back'[u] = last
      BY <2>1, <2>4 DEF Respond, FrontsAreSound
    <3>2. QED
      BY <2>2, <3>1 DEF WindowIsOwn
  <2>5. QED
    BY <2>3, <2>4
<1>2. DOMAIN pc' = Visitors /\ DOMAIN loc' = Visitors /\ DOMAIN browser' = Visitors /\ DOMAIN back' = Visitors
  BY DEF Respond, FrontsAreSound
<1>3. QED
  BY <1>1, <1>2 DEF FrontsAreSound

(* What was right before the step still is.                                 *)
LEMMA AwaitingAgain ==
  ASSUME FrontsAreSound, Grows, NEW v \in Visitors, NEW call, NEW l,
         Await(v, call, l), RequestIsOwn(v, call, l)
  PROVE  FrontsAreSound'
BY RequestStays, Awaiting

LEMMA RespondingAgain ==
  ASSUME FrontsAreSound, Grows, NEW v \in Visitors, NEW page,
         Respond(v, page), PageIsOwn(v, page)
  PROVE  FrontsAreSound'
BY PageStays, Responding

LEMMA PlatformStays ==
  ASSUME PlatformIsSound, UNCHANGED platform
  PROVE  PlatformIsSound' /\ Grows
<1>1. UNCHANGED <<requests, held, accepted, presentations, returns>>
  BY DEF platform
<1>2. DOMAIN held' = Requests /\ \A r \in Requests : held'[r] \in {held[r], NoValues}
  BY <1>1 DEF PlatformIsSound, Tables
<1>3. QED
  BY <1>1, <1>2, HeldChange

(* The pages that name nothing, and those that name what their visitor has. *)
LEMMA PlainPages ==
  ASSUME NEW v
  PROVE  PageIsOwn(v, WalletApp) /\ PageIsOwn(v, RenderMessage) /\ PageIsOwn(v, RenderFailure)
BY DEF PageIsOwn, WalletApp, RenderMessage, RenderFailure, Page

LEMMA FormPages ==
  ASSUME NEW v, NEW r, NEW policy, r # 0, OwnsRequest(v, r)
  PROVE  PageIsOwn(v, RenderForm(r, policy)) /\ PageIsOwn(v, RenderIdentify(r, policy))
BY DEF PageIsOwn, RenderForm, RenderIdentify, Page

LEMMA WaitingPage ==
  ASSUME NEW v, NEW site, NEW policy, NEW r, NEW p, p # 0, Leads(v, r, p),
         r # 0 => OwnsRequest(v, r), site = "form" => r # 0
  PROVE  PageIsOwn(v, RenderWaiting(site, policy, r, p))
BY DEF PageIsOwn, RenderWaiting, Page

(* After the step that started p. *)
LEMMA WalletPage ==
  ASSUME NEW v, NEW site, NEW policy, NEW r, NEW p, p # 0, Leads(v, r, p)', r # 0 => OwnsRequest(v, r)'
  PROVE  PageIsOwn(v, RenderOpenWallet(site, policy, r, p))'
BY DEF PageIsOwn, RenderOpenWallet, Page

-----------------------------------------------------------------------------
(* Each action of a visitor                                                 *)

LEMMA PushIsSound ==
  ASSUME PlatformIsSound, NEW v, NEW policy, Push(v, policy), Len(requests) < MaxRequests,
         UNCHANGED <<held, accepted, presentations, returns>>, NEW r, r = Len(requests) + 1
  PROVE  PlatformIsSound' /\ Grows /\ OwnsRequest(v, r)'
<1>1. PICK s, x : s = requests /\ x = [owner |-> v, policy |-> policy, tenant |-> IssuedBy(policy),
                                      status |-> "pushed", values |-> NoValues]
  OBVIOUS
<1>2. requests' = Append(s, x)
  BY <1>1 DEF Push
<1>3. IsRequest(x) /\ x.owner = v /\ x.status = "pushed"
  BY <1>1 DEF IsRequest
<1>4. PICK t : t = Append(s, x)
  OBVIOUS
<1>5. /\ IsSequence(t) /\ Len(t) = r /\ DOMAIN t = DOMAIN s \cup {r} /\ t[r] = x
      /\ \A q \in DOMAIN s : q # r /\ t[q] = s[q]
  BY <1>1, <1>4, Appended DEF PlatformIsSound, Tables
<1>6. requests' = t
  BY <1>2, <1>4
<1>7. Grows
  BY <1>1, <1>5, <1>6 DEF Grows
<1>8. Tables'
  <2>1. Len(s) \in Nat /\ r <= MaxRequests
    BY <1>1, <1>4, SequenceFacts, HostedPlatformAssumption DEF PlatformIsSound, Tables
  <2>2. \A q \in DOMAIN t : IsRequest(t[q])
    BY <1>1, <1>3, <1>5 DEF PlatformIsSound, Tables
  <2>3. QED
    BY <1>5, <1>6, <2>1, <2>2 DEF PlatformIsSound, Tables, IsSequence, IsRequest, IsPresentation
<1>9. Identifications'
  BY <1>1, <1>5, <1>6 DEF PlatformIsSound, Identifications, Identifies, OwnsRequest
<1>10. HeldAreGiven'
  <2>1. PICK H : H = held'
    OBVIOUS
  <2>2. \A q \in Requests : H[q] # NoValues => q \in DOMAIN requests /\ AreGiven(H[q], q)
    BY <2>1 DEF PlatformIsSound, HeldAreGiven
  <2>3. \A q \in DOMAIN requests : AreGiven(H[q], q) => AreGiven(H[q], q)'
    BY <1>7, GivenStays
  <2>4. \A q \in DOMAIN requests : q \in DOMAIN requests'
    BY <1>1, <1>5, <1>6
  <2>5. QED
    BY <2>1, <2>2, <2>3, <2>4 DEF HeldAreGiven, AreGiven
<1>11. CodesAreAccepted'
  <2>1. \A q \in DOMAIN s :
          /\ t[q].status \in {"coded", "collected", "refused"} => q \in accepted
          /\ t[q].status = "collected" => AreGiven(t[q].values, q)
    BY <1>1, <1>5 DEF PlatformIsSound, CodesAreAccepted
  <2>2. \A q \in DOMAIN s : AreGiven(t[q].values, q) => AreGiven(t[q].values, q)'
    BY <1>1, <1>7, GivenStays
  <2>3. QED
    BY <1>3, <1>5, <1>6, <2>1, <2>2 DEF CodesAreAccepted, AreGiven
<1>12. ReturnsLead'
  BY DEF PlatformIsSound, ReturnsLead, Identifies
<1>13. QED
  BY <1>1, <1>3, <1>4, <1>5, <1>6, <1>7, <1>8, <1>9, <1>10, <1>11, <1>12 DEF PlatformIsSound, OwnsRequest

LEMMA PushRequestIsSound ==
  ASSUME PlatformIsSound, FrontsAreSound, NEW v \in Visitors, PushRequest(v)
  PROVE  PlatformIsSound' /\ FrontsAreSound' /\ Grows
<1>1. PICK policy, r : policy = day.errand[v] /\ r = Len(requests) + 1
  OBVIOUS
<1>2. PICK l : l = [NoLocals EXCEPT !.request = r]
  OBVIOUS
<1>3. Push(v, policy) /\ Await(v, "gate", l) /\ Len(requests) < MaxRequests
  BY <1>1, <1>2 DEF PushRequest
<1>4. UNCHANGED <<held, accepted, presentations, returns>>
  BY DEF PushRequest
<1>5. PlatformIsSound' /\ Grows /\ OwnsRequest(v, r)'
  BY <1>1, <1>3, <1>4, PushIsSound DEF OwnsRequest
<1>6. RequestIsOwn(v, "gate", l)'
  BY <1>2, <1>5 DEF RequestIsOwn, IsLocals, NoLocals
<1>7. QED
  BY <1>3, <1>5, <1>6, Awaiting

(* Only a pass lets a request through to the engine, which the form gave    *)
(* for a submission.                                                        *)
LEMMA AuthorizeIsSound ==
  ASSUME PlatformIsSound, FrontsAreSound, NEW v \in Visitors, Authorize(v)
  PROVE  PlatformIsSound' /\ FrontsAreSound' /\ Grows
<1>1. PICK l, r, m : l = loc[v] /\ r = l.request /\ m = requests[r]
  OBVIOUS
<1>2. PICK request : request = AuthorizationRequest(v)
  OBVIOUS
<1>3. PICK decision : decision = Decide(GatewayConfig, "engine", request, {"general", "issuance"})
  OBVIOUS
<1>4. /\ pc[v] = "gate"
      /\ \/ /\ decision.answer = 302 /\ Await(v, "definition", [l EXCEPT !.for = "open"])
            /\ UNCHANGED requests
         \/ decision.answer = 200 /\ AuthorizeAtEngine(r) /\ Respond(v, WalletApp)
      /\ UNCHANGED <<held, accepted, presentations, returns>>
  BY <1>1, <1>2, <1>3 DEF Authorize
<1>5. RequestIsOwn(v, "gate", l)
  BY <1>1, <1>4 DEF FrontsAreSound, WindowIsOwn
<1>6. OwnsRequest(v, r) /\ IsLocals(l) /\ (l.pass # NoPass => r \in accepted)
  BY <1>1, <1>5 DEF RequestIsOwn
<1>7. r \in DOMAIN requests /\ IsRequest(m) /\ r # 0
  BY <1>1, <1>6, NoneIsZero DEF OwnsRequest, PlatformIsSound, Tables
<1>8. CASE UNCHANGED requests /\ Await(v, "definition", [l EXCEPT !.for = "open"])
  <2>1. PlatformIsSound' /\ Grows
    BY <1>4, <1>8, PlatformStays DEF platform
  <2>2. PICK next : next = [l EXCEPT !.for = "open"]
    OBVIOUS
  <2>3. next.for = "open" /\ next.request = r /\ IsLocals(next)
    BY <1>1, <1>6, <2>2 DEF IsLocals
  <2>4. RequestIsOwn(v, "definition", next)
    BY <1>6, <2>3 DEF RequestIsOwn
  <2>5. QED
    BY <1>8, <2>1, <2>2, <2>4, AwaitingAgain
<1>9. CASE decision.answer = 200 /\ AuthorizeAtEngine(r) /\ Respond(v, WalletApp)
  <2>1. r \in accepted
    <3>1. /\ request.method = "GET" /\ request.endpoint = "authorize" /\ request.pass = l.pass
          /\ request.requestUri = r /\ request.tenant \in {"pid-1", "rep-1"}
      BY <1>1, <1>2, <1>7 DEF AuthorizationRequest, IsRequest, IssuedBy
    <3>2. IsGated(GatewayConfig, request)
      BY <3>1 DEF IsGated, GatewayConfig
    <3>3. PICK gate : gate = HostedFormGate(GatewayConfig, request)
      OBVIOUS
    <3>4. gate = IF PassFits(request) THEN "pass" ELSE "redirect"
      BY <1>7, <3>1, <3>2, <3>3 DEF HostedFormGate
    <3>5. IsAllowed("engine", request) /\ ClassOf("engine", request) = "general"
      BY <3>1 DEF IsAllowed, RulesOf, ENGINE_RULES, ClassOf
    <3>6. gate = "redirect" => decision.answer = 302
      BY <1>3, <3>3, <3>5 DEF Decide
    <3>7. PassFits(request)
      BY <1>9, <3>4, <3>6
    <3>8. l.pass # NoPass
      BY <1>7, <3>1, <3>7 DEF PassFits, HostedFormAuthorizePass, NoPass
    <3>9. QED
      BY <1>6, <3>8
  <2>2. PICK x : x = [m EXCEPT !.status = IF @ = "pushed" THEN "coded" ELSE @]
    OBVIOUS
  <2>3. requests' = [requests EXCEPT ![r] = x]
    BY <1>1, <1>9, <2>2 DEF AuthorizeAtEngine
  <2>4. /\ IsRequest(x) /\ x.owner = m.owner /\ x.policy = m.policy /\ x.values = m.values
        /\ x.status = "collected" => m.status = "collected"
    BY <1>7, <2>2 DEF IsRequest
  <2>5. x.status = "collected" => AreGiven(x.values, r)
    BY <1>1, <1>7, <2>4 DEF PlatformIsSound, CodesAreAccepted
  <2>6. DOMAIN held' = Requests /\ \A q \in Requests : held'[q] \in {held[q], NoValues}
    BY <1>4 DEF PlatformIsSound, Tables
  <2>7. PlatformIsSound' /\ Grows
    BY <1>1, <1>4, <1>7, <2>1, <2>3, <2>4, <2>5, <2>6, RequestChanges
  <2>8. PICK page : page = WalletApp
    OBVIOUS
  <2>9. PageIsOwn(v, page)
    BY <2>8, PlainPages
  <2>10. QED
    BY <1>9, <2>7, <2>8, <2>9, RespondingAgain
<1>10. QED
  BY <1>4, <1>8, <1>9

(* What a request and a page say of their visitor, before the step.         *)
LEMMA WindowFacts ==
  ASSUME FrontsAreSound, NEW v \in Visitors
  PROVE  PageIsOwn(v, browser[v]) /\ PageIsOwn(v, back[v]) /\ RequestIsOwn(v, pc[v], loc[v])
BY DEF FrontsAreSound, WindowIsOwn

LEMMA Presses ==
  ASSUME PlatformIsSound, FrontsAreSound, NEW v \in Visitors, NEW at, NEW call, NEW l,
         Press(v, at, call, l), RequestIsOwn(v, call, l)
  PROVE  PlatformIsSound' /\ FrontsAreSound' /\ Grows
<1>1. UNCHANGED platform /\ Await(v, call, l)
  BY DEF Press
<1>2. QED
  BY <1>1, PlatformStays, AwaitingAgain

LEMMA ReadDefinitionIsSound ==
  ASSUME PlatformIsSound, FrontsAreSound, NEW v \in Visitors, ReadDefinition(v)
  PROVE  PlatformIsSound' /\ FrontsAreSound' /\ Grows
<1>1. PICK l, r : l = loc[v] /\ r = l.request
  OBVIOUS
<1>2. PICK policy : policy = Resolve(requests[r].tenant, r)
  OBVIOUS
<1>3. PICK flow : flow = Form(policy)
  OBVIOUS
<1>4. /\ pc[v] = "definition" /\ UNCHANGED platform
      /\ \/ policy = Refused /\ Respond(v, RenderMessage)
         \/ /\ policy # Refused /\ l.for = "open"
            /\ Respond(v, IF flow = "form" THEN RenderForm(r, policy) ELSE RenderIdentify(r, policy))
         \/ /\ policy # Refused /\ l.for = "confirm"
            /\ IF policy = l.policy THEN Await(v, "submit", l) ELSE Respond(v, RenderMessage)
         \/ /\ policy # Refused /\ l.for = "continue"
            /\ IF flow = "identify" THEN Await(v, "identification", [l EXCEPT !.policy = policy])
               ELSE Respond(v, RenderMessage)
  BY <1>1, <1>2, <1>3, Zenon DEF ReadDefinition
<1>5. RequestIsOwn(v, "definition", l)
  BY <1>1, <1>4, WindowFacts
<1>6. /\ IsLocals(l) /\ OwnsRequest(v, r)
      /\ l.for = "confirm" => Typed(v, l)
      /\ l.for = "continue" => Leads(v, r, l.presentation)
  BY <1>1, <1>5 DEF RequestIsOwn
<1>7. r # 0
  BY <1>6, NoneIsZero DEF OwnsRequest
<1>8. policy # Refused => policy = requests[r].policy
  BY <1>2 DEF Resolve
<1>9. PlatformIsSound' /\ Grows
  BY <1>4, PlatformStays
<1>10. PICK message : message = RenderMessage
  OBVIOUS
<1>11. Respond(v, message) => FrontsAreSound'
  BY <1>9, <1>10, PlainPages, RespondingAgain
<1>12. PICK form, identify : form = RenderForm(r, policy) /\ identify = RenderIdentify(r, policy)
  OBVIOUS
<1>13. Respond(v, form) \/ Respond(v, identify) => FrontsAreSound'
  BY <1>6, <1>7, <1>9, <1>12, FormPages, RespondingAgain
<1>14. ASSUME policy # Refused, l.for = "confirm", policy = l.policy, Await(v, "submit", l)
       PROVE  FrontsAreSound'
  <2>1. RequestIsOwn(v, "submit", l)
    BY <1>1, <1>6, <1>8, <1>14 DEF RequestIsOwn
  <2>2. QED
    BY <1>9, <1>14, <2>1, AwaitingAgain
<1>15. PICK next : next = [l EXCEPT !.policy = policy]
  OBVIOUS
<1>16. ASSUME policy # Refused, l.for = "continue", flow = "identify", Await(v, "identification", next)
       PROVE  FrontsAreSound'
  <2>1. IsLocals(next) /\ next.request = r /\ next.policy = policy /\ next.presentation = l.presentation
    BY <1>1, <1>6, <1>15 DEF IsLocals
  <2>2. policy = "rep"
    BY <1>3, <1>16, FormPolicies
  <2>3. RequestIsOwn(v, "identification", next)
    BY <1>6, <1>8, <1>16, <2>1, <2>2 DEF RequestIsOwn
  <2>4. QED
    BY <1>9, <1>16, <2>3, AwaitingAgain
<1>17. QED
  BY <1>4, <1>9, <1>10, <1>11, <1>12, <1>13, <1>14, <1>15, <1>16

LEMMA ConfirmIsSound ==
  ASSUME PlatformIsSound, FrontsAreSound, NEW v \in Visitors, Confirm(v)
  PROVE  PlatformIsSound' /\ FrontsAreSound' /\ Grows
<1>1. PICK page : page = browser[v]
  OBVIOUS
<1>2. PICK person \in {v, "none"} :
        Press(v, "form", "definition", [NoLocals EXCEPT !.for = "confirm", !.request = page.request,
                                                        !.policy = page.policy, !.person = person])
  BY <1>1 DEF Confirm
<1>3. PICK l : l = [NoLocals EXCEPT !.for = "confirm", !.request = page.request,
                                    !.policy = page.policy, !.person = person]
  OBVIOUS
<1>4. OwnsRequest(v, page.request)
  BY <1>1, <1>2, WindowFacts DEF Press, PageIsOwn
<1>5. RequestIsOwn(v, "definition", l)
  BY <1>3, <1>4 DEF RequestIsOwn, IsLocals, Typed, NoLocals
<1>6. QED
  BY <1>2, <1>3, <1>5, Presses

LEMMA IdentificarseIsSound ==
  ASSUME PlatformIsSound, FrontsAreSound, NEW v \in Visitors, Identificarse(v)
  PROVE  PlatformIsSound' /\ FrontsAreSound' /\ Grows
<1>1. PICK page : page = browser[v]
  OBVIOUS
<1>2. PICK l : l = [NoLocals EXCEPT !.for = "identify", !.request = page.request, !.policy = page.policy]
  OBVIOUS
<1>3. Press(v, "identify", "identify", l)
  BY <1>1, <1>2 DEF Identificarse
<1>4. OwnsRequest(v, page.request)
  BY <1>1, <1>3, WindowFacts DEF Press, PageIsOwn
<1>5. RequestIsOwn(v, "identify", l)
  BY <1>2, <1>4 DEF RequestIsOwn, IsLocals, NoLocals
<1>6. QED
  BY <1>3, <1>5, Presses

LEMMA SolicitarIsSound ==
  ASSUME PlatformIsSound, FrontsAreSound, NEW v \in Visitors, Solicitar(v)
  PROVE  PlatformIsSound' /\ FrontsAreSound' /\ Grows
<1>1. PICK page : page = browser[v]
  OBVIOUS
<1>2. PICK l : l = [NoLocals EXCEPT !.for = "request", !.request = page.request,
                                    !.policy = page.policy, !.presentation = page.presentation]
  OBVIOUS
<1>3. Press(v, "request", "submit", l)
  BY <1>1, <1>2 DEF Solicitar
<1>4. /\ OwnsRequest(v, page.request) /\ Leads(v, page.request, page.presentation)
      /\ Identifies(page.presentation) /\ requests[page.request].policy = page.policy
  BY <1>1, <1>3, WindowFacts DEF Press, PageIsOwn
<1>5. RequestIsOwn(v, "submit", l)
  BY <1>2, <1>4 DEF RequestIsOwn, IsLocals, NoLocals
<1>6. QED
  BY <1>3, <1>5, Presses

LEMMA ReloadIsSound ==
  ASSUME PlatformIsSound, FrontsAreSound, NEW v \in Visitors, Reload(v)
  PROVE  PlatformIsSound' /\ FrontsAreSound' /\ Grows
<1>1. PICK page : page = browser[v]
  OBVIOUS
<1>2. PageIsOwn(v, page)
  BY <1>1, WindowFacts
<1>3. PICK l, m :
        /\ l = [NoLocals EXCEPT !.for = "continue", !.request = page.request, !.presentation = page.presentation]
        /\ m = [NoLocals EXCEPT !.for = "result", !.policy = page.policy, !.presentation = page.presentation]
  OBVIOUS
<1>4. CASE page.site = "form" /\ Press(v, "waiting", "definition", l)
  <2>1. OwnsRequest(v, page.request) /\ Leads(v, page.request, page.presentation)
    BY <1>1, <1>2, <1>4 DEF Press, PageIsOwn
  <2>2. RequestIsOwn(v, "definition", l)
    BY <1>3, <2>1 DEF RequestIsOwn, IsLocals, NoLocals
  <2>3. QED
    BY <1>4, <2>2, Presses
<1>5. CASE Press(v, "waiting", "result", m)
  <2>1. Owns(v, page.presentation)
    BY <1>1, <1>2, <1>5 DEF Press, PageIsOwn, Leads
  <2>2. RequestIsOwn(v, "result", m)
    BY <1>3, <2>1 DEF RequestIsOwn, IsLocals, NoLocals
  <2>3. QED
    BY <1>5, <2>2, Presses
<1>6. QED
  BY <1>1, <1>3, <1>4, <1>5 DEF Reload

LEMMA VerificarIsSound ==
  ASSUME PlatformIsSound, FrontsAreSound, NEW v \in Visitors, Verificar(v)
  PROVE  PlatformIsSound' /\ FrontsAreSound' /\ Grows
<1>1. PICK l : l = [NoLocals EXCEPT !.for = "start", !.policy = day.errand[v]]
  OBVIOUS
<1>2. PICK at : Press(v, at, "start", l)
  BY <1>1 DEF Verificar
<1>3. RequestIsOwn(v, "start", l)
  BY <1>1 DEF RequestIsOwn, IsLocals, NoLocals
<1>4. QED
  BY <1>2, <1>3, Presses

LEMMA GoBackIsSound ==
  ASSUME PlatformIsSound, FrontsAreSound, NEW v \in Visitors, GoBack(v)
  PROVE  PlatformIsSound' /\ FrontsAreSound' /\ Grows
<1>1. PlatformIsSound' /\ Grows
  BY PlatformStays DEF GoBack
<1>2. ASSUME NEW u \in Visitors PROVE WindowIsOwn(u)'
  <2>1. PICK page, last, call, l : page = browser[u] /\ last = back[u] /\ call = pc[u] /\ l = loc[u]
    OBVIOUS
  <2>2. PageIsOwn(u, page)' /\ PageIsOwn(u, last)' /\ RequestIsOwn(u, call, l)'
    BY <1>1, <2>1, WindowFacts, PageStays, RequestStays
  <2>3. browser'[u] \in {page, last} /\ back'[u] = last /\ pc'[u] = call /\ loc'[u] = l
    BY <2>1 DEF GoBack, FrontsAreSound
  <2>4. QED
    BY <2>2, <2>3 DEF WindowIsOwn
<1>3. /\ DOMAIN browser' = Visitors /\ DOMAIN back' = Visitors
      /\ DOMAIN pc' = Visitors /\ DOMAIN loc' = Visitors
  BY DEF GoBack, FrontsAreSound
<1>4. QED
  BY <1>1, <1>2, <1>3 DEF FrontsAreSound

LEMMA CallFailsIsSound ==
  ASSUME PlatformIsSound, FrontsAreSound, NEW v \in Visitors, CallFails(v)
  PROVE  PlatformIsSound' /\ FrontsAreSound' /\ Grows
<1>1. PlatformIsSound' /\ Grows
  BY PlatformStays DEF CallFails
<1>2. PICK page, call, l : page = Unavailable(v) /\ call = pc[v] /\ l = loc[v]
  OBVIOUS
<1>3. RequestIsOwn(v, call, l)
  BY <1>2, WindowFacts
<1>4. call \in {"submit", "identification"} => OwnsRequest(v, l.request) /\ l.request # 0
  BY <1>3, NoneIsZero DEF RequestIsOwn, OwnsRequest
<1>5. \/ page = RenderForm(l.request, l.policy) /\ call = "submit"
      \/ page = RenderIdentify(l.request, l.policy) /\ call = "identification"
      \/ page \in {RenderMessage, RenderFailure}
  BY <1>2 DEF Unavailable
<1>6. PageIsOwn(v, page)
  BY <1>4, <1>5, PlainPages, FormPages
<1>7. QED
  BY <1>1, <1>2, <1>6, RespondingAgain DEF CallFails

LEMMA RestartPlatformIsSound ==
  ASSUME PlatformIsSound, FrontsAreSound, RestartPlatform
  PROVE  PlatformIsSound' /\ FrontsAreSound' /\ Grows
BY Restarts, FrontsStay DEF RestartPlatform

(* What a submission holds is what the owner of the request submitted: what *)
(* they typed, or the presentation they started from it and presented.      *)
LEMMA SubmissionIsGiven ==
  ASSUME PlatformIsSound, NEW v, NEW l, NEW r, NEW values,
         OwnsRequest(v, r), l.policy = requests[r].policy,
         \/ Typed(v, l)
         \/ Leads(v, r, l.presentation) /\ Identifies(l.presentation),
         values = ValuesOf(l.person, l.presentation), ~SubmissionRefused(l.policy, r, values)
  PROVE  AreGiven(values, r)
<1>1. values.presentation = l.presentation
  BY DEF ValuesOf
<1>2. CASE Typed(v, l)
  <2>1. l.presentation = 0 /\ values.person = l.person
    BY <1>2 DEF Typed, ValuesOf
  <2>2. l.policy = "pid" /\ values.person # "none"
    BY <1>1, <2>1, FormPolicies DEF SubmissionRefused
  <2>3. QED
    BY <1>1, <1>2, <2>1, <2>2 DEF AreGiven, Typed, OwnsRequest
<1>3. CASE Leads(v, r, l.presentation) /\ Identifies(l.presentation)
  <2>1. l.presentation # 0 /\ Owns(v, l.presentation) /\ presentations[l.presentation].request = r
    BY <1>3, NoneIsZero DEF Leads, Owns
  <2>2. l.policy = "rep" /\ PresentationServes(l.presentation)
    BY <1>1, <2>1, FormPolicies DEF SubmissionRefused
  <2>3. presentations[l.presentation].presenter = v
    BY <1>3, <2>1, <2>2 DEF PlatformIsSound, Identifications, PresentationServes, Owns
  <2>4. values.person = v
    BY <2>1, <2>3 DEF ValuesOf
  <2>5. QED
    BY <1>1, <2>1, <2>2, <2>4 DEF AreGiven, OwnsRequest
<1>4. QED
  BY <1>2, <1>3

LEMMA SubmitIsSound ==
  ASSUME PlatformIsSound, FrontsAreSound, NEW v \in Visitors, Submit(v)
  PROVE  PlatformIsSound' /\ FrontsAreSound' /\ Grows
<1>1. PICK l, r : l = loc[v] /\ r = l.request
  OBVIOUS
<1>2. PICK values, pass : /\ values = ValuesOf(l.person, l.presentation)
                          /\ pass = HostedFormAuthorizePass(requests[r].tenant, r)
  OBVIOUS
<1>3. PICK page : page = IF l.for = "confirm" THEN RenderForm(r, l.policy) ELSE RenderMessage
  OBVIOUS
<1>4. PICK next : next = [NoLocals EXCEPT !.request = r, !.pass = pass]
  OBVIOUS
<1>5. /\ pc[v] = "submit" /\ UNCHANGED <<requests, presentations, returns>>
      /\ \/ UNCHANGED <<held, accepted>> /\ Respond(v, page)
         \/ /\ ~SubmissionRefused(l.policy, r, values) /\ Hold(r, values)
            /\ Await(v, "gate", next) \/ Respond(v, page)
  BY <1>1, <1>2, <1>3, <1>4 DEF Submit
<1>6. RequestIsOwn(v, "submit", l)
  BY <1>1, <1>5, WindowFacts
<1>7. /\ OwnsRequest(v, r) /\ l.policy = requests[r].policy
      /\ \/ Typed(v, l)
         \/ Leads(v, r, l.presentation) /\ Identifies(l.presentation)
  BY <1>1, <1>6 DEF RequestIsOwn
<1>8. r \in DOMAIN requests /\ r # 0
  BY <1>7, NoneIsZero DEF OwnsRequest
<1>9. PageIsOwn(v, page)
  BY <1>3, <1>7, <1>8, PlainPages, FormPages
<1>10. CASE UNCHANGED <<held, accepted>> /\ Respond(v, page)
  BY <1>5, <1>9, <1>10, PlatformStays, RespondingAgain DEF platform
<1>11. CASE /\ ~SubmissionRefused(l.policy, r, values) /\ Hold(r, values)
            /\ Await(v, "gate", next) \/ Respond(v, page)
  <2>1. AreGiven(values, r)
    BY <1>2, <1>7, <1>11, SubmissionIsGiven
  <2>2. r \in Requests
    <3>1. Len(requests) \in Nat /\ DOMAIN requests = 1 .. Len(requests) /\ Len(requests) <= MaxRequests
      BY SequenceFacts DEF PlatformIsSound, Tables
    <3>2. QED
      BY <1>8, <3>1, HostedPlatformAssumption DEF Requests
  <2>3. PICK H : H = held'
    OBVIOUS
  <2>4. DOMAIN H = Requests /\ H[r] = values /\ \A q \in Requests : q # r => H[q] = held[q]
    BY <1>11, <2>2, <2>3 DEF Hold, PlatformIsSound, Tables
  <2>5. \A q \in Requests : \/ H[q] \in {held[q], NoValues}
                            \/ q \in DOMAIN requests /\ AreGiven(H[q], q)
    <3>1. ASSUME NEW q \in Requests, q = r PROVE AreGiven(H[q], q)
      BY <2>1, <2>4, <3>1
    <3>2. QED
      BY <1>8, <2>4, <3>1
  <2>6. accepted' = accepted \cup {r}
    BY <1>11 DEF Hold
  <2>7. PlatformIsSound' /\ Grows
    BY <1>5, <2>3, <2>4, <2>5, <2>6, HeldChange
  <2>8. CASE Respond(v, page)
    BY <1>9, <2>7, <2>8, RespondingAgain
  <2>9. CASE Await(v, "gate", next)
    <3>1. IsLocals(next) /\ next.request = r
      BY <1>4 DEF IsLocals, NoLocals
    <3>2. RequestIsOwn(v, "gate", next)'
      BY <1>5, <1>7, <2>6, <3>1 DEF RequestIsOwn, OwnsRequest
    <3>3. QED
      BY <2>7, <2>9, <3>2, Awaiting
  <2>10. QED
    BY <1>11, <2>7, <2>8, <2>9
<1>12. QED
  BY <1>5, <1>10, <1>11

(* A verification that a front starts for v.                                *)
LEMMA StartIsSound ==
  ASSUME PlatformIsSound, NEW v, NEW policy, NEW mode, MayStart(policy, mode),
         StartVerification(v, policy, mode), UNCHANGED <<requests, held, accepted>>,
         NEW p, p = Len(presentations) + 1
  PROVE  PlatformIsSound' /\ Grows /\ p # 0 /\ Owns(v, p)' /\ ~Identifies(p)'
<1>1. PICK x, destination :
        /\ x = NewPresentation(v, policy, mode, 0)
        /\ destination = [Nowhere EXCEPT !.front = "verifier", !.policy = policy, !.presentation = p]
  OBVIOUS
<1>2. /\ IsPresentation(x) /\ x.status = "AWAITING_WALLET" /\ x.owner = v
      /\ x.policy = policy /\ policy # "who"
  BY <1>1 DEF IsPresentation, NewPresentation, MayStart, AuthoriseVerifier, HostedVerifierPolicies
<1>3. destination.presentation = p /\ destination.front = "verifier"
  BY <1>1 DEF Nowhere
<1>4. /\ presentations' = Append(presentations, x)
      /\ \/ returns' = [q \in DOMAIN returns \cup {p} |-> IF q = p THEN destination ELSE returns[q]]
         \/ UNCHANGED returns
  BY <1>1 DEF StartVerification, Remember
<1>5. /\ x.policy = "who" => OwnsRequest(x.owner, x.request)
      /\ destination.front = "form" => x.policy = "who" /\ destination.request = x.request
  BY <1>2, <1>3
<1>6. PlatformIsSound' /\ Grows /\ p # 0 /\ p \in DOMAIN presentations' /\ presentations'[p] = x
  <2>1. IsPresentation(x) /\ x.status = "AWAITING_WALLET" /\ destination.presentation = p
    BY <1>2, <1>3
  <2>2. UNCHANGED <<requests, held, accepted>>
    OBVIOUS
  <2>3. presentations' = Append(presentations, x)
    BY <1>4
  <2>4. CASE UNCHANGED returns
    BY <1>5, <2>1, <2>2, <2>3, <2>4, PresentationStarts
  <2>5. CASE returns' = [q \in DOMAIN returns \cup {p} |-> IF q = p THEN destination ELSE returns[q]]
    BY <1>5, <2>1, <2>2, <2>3, <2>5, PresentationStarts
  <2>6. QED
    BY <1>4, <2>4, <2>5
<1>7. QED
  BY <1>2, <1>6 DEF Owns, Identifies

LEMMA StartAtPlatformIsSound ==
  ASSUME PlatformIsSound, FrontsAreSound, NEW v \in Visitors, StartAtPlatform(v)
  PROVE  PlatformIsSound' /\ FrontsAreSound' /\ Grows
<1>1. PICK policy, p : policy = loc[v].policy /\ p = Len(presentations) + 1
  OBVIOUS
<1>2. PICK page, failure : page = RenderOpenWallet("verifier", policy, 0, p) /\ failure = RenderFailure
  OBVIOUS
<1>3. /\ UNCHANGED <<requests, held, accepted>>
      /\ \/ /\ MayStart(policy, "SAME_DEVICE") /\ StartVerification(v, policy, "SAME_DEVICE")
            /\ Respond(v, page) \/ Respond(v, failure)
         \/ Respond(v, failure) /\ UNCHANGED <<presentations, returns>>
  BY <1>1, <1>2 DEF StartAtPlatform
<1>4. PageIsOwn(v, failure)
  BY <1>2, PlainPages
<1>5. CASE Respond(v, failure) /\ UNCHANGED <<presentations, returns>>
  BY <1>3, <1>4, <1>5, PlatformStays, RespondingAgain DEF platform
<1>6. CASE /\ MayStart(policy, "SAME_DEVICE") /\ StartVerification(v, policy, "SAME_DEVICE")
           /\ Respond(v, page) \/ Respond(v, failure)
  <2>1. PlatformIsSound' /\ Grows /\ p # 0 /\ Owns(v, p)' /\ ~Identifies(p)'
    BY <1>1, <1>3, <1>6, StartIsSound
  <2>2. Leads(v, 0, p)'
    BY <2>1 DEF Leads
  <2>3. PageIsOwn(v, page)'
    BY <1>2, <2>1, <2>2, WalletPage
  <2>4. QED
    BY <1>4, <1>6, <2>1, <2>3, Responding, RespondingAgain
<1>7. QED
  BY <1>3, <1>5, <1>6

LEMMA IdentifyAtPlatformIsSound ==
  ASSUME PlatformIsSound, FrontsAreSound, NEW v \in Visitors, IdentifyAtPlatform(v)
  PROVE  PlatformIsSound' /\ FrontsAreSound' /\ Grows
<1>1. PICK policy, r, p : policy = loc[v].policy /\ r = loc[v].request /\ p = Len(presentations) + 1
  OBVIOUS
<1>2. PICK page, message : page = RenderOpenWallet("form", policy, r, p) /\ message = RenderMessage
  OBVIOUS
<1>3. /\ pc[v] = "identify" /\ UNCHANGED <<requests, held, accepted>>
      /\ \/ /\ MayIdentify(policy, requests[r].tenant) /\ Identify(v, policy, r)
            /\ Respond(v, page) \/ Respond(v, message)
         \/ Respond(v, message) /\ UNCHANGED <<presentations, returns>>
  BY <1>1, <1>2 DEF IdentifyAtPlatform
<1>4. PageIsOwn(v, message)
  BY <1>2, PlainPages
<1>5. OwnsRequest(v, r)
  BY <1>1, <1>3, WindowFacts DEF RequestIsOwn
<1>6. CASE Respond(v, message) /\ UNCHANGED <<presentations, returns>>
  BY <1>3, <1>4, <1>6, PlatformStays, RespondingAgain DEF platform
<1>7. CASE /\ MayIdentify(policy, requests[r].tenant) /\ Identify(v, policy, r)
           /\ Respond(v, page) \/ Respond(v, message)
  <2>1. (CHOOSE b \in Binding(policy) : TRUE).identify = "who"
    BY <1>7, FormPolicies DEF MayIdentify
  <2>2. PICK x, destination :
          /\ x = NewPresentation(v, "who", "SAME_DEVICE", r)
          /\ destination = [front |-> "form", policy |-> policy, tenant |-> requests[r].tenant,
                            request |-> r, presentation |-> p]
    OBVIOUS
  <2>3. /\ presentations' = Append(presentations, x)
        /\ returns' = [q \in DOMAIN returns \cup {p} |-> IF q = p THEN destination ELSE returns[q]]
    BY <1>1, <1>7, <2>1, <2>2 DEF Identify, Remember
  <2>4. /\ IsPresentation(x) /\ x.status = "AWAITING_WALLET" /\ x.owner = v
        /\ x.policy = "who" /\ x.request = r
        /\ destination.presentation = p /\ destination.request = r
    BY <2>2 DEF IsPresentation, NewPresentation
  <2>5. /\ PlatformIsSound' /\ Grows
        /\ p # 0 /\ p \in DOMAIN presentations' /\ presentations'[p] = x
    <3>1. UNCHANGED <<requests, held, accepted>>
      BY <1>3
    <3>2. OwnsRequest(x.owner, x.request)
      BY <1>5, <2>4
    <3>3. destination.front = "form" => x.policy = "who" /\ destination.request = x.request
      BY <2>4
    <3>4. IsPresentation(x) /\ x.status = "AWAITING_WALLET" /\ destination.presentation = p
      BY <2>4
    <3>5. QED
      BY <1>1, <2>3, <3>1, <3>2, <3>3, <3>4, PresentationStarts
  <2>6. Leads(v, r, p)' /\ OwnsRequest(v, r)'
    BY <1>3, <1>5, <2>4, <2>5 DEF Leads, Owns, OwnsRequest
  <2>7. PageIsOwn(v, page)'
    BY <1>2, <2>5, <2>6, WalletPage
  <2>8. QED
    BY <1>4, <1>7, <2>5, <2>7, Responding, RespondingAgain
<1>8. QED
  BY <1>3, <1>6, <1>7

LEMMA WalletAnswersIsSound ==
  ASSUME PlatformIsSound, FrontsAreSound, NEW v \in Visitors, WalletAnswers(v)
  PROVE  PlatformIsSound' /\ FrontsAreSound' /\ Grows
<1>1. PICK p : p = browser[v].presentation
  OBVIOUS
<1>2. /\ browser[v].at = "wallet" /\ Present(v, p) /\ UNCHANGED <<requests, held, accepted, returns>>
      /\ UNCHANGED <<browser, back, pc, loc>>
  BY <1>1 DEF WalletAnswers, fronts
<1>3. Owns(v, p)
  BY <1>1, <1>2, WindowFacts DEF PageIsOwn, Leads
<1>4. PlatformIsSound' /\ Grows
  BY <1>2, <1>3, Presents DEF Owns
<1>5. QED
  BY <1>2, <1>4, FrontsStay

LEMMA WalletReturnsIsSound ==
  ASSUME PlatformIsSound, FrontsAreSound, NEW v \in Visitors, WalletReturns(v)
  PROVE  PlatformIsSound' /\ FrontsAreSound' /\ Grows
<1>1. PICK p, d : p = browser[v].presentation /\ d = Destination(p)
  OBVIOUS
<1>2. PICK l, m, message :
        /\ l = [NoLocals EXCEPT !.for = "continue", !.request = d.request, !.presentation = d.presentation]
        /\ m = [NoLocals EXCEPT !.for = "result", !.policy = d.policy, !.presentation = d.presentation]
        /\ message = RenderMessage
  OBVIOUS
<1>3. /\ browser[v].at = "wallet" /\ UNCHANGED platform
      /\ \/ d.front = "form" /\ Await(v, "definition", l)
         \/ d.front = "verifier" /\ Await(v, "result", m)
         \/ Respond(v, message)
  BY <1>1, <1>2 DEF WalletReturns
<1>4. Owns(v, p)
  BY <1>1, <1>3, WindowFacts DEF PageIsOwn, Leads
<1>5. PlatformIsSound' /\ Grows
  BY <1>3, PlatformStays
<1>6. d.front \in {"form", "verifier"} =>
        /\ d.presentation = p
        /\ d.front = "form" => Identifies(p) /\ d.request = presentations[p].request
  BY <1>1 DEF Destination, Nowhere, PlatformIsSound, ReturnsLead
<1>7. CASE d.front = "form" /\ Await(v, "definition", l)
  <2>1. OwnsRequest(v, d.request) /\ Leads(v, d.request, p)
    BY <1>4, <1>6, <1>7 DEF PlatformIsSound, Identifications, Leads, Owns
  <2>2. RequestIsOwn(v, "definition", l)
    BY <1>2, <1>6, <1>7, <2>1 DEF RequestIsOwn, IsLocals, NoLocals
  <2>3. QED
    BY <1>5, <1>7, <2>2, AwaitingAgain
<1>8. CASE d.front = "verifier" /\ Await(v, "result", m)
  <2>1. RequestIsOwn(v, "result", m)
    BY <1>2, <1>4, <1>6, <1>8 DEF RequestIsOwn, IsLocals, NoLocals
  <2>2. QED
    BY <1>5, <1>8, <2>1, AwaitingAgain
<1>9. CASE Respond(v, message)
  BY <1>2, <1>5, <1>9, PlainPages, RespondingAgain
<1>10. QED
  BY <1>3, <1>7, <1>8, <1>9

LEMMA ReadIdentificationIsSound ==
  ASSUME PlatformIsSound, FrontsAreSound, NEW v \in Visitors, ReadIdentification(v)
  PROVE  PlatformIsSound' /\ FrontsAreSound' /\ Grows
<1>1. PICK l, r, p : l = loc[v] /\ r = l.request /\ p = l.presentation
  OBVIOUS
<1>2. PICK status : status = Identification(l.policy, p)
  OBVIOUS
<1>3. PICK request, waiting, identify :
        /\ request = RenderRequest(r, l.policy, p) /\ waiting = RenderWaiting("form", l.policy, r, p)
        /\ identify = RenderIdentify(r, l.policy)
  OBVIOUS
<1>4. /\ pc[v] = "identification" /\ UNCHANGED platform
      /\ \/ status = "VERIFIED" /\ Respond(v, request)
         \/ Respond(v, waiting)
         \/ Respond(v, identify)
  BY <1>1, <1>2, <1>3 DEF ReadIdentification
<1>5. RequestIsOwn(v, "identification", l)
  BY <1>1, <1>4, WindowFacts
<1>6. /\ OwnsRequest(v, r) /\ Leads(v, r, p)
      /\ l.policy = requests[r].policy /\ l.policy = "rep"
  BY <1>1, <1>5 DEF RequestIsOwn
<1>7. r # 0 /\ p # 0
  BY <1>6, NoneIsZero DEF OwnsRequest, Leads, Owns
<1>8. PlatformIsSound' /\ Grows
  BY <1>4, PlatformStays
<1>9. CASE status = "VERIFIED" /\ Respond(v, request)
  <2>1. presentations[p].status = "VERIFIED" /\ Identifies(p)
    BY <1>2, <1>6, <1>9, FormPolicies DEF Identification, Refused, Identifies
  <2>2. /\ request.at = "request" /\ request.request = r /\ request.policy = l.policy
        /\ request.presentation = p /\ request.shows \in {0, p}
    BY <1>3 DEF RenderRequest, Page
  <2>3. PageIsOwn(v, request)
    BY <1>6, <1>7, <2>1, <2>2 DEF PageIsOwn
  <2>4. QED
    BY <1>8, <1>9, <2>3, RespondingAgain
<1>10. CASE Respond(v, waiting)
  BY <1>3, <1>6, <1>7, <1>8, <1>10, WaitingPage, RespondingAgain
<1>11. CASE Respond(v, identify)
  BY <1>3, <1>6, <1>7, <1>8, <1>11, FormPages, RespondingAgain
<1>12. QED
  BY <1>4, <1>9, <1>10, <1>11

(* What a verifier is told of is of one of its policies.                    *)
LEMMA OutcomeIsOfItsPolicy ==
  ASSUME NEW policy, NEW p, Outcome(policy, p) \in NON_TERMINAL \cup {"VERIFIED"}
  PROVE  /\ presentations[p].policy = policy /\ ~Identifies(p)
         /\ presentations[p].status = Outcome(policy, p)
<1>1. Outcome(policy, p) # Refused
  BY DEF Refused, NON_TERMINAL
<1>2. AuthoriseVerifier(policy) /\ presentations[p].policy = policy
      /\ presentations[p].status = Outcome(policy, p)
  BY <1>1 DEF Outcome
<1>3. policy # "who"
  BY <1>2 DEF AuthoriseVerifier, HostedVerifierPolicies
<1>4. QED
  BY <1>2, <1>3 DEF Identifies

LEMMA ReadResultIsSound ==
  ASSUME PlatformIsSound, FrontsAreSound, NEW v \in Visitors, ReadResult(v)
  PROVE  PlatformIsSound' /\ FrontsAreSound' /\ Grows
<1>1. PICK policy, p : policy = loc[v].policy /\ p = loc[v].presentation
  OBVIOUS
<1>2. PICK status : status = Outcome(policy, p)
  OBVIOUS
<1>3. PICK waiting, result, failure :
        /\ waiting = RenderWaiting("verifier", policy, 0, p) /\ result = RenderResult(policy, p)
        /\ failure = RenderFailure
  OBVIOUS
<1>4. /\ pc[v] = "result" /\ UNCHANGED platform
      /\ \/ status \in NON_TERMINAL /\ Respond(v, waiting)
         \/ status = "VERIFIED" /\ Respond(v, result)
         \/ Respond(v, failure)
  BY <1>1, <1>2, <1>3 DEF ReadResult
<1>5. Owns(v, p)
  BY <1>1, <1>4, WindowFacts DEF RequestIsOwn
<1>6. p # 0
  BY <1>5, NoneIsZero DEF Owns
<1>7. PlatformIsSound' /\ Grows
  BY <1>4, PlatformStays
<1>8. status \in NON_TERMINAL \cup {"VERIFIED"} =>
        Leads(v, 0, p) /\ presentations[p].policy = policy /\ presentations[p].status = status
  BY <1>2, <1>5, OutcomeIsOfItsPolicy DEF Leads
<1>9. CASE status \in NON_TERMINAL /\ Respond(v, waiting)
  BY <1>3, <1>6, <1>7, <1>8, <1>9, WaitingPage, RespondingAgain
<1>10. CASE status = "VERIFIED" /\ Respond(v, result)
  <2>1. /\ result.at = "result" /\ result.request = 0 /\ result.policy = policy
        /\ result.presentation = p /\ result.shows \in {0, p}
    BY <1>3 DEF RenderResult, Page
  <2>2. PageIsOwn(v, result)
    BY <1>8, <1>10, <2>1 DEF PageIsOwn
  <2>3. QED
    BY <1>7, <1>10, <2>2, RespondingAgain
<1>11. CASE Respond(v, failure)
  BY <1>3, <1>7, <1>11, PlainPages, RespondingAgain
<1>12. QED
  BY <1>4, <1>9, <1>10, <1>11

-----------------------------------------------------------------------------
(* The case book                                                            *)

(* What a store holds after entry was put into it.                          *)
LEMMA PutKeeps ==
  ASSUME NEW store, IsSequence(store), NEW entry
  PROVE  LET t == Put(store, entry) IN
         /\ IsSequence(t)
         /\ \A n \in DOMAIN t : t[n] = entry \/ \E m \in DOMAIN store : t[n] = store[m]
<1>1. CASE entry.key \in Keys(store)
  <2>1. PICK t : t = [n \in DOMAIN store |-> IF store[n].key = entry.key THEN entry ELSE store[n]]
    OBVIOUS
  <2>2. Put(store, entry) = t
    BY <1>1, <2>1 DEF Put
  <2>3. PICK S, N : S = Range(store) \cup {entry} /\ N = Len(store)
    OBVIOUS
  <2>4. N \in Nat /\ DOMAIN store = 1 .. N /\ \A n \in 1 .. N : store[n] \in S
    BY <2>3, SequenceFacts
  <2>5. \A n \in 1 .. N : t[n] \in S
    BY <2>1, <2>3, <2>4
  <2>6. t \in Seq(S)
    BY <2>1, <2>4, <2>5
  <2>7. IsSequence(t)
    BY <2>6, IsOne
  <2>8. \A n \in DOMAIN t : t[n] = entry \/ \E m \in DOMAIN store : t[n] = store[m]
    BY <2>1
  <2>9. QED
    BY <2>2, <2>7, <2>8
<1>2. CASE entry.key \notin Keys(store)
  <2>1. PICK t : t = Append(store, entry)
    OBVIOUS
  <2>2. Put(store, entry) = t
    BY <1>2, <2>1 DEF Put
  <2>3. /\ IsSequence(t) /\ DOMAIN t = DOMAIN store \cup {Len(store) + 1}
        /\ \A n \in DOMAIN store : t[n] = store[n]
        /\ t[Len(store) + 1] = entry
    BY <2>1, Appended
  <2>4. \A n \in DOMAIN t : t[n] = entry \/ \E m \in DOMAIN store : t[n] = store[m]
    BY <2>3
  <2>5. QED
    BY <2>2, <2>3, <2>4
<1>3. QED
  BY <1>1, <1>2

LEMMA KeepKeeps ==
  ASSUME NEW store, IsSequence(store), NEW entry, NEW max \in Nat \ {0}
  PROVE  LET t == Keep(store, entry, max) IN
         /\ IsSequence(t)
         /\ \A n \in DOMAIN t : t[n] = entry \/ \E m \in DOMAIN store : t[n] = store[m]
<1>1. PICK room : room = IF Len(store) >= max THEN Tail(store) ELSE store
  OBVIOUS
<1>2. IsSequence(room) /\ \A n \in DOMAIN room : \E m \in DOMAIN store : room[n] = store[m]
  <2>1. CASE Len(store) >= max
    <3>1. store # <<>>
      BY <2>1, SequenceFacts
    <3>2. QED
      BY <1>1, <2>1, <3>1, WithoutOldest
  <2>2. CASE ~(Len(store) >= max)
    BY <1>1, <2>2
  <2>3. QED
    BY <2>1, <2>2
<1>3. PICK t : t = Put(room, entry)
  OBVIOUS
<1>4. IsSequence(t) /\ \A n \in DOMAIN t : t[n] = entry \/ \E m \in DOMAIN room : t[n] = room[m]
  BY <1>2, <1>3, PutKeeps
<1>5. \A n \in DOMAIN t : t[n] = entry \/ \E m \in DOMAIN store : t[n] = store[m]
  BY <1>2, <1>4
<1>6. Keep(store, entry, max) = t
  BY <1>1, <1>3 DEF Keep
<1>7. QED
  BY <1>4, <1>5, <1>6

LEMMA EntryIsThere ==
  ASSUME NEW store, NEW key \in Keys(store)
  PROVE  \E n \in DOMAIN store : Entry(store, key) = store[n] /\ store[n].key = key
<1>1. \E e \in Range(store) : e.key = key
  BY DEF Keys, Range
<1>2. Entry(store, key) \in Range(store) /\ Entry(store, key).key = key
  BY <1>1 DEF Entry
<1>3. QED
  BY <1>2 DEF Range

(* The cases of b become cases. *)
LEMMA CasesChange ==
  ASSUME NEW b, BookIsSound(b), NEW cases, IsSequence(cases), NEW expected,
         \A n \in DOMAIN cases : IsCase(cases[n]) \/ \E m \in DOMAIN b.cases : cases[n] = b.cases[m]
  PROVE  /\ BookIsSound([b EXCEPT !.cases = cases])
         /\ BookIsSound([b EXCEPT !.expected = expected, !.cases = cases])
<1>1. PICK c, e : c = [b EXCEPT !.cases = cases] /\ e = [b EXCEPT !.expected = expected, !.cases = cases]
  OBVIOUS
<1>2. /\ c = [cases |-> cases, expected |-> b.expected, links |-> b.links]
      /\ e = [cases |-> cases, expected |-> expected, links |-> b.links]
  BY <1>1 DEF BookIsSound
<1>3. \A n \in DOMAIN cases : IsCase(cases[n])
  BY DEF BookIsSound
<1>4. c.cases = cases /\ c.links = b.links /\ e.cases = cases /\ e.links = b.links
      /\ c = [cases |-> c.cases, expected |-> c.expected, links |-> c.links]
      /\ e = [cases |-> e.cases, expected |-> e.expected, links |-> e.links]
  BY <1>2
<1>5. BookIsSound(c) /\ BookIsSound(e)
  BY <1>3, <1>4 DEF BookIsSound
<1>6. QED
  BY <1>1, <1>5

LEMMA SweepIsSound ==
  ASSUME NEW b, BookIsSound(b), NEW now
  PROVE  LET swept == Sweep(b, now, BookRule) IN
         /\ BookIsSound(swept) /\ swept.links = b.links /\ swept.expected = b.expected
         /\ \A id \in Keys(swept.cases) : id \in Keys(b.cases)
<1>1. PICK cases : cases = OpenedAfter(b.cases, now - BookRule.ttl)
  OBVIOUS
<1>2. IsSequence(cases) /\ \A n \in DOMAIN cases : \E m \in DOMAIN b.cases : cases[n] = b.cases[m]
  BY <1>1, StaysOpen DEF BookIsSound
<1>3. PICK swept : swept = [b EXCEPT !.cases = cases]
  OBVIOUS
<1>4. BookIsSound(swept)
  BY <1>2, <1>3, CasesChange
<1>5. swept.cases = cases /\ swept.links = b.links /\ swept.expected = b.expected
  BY <1>3 DEF BookIsSound
<1>6. \A id \in Keys(cases) : id \in Keys(b.cases)
  BY <1>2 DEF Keys
<1>7. Sweep(b, now, BookRule) = swept
  BY <1>1, <1>3 DEF Sweep
<1>8. QED
  BY <1>4, <1>5, <1>6, <1>7

(* Only a verified presentation opens a case.                               *)
LEMMA OpenCaseIsSound ==
  ASSUME NEW b, BookIsSound(b), NEW id \in DOMAIN presentations, presentations[id].status = "VERIFIED", NEW now
  PROVE  BookIsSound(OpenCase(b, id, now, BookRule))
<1>1. PICK swept, said, expected :
        /\ swept = Sweep(b, now, BookRule)
        /\ said = (IF id \in Keys(b.expected) THEN Entry(b.expected, id)
                   ELSE [key |-> id, product |-> "none", income |-> FALSE])
        /\ expected = Drop(swept.expected, id)
  OBVIOUS
<1>2. PICK case : case = [key |-> id, at |-> now, product |-> said.product, expects |-> said.income,
                          income |-> 0, declared |-> "none"]
  OBVIOUS
<1>3. IsCase(case)
  BY <1>2 DEF IsCase
<1>4. BookIsSound(swept)
  BY <1>1, SweepIsSound
<1>5. PICK cases : cases = Keep(swept.cases, case, 2)
  OBVIOUS
<1>6. /\ IsSequence(cases)
      /\ \A n \in DOMAIN cases : cases[n] = case \/ \E m \in DOMAIN swept.cases : cases[n] = swept.cases[m]
  BY <1>4, <1>5, KeepKeeps DEF BookIsSound
<1>7. BookIsSound([swept EXCEPT !.expected = expected, !.cases = cases])
  BY <1>3, <1>4, <1>6, CasesChange
<1>8. BookRule.max = 2
  BY DEF BookRule
<1>9. \/ OpenCase(b, id, now, BookRule) = swept
      \/ OpenCase(b, id, now, BookRule) = [swept EXCEPT !.expected = expected, !.cases = cases]
  BY <1>1, <1>2, <1>5, <1>8 DEF OpenCase
<1>10. QED
  BY <1>4, <1>7, <1>9

LEMMA UpdateCaseIsSound ==
  ASSUME NEW b, BookIsSound(b), NEW id, NEW now, NEW case, IsCase(case)
  PROVE  BookIsSound(UpdateCase(b, id, now, BookRule, case))
<1>1. PICK swept : swept = Sweep(b, now, BookRule)
  OBVIOUS
<1>2. BookIsSound(swept)
  BY <1>1, SweepIsSound
<1>3. PICK cases : cases = Put(swept.cases, case)
  OBVIOUS
<1>4. /\ IsSequence(cases)
      /\ \A n \in DOMAIN cases : cases[n] = case \/ \E m \in DOMAIN swept.cases : cases[n] = swept.cases[m]
  BY <1>2, <1>3, PutKeeps DEF BookIsSound
<1>5. BookIsSound([swept EXCEPT !.cases = cases])
  BY <1>2, <1>4, CasesChange
<1>6. \/ UpdateCase(b, id, now, BookRule, case) = swept
      \/ UpdateCase(b, id, now, BookRule, case) = [swept EXCEPT !.cases = cases]
  BY <1>1, <1>3 DEF UpdateCase
<1>7. QED
  BY <1>2, <1>5, <1>6

LEMMA CaseIsThere ==
  ASSUME NEW b, BookIsSound(b), NEW id, NEW now, HasCase(b, id, now, BookRule)
  PROVE  IsCase(Entry(b.cases, id)) /\ Entry(b.cases, id).key = id
<1>1. id \in Keys(b.cases)
  BY SweepIsSound DEF HasCase
<1>2. PICK n \in DOMAIN b.cases : Entry(b.cases, id) = b.cases[n] /\ b.cases[n].key = id
  BY <1>1, EntryIsThere
<1>3. QED
  BY <1>2 DEF BookIsSound

(* A certificate goes onto the case it was linked to, of the same owner.    *)
LEMMA AddIncomeIsSound ==
  ASSUME NEW b, BookIsSound(b), NEW v, NEW id, Verified(v, id, "income"), NEW now
  PROVE  BookIsSound(AddIncome(b, id, now, BookRule))
<1>1. PICK link, of, swept : link = Entry(b.links, id) /\ of = link.case /\ swept = Sweep(b, now, BookRule)
  OBVIOUS
<1>2. PICK case : case = [Entry(b.cases, of) EXCEPT !.income = id]
  OBVIOUS
<1>3. BookIsSound(swept)
  BY <1>1, SweepIsSound
<1>4. CASE id \in Keys(b.links) /\ HasCase(b, of, now, BookRule)
  <2>1. PICK n \in DOMAIN b.links : link = b.links[n] /\ b.links[n].key = id
    BY <1>1, <1>4, EntryIsThere
  <2>2. IsLink(link) /\ link.key = id
    BY <2>1 DEF BookIsSound
  <2>3. presentations[of].owner = v
    BY <1>1, <2>2 DEF IsLink, Verified, Owns
  <2>4. IsCase(Entry(b.cases, of)) /\ Entry(b.cases, of).key = of
    BY <1>4, CaseIsThere
  <2>5. IsCase(case)
    <3>1. PICK old : old = Entry(b.cases, of)
      OBVIOUS
    <3>2. case = [old EXCEPT !.income = id] /\ IsCase(old) /\ old.key = of
      BY <1>2, <2>4, <3>1
    <3>3. /\ case = [key |-> case.key, at |-> case.at, product |-> case.product,
                     expects |-> case.expects, income |-> case.income, declared |-> case.declared]
          /\ case.key = of /\ case.income = id
      BY <3>2 DEF IsCase
    <3>4. of \in DOMAIN presentations /\ presentations[of].status = "VERIFIED"
      BY <3>2 DEF IsCase
    <3>5. QED
      BY <2>3, <3>3, <3>4 DEF IsCase
  <2>6. AddIncome(b, id, now, BookRule) = UpdateCase(b, of, now, BookRule, case)
    BY <1>1, <1>2, <1>4 DEF AddIncome
  <2>7. QED
    BY <2>5, <2>6, UpdateCaseIsSound
<1>5. CASE ~(id \in Keys(b.links) /\ HasCase(b, of, now, BookRule))
  <2>1. AddIncome(b, id, now, BookRule) \in {b, swept}
    BY <1>1, <1>5 DEF AddIncome
  <2>2. QED
    BY <1>3, <2>1
<1>6. QED
  BY <1>4, <1>5

LEMMA DeclareOutcomeIsSound ==
  ASSUME NEW b, BookIsSound(b), NEW id, NEW now, NEW product
  PROVE  BookIsSound(DeclareOutcome(b, id, now, BookRule, product))
<1>1. PICK old, swept : old = Entry(b.cases, id) /\ swept = Sweep(b, now, BookRule)
  OBVIOUS
<1>2. PICK case : case = [old EXCEPT !.product = IF @ = "none" THEN product ELSE @, !.declared = product]
  OBVIOUS
<1>3. CASE HasCase(b, id, now, BookRule)
  <2>1. IsCase(old)
    BY <1>1, <1>3, CaseIsThere
  <2>2. /\ case = [key |-> case.key, at |-> case.at, product |-> case.product,
                   expects |-> case.expects, income |-> case.income, declared |-> case.declared]
        /\ case.key = old.key /\ case.income = old.income
    BY <1>2, <2>1 DEF IsCase
  <2>3. IsCase(case)
    BY <2>1, <2>2 DEF IsCase
  <2>4. DeclareOutcome(b, id, now, BookRule, product) = UpdateCase(b, id, now, BookRule, case)
    BY <1>1, <1>2, <1>3 DEF DeclareOutcome
  <2>5. QED
    BY <2>3, <2>4, UpdateCaseIsSound
<1>4. CASE ~HasCase(b, id, now, BookRule)
  <2>1. DeclareOutcome(b, id, now, BookRule, product) = swept
    BY <1>1, <1>4 DEF DeclareOutcome
  <2>2. QED
    BY <1>1, <2>1, SweepIsSound
<1>5. QED
  BY <1>3, <1>4

(* What the page says at a start: of p, which that step started.            *)
LEMMA ExpectIsSound ==
  ASSUME NEW b, BookIsSound(b)', NEW p, NEW product, NEW income
  PROVE  BookIsSound(Expect(b, p, product, income, BookRule))'
<1>1. PICK expected :
        expected = Keep(b.expected, [key |-> p, product |-> product, income |-> income], 10 * BookRule.max)
  OBVIOUS
<1>2. PICK c : c = [b EXCEPT !.expected = expected]
  OBVIOUS
<1>3. /\ c = [cases |-> c.cases, expected |-> c.expected, links |-> c.links]
      /\ c.cases = b.cases /\ c.links = b.links
  BY <1>2 DEF BookIsSound
<1>4. BookIsSound(c)'
  BY <1>3 DEF BookIsSound
<1>5. Expect(b, p, product, income, BookRule) = c
  BY <1>1, <1>2 DEF Expect
<1>6. QED
  BY <1>4, <1>5

LEMMA LinkIncomeIsSound ==
  ASSUME NEW b, BookIsSound(b)', NEW v, NEW p, NEW of, Owns(v, p)', Owns(v, of)'
  PROVE  BookIsSound(LinkIncome(b, p, of, BookRule))'
<1>1. PICK link : link = [key |-> p, case |-> of]
  OBVIOUS
<1>2. PICK links : links = Keep(b.links, link, 20)
  OBVIOUS
<1>3. IsSequence(b.links)
  BY DEF BookIsSound
<1>4. IsSequence(links) /\ \A n \in DOMAIN links : links[n] = link \/ \E m \in DOMAIN b.links : links[n] = b.links[m]
  BY <1>2, <1>3, KeepKeeps
<1>5. IsLink(link)'
  BY <1>1 DEF IsLink, Owns
<1>6. \A n \in DOMAIN links : IsLink(links[n])'
  BY <1>4, <1>5 DEF BookIsSound
<1>7. PICK c : c = [b EXCEPT !.links = links]
  OBVIOUS
<1>8. /\ c = [cases |-> c.cases, expected |-> c.expected, links |-> c.links]
      /\ c.cases = b.cases /\ c.links = links
  BY <1>7 DEF BookIsSound
<1>9. BookIsSound(c)'
  BY <1>4, <1>6, <1>8 DEF BookIsSound
<1>10. LinkIncome(b, p, of, BookRule) = c
  <2>1. 10 * BookRule.max = 20
    BY DEF BookRule
  <2>2. QED
    BY <1>1, <1>2, <1>7, <2>1 DEF LinkIncome
<1>11. QED
  BY <1>9, <1>10

-----------------------------------------------------------------------------
(* The onboarding page                                                      *)

(* The function f becomes g, which has x for v. *)
Becomes(f, g, v, x) ==
  DOMAIN g = DOMAIN f /\ g[v] = x /\ \A u \in DOMAIN f : u # v => g[u] = f[u]

LEMMA Assigned ==
  ASSUME NEW f, NEW v \in DOMAIN f, NEW x
  PROVE  Becomes(f, [f EXCEPT ![v] = x], v, x) /\ Becomes(f, f, v, f[v])
BY DEF Becomes

(* One page, its fetches, its session and the book change.                  *)
LEMMA PageMoves ==
  ASSUME OnboardingIsSound, Grows, NEW v \in Visitors, NEW d, NEW calls, NEW s, NEW b,
         Becomes(desk, desk', v, d), Becomes(fetches, fetches', v, calls),
         Becomes(session, session', v, s), book' = b,
         DeskIsOwn(v, d)', \A f \in calls : FetchIsOwn(v, f)', Resumes(d, calls),
         s # 0 => Owns(v, s)', BookIsSound(b)'
  PROVE  OnboardingIsSound'
<1>1. ASSUME NEW u \in Visitors PROVE OnboardingIsOwn(u)'
  <2>1. CASE u = v
    <3>1. desk'[u] = d /\ fetches'[u] = calls /\ session'[u] = s
      BY <2>1 DEF Becomes
    <3>2. QED
      BY <2>1, <3>1 DEF OnboardingIsOwn
  <2>2. CASE u # v
    <3>1. PICK dd, cc, ss : dd = desk[u] /\ cc = fetches[u] /\ ss = session[u]
      OBVIOUS
    <3>2. desk'[u] = dd /\ fetches'[u] = cc /\ session'[u] = ss
      BY <2>2, <3>1 DEF Becomes, OnboardingIsSound
    <3>3. DeskIsOwn(u, dd)'
      BY <3>1, DeskStays DEF OnboardingIsSound, OnboardingIsOwn
    <3>4. \A f \in cc : FetchIsOwn(u, f)'
      BY <3>1, FetchStays DEF OnboardingIsSound, OnboardingIsOwn
    <3>5. Resumes(dd, cc)
      BY <3>1 DEF OnboardingIsSound, OnboardingIsOwn
    <3>6. ss # 0 => Owns(u, ss)'
      BY <3>1, OwnStays DEF OnboardingIsSound, OnboardingIsOwn
    <3>7. QED
      BY <3>2, <3>3, <3>4, <3>5, <3>6 DEF OnboardingIsOwn
  <2>3. QED
    BY <2>1, <2>2
<1>2. DOMAIN desk' = Visitors /\ DOMAIN fetches' = Visitors /\ DOMAIN session' = Visitors
  BY DEF Becomes, OnboardingIsSound
<1>3. BookIsSound(book)'
  BY DEF BookIsSound
<1>4. QED
  BY <1>1, <1>2, <1>3 DEF OnboardingIsSound

(* The same, when nothing happens at the platform.                          *)
LEMMA PageMovesAlone ==
  ASSUME PlatformIsSound, FrontsAreSound, OnboardingIsSound,
         UNCHANGED platform, UNCHANGED <<browser, back, pc, loc>>,
         NEW v \in Visitors, NEW d, NEW calls, NEW s, NEW b,
         Becomes(desk, desk', v, d), Becomes(fetches, fetches', v, calls),
         Becomes(session, session', v, s), book' = b,
         DeskIsOwn(v, d), \A f \in calls : FetchIsOwn(v, f), Resumes(d, calls),
         s # 0 => Owns(v, s), BookIsSound(b)
  PROVE  IInv'
<1>1. PlatformIsSound' /\ Grows
  BY PlatformStays
<1>2. FrontsAreSound'
  BY <1>1, FrontsStay
<1>3. DeskIsOwn(v, d)' /\ (\A f \in calls : FetchIsOwn(v, f)') /\ BookIsSound(b)'
  BY <1>1, DeskStays, FetchStays, BookStays
<1>4. s # 0 => Owns(v, s)'
  BY <1>1, OwnStays
<1>5. OnboardingIsSound'
  BY <1>1, <1>3, <1>4, PageMoves
<1>6. QED
  BY <1>1, <1>2, <1>5 DEF IInv

(* A page without its timers, and the next screen of one.                   *)
LEMMA ScreenIsOwn ==
  ASSUME NEW v, NEW d, DeskIsOwn(v, d), NEW screen
  PROVE  /\ DeskIsOwn(v, StopTimers(d)) /\ DeskIsOwn(v, Screen(d, screen))
         /\ LET e == Screen(d, screen) IN
            /\ e.screen = screen /\ e.shown = 0 /\ e.polling = {} /\ e.later = {} /\ e.pid = d.pid
            /\ e.data = d.data /\ e.income = d.income /\ e.kind = d.kind /\ e.mode = d.mode
<1>1. PICK s, e : s = StopTimers(d) /\ e = Screen(d, screen)
  OBVIOUS
<1>2. /\ IsDesk(s) /\ s.shown = d.shown /\ s.pid = d.pid /\ s.data = d.data /\ s.income = d.income
      /\ s.polling = {} /\ s.later = {}
  BY <1>1 DEF StopTimers, DeskIsOwn, IsDesk
<1>3. /\ IsDesk(e) /\ e.screen = screen /\ e.shown = 0 /\ e.pid = d.pid /\ e.data = d.data
      /\ e.income = d.income /\ e.polling = {} /\ e.later = {} /\ e.kind = d.kind /\ e.mode = d.mode
  BY <1>1 DEF Screen, StopTimers, DeskIsOwn, IsDesk
<1>4. DeskIsOwn(v, s)
  BY <1>2 DEF DeskIsOwn
<1>5. DeskIsOwn(v, e)
  BY <1>3 DEF DeskIsOwn
<1>6. QED
  BY <1>1, <1>3, <1>4, <1>5

(* It shows nothing and waits for nothing.                                  *)
LEMMA ScreenIsEmpty ==
  ASSUME NEW v, NEW d, DeskIsOwn(v, d), NEW screen, NEW e, e = Screen(d, screen)
  PROVE  DeskIsOwn(v, e) /\ e.shown = 0 /\ e.polling = {} /\ e.later = {}
BY ScreenIsOwn

(* The fetches of a screen that is left.                                    *)
LEMMA StaleIsOwn ==
  ASSUME NEW v, NEW f, FetchIsOwn(v, f)
  PROVE  FetchIsOwn(v, [f EXCEPT !.stale = TRUE]) /\ [f EXCEPT !.stale = TRUE].call = f.call
<1>1. PICK g : g = [f EXCEPT !.stale = TRUE]
  OBVIOUS
<1>2. /\ IsFetch(g) /\ g.call = f.call /\ g.kind = f.kind /\ g.pid = f.pid /\ g.id = f.id
      /\ g.answer = f.answer
  BY <1>1 DEF IsFetch, FetchIsOwn
<1>3. FetchIsOwn(v, g)
  <2>1. PolicyFor(g.kind) = PolicyFor(f.kind)
    BY <1>2
  <2>2. QED
    BY <1>2, <2>1 DEF FetchIsOwn
<1>4. QED
  BY <1>1, <1>2, <1>3

LEMMA DeskFacts ==
  ASSUME OnboardingIsSound, NEW v \in Visitors
  PROVE  /\ DeskIsOwn(v, desk[v]) /\ (\A f \in fetches[v] : FetchIsOwn(v, f))
         /\ Resumes(desk[v], fetches[v]) /\ (session[v] # 0 => Owns(v, session[v]))
         /\ v \in DOMAIN desk /\ v \in DOMAIN fetches /\ v \in DOMAIN session
         /\ BookIsSound(book)
BY DEF OnboardingIsSound, OnboardingIsOwn

LEMMA ConnectIsSound ==
  ASSUME IInv, NEW v \in Visitors, Connect(v)
  PROVE  IInv'
<1>1. PICK d, calls : d = desk[v] /\ calls = fetches[v]
  OBVIOUS
<1>2. PICK kind \in {"pid", "ingresos"}, mode \in {"QR", "SAME_DEVICE"} :
        /\ MayConnect(v, kind)
        /\ Set(v, [Screen(d, "connect") EXCEPT !.kind = kind, !.mode = mode])
        /\ Leave(v, {[Fetch("start", kind, 0) EXCEPT !.mode = mode, !.pid = d.pid]})
  BY <1>1 DEF Connect
<1>3. PICK e, f : /\ e = [Screen(d, "connect") EXCEPT !.kind = kind, !.mode = mode]
                  /\ f = [Fetch("start", kind, 0) EXCEPT !.mode = mode, !.pid = d.pid]
  OBVIOUS
<1>4. PICK more : more = {[g EXCEPT !.stale = TRUE] : g \in calls} \cup {f}
  OBVIOUS
<1>5. /\ OnboardingIsSound /\ DeskIsOwn(v, d) /\ (\A g \in calls : FetchIsOwn(v, g)) /\ Resumes(d, calls)
      /\ session[v] # 0 => Owns(v, session[v])
      /\ v \in DOMAIN desk /\ v \in DOMAIN fetches /\ v \in DOMAIN session /\ BookIsSound(book)
  BY <1>1, DeskFacts DEF IInv
<1>6. Becomes(desk, desk', v, e) /\ Becomes(fetches, fetches', v, more)
  BY <1>1, <1>2, <1>3, <1>4, <1>5, Assigned DEF Set, Leave
<1>7. PICK s : Becomes(session, session', v, s) /\ (s # 0 => Owns(v, s))
  <2>1. CASE session' = session
    BY <1>5, <2>1, Assigned
  <2>2. CASE session' = [session EXCEPT ![v] = d.pid]
    <3>1. Becomes(session, session', v, d.pid)
      BY <1>5, <2>2, Assigned
    <3>2. QED
      BY <1>5, <3>1 DEF DeskIsOwn
  <2>3. QED
    BY <1>1, <2>1, <2>2 DEF Connect
<1>8. DeskIsOwn(v, e)
  <2>1. PICK sc : sc = Screen(d, "connect")
    OBVIOUS
  <2>2. DeskIsOwn(v, sc) /\ sc.shown = 0 /\ sc.polling = {} /\ sc.later = {}
    BY <1>5, <2>1, ScreenIsOwn
  <2>3. e = [sc EXCEPT !.kind = kind, !.mode = mode]
    BY <1>3, <2>1
  <2>4. /\ IsDesk(e) /\ e.shown = 0 /\ e.polling = {} /\ e.later = {} /\ e.pid = sc.pid
        /\ e.data = sc.data /\ e.income = sc.income
    BY <2>2, <2>3 DEF DeskIsOwn, IsDesk
  <2>5. QED
    BY <2>2, <2>4 DEF DeskIsOwn
<1>9. FetchIsOwn(v, f) /\ f.call = "start"
  <2>1. /\ IsFetch(f) /\ f.call = "start" /\ f.kind = kind /\ f.pid = d.pid /\ f.answer = "none"
    BY <1>3 DEF IsFetch, Fetch
  <2>2. QED
    BY <1>5, <2>1 DEF FetchIsOwn, DeskIsOwn
<1>10. \A g \in more : FetchIsOwn(v, g) /\ g.call # "resume"
  <2>1. \A g \in calls : g.call # "resume"
    <3>1. d.screen # "resuming"
      BY <1>1, <1>2 DEF MayConnect
    <3>2. QED
      BY <1>5, <3>1 DEF Resumes
  <2>2. \A g \in calls : FetchIsOwn(v, [g EXCEPT !.stale = TRUE]) /\ [g EXCEPT !.stale = TRUE].call # "resume"
    BY <1>5, <2>1, StaleIsOwn
  <2>3. QED
    BY <1>4, <1>9, <2>2
<1>11. Resumes(e, more)
  BY <1>10 DEF Resumes
<1>12. UNCHANGED platform /\ UNCHANGED <<browser, back, pc, loc>> /\ UNCHANGED book
  BY DEF Connect, fronts
<1>13. PICK b : b = book
  OBVIOUS
<1>14. BookIsSound(b) /\ book' = b
  BY <1>5, <1>12, <1>13 DEF BookIsSound
<1>15. QED
  BY <1>5, <1>6, <1>7, <1>8, <1>10, <1>11, <1>12, <1>14, PageMovesAlone DEF IInv

(* A fetch f of v that is not one after a loan's return.                    *)
LEMMA NothingResumes ==
  ASSUME NEW d, NEW calls, Resumes(d, calls), NEW f \in calls, f.call # "resume"
  PROVE  \A g \in calls : g.call # "resume"
BY DEF Resumes

LEMMA ServeStartIsSound ==
  ASSUME IInv, NEW v \in Visitors, NEW f \in fetches[v], ServeStart(v, f)
  PROVE  IInv'
<1>1. PICK d, calls, p, policy :
        d = desk[v] /\ calls = fetches[v] /\ p = Len(presentations) + 1 /\ policy = PolicyFor(f.kind)
  OBVIOUS
<1>2. /\ f.call = "start" /\ f.answer = "none"
      /\ MayStart(policy, f.mode) /\ StartVerification(v, policy, f.mode)
      /\ UNCHANGED <<requests, held, accepted>> /\ UNCHANGED <<browser, back, pc, loc>>
      /\ UNCHANGED <<desk, session>>
  BY <1>1 DEF ServeStart
<1>3. /\ OnboardingIsSound /\ DeskIsOwn(v, d) /\ (\A g \in calls : FetchIsOwn(v, g)) /\ Resumes(d, calls)
      /\ session[v] # 0 => Owns(v, session[v])
      /\ v \in DOMAIN desk /\ v \in DOMAIN fetches /\ v \in DOMAIN session /\ BookIsSound(book)
  BY <1>1, DeskFacts DEF IInv
<1>4. PlatformIsSound' /\ Grows /\ p # 0 /\ Owns(v, p)' /\ ~Identifies(p)'
  BY <1>1, <1>2, StartIsSound DEF IInv
<1>5. FrontsAreSound'
  BY <1>2, <1>4, FrontsStay DEF IInv
<1>6. PICK answered \in BOOLEAN :
        /\ book' = CASE ~answered -> book
                     [] answered /\ f.kind = "pid" -> Expect(book, p, day.errand[v], IsLoan(v), BookRule)
                     [] answered /\ f.kind = "ingresos" /\ f.pid # 0 -> LinkIncome(book, p, f.pid, BookRule)
                     [] OTHER -> book
        /\ Fetching(v, f, {IF answered THEN [f EXCEPT !.id = p, !.answer = "ok"]
                           ELSE [f EXCEPT !.answer = "failed"]})
  BY <1>1 DEF ServeStart, Answered
<1>7. PICK g : g = IF answered THEN [f EXCEPT !.id = p, !.answer = "ok"] ELSE [f EXCEPT !.answer = "failed"]
  OBVIOUS
<1>8. PICK more : more = (calls \ {f}) \cup {g}
  OBVIOUS
<1>9. Becomes(fetches, fetches', v, more)
  BY <1>1, <1>3, <1>6, <1>7, <1>8, Assigned DEF Fetching
<1>10. FetchIsOwn(v, f)' /\ f \in calls
  BY <1>1, <1>3, <1>4, FetchStays
<1>11. FetchIsOwn(v, g)' /\ g.call = "start"
  <2>1. /\ IsFetch(g) /\ g.call = "start" /\ g.kind = f.kind /\ g.pid = f.pid
        /\ \/ g.id = p
           \/ g.answer = "failed"
    BY <1>2, <1>7, <1>10 DEF IsFetch, FetchIsOwn
  <2>2. QED
    BY <1>4, <1>10, <2>1 DEF FetchIsOwn
<1>12. \A h \in more : FetchIsOwn(v, h)' /\ h.call # "resume"
  <2>1. \A h \in calls : h.call # "resume"
    BY <1>2, <1>3, <1>10, NothingResumes
  <2>2. \A h \in calls : FetchIsOwn(v, h)'
    BY <1>3, <1>4, FetchStays
  <2>3. QED
    BY <1>8, <1>11, <2>1, <2>2
<1>13. Resumes(d, more)
  BY <1>12 DEF Resumes
<1>14. PICK b, s : b = book /\ s = session[v]
  OBVIOUS
<1>15. BookIsSound(b)'
  <2>1. BookIsSound(b)
    BY <1>3, <1>14 DEF BookIsSound
  <2>2. QED
    BY <1>4, <2>1, BookStays
<1>16. PICK c : book' = c /\ BookIsSound(c)'
  <2>1. PICK product, income : product = day.errand[v] /\ income = IsLoan(v)
    OBVIOUS
  <2>2. PICK expects, links : /\ expects = Expect(b, p, product, income, BookRule)
                              /\ links = LinkIncome(b, p, f.pid, BookRule)
    OBVIOUS
  <2>3. \/ book' = b
        \/ book' = expects
        \/ f.pid # 0 /\ book' = links
    BY <1>6, <1>14, <2>1, <2>2
  <2>4. BookIsSound(expects)'
    BY <1>15, <2>2, ExpectIsSound
  <2>5. f.pid # 0 => BookIsSound(links)'
    BY <1>4, <1>10, <1>15, <2>2, LinkIncomeIsSound DEF FetchIsOwn
  <2>6. QED
    BY <1>15, <2>3, <2>4, <2>5
<1>17. DeskIsOwn(v, d)' /\ (s # 0 => Owns(v, s)')
  BY <1>3, <1>4, <1>14, DeskStays, OwnStays
<1>18. Becomes(desk, desk', v, d) /\ Becomes(session, session', v, s)
  BY <1>1, <1>2, <1>3, <1>14, Assigned
<1>19. OnboardingIsSound'
  BY <1>3, <1>4, <1>9, <1>12, <1>13, <1>16, <1>17, <1>18, PageMoves
<1>20. QED
  BY <1>4, <1>5, <1>19 DEF IInv

(* A page that polls, and one that fails.                                   *)
LEMMA FailIsOwn ==
  ASSUME NEW v \in Visitors, v \in DOMAIN desk, NEW f, DeskIsOwn(v, desk[v]), Fail(v, f)
  PROVE  \E e : Becomes(desk, desk', v, e) /\ DeskIsOwn(v, e)
<1>1. PICK d : d = desk[v]
  OBVIOUS
<1>2. PICK e : e = IF f.stale THEN StopTimers(d) ELSE Screen(d, "failed")
  OBVIOUS
<1>3. Becomes(desk, desk', v, e)
  BY <1>1, <1>2, Assigned DEF Fail, Set
<1>4. DeskIsOwn(v, e)
  BY <1>1, <1>2, ScreenIsOwn
<1>5. QED
  BY <1>3, <1>4

LEMMA SettleStartIsSound ==
  ASSUME IInv, NEW v \in Visitors, NEW f \in fetches[v], SettleStart(v, f)
  PROVE  IInv'
<1>1. PICK d, calls, more, b, t :
        d = desk[v] /\ calls = fetches[v] /\ more = calls \ {f} /\ b = book /\ t = session[v]
  OBVIOUS
<1>2. /\ f.call = "start" /\ f.answer # "none" /\ Fetching(v, f, {})
      /\ UNCHANGED platform /\ UNCHANGED <<browser, back, pc, loc>> /\ book' = b
  BY <1>1 DEF SettleStart, fronts
<1>3. /\ OnboardingIsSound /\ DeskIsOwn(v, d) /\ (\A g \in calls : FetchIsOwn(v, g)) /\ Resumes(d, calls)
      /\ t # 0 => Owns(v, t)
      /\ v \in DOMAIN desk /\ v \in DOMAIN fetches /\ v \in DOMAIN session
  BY <1>1, DeskFacts DEF IInv
<1>4. BookIsSound(b)
  BY <1>1, DeskFacts DEF IInv, BookIsSound
<1>5. Becomes(fetches, fetches', v, more)
  <2>1. fetches' = [fetches EXCEPT ![v] = more]
    BY <1>1, <1>2 DEF Fetching
  <2>2. QED
    BY <1>3, <2>1, Assigned
<1>6. \A g \in more : FetchIsOwn(v, g) /\ g.call # "resume"
  BY <1>1, <1>2, <1>3, NothingResumes
<1>7. FetchIsOwn(v, f)
  BY <1>1, <1>3
<1>8. PICK e, s : /\ Becomes(desk, desk', v, e) /\ DeskIsOwn(v, e)
                  /\ Becomes(session, session', v, s) /\ (s # 0 => Owns(v, s))
  <2>1. CASE f.answer = "failed"
    <3>1. Fail(v, f) /\ UNCHANGED session
      BY <2>1 DEF SettleStart
    <3>2. Becomes(session, session', v, t)
      BY <1>1, <1>3, <3>1, Assigned
    <3>3. QED
      BY <1>1, <1>3, <3>1, <3>2, FailIsOwn
  <2>2. CASE f.answer # "failed"
    <3>1. PICK e : e = [d EXCEPT !.pid = IF f.kind = "pid" THEN f.id ELSE @,
                                 !.polling = @ \cup {Polling(f.kind, f.id, f.stale)},
                                 !.shown = IF f.stale THEN @ ELSE f.id]
      OBVIOUS
    <3>2. /\ Set(v, e)
          /\ session' = IF IsLoan(v) /\ f.kind = "pid" THEN [session EXCEPT ![v] = f.id] ELSE session
      BY <1>1, <2>2, <3>1 DEF SettleStart
    <3>3. Owns(v, f.id) /\ ~Identifies(f.id)
      BY <1>2, <1>7, <2>2 DEF FetchIsOwn
    <3>4. DeskIsOwn(v, e)
      <4>1. /\ IsDesk(e) /\ e.pid \in {d.pid, f.id} /\ e.shown \in {d.shown, f.id} /\ e.data = d.data
            /\ e.income = d.income /\ e.later = d.later
            /\ e.polling = d.polling \cup {Polling(f.kind, f.id, f.stale)}
        BY <1>3, <3>1 DEF DeskIsOwn, IsDesk
      <4>2. \A x \in e.polling : Owns(v, x.id)
        BY <1>3, <3>3, <4>1 DEF DeskIsOwn, Polling
      <4>3. QED
        BY <1>3, <3>3, <4>1, <4>2 DEF DeskIsOwn
    <3>5. Becomes(desk, desk', v, e)
      BY <1>3, <3>2, Assigned DEF Set
    <3>6. Becomes(session, session', v, t) \/ Becomes(session, session', v, f.id)
      BY <1>1, <1>3, <3>2, Assigned
    <3>7. QED
      BY <1>3, <3>3, <3>4, <3>5, <3>6
  <2>3. QED
    BY <2>1, <2>2
<1>9. Resumes(e, more)
  BY <1>6 DEF Resumes
<1>10. QED
  BY <1>2, <1>3, <1>4, <1>5, <1>6, <1>8, <1>9, PageMovesAlone DEF IInv

LEMMA PollIsSound ==
  ASSUME IInv, NEW v \in Visitors, Poll(v)
  PROVE  IInv'
<1>1. PICK d, calls, b, s : d = desk[v] /\ calls = fetches[v] /\ b = book /\ s = session[v]
  OBVIOUS
<1>2. PICK p \in d.polling :
        fetches' = [fetches EXCEPT ![v] = @ \cup {[Fetch("poll", p.kind, p.id) EXCEPT !.stale = p.stale]}]
  BY <1>1 DEF Poll
<1>3. /\ UNCHANGED platform /\ UNCHANGED <<browser, back, pc, loc>> /\ UNCHANGED <<desk, session>> /\ book' = b
  BY <1>1 DEF Poll, fronts
<1>4. /\ OnboardingIsSound /\ DeskIsOwn(v, d) /\ (\A g \in calls : FetchIsOwn(v, g)) /\ Resumes(d, calls)
      /\ s # 0 => Owns(v, s)
      /\ v \in DOMAIN desk /\ v \in DOMAIN fetches /\ v \in DOMAIN session
  BY <1>1, DeskFacts DEF IInv
<1>5. BookIsSound(b)
  BY <1>1, DeskFacts DEF IInv, BookIsSound
<1>6. PICK f, more : /\ f = [Fetch("poll", p.kind, p.id) EXCEPT !.stale = p.stale]
                     /\ more = calls \cup {f}
  OBVIOUS
<1>7. Becomes(fetches, fetches', v, more)
  <2>1. fetches' = [fetches EXCEPT ![v] = more]
    BY <1>1, <1>2, <1>6
  <2>2. QED
    BY <1>4, <2>1, Assigned
<1>8. FetchIsOwn(v, f) /\ f.call = "poll"
  <2>1. /\ IsFetch(f) /\ f.call = "poll" /\ f.kind = p.kind /\ f.pid = 0 /\ f.id = p.id /\ f.answer = "none"
    BY <1>6 DEF IsFetch, Fetch
  <2>2. Owns(v, p.id)
    BY <1>2, <1>4 DEF DeskIsOwn
  <2>3. QED
    BY <2>1, <2>2 DEF FetchIsOwn
<1>9. \A g \in more : FetchIsOwn(v, g) /\ g.call # "resume"
  <2>1. \A g \in calls : g.call # "resume"
    BY <1>2, <1>4 DEF Resumes
  <2>2. QED
    BY <1>4, <1>6, <1>8, <2>1
<1>10. Resumes(d, more)
  BY <1>9 DEF Resumes
<1>11. Becomes(desk, desk', v, d) /\ Becomes(session, session', v, s)
  BY <1>1, <1>3, <1>4, Assigned
<1>12. QED
  BY <1>3, <1>4, <1>5, <1>7, <1>9, <1>10, <1>11, PageMovesAlone DEF IInv

LEMMA ServePollIsSound ==
  ASSUME IInv, NEW v \in Visitors, NEW f \in fetches[v], ServePoll(v, f)
  PROVE  IInv'
<1>1. PICK d, calls, b, s : d = desk[v] /\ calls = fetches[v] /\ b = book /\ s = session[v]
  OBVIOUS
<1>2. PICK policy, status : policy = PolicyFor(f.kind) /\ status = Outcome(policy, f.id)
  OBVIOUS
<1>3. PICK verified : verified = (status = "VERIFIED" /\ HasClaims(f.id))
  OBVIOUS
<1>4. PICK g, more :
        /\ g = [f EXCEPT !.answer = IF status = "VERIFIED" /\ ~verified THEN "without claims" ELSE status]
        /\ more = (calls \ {f}) \cup {g}
  OBVIOUS
<1>5. /\ f.call \in {"poll", "resume"} /\ f.answer = "none" /\ Fetching(v, f, {g})
      /\ book' = CASE status = "VERIFIED" /\ f.kind = "pid" -> OpenCase(b, f.id, 1, BookRule)
                   [] verified /\ f.kind = "ingresos" -> AddIncome(b, f.id, 1, BookRule)
                   [] OTHER -> b
  BY <1>1, <1>2, <1>3, <1>4, Zenon DEF ServePoll
<1>6. UNCHANGED platform /\ UNCHANGED <<browser, back, pc, loc>> /\ UNCHANGED <<desk, session>>
  BY DEF ServePoll, fronts
<1>7. /\ OnboardingIsSound /\ DeskIsOwn(v, d) /\ (\A h \in calls : FetchIsOwn(v, h)) /\ Resumes(d, calls)
      /\ s # 0 => Owns(v, s)
      /\ v \in DOMAIN desk /\ v \in DOMAIN fetches /\ v \in DOMAIN session
  BY <1>1, DeskFacts DEF IInv
<1>8. BookIsSound(b)
  BY <1>1, DeskFacts DEF IInv, BookIsSound
<1>9. Becomes(fetches, fetches', v, more)
  <2>1. fetches' = [fetches EXCEPT ![v] = more]
    BY <1>1, <1>4, <1>5 DEF Fetching
  <2>2. QED
    BY <1>7, <2>1, Assigned
<1>10. FetchIsOwn(v, f) /\ f \in calls
  BY <1>1, <1>7
<1>11. Owns(v, f.id) /\ (status = "VERIFIED" => Verified(v, f.id, policy))
  <2>1. Owns(v, f.id)
    BY <1>5, <1>10 DEF FetchIsOwn
  <2>2. QED
    BY <1>2, <2>1, OutcomeIsOfItsPolicy DEF Verified
<1>12. FetchIsOwn(v, g) /\ g.call = f.call
  <2>1. /\ IsFetch(g) /\ g.call = f.call /\ g.kind = f.kind /\ g.pid = f.pid /\ g.id = f.id
        /\ g.answer = "VERIFIED" => status = "VERIFIED"
    BY <1>4, <1>10 DEF IsFetch, FetchIsOwn
  <2>2. PolicyFor(g.kind) = policy
    BY <1>2, <2>1
  <2>3. f.call # "start"
    BY <1>5
  <2>4. QED
    BY <1>10, <1>11, <2>1, <2>2, <2>3 DEF FetchIsOwn
<1>13. \A h \in more : FetchIsOwn(v, h)
  BY <1>4, <1>7, <1>12
<1>14. Resumes(d, more)
  <2>1. CASE f.call = "resume"
    <3>1. calls = {f}
      BY <1>7, <1>10, <2>1 DEF Resumes
    <3>2. more = {g}
      BY <1>4, <3>1
    <3>3. QED
      BY <1>7, <1>10, <2>1, <3>2 DEF Resumes
  <2>2. CASE f.call # "resume"
    <3>1. \A h \in more : h.call # "resume"
      BY <1>4, <1>7, <1>10, <1>12, <2>2, NothingResumes
    <3>2. QED
      BY <3>1 DEF Resumes
  <2>3. QED
    BY <2>1, <2>2
<1>15. PICK c : book' = c /\ BookIsSound(c)
  <2>1. CASE status = "VERIFIED" /\ f.kind = "pid"
    <3>1. PICK c : c = OpenCase(b, f.id, 1, BookRule)
      OBVIOUS
    <3>2. f.id \in DOMAIN presentations /\ presentations[f.id].status = "VERIFIED"
      BY <1>11, <2>1 DEF Verified, Owns
    <3>3. BookIsSound(c)
      BY <1>8, <3>1, <3>2, OpenCaseIsSound
    <3>4. QED
      BY <1>5, <2>1, <3>1, <3>3
  <2>2. CASE verified /\ f.kind = "ingresos"
    <3>1. PICK c : c = AddIncome(b, f.id, 1, BookRule)
      OBVIOUS
    <3>2. policy = "income" /\ status = "VERIFIED"
      BY <1>2, <1>3, <2>2 DEF PolicyFor
    <3>3. BookIsSound(c)
      BY <1>8, <1>11, <3>1, <3>2, AddIncomeIsSound
    <3>4. QED
      BY <1>5, <2>2, <3>1, <3>3
  <2>3. CASE ~(status = "VERIFIED" /\ f.kind = "pid") /\ ~(verified /\ f.kind = "ingresos")
    BY <1>5, <1>8, <2>3
  <2>4. QED
    BY <2>1, <2>2, <2>3
<1>16. Becomes(desk, desk', v, d) /\ Becomes(session, session', v, s)
  BY <1>1, <1>6, <1>7, Assigned
<1>17. QED
  BY <1>6, <1>7, <1>9, <1>13, <1>14, <1>15, <1>16, PageMovesAlone DEF IInv

LEMMA SettlePollIsSound ==
  ASSUME IInv, NEW v \in Visitors, NEW f \in fetches[v], SettlePoll(v, f)
  PROVE  IInv'
<1>1. PICK d, calls, more, b, s :
        d = desk[v] /\ calls = fetches[v] /\ more = calls \ {f} /\ b = book /\ s = session[v]
  OBVIOUS
<1>2. PICK done : done = {p \in d.polling : p.id = f.id}
  OBVIOUS
<1>3. /\ f.call = "poll" /\ Fetching(v, f, {})
      /\ \/ UNCHANGED desk
         \/ f.answer = "VERIFIED" /\ f.kind = "pid"
              /\ Set(v, [d EXCEPT !.data = f.id, !.polling = @ \ done, !.later = @ \cup {<<"received", f.id>>}])
         \/ f.answer = "VERIFIED" /\ f.kind = "ingresos"
              /\ Set(v, [d EXCEPT !.polling = @ \ done, !.later = @ \cup {<<"income", f.id>>}])
         \/ Fail(v, f)
  BY <1>1, <1>2 DEF SettlePoll
<1>4. /\ UNCHANGED platform /\ UNCHANGED <<browser, back, pc, loc>> /\ UNCHANGED session /\ book' = b
  BY <1>1 DEF SettlePoll, fronts
<1>5. /\ OnboardingIsSound /\ DeskIsOwn(v, d) /\ (\A g \in calls : FetchIsOwn(v, g)) /\ Resumes(d, calls)
      /\ s # 0 => Owns(v, s)
      /\ v \in DOMAIN desk /\ v \in DOMAIN fetches /\ v \in DOMAIN session
  BY <1>1, DeskFacts DEF IInv
<1>6. BookIsSound(b)
  BY <1>1, DeskFacts DEF IInv, BookIsSound
<1>7. Becomes(fetches, fetches', v, more) /\ Becomes(session, session', v, s)
  <2>1. fetches' = [fetches EXCEPT ![v] = more]
    BY <1>1, <1>3 DEF Fetching
  <2>2. QED
    BY <1>1, <1>4, <1>5, <2>1, Assigned
<1>8. \A g \in more : FetchIsOwn(v, g) /\ g.call # "resume"
  BY <1>1, <1>3, <1>5, NothingResumes
<1>9. FetchIsOwn(v, f) /\ (f.answer = "VERIFIED" => Verified(v, f.id, PolicyFor(f.kind)))
  BY <1>1, <1>3, <1>5 DEF FetchIsOwn
<1>10. PICK e : Becomes(desk, desk', v, e) /\ DeskIsOwn(v, e)
  <2>1. CASE UNCHANGED desk
    BY <1>1, <1>5, <2>1, Assigned
  <2>2. CASE f.answer = "VERIFIED" /\ f.kind = "pid"
             /\ Set(v, [d EXCEPT !.data = f.id, !.polling = @ \ done, !.later = @ \cup {<<"received", f.id>>}])
    <3>1. PICK e : e = [d EXCEPT !.data = f.id, !.polling = @ \ done, !.later = @ \cup {<<"received", f.id>>}]
      OBVIOUS
    <3>2. Becomes(desk, desk', v, e)
      BY <1>5, <2>2, <3>1, Assigned DEF Set
    <3>3. Verified(v, f.id, "onboarding")
      BY <1>9, <2>2 DEF PolicyFor
    <3>4. /\ IsDesk(e) /\ e.shown = d.shown /\ e.pid = d.pid /\ e.data = f.id /\ e.income = d.income
          /\ e.polling = d.polling \ done /\ e.later = d.later \cup {<<"received", f.id>>}
      BY <1>5, <3>1 DEF DeskIsOwn, IsDesk
    <3>5. \A x \in e.later : x[1] = "income" => x \in d.later
      BY <3>4
    <3>6. DeskIsOwn(v, e)
      BY <1>5, <3>3, <3>4, <3>5 DEF DeskIsOwn
    <3>7. QED
      BY <3>2, <3>6
  <2>3. CASE f.answer = "VERIFIED" /\ f.kind = "ingresos"
             /\ Set(v, [d EXCEPT !.polling = @ \ done, !.later = @ \cup {<<"income", f.id>>}])
    <3>1. PICK e : e = [d EXCEPT !.polling = @ \ done, !.later = @ \cup {<<"income", f.id>>}]
      OBVIOUS
    <3>2. Becomes(desk, desk', v, e)
      BY <1>5, <2>3, <3>1, Assigned DEF Set
    <3>3. Verified(v, f.id, "income")
      BY <1>9, <2>3 DEF PolicyFor
    <3>4. /\ IsDesk(e) /\ e.shown = d.shown /\ e.pid = d.pid /\ e.data = d.data /\ e.income = d.income
          /\ e.polling = d.polling \ done /\ e.later = d.later \cup {<<"income", f.id>>}
      BY <1>5, <3>1 DEF DeskIsOwn, IsDesk
    <3>5. \A x \in e.later : x \in d.later \/ x[2] = f.id
      BY <3>4
    <3>6. DeskIsOwn(v, e)
      BY <1>5, <3>3, <3>4, <3>5 DEF DeskIsOwn
    <3>7. QED
      BY <3>2, <3>6
  <2>4. CASE Fail(v, f)
    BY <1>1, <1>5, <2>4, FailIsOwn
  <2>5. QED
    BY <1>3, <2>1, <2>2, <2>3, <2>4
<1>11. Resumes(e, more)
  BY <1>8 DEF Resumes
<1>12. QED
  BY <1>4, <1>5, <1>6, <1>7, <1>8, <1>10, <1>11, PageMovesAlone DEF IInv

LEMMA LaterIsSound ==
  ASSUME IInv, NEW v \in Visitors, Later(v)
  PROVE  IInv'
<1>1. PICK d, calls, b, s : d = desk[v] /\ calls = fetches[v] /\ b = book /\ s = session[v]
  OBVIOUS
<1>2. PICK next \in d.later :
        \/ Set(v, Screen(d, "received"))
        \/ next[1] = "income" /\ Set(v, [Screen(d, "granted") EXCEPT !.income = next[2]])
        \/ Set(v, Screen(d, "failed"))
  BY <1>1 DEF Later
<1>3. PICK more : more = {[g EXCEPT !.stale = TRUE] : g \in calls}
  OBVIOUS
<1>4. /\ fetches' = [fetches EXCEPT ![v] = more]
      /\ UNCHANGED platform /\ UNCHANGED <<browser, back, pc, loc>> /\ UNCHANGED session /\ book' = b
  BY <1>1, <1>3 DEF Later, Leave, fronts
<1>5. /\ OnboardingIsSound /\ DeskIsOwn(v, d) /\ (\A g \in calls : FetchIsOwn(v, g)) /\ Resumes(d, calls)
      /\ s # 0 => Owns(v, s)
      /\ v \in DOMAIN desk /\ v \in DOMAIN fetches /\ v \in DOMAIN session
  BY <1>1, DeskFacts DEF IInv
<1>6. BookIsSound(b)
  BY <1>1, DeskFacts DEF IInv, BookIsSound
<1>7. Becomes(fetches, fetches', v, more) /\ Becomes(session, session', v, s)
  BY <1>1, <1>4, <1>5, Assigned
<1>8. \A g \in more : FetchIsOwn(v, g) /\ g.call # "resume"
  <2>1. \A g \in calls : g.call # "resume"
    BY <1>2, <1>5 DEF Resumes
  <2>2. \A g \in calls : FetchIsOwn(v, [g EXCEPT !.stale = TRUE]) /\ [g EXCEPT !.stale = TRUE].call # "resume"
    BY <1>5, <2>1, StaleIsOwn
  <2>3. QED
    BY <1>3, <2>2
<1>9. PICK e : Becomes(desk, desk', v, e) /\ DeskIsOwn(v, e)
  <2>1. PICK received, failed, granted, e :
          /\ received = Screen(d, "received") /\ failed = Screen(d, "failed")
          /\ granted = Screen(d, "granted") /\ e = [granted EXCEPT !.income = next[2]]
    OBVIOUS
  <2>2. CASE Set(v, received)
    BY <1>5, <2>1, <2>2, Assigned, ScreenIsOwn DEF Set
  <2>3. CASE Set(v, failed)
    BY <1>5, <2>1, <2>3, Assigned, ScreenIsOwn DEF Set
  <2>4. CASE next[1] = "income" /\ Set(v, e)
    <3>1. DeskIsOwn(v, granted)
      BY <1>5, <2>1, ScreenIsOwn
    <3>2. Verified(v, next[2], "income")
      BY <1>2, <1>5, <2>4 DEF DeskIsOwn
    <3>3. /\ IsDesk(e) /\ e.shown = granted.shown /\ e.pid = granted.pid /\ e.data = granted.data
          /\ e.income = next[2] /\ e.polling = granted.polling /\ e.later = granted.later
      BY <2>1, <3>1 DEF DeskIsOwn, IsDesk
    <3>4. DeskIsOwn(v, e)
      BY <3>1, <3>2, <3>3 DEF DeskIsOwn
    <3>5. QED
      BY <1>5, <2>4, <3>4, Assigned DEF Set
  <2>5. QED
    BY <1>2, <2>1, <2>2, <2>3, <2>4
<1>10. Resumes(e, more)
  BY <1>8 DEF Resumes
<1>11. QED
  BY <1>4, <1>5, <1>6, <1>7, <1>8, <1>9, <1>10, PageMovesAlone DEF IInv

LEMMA SignIsSound ==
  ASSUME IInv, NEW v \in Visitors, Sign(v)
  PROVE  IInv'
<1>1. PICK d, calls, b : d = desk[v] /\ calls = fetches[v] /\ b = book
  OBVIOUS
<1>2. PICK e, more : e = Screen(d, "signed") /\ more = {[g EXCEPT !.stale = TRUE] : g \in calls}
  OBVIOUS
<1>3. /\ d.screen \in {"granted", "received"} /\ desk' = [desk EXCEPT ![v] = e]
      /\ fetches' = [fetches EXCEPT ![v] = more] /\ session' = [session EXCEPT ![v] = 0]
      /\ UNCHANGED platform /\ UNCHANGED <<browser, back, pc, loc>>
  BY <1>1, <1>2 DEF Sign, Set, Leave, fronts
<1>4. /\ OnboardingIsSound /\ DeskIsOwn(v, d) /\ (\A g \in calls : FetchIsOwn(v, g)) /\ Resumes(d, calls)
      /\ v \in DOMAIN desk /\ v \in DOMAIN fetches /\ v \in DOMAIN session
  BY <1>1, DeskFacts DEF IInv
<1>5. BookIsSound(b)
  BY <1>1, DeskFacts DEF IInv, BookIsSound
<1>6. /\ Becomes(desk, desk', v, e) /\ Becomes(fetches, fetches', v, more)
      /\ Becomes(session, session', v, 0)
  BY <1>3, <1>4, Assigned
<1>7. \A g \in more : FetchIsOwn(v, g) /\ g.call # "resume"
  <2>1. \A g \in calls : g.call # "resume"
    BY <1>3, <1>4 DEF Resumes
  <2>2. \A g \in calls : FetchIsOwn(v, [g EXCEPT !.stale = TRUE]) /\ [g EXCEPT !.stale = TRUE].call # "resume"
    BY <1>4, <2>1, StaleIsOwn
  <2>3. QED
    BY <1>2, <2>2
<1>8. DeskIsOwn(v, e)
  BY <1>2, <1>4, ScreenIsOwn
<1>9. PICK c : book' = c /\ BookIsSound(c)
  <2>1. PICK product : product = day.errand[v]
    OBVIOUS
  <2>2. PICK declared : declared = DeclareOutcome(b, d.pid, 1, BookRule, product)
    OBVIOUS
  <2>3. book' = b \/ book' = declared
    BY <1>1, <2>1, <2>2 DEF Sign
  <2>4. BookIsSound(declared)
    BY <1>5, <2>2, DeclareOutcomeIsSound
  <2>5. QED
    BY <1>5, <2>3, <2>4
<1>10. Resumes(e, more)
  BY <1>7 DEF Resumes
<1>11. QED
  BY <1>3, <1>4, <1>6, <1>7, <1>8, <1>9, <1>10, PageMovesAlone DEF IInv

(* Whoever scans the QR, the page keeps what it has.                        *)
LEMMA ScanIsSound ==
  ASSUME IInv, NEW v \in Visitors, NEW who \in Visitors, Scan(v, who)
  PROVE  IInv'
<1>1. PICK p : p = desk[v].shown
  OBVIOUS
<1>2. /\ p # 0 /\ Present(who, p) /\ UNCHANGED <<requests, held, accepted, returns>>
      /\ UNCHANGED <<browser, back, pc, loc>> /\ UNCHANGED onboarding
  BY <1>1 DEF Scan, fronts
<1>3. p \in DOMAIN presentations /\ ~Identifies(p)
  BY <1>1, <1>2, DeskFacts DEF IInv, DeskIsOwn, Owns
<1>4. PlatformIsSound' /\ Grows
  BY <1>2, <1>3, Presents DEF IInv
<1>5. FrontsAreSound' /\ OnboardingIsSound'
  BY <1>2, <1>4, FrontsStay, OnboardingStays DEF IInv
<1>6. QED
  BY <1>4, <1>5 DEF IInv

LEMMA FollowLinkIsSound ==
  ASSUME IInv, NEW v \in Visitors, FollowLink(v)
  PROVE  IInv'
<1>1. PICK p, b, s : p = desk[v].shown /\ b = book /\ s = session[v]
  OBVIOUS
<1>2. PICK e : e = [NewDesk EXCEPT !.screen = "away", !.shown = p]
  OBVIOUS
<1>3. /\ p # 0 /\ Present(v, p) /\ UNCHANGED <<requests, held, accepted, returns>>
      /\ UNCHANGED <<browser, back, pc, loc>> /\ UNCHANGED session /\ book' = b
      /\ desk' = [desk EXCEPT ![v] = e] /\ fetches' = [fetches EXCEPT ![v] = {}]
  BY <1>1, <1>2 DEF FollowLink, Set, fronts
<1>4. /\ OnboardingIsSound /\ (s # 0 => Owns(v, s)) /\ Owns(v, p) /\ ~Identifies(p)
      /\ v \in DOMAIN desk /\ v \in DOMAIN fetches /\ v \in DOMAIN session
  BY <1>1, <1>3, DeskFacts DEF IInv, DeskIsOwn
<1>5. PlatformIsSound' /\ Grows
  BY <1>3, <1>4, Presents DEF IInv, Owns
<1>6. FrontsAreSound'
  BY <1>3, <1>5, FrontsStay DEF IInv
<1>7. BookIsSound(b)'
  <2>1. BookIsSound(b)
    BY <1>1, DeskFacts DEF IInv, BookIsSound
  <2>2. QED
    BY <1>5, <2>1, BookStays
<1>8. DeskIsOwn(v, e)'
  <2>1. DeskIsOwn(v, e)
    BY <1>2, <1>4 DEF DeskIsOwn, IsDesk, NewDesk
  <2>2. QED
    BY <1>5, <2>1, DeskStays
<1>9. s # 0 => Owns(v, s)'
  BY <1>4, <1>5, OwnStays
<1>10. PICK calls : calls = {}
  OBVIOUS
<1>11. /\ Becomes(desk, desk', v, e) /\ Becomes(fetches, fetches', v, calls)
       /\ Becomes(session, session', v, s)
  BY <1>1, <1>3, <1>4, <1>10, Assigned
<1>12. Resumes(e, calls) /\ \A f \in calls : FetchIsOwn(v, f)'
  BY <1>10 DEF Resumes
<1>13. OnboardingIsSound'
  BY <1>3, <1>4, <1>5, <1>7, <1>8, <1>9, <1>11, <1>12, PageMoves
<1>14. QED
  BY <1>5, <1>6, <1>13 DEF IInv

LEMMA ComeBackIsSound ==
  ASSUME IInv, NEW v \in Visitors, ComeBack(v)
  PROVE  IInv'
<1>1. PICK d, calls, b, s, to :
        /\ d = desk[v] /\ calls = fetches[v] /\ b = book /\ s = session[v]
        /\ to = Destination(d.shown)
  OBVIOUS
<1>2. PICK p, resumed : /\ p = to.presentation
                        /\ resumed = [Screen(NewDesk, "connect") EXCEPT !.mode = "SAME_DEVICE"]
  OBVIOUS
<1>3. PICK again, other, back1 :
        /\ again = [resumed EXCEPT !.screen = "resuming", !.kind = "ingresos", !.shown = p, !.pid = s]
        /\ other = [resumed EXCEPT !.pid = IF to.policy = "income" THEN s ELSE p,
                                   !.polling = {Polling("pid", p, FALSE)}]
        /\ back1 = Fetch("resume", "pid", s)
  OBVIOUS
<1>4. /\ d.screen = "away"
      /\ \/ Set(v, NewDesk) /\ UNCHANGED fetches
         \/ to.front = "verifier" /\ s # 0 /\ Set(v, again) /\ fetches' = [fetches EXCEPT ![v] = {back1}]
         \/ to.front = "verifier" /\ Set(v, other) /\ UNCHANGED fetches
  BY <1>1, <1>2, <1>3 DEF ComeBack
<1>5. /\ UNCHANGED platform /\ UNCHANGED <<browser, back, pc, loc>> /\ UNCHANGED session /\ book' = b
  BY <1>1 DEF ComeBack, fronts
<1>6. /\ OnboardingIsSound /\ DeskIsOwn(v, d) /\ (\A g \in calls : FetchIsOwn(v, g)) /\ Resumes(d, calls)
      /\ s # 0 => Owns(v, s)
      /\ v \in DOMAIN desk /\ v \in DOMAIN fetches /\ v \in DOMAIN session
  BY <1>1, DeskFacts DEF IInv
<1>7. BookIsSound(b)
  BY <1>1, DeskFacts DEF IInv, BookIsSound
<1>8. Becomes(session, session', v, s)
  BY <1>1, <1>5, <1>6, Assigned
<1>9. to.front = "verifier" => p = d.shown /\ p # 0 /\ Owns(v, p) /\ ~Identifies(p)
  <2>1. ASSUME to.front = "verifier" PROVE d.shown \in DOMAIN returns /\ to = returns[d.shown]
    BY <1>1, <2>1 DEF Destination, Nowhere
  <2>2. ASSUME to.front = "verifier" PROVE p = d.shown /\ d.shown \in DOMAIN presentations
    BY <1>2, <2>1, <2>2 DEF IInv, PlatformIsSound, ReturnsLead
  <2>3. QED
    BY <1>6, <2>2, NoneIsZero DEF IInv, DeskIsOwn
<1>10. /\ IsDesk(resumed) /\ resumed.shown = 0 /\ resumed.pid = 0 /\ resumed.data = 0
       /\ resumed.income = 0 /\ resumed.polling = {} /\ resumed.later = {}
  BY <1>2 DEF Screen, StopTimers, NewDesk, IsDesk
<1>11. \A g \in calls : g.call # "resume"
  BY <1>4, <1>6 DEF Resumes
<1>12. PICK e, more : /\ Becomes(desk, desk', v, e) /\ DeskIsOwn(v, e)
                      /\ Becomes(fetches, fetches', v, more)
                      /\ \A g \in more : FetchIsOwn(v, g)
                      /\ Resumes(e, more)
  <2>1. CASE Set(v, NewDesk) /\ UNCHANGED fetches
    <3>1. PICK e : e = NewDesk
      OBVIOUS
    <3>2. Becomes(desk, desk', v, e) /\ Becomes(fetches, fetches', v, calls)
      BY <1>1, <1>6, <2>1, <3>1, Assigned DEF Set
    <3>3. DeskIsOwn(v, e)
      BY <3>1 DEF DeskIsOwn, IsDesk, NewDesk
    <3>4. Resumes(e, calls)
      BY <1>11 DEF Resumes
    <3>5. QED
      BY <1>6, <3>2, <3>3, <3>4
  <2>2. CASE to.front = "verifier" /\ s # 0 /\ Set(v, again) /\ fetches' = [fetches EXCEPT ![v] = {back1}]
    <3>1. PICK more : more = {back1}
      OBVIOUS
    <3>2. Becomes(desk, desk', v, again) /\ Becomes(fetches, fetches', v, more)
      BY <1>6, <2>2, <3>1, Assigned DEF Set
    <3>3. /\ IsDesk(again) /\ again.screen = "resuming" /\ again.shown = p /\ again.pid = s /\ again.data = 0
          /\ again.income = 0 /\ again.polling = {} /\ again.later = {}
      BY <1>3, <1>10 DEF IsDesk
    <3>4. DeskIsOwn(v, again)
      BY <1>6, <1>9, <2>2, <3>3 DEF DeskIsOwn
    <3>5. /\ IsFetch(back1) /\ back1.call = "resume" /\ back1.kind = "pid" /\ back1.pid = 0
          /\ back1.id = s /\ back1.answer = "none"
      BY <1>3 DEF IsFetch, Fetch
    <3>6. FetchIsOwn(v, back1)
      BY <1>6, <2>2, <3>5 DEF FetchIsOwn
    <3>7. Resumes(again, more)
      BY <1>9, <2>2, <3>1, <3>3 DEF Resumes
    <3>8. QED
      BY <3>1, <3>2, <3>4, <3>6, <3>7
  <2>3. CASE to.front = "verifier" /\ Set(v, other) /\ UNCHANGED fetches
    <3>1. Becomes(desk, desk', v, other) /\ Becomes(fetches, fetches', v, calls)
      BY <1>1, <1>6, <2>3, Assigned DEF Set
    <3>2. /\ IsDesk(other) /\ other.shown = 0 /\ other.pid \in {s, p} /\ other.data = 0
          /\ other.income = 0 /\ other.polling = {Polling("pid", p, FALSE)} /\ other.later = {}
      BY <1>3, <1>10 DEF IsDesk
    <3>3. \A x \in other.polling : x.id = p
      BY <3>2 DEF Polling
    <3>4. DeskIsOwn(v, other)
      BY <1>6, <1>9, <2>3, <3>2, <3>3 DEF DeskIsOwn
    <3>5. Resumes(other, calls)
      BY <1>11 DEF Resumes
    <3>6. QED
      BY <1>6, <3>1, <3>4, <3>5
  <2>4. QED
    BY <1>4, <2>1, <2>2, <2>3
<1>13. QED
  BY <1>5, <1>6, <1>7, <1>8, <1>12, PageMovesAlone DEF IInv

LEMMA SettleResumeIsSound ==
  ASSUME IInv, NEW v \in Visitors, NEW f \in fetches[v], SettleResume(v, f)
  PROVE  IInv'
<1>1. PICK d, calls, more, b, s :
        d = desk[v] /\ calls = fetches[v] /\ more = calls \ {f} /\ b = book /\ s = session[v]
  OBVIOUS
<1>2. PICK e, first :
        /\ e = [Screen(d, "connect") EXCEPT !.data = IF f.answer = "VERIFIED" THEN f.id ELSE 0,
                                            !.polling = {Polling("ingresos", d.shown, FALSE)}]
        /\ first = Screen([d EXCEPT !.kind = "pid"], "product")
  OBVIOUS
<1>3. /\ f.call = "resume" /\ Fetching(v, f, {})
      /\ Set(v, e) \/ Set(v, first)
      /\ UNCHANGED platform /\ UNCHANGED <<browser, back, pc, loc>> /\ UNCHANGED session /\ book' = b
  BY <1>1, <1>2 DEF SettleResume, fronts
<1>4. /\ OnboardingIsSound /\ DeskIsOwn(v, d) /\ (\A g \in calls : FetchIsOwn(v, g)) /\ Resumes(d, calls)
      /\ s # 0 => Owns(v, s)
      /\ v \in DOMAIN desk /\ v \in DOMAIN fetches /\ v \in DOMAIN session
  BY <1>1, DeskFacts DEF IInv
<1>5. BookIsSound(b)
  BY <1>1, DeskFacts DEF IInv, BookIsSound
<1>6. Becomes(fetches, fetches', v, more) /\ Becomes(session, session', v, s)
  <2>1. fetches' = [fetches EXCEPT ![v] = more]
    BY <1>1, <1>3 DEF Fetching
  <2>2. QED
    BY <1>1, <1>3, <1>4, <2>1, Assigned
<1>7. calls = {f} /\ d.shown # 0
  BY <1>1, <1>3, <1>4 DEF Resumes
<1>8. \A g \in more : FetchIsOwn(v, g) /\ g.call # "resume"
  BY <1>1, <1>7
<1>9. f.answer = "VERIFIED" => Verified(v, f.id, "onboarding")
  BY <1>1, <1>3, <1>4 DEF FetchIsOwn, PolicyFor
<1>10. DeskIsOwn(v, e)
  <2>1. PICK next : next = Screen(d, "connect")
    OBVIOUS
  <2>2. DeskIsOwn(v, next) /\ next.shown = 0 /\ next.later = {}
    BY <1>4, <2>1, ScreenIsEmpty
  <2>3. e = [next EXCEPT !.data = IF f.answer = "VERIFIED" THEN f.id ELSE 0,
                         !.polling = {Polling("ingresos", d.shown, FALSE)}]
    BY <1>2, <2>1
  <2>4. /\ IsDesk(e) /\ e.shown = 0 /\ e.pid = next.pid /\ e.income = next.income /\ e.later = {}
        /\ e.polling = {Polling("ingresos", d.shown, FALSE)}
        /\ e.data = IF f.answer = "VERIFIED" THEN f.id ELSE 0
    BY <2>2, <2>3 DEF DeskIsOwn, IsDesk
  <2>5. \A x \in e.polling : x.id = d.shown
    BY <2>4 DEF Polling
  <2>6. Owns(v, d.shown)
    BY <1>4, <1>7 DEF DeskIsOwn
  <2>7. QED
    BY <1>9, <2>2, <2>4, <2>5, <2>6 DEF DeskIsOwn
<1>11. DeskIsOwn(v, first)
  <2>1. PICK pid : pid = [d EXCEPT !.kind = "pid"]
    OBVIOUS
  <2>2. /\ IsDesk(pid) /\ pid.shown = d.shown /\ pid.pid = d.pid /\ pid.data = d.data
        /\ pid.income = d.income /\ pid.polling = d.polling /\ pid.later = d.later
    BY <1>4, <2>1 DEF DeskIsOwn, IsDesk
  <2>3. DeskIsOwn(v, pid)
    BY <1>4, <2>2 DEF DeskIsOwn
  <2>4. QED
    BY <1>2, <2>1, <2>3, ScreenIsOwn
<1>12. PICK c : Becomes(desk, desk', v, c) /\ DeskIsOwn(v, c)
  BY <1>3, <1>4, <1>10, <1>11, Assigned DEF Set
<1>13. Resumes(c, more)
  BY <1>8 DEF Resumes
<1>14. QED
  BY <1>3, <1>4, <1>5, <1>6, <1>8, <1>12, <1>13, PageMovesAlone DEF IInv

LEMMA FetchFailsIsSound ==
  ASSUME IInv, NEW v \in Visitors, NEW f \in fetches[v], FetchFails(v, f)
  PROVE  IInv'
<1>1. PICK d, calls, b, s : d = desk[v] /\ calls = fetches[v] /\ b = book /\ s = session[v]
  OBVIOUS
<1>2. PICK g, with : g = [f EXCEPT !.answer = "failed"] /\ with = IF f.call = "poll" THEN {} ELSE {g}
  OBVIOUS
<1>3. PICK more : more = (calls \ {f}) \cup with
  OBVIOUS
<1>4. /\ fetches' = [fetches EXCEPT ![v] = more]
      /\ UNCHANGED platform /\ UNCHANGED <<browser, back, pc, loc>> /\ UNCHANGED <<desk, session>> /\ book' = b
  BY <1>1, <1>2, <1>3 DEF FetchFails, Fetching
<1>5. /\ OnboardingIsSound /\ DeskIsOwn(v, d) /\ (\A h \in calls : FetchIsOwn(v, h)) /\ Resumes(d, calls)
      /\ s # 0 => Owns(v, s)
      /\ v \in DOMAIN desk /\ v \in DOMAIN fetches /\ v \in DOMAIN session
  BY <1>1, DeskFacts DEF IInv
<1>6. BookIsSound(b)
  BY <1>1, DeskFacts DEF IInv, BookIsSound
<1>7. FetchIsOwn(v, f) /\ f \in calls
  BY <1>1, <1>5
<1>8. FetchIsOwn(v, g) /\ g.call = f.call
  <2>1. /\ IsFetch(g) /\ g.call = f.call /\ g.kind = f.kind /\ g.pid = f.pid /\ g.id = f.id
        /\ g.answer = "failed"
    BY <1>2, <1>7 DEF IsFetch, FetchIsOwn
  <2>2. QED
    BY <1>7, <2>1 DEF FetchIsOwn
<1>9. \A h \in more : FetchIsOwn(v, h)
  BY <1>2, <1>3, <1>5, <1>8
<1>10. Resumes(d, more)
  <2>1. CASE f.call = "resume"
    <3>1. calls = {f}
      BY <1>5, <1>7, <2>1 DEF Resumes
    <3>2. more = {g}
      BY <1>2, <1>3, <2>1, <3>1
    <3>3. QED
      BY <1>5, <1>7, <2>1, <3>2 DEF Resumes
  <2>2. CASE f.call # "resume"
    <3>1. \A h \in more : h.call # "resume"
      BY <1>2, <1>3, <1>5, <1>7, <1>8, <2>2, NothingResumes
    <3>2. QED
      BY <3>1 DEF Resumes
  <2>3. QED
    BY <2>1, <2>2
<1>11. /\ Becomes(desk, desk', v, d) /\ Becomes(fetches, fetches', v, more)
       /\ Becomes(session, session', v, s)
  BY <1>1, <1>4, <1>5, Assigned
<1>12. QED
  BY <1>4, <1>5, <1>6, <1>9, <1>10, <1>11, PageMovesAlone DEF IInv

LEMMA EmptyBookIsSound ==
  BookIsSound(EmptyBook)
<1>1. PICK none : none = <<>>
  OBVIOUS
<1>2. none \in Seq({}) /\ DOMAIN none = {}
  BY <1>1
<1>3. IsSequence(none)
  BY <1>2, IsOne
<1>4. QED
  BY <1>1, <1>2, <1>3 DEF BookIsSound, EmptyBook

LEMMA RestartOnboardingIsSound ==
  ASSUME IInv, RestartOnboarding
  PROVE  IInv'
<1>1. /\ UNCHANGED platform /\ UNCHANGED <<browser, back, pc, loc>>
      /\ UNCHANGED <<desk, fetches, session>> /\ book' = EmptyBook
  BY DEF RestartOnboarding
<1>2. PlatformIsSound' /\ Grows
  BY <1>1, PlatformStays DEF IInv
<1>3. FrontsAreSound'
  BY <1>1, <1>2, FrontsStay DEF IInv
<1>4. ASSUME NEW v \in Visitors PROVE OnboardingIsOwn(v)'
  <2>1. PICK d, calls, s : d = desk[v] /\ calls = fetches[v] /\ s = session[v]
    OBVIOUS
  <2>2. /\ DeskIsOwn(v, d)' /\ (\A f \in calls : FetchIsOwn(v, f)') /\ Resumes(d, calls)
        /\ s # 0 => Owns(v, s)'
    BY <1>2, <2>1, DeskFacts, DeskStays, FetchStays, OwnStays DEF IInv
  <2>3. QED
    BY <1>1, <2>1, <2>2 DEF OnboardingIsOwn
<1>5. BookIsSound(book)'
  <2>1. PICK b : b = EmptyBook
    OBVIOUS
  <2>2. BookIsSound(b)'
    BY <1>2, <2>1, EmptyBookIsSound, BookStays
  <2>3. QED
    BY <1>1, <2>1, <2>2 DEF BookIsSound
<1>6. OnboardingIsSound'
  BY <1>1, <1>4, <1>5 DEF IInv, OnboardingIsSound
<1>7. QED
  BY <1>2, <1>3, <1>6 DEF IInv

-----------------------------------------------------------------------------
(* The system                                                               *)

LEMMA InitIsSound ==
  ASSUME Init
  PROVE  IInv
<1>1. PICK none : none = <<>>
  OBVIOUS
<1>2. none \in Seq({}) /\ DOMAIN none = {} /\ Len(none) = 0
  BY <1>1
<1>3. IsSequence(none)
  BY <1>2, IsOne
<1>4. /\ requests = none /\ presentations = none /\ returns = none
      /\ held = [r \in Requests |-> NoValues]
  BY <1>1 DEF Init, PlatformInit
<1>5. PlatformIsSound
  <2>1. IsSequence(requests) /\ IsSequence(presentations)
    BY <1>3, <1>4 DEF IsSequence
  <2>2. Tables
    BY <1>2, <1>4, <2>1, HostedPlatformAssumption DEF Tables
  <2>3. Identifications /\ CodesAreAccepted /\ ReturnsLead
    BY <1>2, <1>4 DEF Identifications, CodesAreAccepted, ReturnsLead
  <2>4. HeldAreGiven
    BY <1>4 DEF HeldAreGiven
  <2>5. QED
    BY <2>2, <2>3, <2>4 DEF PlatformIsSound
<1>6. FrontsAreSound
  <2>1. ASSUME NEW v \in Visitors PROVE WindowIsOwn(v)
    <3>1. /\ browser[v] = WalletApp /\ back[v] = WalletApp /\ pc[v] = "idle" /\ loc[v] = NoLocals
      BY DEF Init
    <3>2. PageIsOwn(v, WalletApp)
      BY PlainPages
    <3>3. RequestIsOwn(v, "idle", NoLocals)
      BY DEF RequestIsOwn, IsLocals, NoLocals
    <3>4. QED
      BY <3>1, <3>2, <3>3 DEF WindowIsOwn
  <2>2. QED
    BY <2>1 DEF FrontsAreSound, Init
<1>7. OnboardingIsSound
  <2>1. ASSUME NEW v \in Visitors PROVE OnboardingIsOwn(v)
    <3>1. desk[v] = NewDesk /\ fetches[v] = {} /\ session[v] = 0
      BY DEF Init, OnboardingInit
    <3>2. DeskIsOwn(v, NewDesk)
      BY DEF DeskIsOwn, IsDesk, NewDesk
    <3>3. Resumes(NewDesk, {})
      BY DEF Resumes
    <3>4. QED
      BY <3>1, <3>2, <3>3 DEF OnboardingIsOwn
  <2>2. BookIsSound(book)
    BY EmptyBookIsSound DEF Init, OnboardingInit
  <2>3. QED
    BY <2>1, <2>2 DEF OnboardingIsSound, Init, OnboardingInit
<1>8. QED
  BY <1>5, <1>6, <1>7 DEF IInv

(* What visitors do with the forms, the verifier's sites and their wallets. *)
LEMMA VisitorIsSound ==
  ASSUME IInv, NEW v \in Visitors, Handle(v) \/ VisitorDoes(v) \/ Reload(v) \/ CallFails(v)
  PROVE  PlatformIsSound' /\ FrontsAreSound' /\ Grows
<1>1. PlatformIsSound /\ FrontsAreSound
  BY DEF IInv
<1>2. CASE Handle(v)
  BY <1>1, <1>2, AuthorizeIsSound, ReadDefinitionIsSound, SubmitIsSound, IdentifyAtPlatformIsSound,
     ReadIdentificationIsSound, StartAtPlatformIsSound, ReadResultIsSound DEF Handle
<1>3. CASE VisitorDoes(v)
  BY <1>1, <1>3, PushRequestIsSound, ConfirmIsSound, IdentificarseIsSound, SolicitarIsSound,
     VerificarIsSound, WalletAnswersIsSound, WalletReturnsIsSound, GoBackIsSound DEF VisitorDoes
<1>4. QED
  BY <1>1, <1>2, <1>3, ReloadIsSound, CallFailsIsSound

(* What the onboarding's pages and their server do.                         *)
LEMMA OnboardIsSound ==
  ASSUME IInv, NEW v \in Visitors, Onboard(v)
  PROVE  IInv'
<1>1. CASE Connect(v) \/ Poll(v) \/ Later(v) \/ Sign(v) \/ FollowLink(v) \/ ComeBack(v)
  BY <1>1, ConnectIsSound, PollIsSound, LaterIsSound, SignIsSound, FollowLinkIsSound, ComeBackIsSound
<1>2. ASSUME NEW who \in Visitors, Scan(v, who) PROVE IInv'
  BY <1>2, ScanIsSound
<1>3. ASSUME NEW f \in fetches[v],
             \/ ServeStart(v, f) \/ SettleStart(v, f) \/ ServePoll(v, f) \/ SettlePoll(v, f)
             \/ SettleResume(v, f) \/ FetchFails(v, f)
      PROVE  IInv'
  BY <1>3, ServeStartIsSound, SettleStartIsSound, ServePollIsSound, SettlePollIsSound,
     SettleResumeIsSound, FetchFailsIsSound
<1>4. QED
  BY <1>1, <1>2, <1>3 DEF Onboard

(* What the platform does by itself, and the passing of time.               *)
LEMMA PlatformAloneIsSound ==
  ASSUME PlatformIsSound, PlatformByItself \/ TimePasses
  PROVE  PlatformIsSound' /\ Grows
<1>1. CASE PlatformByItself
  BY <1>1, Collects, Verifies, Ages DEF PlatformByItself
<1>2. CASE TimePasses
  BY <1>2, Forgets, Ages DEF TimePasses
<1>3. QED
  BY <1>1, <1>2

LEMMA NextIsSound ==
  ASSUME IInv, [Next]_vars
  PROVE  IInv'
<1>1. CASE /\ \E v \in Visitors : Handle(v) \/ VisitorDoes(v) \/ Reload(v) \/ CallFails(v)
           /\ UNCHANGED onboarding
  BY <1>1, VisitorIsSound, OnboardingStays DEF IInv
<1>2. CASE \E v \in Visitors : Onboard(v)
  BY <1>2, OnboardIsSound
<1>3. CASE RestartOnboarding
  BY <1>3, RestartOnboardingIsSound
<1>4. CASE (PlatformByItself \/ TimePasses) /\ UNCHANGED <<fronts, onboarding>>
  <2>1. UNCHANGED <<browser, back, pc, loc>> /\ UNCHANGED onboarding
    BY <1>4 DEF fronts
  <2>2. PlatformIsSound' /\ Grows
    BY <1>4, PlatformAloneIsSound DEF IInv
  <2>3. QED
    BY <2>1, <2>2, FrontsStay, OnboardingStays DEF IInv
<1>5. CASE RestartPlatform /\ UNCHANGED onboarding
  BY <1>5, RestartPlatformIsSound, OnboardingStays DEF IInv
<1>6. CASE UNCHANGED vars
  <2>1. UNCHANGED platform /\ UNCHANGED <<browser, back, pc, loc>> /\ UNCHANGED onboarding
    BY <1>6 DEF vars, fronts
  <2>2. PlatformIsSound' /\ Grows
    BY <2>1, PlatformStays DEF IInv
  <2>3. QED
    BY <2>1, <2>2, FrontsStay, OnboardingStays DEF IInv
<1>7. QED
  BY <1>1, <1>2, <1>3, <1>4, <1>5, <1>6 DEF Next

(* Every page, request under way, fetch and store names only what its       *)
(* visitor started: the inductive invariant (hosted-form-returns.ts:10,     *)
(* wallet-initiated-claims.ts:18, backoffice.ts:8).                         *)
THEOREM NamesAreOwn == Spec => []IInv
<1>1. Init => IInv
  BY InitIsSound
<1>2. IInv /\ [Next]_vars => IInv'
  BY NextIsSound
<1>3. QED
  BY <1>1, <1>2, PTL DEF Spec

LEMMA IssuedAsSubmitted ==
  ASSUME IInv
  PROVE  FormIssuesWhatWasSubmitted
<1>1. SUFFICES ASSUME NEW r \in DOMAIN requests, NEW given, given = requests[r].values
               PROVE  /\ requests[r].status \in {"coded", "collected", "refused"} => r \in accepted
                      /\ requests[r].status = "collected" =>
                           /\ given.person = requests[r].owner
                           /\ requests[r].policy = "rep" <=> given.presentation # 0
                           /\ given.presentation # 0 =>
                                /\ presentations[given.presentation].owner = requests[r].owner
                                /\ presentations[given.presentation].request = r
  BY DEF FormIssuesWhatWasSubmitted
<1>2. /\ requests[r].status \in {"coded", "collected", "refused"} => r \in accepted
      /\ requests[r].status = "collected" => AreGiven(given, r)
  BY <1>1 DEF IInv, PlatformIsSound, CodesAreAccepted
<1>3. QED
  BY <1>2 DEF AreGiven, Owns

(* A credential is issued through a form only with what the owner of the    *)
(* wallet's request submitted for that very request, and a code is minted   *)
(* for none without a submission (wallet-initiated-claims.ts:18,            *)
(* hosted-form-gate.ts).                                                    *)
THEOREM FormIssuesWhatWasSubmittedAlways == Spec => []FormIssuesWhatWasSubmitted
<1>1. IInv => FormIssuesWhatWasSubmitted
  BY IssuedAsSubmitted
<1>2. QED
  BY <1>1, NamesAreOwn, PTL

LEMMA ResultsReach ==
  ASSUME IInv
  PROVE  ResultsReachTheirVisitor
<1>1. ASSUME NEW v \in Visitors, NEW page, page = browser[v], page.shows # 0
      PROVE  /\ presentations[page.shows].owner = v /\ presentations[page.shows].status = "VERIFIED"
             /\ page.at = "request" => presentations[page.shows].request = page.request
             /\ page.at = "result" => presentations[page.shows].policy = page.policy
  <2>1. PageIsOwn(v, page)
    BY <1>1, WindowFacts DEF IInv
  <2>2. QED
    BY <1>1, <2>1 DEF PageIsOwn, Leads, Owns
<1>2. ASSUME NEW v \in Visitors, NEW d, d = desk[v]
      PROVE  /\ d.data # 0 => Verified(v, d.data, "onboarding")
             /\ d.income # 0 => Verified(v, d.income, "income")
  BY <1>2, DeskFacts DEF IInv, DeskIsOwn
<1>3. ASSUME NEW c \in Range(book.cases)
      PROVE  IsCase(c)
  BY <1>3 DEF IInv, OnboardingIsSound, BookIsSound, Range
<1>4. QED
  BY <1>1, <1>2, <1>3 DEF ResultsReachTheirVisitor, Verified, Owns, IsCase

(* A window, the onboarding page and the case book show and keep together   *)
(* only verified presentations that one visitor started, of the policies    *)
(* they are for (hosted-form-returns.ts:10, backoffice.ts:8).               *)
THEOREM ResultsReachTheirVisitorAlways == Spec => []ResultsReachTheirVisitor
<1>1. IInv => ResultsReachTheirVisitor
  BY ResultsReach
<1>2. QED
  BY <1>1, NamesAreOwn, PTL

-----------------------------------------------------------------------------
(* Stores *)

(* A store has one entry of a key. *)
IsStore(s) == IsSequence(s) /\ \A i, j \in DOMAIN s : i # j => s[i].key # s[j].key

(* What is known of a store.                                                *)
LEMMA StoreFacts ==
  ASSUME NEW s, IsStore(s)
  PROVE  /\ IsSequence(s) /\ Len(s) \in Nat /\ DOMAIN s = 1 .. Len(s)
         /\ \A i, j \in DOMAIN s : i # j => s[i].key # s[j].key
BY SequenceFacts DEF IsStore

(* The entry of a key is the one that has it.                               *)
LEMMA EntryIs ==
  ASSUME NEW s, IsStore(s), NEW i \in DOMAIN s
  PROVE  Entry(s, s[i].key) = s[i] /\ s[i].key \in Keys(s)
<1>1. s[i] \in Range(s)
  BY DEF Range
<1>2. \A e \in Range(s) : e.key = s[i].key => e = s[i]
  BY DEF Range, IsStore
<1>3. QED
  BY <1>1, <1>2 DEF Entry, Keys

(* A key is an entry's.                                                     *)
LEMMA KeyIsThere ==
  ASSUME NEW s, NEW key \in Keys(s)
  PROVE  \E i \in DOMAIN s : s[i].key = key
BY DEF Keys

(* What putting an entry makes of a store. *)
IsPut(u, s, entry) ==
  /\ IsStore(u) /\ Len(u) = IF entry.key \in Keys(s) THEN Len(s) ELSE Len(s) + 1
  /\ \A i \in DOMAIN s : i \in DOMAIN u /\ u[i] = IF s[i].key = entry.key THEN entry ELSE s[i]
  /\ entry.key \notin Keys(s) => u[Len(s) + 1] = entry

LEMMA PutIsPut ==
  ASSUME NEW s, IsStore(s), NEW entry
  PROVE  IsPut(Put(s, entry), s, entry)
<1>1. PICK u, L : u = Put(s, entry) /\ L = Len(s)
  OBVIOUS
<1>2. IsSequence(s) /\ L \in Nat /\ DOMAIN s = 1 .. L
  BY <1>1, StoreFacts
<1>3. CASE entry.key \in Keys(s)
  <2>1. u = [n \in 1 .. L |-> IF s[n].key = entry.key THEN entry ELSE s[n]]
    BY <1>1, <1>2, <1>3 DEF Put
  <2>2. DOMAIN u = 1 .. L /\ \A n \in 1 .. L : u[n] = IF s[n].key = entry.key THEN entry ELSE s[n]
    BY <2>1
  <2>3. IsSequence(u) /\ Len(u) = L
    <3>1. PICK S : S = Range(s) \cup {entry}
      OBVIOUS
    <3>2. \A n \in 1 .. L : u[n] \in S
      BY <1>2, <2>2, <3>1 DEF Range
    <3>3. u \in Seq(S) /\ Len(u) = L
      BY <1>2, <2>1, <3>2
    <3>4. QED
      BY <3>3, IsOne
  <2>4. \A i, j \in DOMAIN u : i # j => u[i].key # u[j].key
    BY <1>2, <2>2 DEF IsStore
  <2>5. QED
    BY <1>1, <1>2, <1>3, <2>2, <2>3, <2>4 DEF IsPut, IsStore
<1>4. CASE entry.key \notin Keys(s)
  <2>1. u = Append(s, entry)
    BY <1>1, <1>4 DEF Put
  <2>2. /\ IsSequence(u) /\ Len(u) = L + 1 /\ DOMAIN u = DOMAIN s \cup {L + 1}
        /\ \A n \in DOMAIN s : n # L + 1 /\ u[n] = s[n]
        /\ u[L + 1] = entry
    BY <1>1, <1>2, <2>1, Appended
  <2>3. \A n \in DOMAIN s : s[n].key # entry.key
    BY <1>4 DEF Keys
  <2>4. \A i, j \in DOMAIN u : i # j => u[i].key # u[j].key
    BY <2>2, <2>3 DEF IsStore
  <2>5. QED
    BY <1>1, <1>4, <2>2, <2>3, <2>4 DEF IsPut, IsStore
<1>5. QED
  BY <1>3, <1>4

(* What is left of a store: some of its entries, in their order. *)
IsPart(t, s) ==
  /\ IsStore(t) /\ Len(t) <= Len(s)
  /\ \A n \in DOMAIN t : \E i \in DOMAIN s : t[n] = s[i]
  /\ \A m, n \in DOMAIN t : m < n => \E i, j \in DOMAIN s : i < j /\ t[m] = s[i] /\ t[n] = s[j]

(* The entries of a store that are among some are part of it.              *)
LEMMA AmongIsPart ==
  ASSUME NEW s, IsStore(s), NEW some
  PROVE  IsPart(Among(s, some), s) /\ \A n \in DOMAIN Among(s, some) : Among(s, some)[n] \in some
<1>1. PICK t, L : t = Among(s, some) /\ L = Len(s)
  OBVIOUS
<1>2. IsSequence(s) /\ L \in Nat /\ DOMAIN s = 1 .. L
  BY <1>1, StoreFacts
<1>3. IsPicked(t, s, some, L)
  BY <1>1, <1>2, AmongPicks
<1>4. /\ IsSequence(t) /\ Len(t) <= L
      /\ \A n \in DOMAIN t : t[n] \in some /\ \E i \in DOMAIN s : t[n] = s[i]
      /\ \A m, n \in DOMAIN t : m < n => \E i, j \in DOMAIN s : i < j /\ t[m] = s[i] /\ t[n] = s[j]
  <2>1. IsSequence(t) /\ Len(t) <= L
    BY <1>3 DEF IsPicked
  <2>2. \A n \in DOMAIN t : t[n] \in some /\ \E i \in DOMAIN s : t[n] = s[i]
    BY <1>2, <1>3 DEF IsPicked
  <2>3. \A m, n \in DOMAIN t : m < n => \E i, j \in 1 .. L : i < j /\ t[m] = s[i] /\ t[n] = s[j]
    BY <1>3, Zenon DEF IsPicked
  <2>4. QED
    BY <1>2, <2>1, <2>2, <2>3
<1>5. ASSUME NEW m \in DOMAIN t, NEW n \in DOMAIN t, m < n PROVE t[m].key # t[n].key
  <2>1. PICK i, j \in DOMAIN s : i < j /\ t[m] = s[i] /\ t[n] = s[j]
    BY <1>4, <1>5
  <2>2. i # j
    BY <1>2, <2>1
  <2>3. QED
    BY <2>1, <2>2 DEF IsStore
<1>6. \A m, n \in DOMAIN t : m # n => t[m].key # t[n].key
  <2>1. DOMAIN t = 1 .. Len(t) /\ Len(t) \in Nat
    BY <1>4, SequenceFacts
  <2>2. SUFFICES ASSUME NEW m \in DOMAIN t, NEW n \in DOMAIN t, m # n PROVE t[m].key # t[n].key
    OBVIOUS
  <2>3. m < n \/ n < m
    BY <2>1, <2>2
  <2>4. QED
    BY <1>5, <2>3
<1>7. QED
  BY <1>1, <1>4, <1>6 DEF IsPart, IsStore

(* A store without its oldest entries is part of it. *)
LEMMA RestIsPart ==
  ASSUME NEW s, IsStore(s), NEW d \in 0 .. Len(s), NEW t, IsSequence(t), Len(t) = Len(s) - d,
         \A k \in 1 .. Len(s) - d : t[k] = s[k + d]
  PROVE  IsPart(t, s)
<1>1. Len(s) \in Nat /\ DOMAIN s = 1 .. Len(s) /\ Len(t) \in Nat /\ DOMAIN t = 1 .. Len(s) - d
  BY StoreFacts, SequenceFacts
<1>2. \A k \in DOMAIN t : k + d \in DOMAIN s /\ t[k] = s[k + d]
  BY <1>1
<1>3. \A k, l \in DOMAIN t : k # l => k + d # l + d
  BY <1>1
<1>4. \A k, l \in DOMAIN t : k < l => k + d < l + d
  BY <1>1
<1>5. \A k, l \in DOMAIN t : k # l => t[k].key # t[l].key
  BY <1>2, <1>3 DEF IsStore
<1>6. IsStore(t)
  BY <1>5 DEF IsStore
<1>7. \A k \in DOMAIN t : \E i \in DOMAIN s : t[k] = s[i]
  BY <1>2
<1>8. \A k, l \in DOMAIN t : k < l => \E i, j \in DOMAIN s : i < j /\ t[k] = s[i] /\ t[l] = s[j]
  BY <1>2, <1>4
<1>9. Len(t) <= Len(s)
  BY <1>1
<1>10. QED
  BY <1>6, <1>7, <1>8, <1>9 DEF IsPart

(* So is what is left when the oldest go, and there is room in it.          *)
LEMMA DroppedIsPart ==
  ASSUME NEW s, IsStore(s), NEW max \in Nat \ {0}
  PROVE  IsPart(DropOldest(s, max), s) /\ Len(DropOldest(s, max)) < max
<1>1. PICK t, L, S : t = DropOldest(s, max) /\ L = Len(s) /\ S = Range(s)
  OBVIOUS
<1>2. L \in Nat /\ DOMAIN s = 1 .. L /\ s \in Seq(S)
  BY <1>1, StoreFacts DEF IsSequence
<1>3. PICK d : d = IF L < max THEN 0 ELSE L - max + 1
  OBVIOUS
<1>4. d \in 0 .. L /\ L - d < max
  BY <1>2, <1>3
<1>5. t \in Seq(S) /\ Len(t) = L - d /\ \A k \in 1 .. L - d : t[k] = s[k + d]
  <2>1. CASE L < max
    <3>1. t = s /\ d = 0
      BY <1>1, <1>3, <2>1 DEF DropOldest
    <3>2. QED
      BY <1>1, <1>2, <3>1
  <2>2. CASE ~(L < max)
    <3>1. t = SubSeq(s, L - max + 2, L) /\ d = L - max + 1
      BY <1>1, <1>3, <2>2 DEF DropOldest
    <3>2. PICK a : a = L - max + 2
      OBVIOUS
    <3>3. a = d + 1 /\ a \in 1 .. L + 1
      BY <1>2, <2>2, <3>1, <3>2
    <3>4. t = SubSeq(s, a, L)
      BY <3>1, <3>2
    <3>5. t \in Seq(S) /\ Len(t) = L - a + 1 /\ \A k \in 1 .. L - a + 1 : t[k] = s[a + k - 1]
      BY <1>1, <1>2, <3>3, <3>4
    <3>6. L - a + 1 = L - d /\ \A k \in 1 .. L - d : a + k - 1 = k + d
      BY <1>2, <1>4, <3>3
    <3>7. QED
      BY <3>5, <3>6
  <2>3. QED
    BY <2>1, <2>2
<1>6. IsPart(t, s)
  BY <1>1, <1>4, <1>5, IsOne, RestIsPart
<1>7. QED
  BY <1>1, <1>4, <1>5, <1>6

(* A part of a part is part of the whole.                                   *)
LEMMA PartOfPart ==
  ASSUME NEW s, IsStore(s), NEW t, IsPart(t, s), NEW u, IsPart(u, t)
  PROVE  IsPart(u, s)
<1>1. IsStore(t) /\ IsStore(u) /\ Len(u) <= Len(t) /\ Len(t) <= Len(s)
  BY DEF IsPart
<1>2. Len(u) \in Nat /\ Len(t) \in Nat /\ Len(s) \in Nat
  BY <1>1, StoreFacts
<1>3. \A n \in DOMAIN u : \E i \in DOMAIN s : u[n] = s[i]
  <2>1. SUFFICES ASSUME NEW n \in DOMAIN u PROVE \E i \in DOMAIN s : u[n] = s[i]
    OBVIOUS
  <2>2. PICK k \in DOMAIN t : u[n] = t[k]
    BY <2>1 DEF IsPart
  <2>3. QED
    BY <2>2 DEF IsPart
<1>4. \A m, n \in DOMAIN u : m < n => \E i, j \in DOMAIN s : i < j /\ u[m] = s[i] /\ u[n] = s[j]
  <2>1. SUFFICES ASSUME NEW m \in DOMAIN u, NEW n \in DOMAIN u, m < n
                 PROVE  \E i, j \in DOMAIN s : i < j /\ u[m] = s[i] /\ u[n] = s[j]
    OBVIOUS
  <2>2. PICK k, l \in DOMAIN t : k < l /\ u[m] = t[k] /\ u[n] = t[l]
    BY <2>1 DEF IsPart
  <2>3. QED
    BY <2>2 DEF IsPart
<1>5. QED
  BY <1>1, <1>2, <1>3, <1>4 DEF IsPart

LEMMA IsPartOfItself ==
  ASSUME NEW s, IsStore(s)
  PROVE  IsPart(s, s)
<1>1. Len(s) \in Nat
  BY StoreFacts
<1>2. QED
  BY <1>1 DEF IsPart

(* A part has no key of its own.                                            *)
LEMMA PartHasFewerKeys ==
  ASSUME NEW t, NEW s, IsPart(t, s)
  PROVE  Keys(t) \subseteq Keys(s)
<1>1. SUFFICES ASSUME NEW key \in Keys(t) PROVE key \in Keys(s)
  OBVIOUS
<1>2. PICK n \in DOMAIN t : t[n].key = key
  BY KeyIsThere
<1>3. PICK i \in DOMAIN s : t[n] = s[i]
  BY DEF IsPart
<1>4. QED
  BY <1>2, <1>3 DEF Keys

-----------------------------------------------------------------------------
(* Polls *)

(* What remembering the n-th presentation makes of the polls. *)
PollsBy(after, n, ids, max) == IF n = 0 THEN <<>> ELSE RememberPoll(after[n - 1], ids[n], max)

ArePolls(after, n, ids, max) == after = [k \in 0 .. n |-> PollsBy(after, k, ids, max)]

LEMMA PollsExist ==
  ASSUME NEW ids, NEW max, NEW n \in Nat
  PROVE  \E after : ArePolls(after, n, ids, max)
<1>1. PICK B : B = {k \in 0 .. n : ~\E after : ArePolls(after, k, ids, max)}
  OBVIOUS
<1>2. SUFFICES ASSUME B # {} PROVE FALSE
  <2>1. n \in 0 .. n
    OBVIOUS
  <2>2. QED
    BY <1>1, <2>1
<1>3. PICK m \in B : \A k \in B : m <= k
  <2>1. B \subseteq Nat
    BY <1>1
  <2>2. QED
    BY <1>2, <2>1, LeastExists
<1>4. m \in 0 .. n /\ ~\E after : ArePolls(after, m, ids, max)
  BY <1>1, <1>3
<1>5. CASE m = 0
  <2>1. PICK after : after = [k \in 0 .. 0 |-> <<>>]
    OBVIOUS
  <2>2. ArePolls(after, 0, ids, max)
    BY <2>1 DEF ArePolls, PollsBy
  <2>3. QED
    BY <1>4, <1>5, <2>2
<1>6. CASE m # 0
  <2>1. m \in Nat \ {0} /\ m - 1 \in 0 .. n /\ ~(m <= m - 1)
    BY <1>4, <1>6
  <2>2. PICK after : ArePolls(after, m - 1, ids, max)
    BY <1>1, <1>3, <2>1
  <2>3. PICK longer : longer = [k \in 0 .. m |-> IF k = m THEN PollsBy(after, m, ids, max) ELSE after[k]]
    OBVIOUS
  <2>4. ASSUME NEW k \in 0 .. m PROVE longer[k] = PollsBy(longer, k, ids, max)
    <3>1. k # 0 => longer[k - 1] = after[k - 1]
      <4>1. k # 0 => k - 1 \in 0 .. m /\ k - 1 # m
        BY <2>1
      <4>2. QED
        BY <2>3, <4>1
    <3>2. PollsBy(longer, k, ids, max) = PollsBy(after, k, ids, max)
      BY <3>1 DEF PollsBy
    <3>3. CASE k = m
      BY <2>3, <3>2, <3>3
    <3>4. CASE k # m
      <4>1. k \in 0 .. m - 1
        BY <2>1, <3>4
      <4>2. after[k] = PollsBy(after, k, ids, max)
        BY <2>2, <4>1 DEF ArePolls
      <4>3. QED
        BY <2>3, <3>2, <3>4, <4>2
    <3>5. QED
      BY <3>3, <3>4
  <2>5. longer = [k \in 0 .. m |-> longer[k]]
    BY <2>3
  <2>6. ArePolls(longer, m, ids, max)
    BY <2>4, <2>5 DEF ArePolls
  <2>7. QED
    BY <1>4, <2>6
<1>7. QED
  BY <1>5, <1>6

(* The polls after n presentations: the last ones, as many as there is room. *)
HasLast(polls, n, ids, max) ==
  /\ IsSequence(polls) /\ Len(polls) = IF n < max THEN n ELSE max
  /\ \A k \in DOMAIN polls : polls[k] = [key |-> ids[n - Len(polls) + k]]

AreDistinct(ids) == ids \in Seq(Range(ids)) /\ \A i, j \in DOMAIN ids : i # j => ids[i] # ids[j]

(* The polls hold the last presentations, as many as there is room for.     *)
LEMMA PollsNext ==
  ASSUME NEW ids, AreDistinct(ids), NEW max \in Nat \ {0}, NEW n \in DOMAIN ids,
         NEW polls, HasLast(polls, n - 1, ids, max)
  PROVE  HasLast(RememberPoll(polls, ids[n], max), n, ids, max)
<1>1. PICK L : L = Len(polls)
  OBVIOUS
<1>2. /\ IsSequence(polls) /\ L \in Nat /\ DOMAIN polls = 1 .. L /\ L = IF n - 1 < max THEN n - 1 ELSE max
      /\ \A k \in 1 .. L : polls[k] = [key |-> ids[n - 1 - L + k]]
  <2>1. IsSequence(polls)
    BY DEF HasLast
  <2>2. QED
    BY <1>1, <2>1, SequenceFacts DEF HasLast
<1>3. n \in Nat \ {0} /\ DOMAIN ids = 1 .. Len(ids) /\ Len(ids) \in Nat
  BY DEF AreDistinct
<1>4. PICK room : room = IF L >= max THEN Tail(polls) ELSE polls
  OBVIOUS
<1>5. /\ IsSequence(room) /\ Len(room) = (IF n < max THEN n ELSE max) - 1
      /\ \A k \in 1 .. Len(room) : room[k] = [key |-> ids[n - 1 - Len(room) + k]]
  <2>1. CASE L >= max
    <3>1. polls # <<>> /\ L = max
      BY <1>1, <1>2, <1>3, <2>1
    <3>2. IsSequence(room) /\ Len(room) = L - 1 /\ \A k \in 1 .. L - 1 : room[k] = polls[k + 1]
      <4>1. room = Tail(polls)
        BY <1>4, <2>1
      <4>2. QED
        BY <1>1, <1>2, <3>1, <4>1, TailShifts
    <3>3. n > max
      BY <1>2, <1>3, <2>1
    <3>4. ASSUME NEW k \in 1 .. L - 1 PROVE room[k] = [key |-> ids[n - 1 - (L - 1) + k]]
      <4>1. k + 1 \in 1 .. L /\ n - 1 - L + (k + 1) = n - 1 - (L - 1) + k
        <5>1. L \in Nat /\ n \in Nat
          BY <1>2, <1>3
        <5>2. QED
          BY <5>1
      <4>2. QED
        BY <1>2, <3>2, <4>1
    <3>5. QED
      BY <1>3, <3>1, <3>2, <3>3, <3>4
  <2>2. CASE ~(L >= max)
    <3>1. L = n - 1 /\ n - 1 < max /\ room = polls
      BY <1>2, <1>3, <1>4, <2>2
    <3>2. L = (IF n < max THEN n ELSE max) - 1
      BY <1>3, <3>1
    <3>3. QED
      BY <1>1, <1>2, <3>1, <3>2
  <2>3. QED
    BY <2>1, <2>2
<1>6. PICK R : R = Len(room) /\ R \in Nat /\ R <= n - 1
  BY <1>3, <1>5
<1>7. ids[n] \notin Keys(room)
  <2>1. SUFFICES ASSUME NEW k \in DOMAIN room, room[k].key = ids[n] PROVE FALSE
    BY DEF Keys
  <2>2. k \in 1 .. R /\ DOMAIN room = 1 .. R
    BY <1>5, <1>6, SequenceFacts
  <2>3. n - 1 - R + k \in DOMAIN ids /\ n - 1 - R + k # n
    BY <1>3, <1>6, <2>2
  <2>4. room[k].key = ids[n - 1 - R + k]
    <3>1. room[k] = [key |-> ids[n - 1 - R + k]]
      BY <1>5, <1>6, <2>2
    <3>2. QED
      BY <3>1
  <2>5. QED
    BY <2>1, <2>3, <2>4 DEF AreDistinct
<1>8. PICK t : t = Append(room, [key |-> ids[n]])
  OBVIOUS
<1>9. RememberPoll(polls, ids[n], max) = t
  BY <1>1, <1>4, <1>7, <1>8 DEF RememberPoll, Put
<1>10. /\ IsSequence(t) /\ Len(t) = R + 1 /\ DOMAIN t = 1 .. R + 1
       /\ \A k \in 1 .. R : t[k] = room[k]
       /\ t[R + 1] = [key |-> ids[n]]
  <2>1. DOMAIN room = 1 .. R /\ R \in Nat
    BY <1>5, <1>6, SequenceFacts
  <2>2. /\ IsSequence(t) /\ Len(t) = R + 1 /\ DOMAIN t = DOMAIN room \cup {R + 1}
        /\ \A k \in DOMAIN room : t[k] = room[k]
        /\ t[R + 1] = [key |-> ids[n]]
    BY <1>5, <1>6, <1>8, Appended
  <2>3. QED
    BY <2>1, <2>2
<1>11. ASSUME NEW k \in 1 .. R + 1 PROVE t[k] = [key |-> ids[n - (R + 1) + k]]
  <2>1. CASE k = R + 1
    <3>1. n - (R + 1) + k = n
      BY <1>3, <1>6, <2>1
    <3>2. QED
      BY <1>10, <2>1, <3>1
  <2>2. CASE k # R + 1
    <3>1. k \in 1 .. R /\ n - (R + 1) + k = n - 1 - R + k
      BY <1>3, <1>6, <2>2
    <3>2. QED
      BY <1>5, <1>6, <1>10, <3>1
  <2>3. QED
    BY <2>1, <2>2
<1>12. R + 1 = IF n < max THEN n ELSE max
  BY <1>3, <1>5, <1>6
<1>13. HasLast(t, n, ids, max)
  BY <1>10, <1>11, <1>12 DEF HasLast
<1>14. QED
  BY <1>9, <1>13

(* Of the last max presentations asked for with a QR, the outcome is given  *)
(* for the token made for it in this process and for nothing else, whatever *)
(* order they were asked for in (polls.ts:7).                               *)
THEOREM PollsAlwaysMeetTheirReference ==
  ASSUME NEW ids, AreDistinct(ids), NEW key, NEW tokens, NEW max \in Nat \ {0}
  PROVE  PollsMeetTheirReference(ids, key, tokens, max)
<1>1. PICK N : N = Len(ids)
  OBVIOUS
<1>2. N \in Nat /\ DOMAIN ids = 1 .. N
  BY <1>1 DEF AreDistinct
<1>3. PICK after : after = CHOOSE a : ArePolls(a, N, ids, max)
  OBVIOUS
<1>4. ArePolls(after, N, ids, max)
  BY <1>2, <1>3, PollsExist
<1>5. \A n \in 0 .. N : after[n] = PollsBy(after, n, ids, max)
  BY <1>4 DEF ArePolls
<1>6. \A n \in 0 .. N : HasLast(after[n], n, ids, max)
  <2>1. PICK B : B = {n \in 0 .. N : ~HasLast(after[n], n, ids, max)}
    OBVIOUS
  <2>2. SUFFICES ASSUME B # {} PROVE FALSE
    BY <2>1
  <2>3. B \subseteq Nat
    BY <2>1
  <2>4. PICK m \in B : \A k \in B : m <= k
    BY <2>2, <2>3, LeastExists
  <2>5. m \in 0 .. N /\ ~HasLast(after[m], m, ids, max)
    BY <2>1, <2>4
  <2>6. m # 0
    <3>1. after[0] = <<>>
      BY <1>2, <1>5 DEF PollsBy
    <3>2. IsSequence(<<>>)
      BY DEF IsSequence
    <3>3. HasLast(<<>>, 0, ids, max)
      BY <3>2 DEF HasLast
    <3>4. QED
      BY <2>5, <3>1, <3>3
  <2>7. m - 1 \in 0 .. N /\ ~(m <= m - 1) /\ m \in DOMAIN ids
    BY <1>2, <2>5, <2>6
  <2>8. HasLast(after[m - 1], m - 1, ids, max)
    BY <2>1, <2>4, <2>7
  <2>9. after[m] = RememberPoll(after[m - 1], ids[m], max)
    BY <1>5, <2>5, <2>6 DEF PollsBy
  <2>10. QED
    BY <2>5, <2>7, <2>8, <2>9, PollsNext
<1>7. ASSUME NEW n \in DOMAIN ids, n > N - max PROVE ids[n] \in Keys(after[N])
  <2>1. PICK polls, L : polls = after[N] /\ L = Len(polls)
    OBVIOUS
  <2>2. HasLast(polls, N, ids, max)
    BY <1>2, <1>6, <2>1
  <2>3. IsSequence(polls) /\ L = (IF N < max THEN N ELSE max) /\ \A k \in DOMAIN polls : polls[k] = [key |-> ids[N - L + k]]
    BY <2>1, <2>2 DEF HasLast
  <2>4. DOMAIN polls = 1 .. L
    BY <2>1, <2>3, SequenceFacts
  <2>5. n - (N - L) \in 1 .. L /\ N - L + (n - (N - L)) = n
    BY <1>2, <1>7, <2>3
  <2>6. polls[n - (N - L)].key = ids[n]
    <3>1. polls[n - (N - L)] = [key |-> ids[n]]
      BY <2>3, <2>4, <2>5
    <3>2. QED
      BY <3>1
  <2>7. QED
    BY <2>1, <2>4, <2>5, <2>6 DEF Keys
<1>8. \A n \in DOMAIN ids : n > N - max =>
        \A token : AllowsPoll(after[N], key, ids[n], token) <=> token = MacOf(key, ids[n])
  BY <1>7 DEF AllowsPoll
<1>9. QED
  BY <1>1, <1>3, <1>8 DEF PollsMeetTheirReference, ArePolls, PollsBy

-----------------------------------------------------------------------------
(* Start links *)

(* What the n-th visit makes of the nonces seen. *)
VisitBy(after, n, visits, max) ==
  IF n = 0 THEN [seen |-> <<>>, page |-> "none"]
  ELSE OpenStartLink(after[n - 1].seen, visits[n][1], visits[n][2], max)

AreVisits(after, n, visits, max) == after = [k \in 0 .. n |-> VisitBy(after, k, visits, max)]

LEMMA VisitsExist ==
  ASSUME NEW visits, NEW max, NEW n \in Nat
  PROVE  \E after : AreVisits(after, n, visits, max)
<1>1. PICK B : B = {k \in 0 .. n : ~\E after : AreVisits(after, k, visits, max)}
  OBVIOUS
<1>2. SUFFICES ASSUME B # {} PROVE FALSE
  <2>1. n \in 0 .. n
    OBVIOUS
  <2>2. QED
    BY <1>1, <2>1
<1>3. PICK m \in B : \A k \in B : m <= k
  <2>1. B \subseteq Nat
    BY <1>1
  <2>2. QED
    BY <1>2, <2>1, LeastExists
<1>4. m \in 0 .. n /\ ~\E after : AreVisits(after, m, visits, max)
  BY <1>1, <1>3
<1>5. CASE m = 0
  <2>1. PICK after : after = [k \in 0 .. 0 |-> [seen |-> <<>>, page |-> "none"]]
    OBVIOUS
  <2>2. AreVisits(after, 0, visits, max)
    BY <2>1 DEF AreVisits, VisitBy
  <2>3. QED
    BY <1>4, <1>5, <2>2
<1>6. CASE m # 0
  <2>1. m \in Nat \ {0} /\ m - 1 \in 0 .. n /\ ~(m <= m - 1)
    BY <1>4, <1>6
  <2>2. PICK after : AreVisits(after, m - 1, visits, max)
    BY <1>1, <1>3, <2>1
  <2>3. PICK longer : longer = [k \in 0 .. m |-> IF k = m THEN VisitBy(after, m, visits, max) ELSE after[k]]
    OBVIOUS
  <2>4. ASSUME NEW k \in 0 .. m PROVE longer[k] = VisitBy(longer, k, visits, max)
    <3>1. k # 0 => longer[k - 1] = after[k - 1]
      <4>1. k # 0 => k - 1 \in 0 .. m /\ k - 1 # m
        BY <2>1
      <4>2. QED
        BY <2>3, <4>1
    <3>2. VisitBy(longer, k, visits, max) = VisitBy(after, k, visits, max)
      BY <3>1 DEF VisitBy
    <3>3. CASE k = m
      BY <2>3, <3>2, <3>3
    <3>4. CASE k # m
      <4>1. k \in 0 .. m - 1
        BY <2>1, <3>4
      <4>2. after[k] = VisitBy(after, k, visits, max)
        BY <2>2, <4>1 DEF AreVisits
      <4>3. QED
        BY <2>3, <3>2, <3>4, <4>2
    <3>5. QED
      BY <3>3, <3>4
  <2>5. longer = [k \in 0 .. m |-> longer[k]]
    BY <2>3
  <2>6. AreVisits(longer, m, visits, max)
    BY <2>4, <2>5 DEF AreVisits
  <2>7. QED
    BY <1>4, <2>6
<1>7. QED
  BY <1>5, <1>6

IsVisit(visit) == visit[1].signed \in BOOLEAN /\ visit[1].expiresAt \in Nat /\ visit[2] \in Nat

(* The nonces seen once another one is. *)
WithNonce(seen, nonce, max) ==
  Append(IF Len(seen) >= max THEN Tail(seen) ELSE seen, [key |-> nonce])

(* What a visit to a start link comes to. *)
Opens(visit, before, after, max) ==
  IF after.page = "open wallet"
  THEN /\ visit[1].signed /\ visit[2] < visit[1].expiresAt
       /\ visit[1].nonce \notin Keys(before)
       /\ after.seen = WithNonce(before, visit[1].nonce, max)
  ELSE after.seen = before

(* A visit opens the wallet for a nonce that was not seen, or changes nothing. *)
LEMMA LinkOpens ==
  ASSUME NEW visit, IsVisit(visit), NEW seen, NEW max
  PROVE  Opens(visit, seen, OpenStartLink(seen, visit[1], visit[2], max), max)
<1>1. PICK token, now, result :
        token = visit[1] /\ now = visit[2] /\ result = OpenStartLink(seen, token, now, max)
  OBVIOUS
<1>2. token.signed \in BOOLEAN /\ (token.expiresAt <= now \/ token.expiresAt > now)
  BY <1>1 DEF IsVisit
<1>3. CASE VerifyStartToken(token, now) # "ok"
  <2>1. result = [seen |-> seen, page |-> "no longer valid"]
    BY <1>1, <1>3 DEF OpenStartLink
  <2>2. result.page # "open wallet" /\ result.seen = seen
    BY <2>1
  <2>3. QED
    BY <1>1, <2>2 DEF Opens
<1>4. CASE VerifyStartToken(token, now) = "ok" /\ token.scheme \notin PERMITTED_INTERACTION_SCHEMES
  <2>1. result = [seen |-> seen, page |-> "unsupported"]
    BY <1>1, <1>4 DEF OpenStartLink
  <2>2. QED
    BY <1>1, <2>1 DEF Opens
<1>5. CASE VerifyStartToken(token, now) = "ok" /\ token.scheme \in PERMITTED_INTERACTION_SCHEMES
  <2>1. token.signed /\ token.expiresAt > now
    BY <1>2, <1>5 DEF VerifyStartToken
  <2>2. result = [seen |-> RememberNonce(seen, token.nonce, max),
                  page |-> IF token.nonce \in Keys(seen) THEN "already used" ELSE "open wallet"]
    BY <1>1, <1>5 DEF OpenStartLink
  <2>3. CASE token.nonce \in Keys(seen)
    <3>1. result.page = "already used" /\ result.seen = seen
      BY <2>2, <2>3 DEF RememberNonce
    <3>2. QED
      BY <1>1, <3>1 DEF Opens
  <2>4. CASE token.nonce \notin Keys(seen)
    <3>1. result.page = "open wallet" /\ result.seen = WithNonce(seen, token.nonce, max)
      BY <2>2, <2>4 DEF RememberNonce, WithNonce
    <3>2. now < token.expiresAt
      BY <1>1, <2>1 DEF IsVisit
    <3>3. QED
      BY <1>1, <2>1, <2>4, <3>1, <3>2 DEF Opens
  <2>5. QED
    BY <2>3, <2>4
<1>6. QED
  BY <1>3, <1>4, <1>5

(* Another nonce goes to the end, and only the oldest goes. *)
GoesLast(u, seen, gone, x, max) ==
  /\ IsSequence(u) /\ Len(u) = Len(seen) - gone + 1 /\ Len(u) <= max
  /\ \A k \in 1 .. Len(u) - 1 : u[k] = seen[k + gone]
  /\ u[Len(u)] = [key |-> x]

LEMMA NonceGoesLast ==
  ASSUME NEW max \in Nat \ {0}, NEW seen, IsSequence(seen), Len(seen) <= max, NEW x
  PROVE  GoesLast(WithNonce(seen, x, max), seen, IF Len(seen) >= max THEN 1 ELSE 0, x, max)
<1>1. PICK L, gone, room, u :
        /\ L = Len(seen) /\ gone = IF L >= max THEN 1 ELSE 0
        /\ room = IF L >= max THEN Tail(seen) ELSE seen
        /\ u = Append(room, [key |-> x])
  OBVIOUS
<1>2. L \in Nat /\ DOMAIN seen = 1 .. L
  BY <1>1, SequenceFacts
<1>3. /\ IsSequence(room) /\ Len(room) = L - gone /\ DOMAIN room = 1 .. L - gone
      /\ \A k \in 1 .. L - gone : room[k] = seen[k + gone]
  <2>1. CASE L >= max
    <3>1. seen # <<>> /\ room = Tail(seen) /\ gone = 1
      BY <1>1, <1>2, <2>1
    <3>2. IsSequence(room) /\ Len(room) = L - 1 /\ \A k \in 1 .. L - 1 : room[k] = seen[k + 1]
      BY <1>1, <3>1, TailShifts
    <3>3. QED
      BY <3>1, <3>2, SequenceFacts
  <2>2. CASE ~(L >= max)
    BY <1>1, <1>2, <2>2
  <2>3. QED
    BY <2>1, <2>2
<1>4. /\ IsSequence(u) /\ Len(u) = Len(room) + 1
      /\ \A k \in DOMAIN room : u[k] = room[k]
      /\ u[Len(room) + 1] = [key |-> x]
  BY <1>1, <1>3, Appended
<1>5. gone \in {0, 1} /\ L - gone \in Nat /\ L - gone + 1 <= max
  BY <1>1, <1>2
<1>6. Len(u) = L - gone + 1 /\ Len(u) - 1 = L - gone
  BY <1>2, <1>3, <1>4, <1>5
<1>7. \A k \in 1 .. L - gone : u[k] = seen[k + gone]
  BY <1>3, <1>4
<1>8. u[L - gone + 1] = [key |-> x]
  BY <1>3, <1>4
<1>9. WithNonce(seen, x, max) = u
  BY <1>1 DEF WithNonce
<1>10. QED
  <2>1. GoesLast(u, seen, gone, x, max)
    BY <1>1, <1>4, <1>5, <1>6, <1>7, <1>8 DEF GoesLast
  <2>2. QED
    BY <1>1, <1>9, <2>1

(* The nonces behind the p-th. *)
Behind(seen, p) == {seen[k].key : k \in p + 1 .. Len(seen)}

(* The nonce is the p-th, and those behind it were opened since.            *)
Waits(seen, p, nonce, since) ==
  /\ seen[p].key = nonce /\ Behind(seen, p) \subseteq since
  /\ IsFiniteSet(Behind(seen, p)) /\ Cardinality(Behind(seen, p)) = Len(seen) - p

(* The nonce is still there, or as many as the set holds were opened since. *)
IsRemembered(seen, nonce, since, max) ==
  \/ Cardinality(since) >= max
  \/ \E p \in DOMAIN seen : Waits(seen, p, nonce, since)

(* A nonce is remembered once it was opened,                                *)
LEMMA JustOpened ==
  ASSUME NEW max \in Nat \ {0}, NEW seen, IsSequence(seen), Len(seen) <= max, NEW nonce, NEW since
  PROVE  IsRemembered(WithNonce(seen, nonce, max), nonce, since, max)
<1>1. PICK u, L : u = WithNonce(seen, nonce, max) /\ L = Len(u)
  OBVIOUS
<1>2. IsSequence(u) /\ u[L] = [key |-> nonce] /\ Len(u) = Len(seen) - (IF Len(seen) >= max THEN 1 ELSE 0) + 1
  BY <1>1, NonceGoesLast DEF GoesLast
<1>3. Len(seen) \in Nat /\ L \in Nat /\ DOMAIN u = 1 .. L
  BY <1>1, <1>2, SequenceFacts
<1>4. L \in DOMAIN u
  BY <1>1, <1>2, <1>3
<1>5. Behind(u, L) = {}
  BY <1>1, <1>3 DEF Behind
<1>6. u[L].key = nonce
  BY <1>2
<1>7. Waits(u, L, nonce, since)
  <2>1. IsFiniteSet({}) /\ Cardinality({}) = 0
    BY FS_EmptySet
  <2>2. Len(u) - L = 0
    BY <1>1, <1>3
  <2>3. QED
    BY <1>5, <1>6, <2>1, <2>2 DEF Waits
<1>8. QED
  BY <1>1, <1>4, <1>7 DEF IsRemembered

(* and until as many others push it out.                                    *)
LEMMA OthersPushOut ==
  ASSUME NEW max \in Nat \ {0}, NEW seen, IsSequence(seen), Len(seen) <= max, NEW nonce,
         NEW since, IsFiniteSet(since), IsRemembered(seen, nonce, since, max),
         NEW x, x \notin Keys(seen)
  PROVE  IsRemembered(WithNonce(seen, x, max), nonce, since \cup {x}, max)
<1>1. /\ IsFiniteSet(since \cup {x}) /\ Cardinality(since) \in Nat
      /\ Cardinality(since \cup {x}) >= Cardinality(since) /\ Cardinality(since \cup {x}) \in Nat
  <2>1. PICK c : c = Cardinality(since)
    OBVIOUS
  <2>2. c \in Nat
    BY <2>1, FS_CardinalityType
  <2>3. IsFiniteSet(since \cup {x}) /\ Cardinality(since \cup {x}) = IF x \in since THEN c ELSE c + 1
    BY <2>1, FS_AddElement
  <2>4. QED
    BY <2>1, <2>2, <2>3
<1>2. CASE Cardinality(since) >= max
  BY <1>1, <1>2 DEF IsRemembered
<1>3. CASE \E p \in DOMAIN seen : Waits(seen, p, nonce, since)
  <2>1. PICK p \in DOMAIN seen : Waits(seen, p, nonce, since)
    BY <1>3
  <2>2. PICK u, L, gone, A :
          /\ u = WithNonce(seen, x, max) /\ L = Len(seen) /\ A = Behind(seen, p)
          /\ gone = IF L >= max THEN 1 ELSE 0
    OBVIOUS
  <2>3. L \in Nat /\ L <= max /\ DOMAIN seen = 1 .. L /\ p \in 1 .. L /\ gone \in {0, 1}
    BY <2>2, SequenceFacts
  <2>4. /\ IsSequence(u) /\ Len(u) = L - gone + 1
        /\ \A k \in 1 .. Len(u) - 1 : u[k] = seen[k + gone]
        /\ u[Len(u)] = [key |-> x]
    <3>1. GoesLast(u, seen, gone, x, max)
      BY <2>2, NonceGoesLast
    <3>2. QED
      BY <2>2, <3>1 DEF GoesLast
  <2>5. x \notin A
    <3>1. A \subseteq Keys(seen)
      BY <2>2, <2>3 DEF Behind, Keys
    <3>2. QED
      BY <3>1
  <2>6. IsFiniteSet(A) /\ Cardinality(A) = L - p /\ A \subseteq since /\ seen[p].key = nonce
    BY <2>1, <2>2 DEF Waits
  <2>7. IsFiniteSet(A \cup {x}) /\ Cardinality(A \cup {x}) = L - p + 1 /\ A \cup {x} \subseteq since \cup {x}
    BY <2>5, <2>6, FS_AddElement
  <2>8. CASE p - gone = 0
    <3>1. L - p + 1 = max
      BY <2>2, <2>3, <2>8
    <3>2. Cardinality(since \cup {x}) >= max
      BY <1>1, <2>7, <3>1, FS_Subset
    <3>3. QED
      BY <3>2 DEF IsRemembered
  <2>9. CASE p - gone # 0
    <3>1. PICK q : q = p - gone
      OBVIOUS
    <3>2. q \in 1 .. L - gone /\ L - gone \in Nat /\ q + gone = p /\ Len(u) - 1 = L - gone
      <4>1. Len(u) = L - gone + 1
        BY <2>4
      <4>2. QED
        BY <2>3, <2>9, <3>1, <4>1
    <3>3. DOMAIN u = 1 .. L - gone + 1
      BY <2>4, SequenceFacts
    <3>4. q \in DOMAIN u /\ u[q].key = nonce
      <4>1. u[q] = seen[p]
        BY <2>4, <3>2
      <4>2. QED
        BY <2>6, <3>2, <3>3, <4>1
    <3>5. Behind(u, q) = A \cup {x}
      <4>1. ASSUME NEW k \in q + 1 .. L - gone + 1 PROVE u[k].key \in A \cup {x}
        <5>1. CASE k = L - gone + 1
          <6>1. u[k] = [key |-> x]
            BY <2>4, <5>1
          <6>2. QED
            BY <6>1
        <5>2. CASE k # L - gone + 1
          <6>1. k \in 1 .. Len(u) - 1 /\ k + gone \in p + 1 .. L
            BY <2>3, <3>2, <5>2
          <6>2. u[k] = seen[k + gone]
            BY <2>4, <6>1
          <6>3. QED
            BY <2>2, <6>1, <6>2 DEF Behind
        <5>3. QED
          BY <5>1, <5>2
      <4>2. ASSUME NEW y \in A \cup {x} PROVE \E k \in q + 1 .. L - gone + 1 : u[k].key = y
        <5>1. CASE y = x
          <6>1. L - gone + 1 \in q + 1 .. L - gone + 1
            BY <3>2
          <6>2. u[L - gone + 1] = [key |-> x]
            BY <2>4
          <6>3. u[L - gone + 1].key = x
            BY <6>2
          <6>4. QED
            BY <5>1, <6>1, <6>3
        <5>2. CASE y \in A
          <6>1. PICK j \in p + 1 .. L : y = seen[j].key
            BY <2>2, <5>2 DEF Behind
          <6>2. j - gone \in q + 1 .. L - gone + 1 /\ j - gone \in 1 .. Len(u) - 1 /\ j - gone + gone = j
            BY <2>3, <3>2
          <6>3. u[j - gone] = seen[j]
            BY <2>4, <6>2
          <6>4. QED
            BY <6>1, <6>2, <6>3
        <5>3. QED
          BY <5>1, <5>2
      <4>3. Behind(u, q) = {u[k].key : k \in q + 1 .. L - gone + 1}
        BY <2>4 DEF Behind
      <4>4. QED
        BY <4>1, <4>2, <4>3
    <3>6. Len(u) - q = L - p + 1
      BY <2>3, <2>4, <3>1
    <3>7. Waits(u, q, nonce, since \cup {x})
      BY <2>7, <3>4, <3>5, <3>6 DEF Waits
    <3>8. QED
      BY <2>2, <3>4, <3>7 DEF IsRemembered
  <2>10. QED
    BY <2>8, <2>9
<1>4. QED
  BY <1>2, <1>3 DEF IsRemembered

IsVisited(after, N, visits, max) ==
  /\ after[0] = [seen |-> <<>>, page |-> "none"]
  /\ \A n \in 1 .. N : Opens(visits[n], after[n - 1].seen, after[n], max)

AreInBounds(after, N, max) == \A n \in 0 .. N : IsSequence(after[n].seen) /\ Len(after[n].seen) <= max

LEMMA SeenIsBounded ==
  ASSUME NEW after, NEW N \in Nat, NEW visits, NEW max \in Nat \ {0}, IsVisited(after, N, visits, max)
  PROVE  AreInBounds(after, N, max)
<1>1. PICK B : B = {n \in 0 .. N : ~(IsSequence(after[n].seen) /\ Len(after[n].seen) <= max)}
  OBVIOUS
<1>2. SUFFICES ASSUME B # {} PROVE FALSE
  BY <1>1 DEF AreInBounds
<1>3. PICK m \in B : \A k \in B : m <= k
  <2>1. B \subseteq Nat
    BY <1>1
  <2>2. QED
    BY <1>2, <2>1, LeastExists
<1>4. m \in 0 .. N /\ ~(IsSequence(after[m].seen) /\ Len(after[m].seen) <= max)
  BY <1>1, <1>3
<1>5. m # 0
  <2>1. after[0].seen = <<>>
    <3>1. after[0] = [seen |-> <<>>, page |-> "none"]
      BY DEF IsVisited
    <3>2. QED
      BY <3>1
  <2>2. IsSequence(<<>>) /\ Len(<<>>) <= max
    BY DEF IsSequence
  <2>3. QED
    BY <1>4, <2>1, <2>2
<1>6. m \in 1 .. N /\ m - 1 \in 0 .. N /\ ~(m <= m - 1)
  BY <1>4, <1>5
<1>7. PICK seen : seen = after[m - 1].seen
  OBVIOUS
<1>8. IsSequence(seen) /\ Len(seen) <= max
  BY <1>1, <1>3, <1>6, <1>7
<1>9. after[m].seen \in {seen, WithNonce(seen, visits[m][1].nonce, max)}
  BY <1>6, <1>7 DEF IsVisited, Opens
<1>10. IsSequence(WithNonce(seen, visits[m][1].nonce, max)) /\ Len(WithNonce(seen, visits[m][1].nonce, max)) <= max
  <2>1. GoesLast(WithNonce(seen, visits[m][1].nonce, max), seen, IF Len(seen) >= max THEN 1 ELSE 0,
                 visits[m][1].nonce, max)
    BY <1>8, NonceGoesLast
  <2>2. QED
    BY <2>1 DEF GoesLast
<1>11. QED
  BY <1>4, <1>8, <1>9, <1>10

IsOpened(after, n) == after[n].page = "open wallet"

(* The nonces opened after the m-th visit and before the n-th. *)
OpenedBetween(after, visits, m, n) ==
  {visits[k][1].nonce : k \in {j \in m + 1 .. n - 1 : IsOpened(after, j)}}

LEMMA NoncesStayRemembered ==
  ASSUME NEW after, NEW N \in Nat, NEW visits, NEW max \in Nat \ {0}, IsVisited(after, N, visits, max),
         NEW m \in 1 .. N, IsOpened(after, m), NEW n \in m .. N
  PROVE  /\ IsFiniteSet(OpenedBetween(after, visits, m, n + 1))
         /\ IsRemembered(after[n].seen, visits[m][1].nonce, OpenedBetween(after, visits, m, n + 1), max)
<1>1. PICK nonce : nonce = visits[m][1].nonce
  OBVIOUS
<1>. DEFINE Good(j) == /\ IsFiniteSet(OpenedBetween(after, visits, m, j + 1))
                      /\ IsRemembered(after[j].seen, nonce, OpenedBetween(after, visits, m, j + 1), max)
<1>0. m \in Nat /\ N \in Nat /\ n \in Nat /\ 1 <= m /\ m <= N /\ m <= n /\ n <= N
  OBVIOUS
<1>2. AreInBounds(after, N, max)
  BY SeenIsBounded
<1>3. Good(m)
  <2>1. OpenedBetween(after, visits, m, m + 1) = {}
    <3>1. m + 1 .. (m + 1) - 1 = {}
      BY <1>0
    <3>2. QED
      BY <3>1 DEF OpenedBetween
  <2>2. PICK seen : seen = after[m - 1].seen
    OBVIOUS
  <2>3. m \in 1 .. N /\ m - 1 \in 0 .. N
    BY <1>0
  <2>4. IsSequence(seen) /\ Len(seen) <= max
    BY <1>2, <2>2, <2>3 DEF AreInBounds
  <2>5. after[m].seen = WithNonce(seen, nonce, max)
    BY <1>1, <2>2, <2>3 DEF IsVisited, Opens, IsOpened
  <2>6. QED
    BY <2>1, <2>4, <2>5, JustOpened, FS_EmptySet
<1>4. ASSUME NEW j \in m + 1 .. N, Good(j - 1) PROVE Good(j)
  <2>1. PICK seen, x, since, next :
          /\ seen = after[j - 1].seen /\ x = visits[j][1].nonce
          /\ since = OpenedBetween(after, visits, m, j) /\ next = OpenedBetween(after, visits, m, j + 1)
    OBVIOUS
  <2>2. j \in 1 .. N /\ j - 1 \in 0 .. N /\ (j - 1) + 1 = j /\ (j + 1) - 1 = j /\ m + 1 .. j - 1 \subseteq m + 1 .. j
        /\ j \in m + 1 .. j /\ \A k \in m + 1 .. j : k = j \/ k \in m + 1 .. j - 1
    BY <1>0
  <2>3. IsFiniteSet(since) /\ IsRemembered(seen, nonce, since, max)
    BY <1>4, <2>1, <2>2
  <2>4. IsSequence(seen) /\ Len(seen) <= max
    BY <1>2, <2>1, <2>2 DEF AreInBounds
  <2>5. CASE IsOpened(after, j)
    <3>1. x \notin Keys(seen) /\ after[j].seen = WithNonce(seen, x, max)
      BY <2>1, <2>2, <2>5 DEF IsVisited, Opens, IsOpened
    <3>2. next = since \cup {x}
      BY <2>1, <2>2, <2>5 DEF OpenedBetween
    <3>3. IsFiniteSet(next)
      BY <2>3, <3>2, FS_AddElement
    <3>4. IsRemembered(after[j].seen, nonce, next, max)
      <4>1. IsRemembered(WithNonce(seen, x, max), nonce, since \cup {x}, max)
        BY <2>3, <2>4, <3>1, OthersPushOut
      <4>2. QED
        BY <3>1, <3>2, <4>1
    <3>5. QED
      BY <2>1, <3>3, <3>4
  <2>6. CASE ~IsOpened(after, j)
    <3>1. after[j].seen = seen
      BY <2>1, <2>2, <2>6 DEF IsVisited, Opens, IsOpened
    <3>2. next = since
      BY <2>1, <2>2, <2>6 DEF OpenedBetween
    <3>3. QED
      BY <2>1, <2>3, <3>1, <3>2
  <2>7. QED
    BY <2>5, <2>6
<1>5. Good(n)
  <2>1. PICK B : B = {j \in m .. N : ~Good(j)}
    OBVIOUS
  <2>2. SUFFICES ASSUME B # {} PROVE FALSE
    BY <2>1
  <2>3. B \subseteq Nat
    <3>1. m .. N \subseteq Nat
      BY <1>0
    <3>2. QED
      BY <2>1, <3>1
  <2>4. PICK j \in B : \A k \in B : j <= k
    BY <2>2, <2>3, LeastExists
  <2>5. j \in m .. N /\ ~Good(j) /\ j # m
    BY <1>3, <2>1, <2>4
  <2>6. j \in m + 1 .. N /\ j - 1 \in m .. N /\ ~(j <= j - 1)
    BY <1>0, <2>5
  <2>7. Good(j - 1)
    BY <2>1, <2>4, <2>6
  <2>8. QED
    BY <1>4, <2>5, <2>6, <2>7
<1>6. QED
  BY <1>1, <1>5

(* A start link opens the wallet once, and again only after as many others  *)
(* as the set holds; and only within its lifetime (test-start/main.ts:70,   *)
(* start-token/index.ts:36).                                                *)
THEOREM StartLinksAlwaysOpenOnce ==
  ASSUME NEW visits, Len(visits) \in Nat, \A n \in 1 .. Len(visits) : IsVisit(visits[n]), NEW max \in Nat \ {0}
  PROVE  StartLinksOpenOnce(visits, max)
<1>1. PICK N : N = Len(visits) /\ N \in Nat
  OBVIOUS
<1>2. PICK after : after = CHOOSE a : AreVisits(a, N, visits, max)
  OBVIOUS
<1>3. AreVisits(after, N, visits, max)
  BY <1>1, <1>2, VisitsExist
<1>4. Visits(visits, max) = after
  BY <1>1, <1>2 DEF Visits, AreVisits, VisitBy
<1>5. IsVisited(after, N, visits, max)
  <2>1. \A n \in 0 .. N : after[n] = VisitBy(after, n, visits, max)
    BY <1>3 DEF AreVisits
  <2>2. after[0] = [seen |-> <<>>, page |-> "none"]
    BY <1>1, <2>1 DEF VisitBy
  <2>3. ASSUME NEW n \in 1 .. N PROVE Opens(visits[n], after[n - 1].seen, after[n], max)
    <3>1. n \in 0 .. N /\ n # 0
      BY <1>1
    <3>2. after[n] = OpenStartLink(after[n - 1].seen, visits[n][1], visits[n][2], max)
      BY <2>1, <3>1 DEF VisitBy
    <3>3. IsVisit(visits[n])
      BY <1>1
    <3>4. QED
      BY <3>2, <3>3, LinkOpens
  <2>4. QED
    BY <2>2, <2>3 DEF IsVisited
<1>6. ASSUME NEW n \in 1 .. N PROVE Len(after[n].seen) <= max
  BY <1>1, <1>5, SeenIsBounded DEF AreInBounds
<1>7. ASSUME NEW n \in 1 .. N, after[n].page = "open wallet"
      PROVE  visits[n][1].signed /\ visits[n][2] < visits[n][1].expiresAt
  BY <1>5, <1>7 DEF IsVisited, Opens, IsOpened
<1>8. ASSUME NEW n \in 1 .. N, NEW m \in 1 .. n - 1, after[m].page = "open wallet", after[n].page = "open wallet",
             visits[m][1].nonce = visits[n][1].nonce
      PROVE  Cardinality(OpenedBetween(after, visits, m, n)) >= max
  <2>1. m \in 1 .. N /\ n - 1 \in m .. N /\ (n - 1) + 1 = n
    BY <1>1
  <2>2. PICK seen, since, nonce :
          seen = after[n - 1].seen /\ since = OpenedBetween(after, visits, m, n) /\ nonce = visits[n][1].nonce
    OBVIOUS
  <2>3. IsRemembered(seen, nonce, since, max)
    BY <1>1, <1>5, <1>8, <2>1, <2>2, NoncesStayRemembered DEF IsOpened
  <2>4. nonce \notin Keys(seen)
    BY <1>5, <1>8, <2>2 DEF IsVisited, Opens, IsOpened
  <2>5. ~\E p \in DOMAIN seen : Waits(seen, p, nonce, since)
    BY <2>4 DEF Waits, Keys
  <2>6. QED
    BY <2>2, <2>3, <2>5 DEF IsRemembered
<1>9. QED
  BY <1>1, <1>4, <1>6, <1>7, <1>8 DEF StartLinksOpenOnce, OpenedBetween, IsOpened

-----------------------------------------------------------------------------
(* The rate limiter *)

IsRule(rule) == rule.max \in Nat /\ rule.window \in Nat \ {0} /\ rule.maxKeys \in Nat \ {0}

IsWindow(w) ==
  w = [key |-> w.key, start |-> w.start, count |-> w.count] /\ w.start \in Nat /\ w.count \in Nat

AreWindows(windows, rule) ==
  IsStore(windows) /\ Len(windows) <= rule.maxKeys /\ \A n \in DOMAIN windows : IsWindow(windows[n])

IsOpen(w, at, rule) == at - w.start < rule.window

(* The window of a key after a call: the one that was open, or a new one. *)
IsCounted(counted, windows, key, at, rule) ==
  /\ IsWindow(counted) /\ counted.key = key
  /\ \/ \E n \in DOMAIN windows :
          /\ windows[n].key = key /\ IsOpen(windows[n], at, rule)
          /\ counted.start = windows[n].start /\ counted.count = windows[n].count + 1
     \/ /\ \A n \in DOMAIN windows : windows[n].key = key => ~IsOpen(windows[n], at, rule)
        /\ counted.start = at /\ counted.count = 1

(* The table after it: nothing but the key's own window is new. *)
HasCounted(table, counted, windows, rule) ==
  /\ AreWindows(table, rule)
  /\ \E n \in DOMAIN table : table[n] = counted
  /\ \A n \in DOMAIN table :
       \/ table[n] = counted
       \/ table[n].key # counted.key /\ \E i \in DOMAIN windows : table[n] = windows[i]

IsTaken(result, counted, windows, key, at, rule) ==
  /\ IsCounted(counted, windows, key, at, rule)
  /\ HasCounted(result.windows, counted, windows, rule)
  /\ result.allowed <=> counted.count <= rule.max

(* There is room for a key that is not there. *)
LEMMA RoomIsMade ==
  ASSUME NEW rule, IsRule(rule), NEW windows, AreWindows(windows, rule), NEW at
  PROVE  IsPart(Evict(windows, at, rule), windows) /\ Len(Evict(windows, at, rule)) < rule.maxKeys
<1>1. PICK some, left, room :
        /\ some = {w \in Range(windows) : ~Expired(w, at, rule)}
        /\ left = Among(windows, some) /\ room = DropOldest(left, rule.maxKeys)
  OBVIOUS
<1>2. IsStore(windows) /\ rule.maxKeys \in Nat \ {0}
  BY DEF AreWindows, IsRule
<1>3. IsPart(left, windows)
  BY <1>1, <1>2, AmongIsPart
<1>4. IsStore(left)
  BY <1>3 DEF IsPart
<1>5. IsPart(room, left) /\ Len(room) < rule.maxKeys
  BY <1>1, <1>2, <1>4, DroppedIsPart
<1>6. IsPart(room, windows)
  BY <1>2, <1>3, <1>5, PartOfPart
<1>7. QED
  BY <1>1, <1>5, <1>6 DEF Evict

(* A call of a limiter with a maximum counts the one who calls.            *)
LEMMA TakeIsTaken ==
  ASSUME NEW rule, IsRule(rule), rule.max # 0, NEW windows, AreWindows(windows, rule), NEW key, NEW at \in Nat
  PROVE  \E counted : IsTaken(Take(windows, key, at, rule), counted, windows, key, at, rule)
<1>1. PICK known : known = (key \in Keys(windows))
  OBVIOUS
<1>2. PICK fresh : fresh = (known /\ ~Expired(Entry(windows, key), at, rule))
  OBVIOUS
<1>3. PICK room, w, counted, table :
        /\ room = IF ~known /\ Len(windows) >= rule.maxKeys THEN Evict(windows, at, rule) ELSE windows
        /\ w = IF fresh THEN Entry(windows, key) ELSE [key |-> key, start |-> at, count |-> 0]
        /\ counted = [w EXCEPT !.count = @ + 1]
        /\ table = Put(room, counted)
  OBVIOUS
<1>4. Take(windows, key, at, rule) = [windows |-> table, allowed |-> counted.count <= rule.max]
  BY <1>1, <1>2, <1>3 DEF Take
<1>5. IsStore(windows) /\ Len(windows) \in Nat /\ DOMAIN windows = 1 .. Len(windows) /\ rule.maxKeys \in Nat \ {0}
  BY StoreFacts DEF AreWindows, IsRule
<1>6. IsCounted(counted, windows, key, at, rule)
  <2>1. CASE fresh
    <3>1. PICK n \in DOMAIN windows : windows[n].key = key
      BY <1>1, <1>2, <2>1, KeyIsThere
    <3>2. Entry(windows, key) = windows[n]
      BY <1>5, <3>1, EntryIs
    <3>3. w = windows[n] /\ IsWindow(w) /\ ~Expired(w, at, rule)
      BY <1>2, <1>3, <2>1, <3>2 DEF AreWindows
    <3>4. w.start \in Nat /\ w.count \in Nat /\ w = [key |-> w.key, start |-> w.start, count |-> w.count]
      BY <3>3 DEF IsWindow
    <3>5. counted = [key |-> w.key, start |-> w.start, count |-> w.count + 1]
      BY <1>3, <3>4
    <3>6. IsWindow(counted) /\ counted.key = key /\ counted.start = w.start /\ counted.count = w.count + 1
      BY <3>1, <3>3, <3>4, <3>5 DEF IsWindow
    <3>7. IsOpen(w, at, rule)
      BY <3>3, <3>4 DEF IsOpen, Expired, IsRule
    <3>8. QED
      BY <3>1, <3>3, <3>6, <3>7 DEF IsCounted
  <2>2. CASE ~fresh
    <3>1. counted = [key |-> key, start |-> at, count |-> 1]
      BY <1>3, <2>2
    <3>2. IsWindow(counted) /\ counted.key = key /\ counted.start = at /\ counted.count = 1
      BY <3>1 DEF IsWindow
    <3>3. ASSUME NEW n \in DOMAIN windows, windows[n].key = key PROVE ~IsOpen(windows[n], at, rule)
      <4>1. key \in Keys(windows) /\ Entry(windows, key) = windows[n]
        BY <1>5, <3>3, EntryIs
      <4>2. Expired(windows[n], at, rule) /\ windows[n].start \in Nat
        BY <1>1, <1>2, <2>2, <4>1 DEF AreWindows, IsWindow
      <4>3. QED
        BY <4>2 DEF IsOpen, Expired, IsRule
    <3>4. QED
      BY <3>2, <3>3 DEF IsCounted
  <2>3. QED
    BY <2>1, <2>2
<1>7. counted.key = key /\ IsWindow(counted)
  BY <1>6 DEF IsCounted
<1>8. /\ IsPart(room, windows)
      /\ known => room = windows
      /\ ~known => Len(room) < rule.maxKeys /\ key \notin Keys(room)
  <2>1. IsPart(room, windows)
    BY <1>3, <1>5, RoomIsMade, IsPartOfItself
  <2>2. known => room = windows
    BY <1>3
  <2>3. ~known => Len(room) < rule.maxKeys
    BY <1>3, <1>5, RoomIsMade
  <2>4. ~known => key \notin Keys(room)
    <3>1. Keys(room) \subseteq Keys(windows)
      BY <2>1, PartHasFewerKeys
    <3>2. QED
      BY <1>1, <3>1
  <2>5. QED
    BY <2>1, <2>2, <2>3, <2>4
<1>9. IsStore(room) /\ Len(room) \in Nat /\ DOMAIN room = 1 .. Len(room)
  BY <1>8, StoreFacts DEF IsPart
<1>10. IsPut(table, room, counted)
  BY <1>3, <1>9, PutIsPut
<1>11. IsStore(table) /\ Len(table) \in Nat /\ DOMAIN table = 1 .. Len(table)
  BY <1>10, StoreFacts DEF IsPut
<1>12. Len(table) <= rule.maxKeys
  <2>1. CASE known
    <3>1. counted.key \in Keys(room)
      BY <1>1, <1>7, <1>8, <2>1
    <3>2. Len(table) = Len(windows)
      BY <1>8, <1>10, <2>1, <3>1 DEF IsPut
    <3>3. QED
      BY <3>2 DEF AreWindows
  <2>2. CASE ~known
    <3>1. Len(table) = Len(room) + 1
      BY <1>7, <1>8, <1>10, <2>2 DEF IsPut
    <3>2. QED
      BY <1>5, <1>8, <1>9, <2>2, <3>1
  <2>3. QED
    BY <2>1, <2>2
<1>13. \E n \in DOMAIN table : table[n] = counted
  <2>1. CASE counted.key \in Keys(room)
    <3>1. PICK i \in DOMAIN room : room[i].key = counted.key
      BY <2>1, KeyIsThere
    <3>2. QED
      BY <1>10, <3>1 DEF IsPut
  <2>2. CASE counted.key \notin Keys(room)
    <3>1. Len(room) + 1 \in DOMAIN table
      BY <1>9, <1>10, <1>11, <2>2 DEF IsPut
    <3>2. QED
      BY <1>10, <2>2, <3>1 DEF IsPut
  <2>3. QED
    BY <2>1, <2>2
<1>14. ASSUME NEW n \in DOMAIN table, table[n] # counted
       PROVE  table[n].key # counted.key /\ \E i \in DOMAIN windows : table[n] = windows[i]
  <2>1. PICK m \in DOMAIN table : table[m] = counted
    BY <1>13
  <2>2. table[n].key # counted.key
    BY <1>11, <1>14, <2>1 DEF IsStore
  <2>3. n \in DOMAIN room
    <3>1. CASE counted.key \in Keys(room)
      BY <1>9, <1>10, <1>11, <3>1 DEF IsPut
    <3>2. CASE counted.key \notin Keys(room)
      <4>1. Len(table) = Len(room) + 1 /\ table[Len(room) + 1] = counted
        BY <1>10, <3>2 DEF IsPut
      <4>2. QED
        BY <1>9, <1>11, <1>14, <4>1
    <3>3. QED
      BY <3>1, <3>2
  <2>4. table[n] = room[n]
    BY <1>10, <1>14, <2>3 DEF IsPut
  <2>5. PICK i \in DOMAIN windows : room[n] = windows[i]
    BY <1>8, <2>3 DEF IsPart
  <2>6. QED
    BY <2>2, <2>4, <2>5
<1>15. AreWindows(table, rule)
  <2>1. \A n \in DOMAIN table : IsWindow(table[n])
    BY <1>7, <1>14 DEF AreWindows
  <2>2. QED
    BY <1>11, <1>12, <2>1 DEF AreWindows
<1>16. HasCounted(table, counted, windows, rule)
  BY <1>13, <1>14, <1>15 DEF HasCounted
<1>17. QED
  <2>1. PICK result : result = [windows |-> table, allowed |-> counted.count <= rule.max]
    OBVIOUS
  <2>2. result.windows = table /\ (result.allowed <=> counted.count <= rule.max)
    BY <2>1
  <2>3. IsTaken(result, counted, windows, key, at, rule)
    BY <1>6, <1>16, <2>2 DEF IsTaken
  <2>4. QED
    BY <1>4, <2>1, <2>3

(* The calls of a key up to the n-th, no earlier than a time. *)
Since(who, at, n, key, start) == {m \in 1 .. n : who[m] = key /\ start <= at[m]}

IsForgotten(after, n, key) ==
  \E m \in 1 .. n : key \in Keys(after[m - 1].windows) /\ key \notin Keys(after[m].windows)

(* A window has counted no more calls than there were since it was opened,  *)
(* and all of them if its key was never forgotten.                          *)
HasThem(w, after, n, who, at, rule) ==
  /\ n > 0 /\ w.start <= at[n] /\ w.count <= Cardinality(Since(who, at, n, w.key, w.start))
  /\ ~IsForgotten(after, n, w.key) =>
       /\ Cardinality(Since(who, at, n, w.key, w.start)) <= w.count
       /\ \A m \in 1 .. n : who[m] = w.key => IsOpen(w, at[m], rule)

LimiterIsSound(after, n, who, at, rule) ==
  /\ AreWindows(after[n].windows, rule)
  /\ \A i \in DOMAIN after[n].windows : HasThem(after[n].windows[i], after, n, who, at, rule)
  /\ \A m \in 1 .. n : who[m] \in Keys(after[n].windows) \/ IsForgotten(after, n, who[m])

AreTimes(at, N) == (\A n \in 1 .. N : at[n] \in Nat) /\ \A m, n \in 1 .. N : m <= n => at[m] <= at[n]

(* The calls since a time can be counted,                                  *)
LEMMA SinceIsFinite ==
  ASSUME NEW who, NEW at, NEW n \in Nat, NEW key, NEW start
  PROVE  IsFiniteSet(Since(who, at, n, key, start)) /\ Cardinality(Since(who, at, n, key, start)) \in Nat
<1>1. IsFiniteSet(1 .. n)
  BY FS_Interval
<1>2. Since(who, at, n, key, start) \in SUBSET (1 .. n)
  BY DEF Since
<1>3. IsFiniteSet(Since(who, at, n, key, start))
  BY <1>1, <1>2, FS_Subset
<1>4. QED
  BY <1>3, FS_CardinalityType

IsOneMore(who, at, n, p, key, start) ==
  Cardinality(Since(who, at, n, key, start)) = Cardinality(Since(who, at, p, key, start)) + 1

(* are one more after a call of the key                                    *)
LEMMA SinceGrows ==
  ASSUME NEW who, NEW at, NEW n \in Nat \ {0}, NEW p, p = n - 1, NEW start, start <= at[n], NEW key, key = who[n]
  PROVE  IsOneMore(who, at, n, p, key, start)
<1>1. PICK before, now : before = Since(who, at, p, key, start) /\ now = Since(who, at, n, key, start)
  OBVIOUS
<1>2. n \in 1 .. n /\ n \notin 1 .. p /\ p \in Nat /\ 1 .. n = (1 .. p) \cup {n}
  OBVIOUS
<1>3. now = before \cup {n} /\ n \notin before
  BY <1>1, <1>2 DEF Since
<1>4. IsFiniteSet(before)
  BY <1>1, <1>2, SinceIsFinite
<1>5. QED
  BY <1>1, <1>3, <1>4, FS_AddElement DEF IsOneMore

(* and as many after a call of another.                                    *)
LEMMA SinceStays ==
  ASSUME NEW who, NEW at, NEW n \in Nat \ {0}, NEW p, p = n - 1, NEW start, NEW key, key # who[n]
  PROVE  Since(who, at, n, key, start) = Since(who, at, p, key, start)
<1>1. 1 .. n = (1 .. p) \cup {n}
  OBVIOUS
<1>2. QED
  BY <1>1 DEF Since

(* A call keeps the limiter sound.                                          *)
LEMMA LimiterStaysSound ==
  ASSUME NEW rule, IsRule(rule), NEW N \in Nat, NEW who, NEW at, AreTimes(at, N), NEW after, NEW n \in 1 .. N,
         LimiterIsSound(after, n - 1, who, at, rule),
         NEW counted, IsTaken(after[n], counted, after[n - 1].windows, who[n], at[n], rule)
  PROVE  LimiterIsSound(after, n, who, at, rule)
<1>1. PICK before, table, key, now, p :
        /\ before = after[n - 1].windows /\ table = after[n].windows /\ key = who[n] /\ now = at[n]
        /\ p = n - 1
  OBVIOUS
<1>2. /\ n \in Nat \ {0} /\ p \in Nat /\ p < n /\ n \in 1 .. n /\ 1 .. p \subseteq 1 .. n
      /\ \A m \in 1 .. n : m = n \/ m \in 1 .. p
  BY <1>1
<1>3. now \in Nat /\ \A m \in 1 .. n : at[m] \in Nat /\ at[m] <= now
  BY <1>1, <1>2 DEF AreTimes
<1>4. IsCounted(counted, before, key, now, rule) /\ HasCounted(table, counted, before, rule)
  BY <1>1 DEF IsTaken
<1>5. /\ AreWindows(before, rule)
      /\ \A i \in DOMAIN before : HasThem(before[i], after, p, who, at, rule)
      /\ \A m \in 1 .. p : who[m] \in Keys(before) \/ IsForgotten(after, p, who[m])
  BY <1>1 DEF LimiterIsSound
<1>6. AreWindows(table, rule) /\ key \in Keys(table) /\ counted.key = key
  BY <1>4 DEF HasCounted, IsCounted, Keys
<1>7. \A k : IsForgotten(after, p, k) => IsForgotten(after, n, k)
  BY <1>2 DEF IsForgotten
<1>8. \A k : k \in Keys(before) /\ k \notin Keys(table) => IsForgotten(after, n, k)
  BY <1>1, <1>2 DEF IsForgotten
<1>9. \A m \in 1 .. n : who[m] \in Keys(table) \/ IsForgotten(after, n, who[m])
  BY <1>1, <1>2, <1>5, <1>6, <1>7, <1>8
<1>10. ASSUME NEW i \in DOMAIN before, before[i].key # key
       PROVE  HasThem(before[i], after, n, who, at, rule)
  <2>1. PICK w : w = before[i]
    OBVIOUS
  <2>2. /\ p > 0 /\ w.start <= at[p] /\ w.count <= Cardinality(Since(who, at, p, w.key, w.start))
        /\ ~IsForgotten(after, p, w.key) =>
             /\ Cardinality(Since(who, at, p, w.key, w.start)) <= w.count
             /\ \A m \in 1 .. p : who[m] = w.key => IsOpen(w, at[m], rule)
    BY <1>5, <2>1 DEF HasThem
  <2>3. Since(who, at, n, w.key, w.start) = Since(who, at, p, w.key, w.start)
    BY <1>1, <1>2, <1>10, <2>1, SinceStays
  <2>4. w.start <= at[n]
    <3>1. p \in 1 .. n /\ w.start \in Nat
      BY <1>2, <1>5, <2>1, <2>2 DEF AreWindows, IsWindow
    <3>2. QED
      BY <1>1, <1>3, <2>2, <3>1
  <2>5. ~IsForgotten(after, n, w.key) => \A m \in 1 .. n : who[m] = w.key => IsOpen(w, at[m], rule)
    BY <1>1, <1>2, <1>7, <1>10, <2>1, <2>2
  <2>6. ~IsForgotten(after, n, w.key) => Cardinality(Since(who, at, n, w.key, w.start)) <= w.count
    BY <1>7, <2>2, <2>3
  <2>7. n > 0 /\ w.count <= Cardinality(Since(who, at, n, w.key, w.start))
    BY <1>2, <2>2, <2>3
  <2>8. QED
    BY <2>1, <2>4, <2>5, <2>6, <2>7 DEF HasThem
<1>11. HasThem(counted, after, n, who, at, rule)
  <2>1. IsWindow(counted) /\ counted.start \in Nat /\ counted.count \in Nat
    BY <1>4 DEF IsCounted, IsWindow
  <2>2. CASE \E i \in DOMAIN before :
               /\ before[i].key = key /\ IsOpen(before[i], now, rule)
               /\ counted.start = before[i].start /\ counted.count = before[i].count + 1
    <3>1. PICK i \in DOMAIN before :
               /\ before[i].key = key /\ IsOpen(before[i], now, rule)
               /\ counted.start = before[i].start /\ counted.count = before[i].count + 1
      BY <2>2
    <3>2. PICK w : w = before[i]
      OBVIOUS
    <3>3. /\ p > 0 /\ w.start <= at[p] /\ w.count <= Cardinality(Since(who, at, p, key, w.start))
          /\ ~IsForgotten(after, p, key) =>
               /\ Cardinality(Since(who, at, p, key, w.start)) <= w.count
               /\ \A m \in 1 .. p : who[m] = key => IsOpen(w, at[m], rule)
      BY <1>5, <3>1, <3>2 DEF HasThem
    <3>4. w.start \in Nat /\ w.count \in Nat
      BY <1>5, <3>2 DEF AreWindows, IsWindow
    <3>5. w.start <= now
      BY <1>2, <1>3, <3>3, <3>4
    <3>6. PICK c : c = Cardinality(Since(who, at, p, key, w.start)) /\ c \in Nat
      BY <1>2, SinceIsFinite
    <3>7. Cardinality(Since(who, at, n, key, w.start)) = c + 1
      <4>1. PICK start : start = w.start
        OBVIOUS
      <4>2. start <= at[n] /\ key = who[n] /\ p = n - 1 /\ n \in Nat \ {0}
        BY <1>1, <1>2, <3>5, <4>1
      <4>3. IsOneMore(who, at, n, p, key, start)
        BY <4>2, SinceGrows
      <4>4. QED
        BY <3>6, <4>1, <4>3 DEF IsOneMore
    <3>8. counted.key = key /\ counted.start = w.start /\ counted.count = w.count + 1 /\ IsOpen(w, now, rule)
      BY <1>6, <3>1, <3>2
    <3>9. w.count + 1 <= c + 1 /\ ~IsForgotten(after, n, key) => c + 1 <= w.count + 1
      BY <1>7, <3>3, <3>4, <3>6
    <3>10. w.count + 1 <= c + 1
      BY <3>3, <3>4, <3>6
    <3>11. ~IsForgotten(after, n, key) => \A m \in 1 .. n : who[m] = key => IsOpen(counted, at[m], rule)
      BY <1>1, <1>2, <1>7, <3>3, <3>8 DEF IsOpen
    <3>12. n > 0
      BY <1>2
    <3>13. counted.count <= Cardinality(Since(who, at, n, counted.key, counted.start))
      BY <3>7, <3>8, <3>10
    <3>14. ~IsForgotten(after, n, counted.key) => Cardinality(Since(who, at, n, counted.key, counted.start)) <= counted.count
      BY <3>7, <3>8, <3>9, <3>10
    <3>15. counted.start <= at[n]
      BY <1>1, <3>5, <3>8
    <3>16. QED
      BY <3>8, <3>11, <3>12, <3>13, <3>14, <3>15 DEF HasThem
  <2>3. CASE /\ \A i \in DOMAIN before : before[i].key = key => ~IsOpen(before[i], now, rule)
             /\ counted.start = now /\ counted.count = 1
    <3>1. PICK c : c = Cardinality(Since(who, at, p, key, now)) /\ c \in Nat
      BY <1>2, SinceIsFinite
    <3>2. Cardinality(Since(who, at, n, key, now)) = c + 1
      <4>1. now <= at[n] /\ key = who[n] /\ p = n - 1 /\ n \in Nat \ {0}
        BY <1>1, <1>2, <1>3
      <4>2. IsOneMore(who, at, n, p, key, now)
        BY <4>1, SinceGrows
      <4>3. QED
        BY <3>1, <4>2 DEF IsOneMore
    <3>3. ASSUME ~IsForgotten(after, n, key), NEW m \in 1 .. p, who[m] = key
          PROVE  at[m] < now
      <4>1. key \in Keys(before)
        BY <1>5, <1>7, <3>3
      <4>2. PICK i \in DOMAIN before : before[i].key = key
        BY <4>1, KeyIsThere
      <4>3. IsOpen(before[i], at[m], rule) /\ ~IsOpen(before[i], now, rule) /\ before[i].start \in Nat
        BY <1>5, <1>7, <2>3, <3>3, <4>2 DEF HasThem, AreWindows, IsWindow
      <4>4. at[m] \in Nat /\ rule.window \in Nat
        BY <1>2, <1>3 DEF IsRule
      <4>5. QED
        BY <1>3, <4>3, <4>4 DEF IsOpen
    <3>4. ~IsForgotten(after, n, key) => c = 0
      <4>1. SUFFICES ASSUME ~IsForgotten(after, n, key) PROVE c = 0
        OBVIOUS
      <4>2. Since(who, at, p, key, now) = {}
        <5>1. SUFFICES ASSUME NEW m \in Since(who, at, p, key, now) PROVE FALSE
          OBVIOUS
        <5>2. m \in 1 .. p /\ who[m] = key /\ now <= at[m]
          BY <5>1 DEF Since
        <5>3. at[m] < now /\ at[m] \in Nat
          BY <1>2, <1>3, <3>3, <4>1, <5>2
        <5>4. QED
          BY <1>3, <5>2, <5>3
      <4>3. QED
        BY <3>1, <4>2, FS_EmptySet
    <3>5. ~IsForgotten(after, n, key) => \A m \in 1 .. n : who[m] = key => IsOpen(counted, at[m], rule)
      <4>1. \A m \in 1 .. n : at[m] <= now /\ at[m] \in Nat
        BY <1>3
      <4>2. rule.window \in Nat \ {0}
        BY DEF IsRule
      <4>3. \A m \in 1 .. n : at[m] - now < rule.window
        BY <1>3, <4>1, <4>2
      <4>4. QED
        BY <2>3, <4>3 DEF IsOpen
    <3>6. n > 0 /\ counted.start <= at[n] /\ counted.key = key
      BY <1>1, <1>2, <1>3, <1>6, <2>3
    <3>7. counted.count <= Cardinality(Since(who, at, n, counted.key, counted.start))
      BY <2>3, <3>1, <3>2, <3>6
    <3>8. ~IsForgotten(after, n, counted.key) => Cardinality(Since(who, at, n, counted.key, counted.start)) <= counted.count
      BY <2>3, <3>1, <3>2, <3>4, <3>6
    <3>9. QED
      BY <3>5, <3>6, <3>7, <3>8 DEF HasThem
  <2>4. QED
    BY <1>4, <2>2, <2>3 DEF IsCounted
<1>12. ASSUME NEW i \in DOMAIN table PROVE HasThem(table[i], after, n, who, at, rule)
  <2>1. CASE table[i] = counted
    BY <1>11, <2>1
  <2>2. CASE table[i] # counted
    <3>1. PICK j \in DOMAIN before : table[i] = before[j] /\ table[i].key # key
      BY <1>4, <1>6, <2>2 DEF HasCounted
    <3>2. QED
      BY <1>10, <3>1
  <2>3. QED
    BY <2>1, <2>2
<1>13. QED
  BY <1>1, <1>6, <1>9, <1>12 DEF LimiterIsSound

(* What the n-th call makes of the windows. *)
CallBy(after, n, calls, rule) ==
  IF n = 0 THEN [windows |-> <<>>, allowed |-> TRUE]
  ELSE Take(after[n - 1].windows, ClientKey(calls[n][1]), calls[n][2], rule)

AreCalls(after, n, calls, rule) == after = [k \in 0 .. n |-> CallBy(after, k, calls, rule)]

LEMMA CallsExist ==
  ASSUME NEW calls, NEW rule, NEW n \in Nat
  PROVE  \E after : AreCalls(after, n, calls, rule)
<1>1. PICK B : B = {k \in 0 .. n : ~\E after : AreCalls(after, k, calls, rule)}
  OBVIOUS
<1>2. SUFFICES ASSUME B # {} PROVE FALSE
  <2>1. n \in 0 .. n
    OBVIOUS
  <2>2. QED
    BY <1>1, <2>1
<1>3. PICK m \in B : \A k \in B : m <= k
  <2>1. B \subseteq Nat
    BY <1>1
  <2>2. QED
    BY <1>2, <2>1, LeastExists
<1>4. m \in 0 .. n /\ ~\E after : AreCalls(after, m, calls, rule)
  BY <1>1, <1>3
<1>5. CASE m = 0
  <2>1. PICK after : after = [k \in 0 .. 0 |-> [windows |-> <<>>, allowed |-> TRUE]]
    OBVIOUS
  <2>2. AreCalls(after, 0, calls, rule)
    BY <2>1 DEF AreCalls, CallBy
  <2>3. QED
    BY <1>4, <1>5, <2>2
<1>6. CASE m # 0
  <2>1. m \in Nat \ {0} /\ m - 1 \in 0 .. n /\ ~(m <= m - 1)
    BY <1>4, <1>6
  <2>2. PICK after : AreCalls(after, m - 1, calls, rule)
    BY <1>1, <1>3, <2>1
  <2>3. PICK longer : longer = [k \in 0 .. m |-> IF k = m THEN CallBy(after, m, calls, rule) ELSE after[k]]
    OBVIOUS
  <2>4. ASSUME NEW k \in 0 .. m PROVE longer[k] = CallBy(longer, k, calls, rule)
    <3>1. k # 0 => longer[k - 1] = after[k - 1]
      <4>1. k # 0 => k - 1 \in 0 .. m /\ k - 1 # m
        BY <2>1
      <4>2. QED
        BY <2>3, <4>1
    <3>2. CallBy(longer, k, calls, rule) = CallBy(after, k, calls, rule)
      BY <3>1 DEF CallBy
    <3>3. CASE k = m
      BY <2>3, <3>2, <3>3
    <3>4. CASE k # m
      <4>1. k \in 0 .. m - 1
        BY <2>1, <3>4
      <4>2. after[k] = CallBy(after, k, calls, rule)
        BY <2>2, <4>1 DEF AreCalls
      <4>3. QED
        BY <2>3, <3>2, <3>4, <4>2
    <3>5. QED
      BY <3>3, <3>4
  <2>5. longer = [k \in 0 .. m |-> longer[k]]
    BY <2>3
  <2>6. AreCalls(longer, m, calls, rule)
    BY <2>4, <2>5 DEF AreCalls
  <2>7. QED
    BY <1>4, <2>6
<1>7. QED
  BY <1>5, <1>6

(* Before the first call there is nothing to be sound of. *)
LEMMA LimiterStartsSound ==
  ASSUME NEW rule, IsRule(rule), NEW who, NEW at, NEW after, after[0].windows = <<>>
  PROVE  LimiterIsSound(after, 0, who, at, rule)
<1>1. PICK s : s = <<>>
  OBVIOUS
<1>2. s \in Seq({}) /\ Len(s) = 0 /\ DOMAIN s = {}
  BY <1>1
<1>3. IsStore(s)
  BY <1>2, IsOne DEF IsStore
<1>4. AreWindows(s, rule)
  BY <1>2, <1>3 DEF AreWindows, IsRule
<1>5. QED
  BY <1>1, <1>2, <1>4 DEF LimiterIsSound

(* The limiter stays sound over any number of calls. *)
LEMMA LimiterIsAlwaysSound ==
  ASSUME NEW rule, IsRule(rule), rule.max # 0, NEW N \in Nat, NEW who, NEW at, AreTimes(at, N), NEW after,
         after[0].windows = <<>>,
         \A n \in 1 .. N : after[n] = Take(after[n - 1].windows, who[n], at[n], rule)
  PROVE  \A n \in 0 .. N : LimiterIsSound(after, n, who, at, rule)
<1>1. PICK B : B = {n \in 0 .. N : ~LimiterIsSound(after, n, who, at, rule)}
  OBVIOUS
<1>2. SUFFICES ASSUME B # {} PROVE FALSE
  BY <1>1
<1>3. PICK n \in B : \A k \in B : n <= k
  <2>1. B \subseteq Nat
    BY <1>1
  <2>2. QED
    BY <1>2, <2>1, LeastExists
<1>4. n \in 0 .. N /\ ~LimiterIsSound(after, n, who, at, rule)
  BY <1>1, <1>3
<1>5. n # 0
  BY <1>4, LimiterStartsSound
<1>6. n \in 1 .. N /\ n - 1 \in 0 .. N /\ ~(n <= n - 1)
  BY <1>4, <1>5
<1>7. PICK p : p = n - 1
  OBVIOUS
<1>8. LimiterIsSound(after, p, who, at, rule)
  BY <1>1, <1>3, <1>6, <1>7
<1>9. PICK windows, now, key : windows = after[p].windows /\ now = at[n] /\ key = who[n]
  OBVIOUS
<1>10. AreWindows(windows, rule) /\ now \in Nat
  BY <1>6, <1>8, <1>9 DEF LimiterIsSound, AreTimes
<1>11. PICK counted : IsTaken(Take(windows, key, now, rule), counted, windows, key, now, rule)
  BY <1>10, TakeIsTaken
<1>12. IsTaken(after[n], counted, after[n - 1].windows, who[n], at[n], rule)
  BY <1>6, <1>7, <1>9, <1>11
<1>13. LimiterIsSound(after, n, who, at, rule)
  BY <1>6, <1>7, <1>8, <1>12, LimiterStaysSound
<1>14. QED
  BY <1>4, <1>13

(* The calls of a key within the window before the n-th. *)
RecentTo(who, at, n, rule) == {m \in 1 .. n : who[m] = who[n] /\ at[n] - at[m] < rule.window}

(* What the limiter says of its n-th call. *)
SaysRight(after, n, who, at, rule) ==
  /\ Len(after[n].windows) <= rule.maxKeys
  /\ ~after[n].allowed => Cardinality(RecentTo(who, at, n, rule)) > rule.max
  /\ rule.max = 0 => after[n].allowed
  /\ rule.max > 0 /\ ~IsForgotten(after, n, who[n]) /\ after[n].allowed =>
       Cardinality({m \in RecentTo(who, at, n, rule) :
                      at[m] >= Entry(after[n].windows, who[n]).start /\ after[m].allowed}) <= rule.max

(* A sound limiter refuses and lets through whom it should.                 *)
LEMMA LimiterSaysRight ==
  ASSUME NEW rule, IsRule(rule), rule.max # 0, NEW N \in Nat, NEW who, NEW at, AreTimes(at, N), NEW after,
         after[0].windows = <<>>,
         \A n \in 1 .. N : after[n] = Take(after[n - 1].windows, who[n], at[n], rule),
         NEW n \in 1 .. N
  PROVE  SaysRight(after, n, who, at, rule)
<1>1. \A m \in 0 .. N : LimiterIsSound(after, m, who, at, rule)
  BY LimiterIsAlwaysSound
<1>2. n \in 0 .. N /\ n - 1 \in 0 .. N /\ n \in Nat /\ n \in 1 .. n /\ \A m \in 1 .. n : m \in 1 .. N /\ m <= n
  OBVIOUS
<1>3. PICK p : p = n - 1
  OBVIOUS
<1>4. LimiterIsSound(after, p, who, at, rule) /\ LimiterIsSound(after, n, who, at, rule)
  BY <1>1, <1>2, <1>3
<1>5. PICK windows, table, now, key :
        windows = after[p].windows /\ table = after[n].windows /\ now = at[n] /\ key = who[n]
  OBVIOUS
<1>6. AreWindows(windows, rule) /\ AreWindows(table, rule)
  BY <1>4, <1>5 DEF LimiterIsSound
<1>7. now \in Nat /\ \A m \in 1 .. n : at[m] \in Nat /\ at[m] <= now
  BY <1>2, <1>5 DEF AreTimes
<1>8. PICK counted : IsTaken(Take(windows, key, now, rule), counted, windows, key, now, rule)
  BY <1>6, <1>7, TakeIsTaken
<1>9. PICK result : result = Take(windows, key, now, rule)
  OBVIOUS
<1>10. after[n] = result
  BY <1>2, <1>3, <1>5, <1>9
<1>11. /\ IsCounted(counted, windows, key, now, rule) /\ HasCounted(table, counted, windows, rule)
       /\ after[n].allowed <=> counted.count <= rule.max
  BY <1>5, <1>8, <1>9, <1>10 DEF IsTaken
<1>12. PICK i \in DOMAIN table : table[i] = counted
  BY <1>11 DEF HasCounted
<1>13. IsWindow(counted) /\ counted.key = key
  BY <1>11 DEF IsCounted
<1>14. Entry(table, key) = counted
  BY <1>6, <1>12, <1>13, EntryIs DEF AreWindows
<1>15. PICK start, count : start = counted.start /\ count = counted.count
  OBVIOUS
<1>16. start \in Nat /\ count \in Nat
  BY <1>13, <1>15 DEF IsWindow
<1>17. rule.max \in Nat /\ rule.window \in Nat \ {0}
  BY DEF IsRule
<1>18. now - start < rule.window
  <2>1. CASE \E j \in DOMAIN windows :
               /\ windows[j].key = key /\ IsOpen(windows[j], now, rule)
               /\ counted.start = windows[j].start /\ counted.count = windows[j].count + 1
    BY <1>15, <2>1 DEF IsOpen
  <2>2. CASE counted.start = now
    BY <1>7, <1>15, <1>17, <2>2
  <2>3. QED
    BY <1>11, <2>1, <2>2 DEF IsCounted
<1>19. HasThem(counted, after, n, who, at, rule)
  BY <1>4, <1>5, <1>12 DEF LimiterIsSound
<1>20. PICK since, recent, through :
         /\ since = Since(who, at, n, key, start)
         /\ recent = RecentTo(who, at, n, rule)
         /\ through = {m \in recent : at[m] >= start /\ after[m].allowed}
  OBVIOUS
<1>21. IsFiniteSet(since) /\ IsFiniteSet(recent)
       /\ Cardinality(since) \in Nat /\ Cardinality(recent) \in Nat /\ Cardinality(through) \in Nat
  <2>1. IsFiniteSet(1 .. n)
    BY <1>2, FS_Interval
  <2>2. recent \in SUBSET (1 .. n)
    BY <1>20 DEF RecentTo
  <2>3. IsFiniteSet(recent)
    BY <2>1, <2>2, FS_Subset
  <2>4. through \in SUBSET recent
    BY <1>20
  <2>5. IsFiniteSet(through)
    BY <2>3, <2>4, FS_Subset
  <2>6. IsFiniteSet(since)
    BY <1>2, <1>20, SinceIsFinite
  <2>7. QED
    BY <2>3, <2>5, <2>6, FS_CardinalityType
<1>22. count <= Cardinality(since)
  BY <1>13, <1>15, <1>19, <1>20 DEF HasThem
<1>23. ~IsForgotten(after, n, key) => Cardinality(since) <= count
  BY <1>13, <1>15, <1>19, <1>20 DEF HasThem
<1>24. since \in SUBSET recent
  <2>1. SUFFICES ASSUME NEW m \in since PROVE m \in recent
    OBVIOUS
  <2>2. m \in 1 .. n /\ who[m] = key /\ start <= at[m]
    BY <1>20, <2>1 DEF Since
  <2>3. now - at[m] < rule.window
    BY <1>7, <1>16, <1>17, <1>18, <2>2
  <2>4. QED
    BY <1>5, <1>20, <2>2, <2>3 DEF RecentTo
<1>25. through \in SUBSET since
  <2>1. SUFFICES ASSUME NEW m \in through PROVE m \in since
    OBVIOUS
  <2>2. m \in recent /\ at[m] >= start
    BY <1>20, <2>1
  <2>3. m \in 1 .. n /\ who[m] = key
    BY <1>5, <1>20, <2>2 DEF RecentTo
  <2>4. start <= at[m]
    BY <1>7, <1>16, <2>2, <2>3
  <2>5. QED
    BY <1>20, <2>3, <2>4 DEF Since
<1>26. Cardinality(since) <= Cardinality(recent)
  BY <1>21, <1>24, FS_Subset
<1>27. Cardinality(through) <= Cardinality(since)
  BY <1>21, <1>25, FS_Subset
<1>28. Len(table) <= rule.maxKeys
  BY <1>6 DEF AreWindows
<1>29. ~after[n].allowed => Cardinality(recent) > rule.max
  BY <1>11, <1>15, <1>16, <1>17, <1>21, <1>22, <1>26
<1>30. ~IsForgotten(after, n, key) /\ after[n].allowed => Cardinality(through) <= rule.max
  BY <1>11, <1>15, <1>16, <1>17, <1>21, <1>23, <1>27
<1>31. QED
  BY <1>5, <1>14, <1>15, <1>20, <1>28, <1>29, <1>30 DEF SaysRight

(* Without a maximum nothing is counted and nobody refused. *)
LEMMA NothingIsCounted ==
  ASSUME NEW rule, IsRule(rule), rule.max = 0, NEW N \in Nat, NEW who, NEW at, NEW after,
         after[0].windows = <<>>,
         \A n \in 1 .. N : after[n] = Take(after[n - 1].windows, who[n], at[n], rule),
         NEW n \in 1 .. N
  PROVE  SaysRight(after, n, who, at, rule)
<1>1. ASSUME NEW k \in 1 .. N PROVE after[k].windows = after[k - 1].windows /\ after[k].allowed
  <2>1. after[k] = Take(after[k - 1].windows, who[k], at[k], rule)
    OBVIOUS
  <2>2. after[k] = [windows |-> after[k - 1].windows, allowed |-> TRUE]
    BY <2>1 DEF Take
  <2>3. QED
    BY <2>2
<1>2. \A k \in 0 .. N : after[k].windows = <<>>
  <2>1. PICK B : B = {k \in 0 .. N : after[k].windows # <<>>}
    OBVIOUS
  <2>2. SUFFICES ASSUME B # {} PROVE FALSE
    BY <2>1
  <2>3. PICK k \in B : \A l \in B : k <= l
    <3>1. B \subseteq Nat
      BY <2>1
    <3>2. QED
      BY <2>2, <3>1, LeastExists
  <2>4. k \in 0 .. N /\ after[k].windows # <<>> /\ k # 0
    BY <2>1, <2>3
  <2>5. k \in 1 .. N /\ k - 1 \in 0 .. N /\ ~(k <= k - 1)
    BY <2>4
  <2>6. after[k - 1].windows = <<>>
    BY <2>1, <2>3, <2>5
  <2>7. QED
    BY <1>1, <2>4, <2>5, <2>6
<1>3. n \in 0 .. N
  OBVIOUS
<1>4. Len(after[n].windows) = 0
  BY <1>2, <1>3
<1>5. QED
  BY <1>1, <1>4 DEF SaysRight, IsRule

(* The limiter refuses only whoever was counted more than the maximum in an *)
(* open window, lets through no more than the maximum of whom it has not    *)
(* forgotten, and stays within its bound, over every sequence of calls in   *)
(* the order of time (rate-limit.ts:8).                                     *)
THEOREM LimiterAlwaysMeetsItsReference ==
  ASSUME NEW calls, Len(calls) \in Nat,
         \A n \in 1 .. Len(calls) : calls[n][2] \in Nat,
         \A m, n \in 1 .. Len(calls) : m <= n => calls[m][2] <= calls[n][2],
         NEW rule, IsRule(rule)
  PROVE  LimiterMeetsItsReference(calls, rule)
<1>1. PICK N : N = Len(calls) /\ N \in Nat
  OBVIOUS
<1>2. PICK after : after = CHOOSE a : AreCalls(a, N, calls, rule)
  OBVIOUS
<1>3. AreCalls(after, N, calls, rule)
  BY <1>1, <1>2, CallsExist
<1>4. Calls(calls, rule) = after
  BY <1>1, <1>2 DEF Calls, AreCalls, CallBy
<1>5. PICK who, at :
        who = [n \in 1 .. N |-> ClientKey(calls[n][1])] /\ at = [n \in 1 .. N |-> calls[n][2]]
  OBVIOUS
<1>6. \A n \in 1 .. N : who[n] = ClientKey(calls[n][1]) /\ at[n] = calls[n][2]
  BY <1>5
<1>7. AreTimes(at, N)
  BY <1>1, <1>6 DEF AreTimes
<1>8. \A n \in 0 .. N : after[n] = CallBy(after, n, calls, rule)
  BY <1>3 DEF AreCalls
<1>9. after[0].windows = <<>>
  <2>1. after[0] = [windows |-> <<>>, allowed |-> TRUE]
    BY <1>1, <1>8 DEF CallBy
  <2>2. QED
    BY <2>1
<1>10. \A n \in 1 .. N : after[n] = Take(after[n - 1].windows, who[n], at[n], rule)
  <2>1. SUFFICES ASSUME NEW n \in 1 .. N PROVE after[n] = Take(after[n - 1].windows, who[n], at[n], rule)
    OBVIOUS
  <2>2. n \in 0 .. N /\ n # 0
    BY <1>1
  <2>3. after[n] = Take(after[n - 1].windows, ClientKey(calls[n][1]), calls[n][2], rule)
    BY <1>8, <2>2 DEF CallBy
  <2>4. QED
    BY <1>6, <2>3
<1>11. \A n \in 1 .. N : SaysRight(after, n, who, at, rule)
  <2>1. CASE rule.max = 0
    BY <1>1, <1>9, <1>10, <2>1, NothingIsCounted
  <2>2. CASE rule.max # 0
    BY <1>1, <1>7, <1>9, <1>10, <2>2, LimiterSaysRight
  <2>3. QED
    BY <2>1, <2>2
<1>12. ASSUME NEW n \in 1 .. N
       PROVE  LET key(m) == ClientKey(calls[m][1])
                  recent == {m \in 1 .. n : key(m) = key(n) /\ calls[n][2] - calls[m][2] < rule.window}
                  forgotten == \E m \in 1 .. n : key(n) \in Keys(after[m - 1].windows)
                                                 /\ key(n) \notin Keys(after[m].windows)
                  through == {m \in recent : calls[m][2] >= Entry(after[n].windows, key(n)).start
                                             /\ after[m].allowed}
              IN /\ Len(after[n].windows) <= rule.maxKeys
                 /\ ~after[n].allowed => Cardinality(recent) > rule.max
                 /\ rule.max = 0 => after[n].allowed
                 /\ rule.max > 0 /\ ~forgotten /\ after[n].allowed => Cardinality(through) <= rule.max
  <2>1. \A m \in 1 .. n : who[m] = ClientKey(calls[m][1]) /\ at[m] = calls[m][2]
    BY <1>1, <1>6
  <2>2. who[n] = ClientKey(calls[n][1]) /\ at[n] = calls[n][2]
    BY <1>6
  <2>3. PICK key, now, start : key = who[n] /\ now = at[n] /\ start = Entry(after[n].windows, who[n]).start
    OBVIOUS
  <2>4. RecentTo(who, at, n, rule) = {m \in 1 .. n : who[m] = key /\ now - at[m] < rule.window}
    BY <2>3 DEF RecentTo
  <2>5. {m \in 1 .. n : who[m] = key /\ now - at[m] < rule.window}
          = {m \in 1 .. n : ClientKey(calls[m][1]) = key /\ now - calls[m][2] < rule.window}
    BY <2>1
  <2>6. PICK recent : recent = RecentTo(who, at, n, rule)
    OBVIOUS
  <2>7. recent = {m \in 1 .. n : ClientKey(calls[m][1]) = ClientKey(calls[n][1])
                                 /\ calls[n][2] - calls[m][2] < rule.window}
    BY <2>2, <2>3, <2>4, <2>5, <2>6
  <2>8. {m \in recent : at[m] >= start /\ after[m].allowed} = {m \in recent : calls[m][2] >= start /\ after[m].allowed}
    BY <2>1, <2>7
  <2>9. SaysRight(after, n, who, at, rule)
    BY <1>11
  <2>10. /\ Len(after[n].windows) <= rule.maxKeys
         /\ ~after[n].allowed => Cardinality(recent) > rule.max
         /\ rule.max = 0 => after[n].allowed
    BY <2>6, <2>9 DEF SaysRight
  <2>11. rule.max > 0 /\ ~IsForgotten(after, n, key) /\ after[n].allowed =>
           Cardinality({m \in recent : at[m] >= start /\ after[m].allowed}) <= rule.max
    BY <2>3, <2>6, <2>9 DEF SaysRight
  <2>12. rule.max > 0 /\ ~IsForgotten(after, n, key) /\ after[n].allowed =>
           Cardinality({m \in recent : calls[m][2] >= start /\ after[m].allowed}) <= rule.max
    BY <2>8, <2>11
  <2>13. key = ClientKey(calls[n][1]) /\ start = Entry(after[n].windows, ClientKey(calls[n][1])).start
    BY <2>2, <2>3
  <2>14. QED
    BY <2>7, <2>10, <2>12, <2>13 DEF IsForgotten
<1>13. QED
  BY <1>1, <1>4, <1>12 DEF LimiterMeetsItsReference

-----------------------------------------------------------------------------
(* The case book *)

IsCaseRecord(c) ==
  c = [key |-> c.key, at |-> c.at, product |-> c.product, expects |-> c.expects, income |-> c.income,
       declared |-> c.declared]

IsBook(b) == b = [cases |-> b.cases, expected |-> b.expected, links |-> b.links]

(* Cases in the order they were opened in, none later than now. *)
AreCases(cases, now, max) ==
  /\ IsStore(cases) /\ Len(cases) <= max
  /\ \A i \in DOMAIN cases : IsCaseRecord(cases[i]) /\ cases[i].at \in Nat /\ cases[i].at <= now
  /\ \A i, j \in DOMAIN cases : i < j => cases[i].at <= cases[j].at

(* The cases of a sweep. *)
AreSwept(swept, cases, now, ttl) ==
  /\ IsPart(swept, cases)
  /\ \A i \in DOMAIN swept : swept[i].at > now - ttl
  /\ \A i \in DOMAIN cases : cases[i].at > now - ttl => \E j \in DOMAIN swept : swept[j] = cases[i]

(* What a call makes of the cases: nothing, a sweep, one more case that a    *)
(* verified presentation opens, or a case with an income or a declaration.  *)
Opened(case, call) ==
  IsCaseRecord(case) /\ case.key = call.id /\ case.at = call.at /\ case.income = 0

Amended(case, c, call) ==
  /\ IsCaseRecord(case) /\ case.key = c.key /\ case.at = c.at
  /\ c.product # "none" => case.product = c.product
  /\ case.income = c.income \/ (call.call = "income" /\ case.income = call.id)

IsAmended(after, swept, call) ==
  \E i \in DOMAIN swept : \E case : Amended(case, swept[i], call) /\ after = Put(swept, case)

IsOpening(after, swept, call, max) ==
  /\ call.call = "identity" /\ call.id \notin Keys(swept)
  /\ \E case : Opened(case, call) /\ after = Keep(swept, case, max)

BookSteps(after, cases, call, rule) ==
  \/ after = cases
  \/ \E swept : /\ AreSwept(swept, cases, call.at, rule.ttl)
                /\ \/ after = swept
                   \/ IsOpening(after, swept, call, rule.max)
                   \/ IsAmended(after, swept, call)

CALLS == {"expect", "link", "identity", "income", "declare"}

(* What a call makes of the book. *)
BookAfter(b, c, rule) ==
  CASE c.call = "expect" -> Expect(b, c.id, c.of, FALSE, rule)
    [] c.call = "link" -> LinkIncome(b, c.id, c.of, rule)
    [] c.call = "identity" -> OpenCase(b, c.id, c.at, rule)
    [] c.call = "income" -> AddIncome(b, c.id, c.at, rule)
    [] c.call = "declare" -> DeclareOutcome(b, c.id, c.at, rule, c.of)

(* A sweep keeps what was opened within the lifetime. *)
LEMMA SweepKeepsTheYoung ==
  ASSUME NEW cases, IsStore(cases), NEW now \in Nat, NEW ttl \in Nat, \A i \in DOMAIN cases : cases[i].at \in Nat
  PROVE  AreSwept(OpenedAfter(cases, now - ttl), cases, now, ttl)
<1>1. PICK some, swept :
        some = {c \in Range(cases) : c.at > now - ttl} /\ swept = Among(cases, some)
  OBVIOUS
<1>2. OpenedAfter(cases, now - ttl) = swept
  BY <1>1 DEF OpenedAfter
<1>3. IsPart(swept, cases) /\ \A n \in DOMAIN swept : swept[n] \in some
  BY <1>1, AmongIsPart
<1>4. IsSequence(cases) /\ Len(cases) \in Nat /\ DOMAIN cases = 1 .. Len(cases)
  BY StoreFacts
<1>5. IsPicked(swept, cases, some, Len(cases))
  BY <1>1, <1>4, AmongPicks
<1>6. ASSUME NEW i \in DOMAIN cases, cases[i].at > now - ttl PROVE \E j \in DOMAIN swept : swept[j] = cases[i]
  <2>1. cases[i] \in some
    BY <1>1, <1>6 DEF Range
  <2>2. QED
    BY <1>4, <1>5, <2>1 DEF IsPicked
<1>7. \A i \in DOMAIN swept : swept[i].at > now - ttl
  BY <1>1, <1>3
<1>8. AreSwept(swept, cases, now, ttl)
  BY <1>3, <1>6, <1>7 DEF AreSwept
<1>9. QED
  BY <1>2, <1>8

(* The book after a sweep: only its cases change. *)
LEMMA BookIsSwept ==
  ASSUME NEW b, IsBook(b), NEW now, NEW rule
  PROVE  LET swept == Sweep(b, now, rule) IN
         /\ IsBook(swept) /\ swept.cases = OpenedAfter(b.cases, now - rule.ttl)
         /\ swept.expected = b.expected /\ swept.links = b.links
<1>1. PICK cases : cases = OpenedAfter(b.cases, now - rule.ttl)
  OBVIOUS
<1>2. Sweep(b, now, rule) = [cases |-> cases, expected |-> b.expected, links |-> b.links]
  BY <1>1 DEF Sweep, IsBook
<1>3. QED
  BY <1>1, <1>2 DEF IsBook

(* A book is a book after every call, and its cases take one of the steps.  *)
LEMMA CallsAreSteps ==
  ASSUME NEW rule, rule.max \in Nat \ {0}, rule.ttl \in Nat, NEW b, IsBook(b),
         NEW call, call.call \in CALLS, call.at \in Nat,
         NEW before \in Nat, AreCases(b.cases, before, rule.max)
  PROVE  LET after == BookAfter(b, call, rule) IN
         IsBook(after) /\ BookSteps(after.cases, b.cases, call, rule)
<1>1. PICK after, now, id, cases, time :
        /\ after = BookAfter(b, call, rule) /\ now = call.at /\ id = call.id /\ cases = b.cases
        /\ time = now - rule.ttl
  OBVIOUS
<1>2. PICK swept : swept = OpenedAfter(cases, time)
  OBVIOUS
<1>3. AreSwept(swept, cases, now, rule.ttl)
  BY <1>1, <1>2, SweepKeepsTheYoung DEF AreCases
<1>4. PICK sweptBook : sweptBook = Sweep(b, now, rule)
  OBVIOUS
<1>5. IsBook(sweptBook) /\ sweptBook.cases = swept
  BY <1>1, <1>2, <1>4, BookIsSwept
<1>6. BookSteps(swept, cases, call, rule)
  BY <1>1, <1>3 DEF BookSteps
<1>7. CASE call.call = "expect"
  <2>1. PICK expected : expected =
          Keep(b.expected, [key |-> id, product |-> call.of, income |-> FALSE], 10 * rule.max)
    OBVIOUS
  <2>2. after = [b EXCEPT !.expected = expected]
    BY <1>1, <1>7, <2>1 DEF BookAfter, Expect
  <2>3. after = [cases |-> b.cases, expected |-> expected, links |-> b.links]
    BY <2>2 DEF IsBook
  <2>4. QED
    BY <1>1, <2>3 DEF IsBook, BookSteps
<1>8. CASE call.call = "link"
  <2>1. PICK links : links = Keep(b.links, [key |-> id, case |-> call.of], 10 * rule.max)
    OBVIOUS
  <2>2. after = [b EXCEPT !.links = links]
    BY <1>1, <1>8, <2>1 DEF BookAfter, LinkIncome
  <2>3. after = [cases |-> b.cases, expected |-> b.expected, links |-> links]
    BY <2>2 DEF IsBook
  <2>4. QED
    BY <1>1, <2>3 DEF IsBook, BookSteps
<1>9. CASE call.call = "identity"
  <2>1. after = OpenCase(b, id, now, rule)
    BY <1>1, <1>9 DEF BookAfter
  <2>2. PICK said : said = IF id \in Keys(b.expected) THEN Entry(b.expected, id)
                           ELSE [key |-> id, product |-> "none", income |-> FALSE]
    OBVIOUS
  <2>3. PICK case : case = [key |-> id, at |-> now, product |-> said.product, expects |-> said.income,
                            income |-> 0, declared |-> "none"]
    OBVIOUS
  <2>4. CASE id \in Keys(swept)
    <3>1. after = sweptBook
      BY <1>4, <1>5, <2>1, <2>4 DEF OpenCase
    <3>2. QED
      BY <1>1, <1>5, <1>6, <3>1
  <2>5. CASE id \notin Keys(swept)
    <3>1. PICK expected, kept : expected = Drop(sweptBook.expected, id) /\ kept = Keep(swept, case, rule.max)
      OBVIOUS
    <3>2. after = [sweptBook EXCEPT !.expected = expected, !.cases = kept]
      BY <1>4, <1>5, <2>1, <2>2, <2>3, <2>5, <3>1 DEF OpenCase
    <3>3. after = [cases |-> kept, expected |-> expected, links |-> sweptBook.links]
      BY <1>5, <3>2 DEF IsBook
    <3>4. IsCaseRecord(case) /\ case.key = id /\ case.at = now /\ case.income = 0
      BY <2>3 DEF IsCaseRecord
    <3>5. IsOpening(kept, swept, call, rule.max)
      BY <1>1, <1>9, <2>5, <3>1, <3>4 DEF IsOpening, Opened
    <3>6. BookSteps(kept, cases, call, rule)
      BY <1>1, <1>3, <3>5 DEF BookSteps
    <3>7. QED
      BY <1>1, <3>3, <3>6 DEF IsBook
  <2>6. QED
    BY <2>4, <2>5
<1>10. ASSUME NEW key, key \in Keys(swept), NEW case, \A i \in DOMAIN cases : cases[i].key = key => Amended(case, cases[i], call)
       PROVE  LET amended == UpdateCase(b, key, now, rule, case) IN
              IsBook(amended) /\ BookSteps(amended.cases, cases, call, rule)
  <2>1. PICK table : table = Put(swept, case)
    OBVIOUS
  <2>2. UpdateCase(b, key, now, rule, case) = [sweptBook EXCEPT !.cases = table]
    BY <1>4, <1>5, <1>10, <2>1 DEF UpdateCase
  <2>3. UpdateCase(b, key, now, rule, case)
          = [cases |-> table, expected |-> sweptBook.expected, links |-> sweptBook.links]
    BY <1>5, <2>2 DEF IsBook
  <2>4. PICK j \in DOMAIN swept : swept[j].key = key
    BY <1>10, KeyIsThere
  <2>5. PICK i \in DOMAIN cases : swept[j] = cases[i]
    BY <1>3 DEF AreSwept, IsPart
  <2>6. Amended(case, swept[j], call)
    BY <1>10, <2>4, <2>5
  <2>7. IsAmended(table, swept, call)
    BY <2>1, <2>6 DEF IsAmended
  <2>8. BookSteps(table, cases, call, rule)
    BY <1>1, <1>3, <2>7 DEF BookSteps
  <2>9. QED
    BY <2>3, <2>8 DEF IsBook
<1>11. ASSUME NEW key, key \in Keys(swept) PROVE \E c : IsCaseRecord(c) /\ Entry(cases, key) = c /\ c.key = key
                                                     /\ \A i \in DOMAIN cases : cases[i].key = key => cases[i] = c
  <2>1. Keys(swept) \subseteq Keys(cases)
    BY <1>3, PartHasFewerKeys DEF AreSwept
  <2>2. PICK i \in DOMAIN cases : cases[i].key = key
    BY <1>11, <2>1, KeyIsThere
  <2>3. IsStore(cases) /\ IsCaseRecord(cases[i])
    BY <1>1 DEF AreCases
  <2>4. Entry(cases, key) = cases[i]
    BY <2>2, <2>3, EntryIs
  <2>5. \A k \in DOMAIN cases : cases[k].key = key => cases[k] = cases[i]
    BY <2>2, <2>3 DEF IsStore
  <2>6. QED
    BY <2>2, <2>3, <2>4, <2>5
<1>12. \A key : HasCase(b, key, now, rule) <=> key \in Keys(swept)
  BY <1>4, <1>5 DEF HasCase
<1>13. CASE call.call = "income"
  <2>1. after = AddIncome(b, id, now, rule)
    BY <1>1, <1>13 DEF BookAfter
  <2>2. PICK key : key = Entry(b.links, id).case
    OBVIOUS
  <2>3. CASE id \notin Keys(b.links)
    <3>1. after = b
      BY <2>1, <2>3 DEF AddIncome
    <3>2. QED
      BY <1>1, <3>1 DEF BookSteps
  <2>4. CASE id \in Keys(b.links) /\ key \notin Keys(swept)
    <3>1. after = sweptBook
      BY <1>4, <1>12, <2>1, <2>2, <2>4 DEF AddIncome
    <3>2. QED
      BY <1>1, <1>5, <1>6, <3>1
  <2>5. CASE id \in Keys(b.links) /\ key \in Keys(swept)
    <3>1. PICK c : IsCaseRecord(c) /\ Entry(cases, key) = c /\ c.key = key
                   /\ \A i \in DOMAIN cases : cases[i].key = key => cases[i] = c
      BY <1>11, <2>5
    <3>2. PICK case : case = [c EXCEPT !.income = id]
      OBVIOUS
    <3>3. after = UpdateCase(b, key, now, rule, case)
      BY <1>1, <1>12, <2>1, <2>2, <2>5, <3>1, <3>2 DEF AddIncome
    <3>4. case = [key |-> c.key, at |-> c.at, product |-> c.product, expects |-> c.expects, income |-> id,
                  declared |-> c.declared]
      BY <3>1, <3>2 DEF IsCaseRecord
    <3>5. Amended(case, c, call)
      BY <1>1, <1>13, <3>4 DEF Amended, IsCaseRecord
    <3>6. QED
      BY <1>1, <1>10, <2>5, <3>1, <3>3, <3>5
  <2>6. QED
    BY <2>3, <2>4, <2>5
<1>14. CASE call.call = "declare"
  <2>1. after = DeclareOutcome(b, id, now, rule, call.of)
    BY <1>1, <1>14 DEF BookAfter
  <2>2. CASE id \notin Keys(swept)
    <3>1. after = sweptBook
      BY <1>4, <1>12, <2>1, <2>2 DEF DeclareOutcome
    <3>2. QED
      BY <1>1, <1>5, <1>6, <3>1
  <2>3. CASE id \in Keys(swept)
    <3>1. PICK c : IsCaseRecord(c) /\ Entry(cases, id) = c /\ c.key = id
                   /\ \A i \in DOMAIN cases : cases[i].key = id => cases[i] = c
      BY <1>11, <2>3
    <3>2. PICK case : case = [c EXCEPT !.product = IF @ = "none" THEN call.of ELSE @, !.declared = call.of]
      OBVIOUS
    <3>3. after = UpdateCase(b, id, now, rule, case)
      BY <1>1, <1>12, <2>1, <2>3, <3>1, <3>2 DEF DeclareOutcome
    <3>4. case = [key |-> c.key, at |-> c.at, product |-> IF c.product = "none" THEN call.of ELSE c.product,
                  expects |-> c.expects, income |-> c.income, declared |-> call.of]
      BY <3>1, <3>2 DEF IsCaseRecord
    <3>5. Amended(case, c, call)
      BY <1>1, <1>14, <3>4 DEF Amended, IsCaseRecord
    <3>6. QED
      BY <1>1, <1>10, <2>3, <3>1, <3>3, <3>5
  <2>4. QED
    BY <2>2, <2>3
<1>15. QED
  BY <1>7, <1>8, <1>9, <1>13, <1>14 DEF CALLS

(* Where a case after a call comes from. *)
ComesFrom(c, cases, call, ttl) ==
  \/ \E i \in DOMAIN cases : c = cases[i]
  \/ \E i \in DOMAIN cases : Amended(c, cases[i], call)
  \/ /\ call.call = "identity" /\ Opened(c, call)
     /\ \A i \in DOMAIN cases : cases[i].key = call.id => ~(cases[i].at > call.at - ttl)

(* A part of the cases is cases. *)
LEMMA PartIsCases ==
  ASSUME NEW cases, NEW now \in Nat, NEW max \in Nat, AreCases(cases, now, max), NEW part, IsPart(part, cases)
  PROVE  AreCases(part, now, max)
<1>1. IsStore(cases) /\ IsStore(part) /\ Len(part) <= Len(cases) /\ Len(cases) <= max
  BY DEF AreCases, IsPart
<1>2. Len(part) \in Nat /\ Len(cases) \in Nat
  BY <1>1, StoreFacts
<1>3. Len(part) <= max
  BY <1>1, <1>2
<1>4. \A n \in DOMAIN part : IsCaseRecord(part[n]) /\ part[n].at \in Nat /\ part[n].at <= now
  BY DEF IsPart, AreCases
<1>5. \A m, n \in DOMAIN part : m < n => part[m].at <= part[n].at
  <2>1. SUFFICES ASSUME NEW m \in DOMAIN part, NEW n \in DOMAIN part, m < n PROVE part[m].at <= part[n].at
    OBVIOUS
  <2>2. PICK i, j \in DOMAIN cases : i < j /\ part[m] = cases[i] /\ part[n] = cases[j]
    BY <2>1 DEF IsPart
  <2>3. QED
    BY <2>2 DEF AreCases
<1>6. QED
  BY <1>1, <1>3, <1>4, <1>5 DEF AreCases

(* Amending one of the cases leaves cases.                                  *)
LEMMA AmendedAreCases ==
  ASSUME NEW swept, NEW now \in Nat, NEW max \in Nat, AreCases(swept, now, max), NEW call, NEW case,
         NEW i \in DOMAIN swept, Amended(case, swept[i], call)
  PROVE  /\ AreCases(Put(swept, case), now, max)
         /\ \A k \in DOMAIN Put(swept, case) : k \in DOMAIN swept
              /\ (Put(swept, case)[k] = swept[k] \/ (k = i /\ Put(swept, case)[k] = case))
<1>1. PICK u, L : u = Put(swept, case) /\ L = Len(swept)
  OBVIOUS
<1>2. IsStore(swept) /\ L \in Nat /\ DOMAIN swept = 1 .. L /\ L <= max
  BY <1>1, StoreFacts DEF AreCases
<1>3. IsPut(u, swept, case)
  BY <1>1, <1>2, PutIsPut
<1>4. case.key = swept[i].key /\ case.at = swept[i].at /\ IsCaseRecord(case)
  BY DEF Amended
<1>5. case.key \in Keys(swept)
  BY <1>2, <1>4, EntryIs
<1>6. IsStore(u) /\ Len(u) = L
  BY <1>1, <1>3, <1>5 DEF IsPut
<1>7. DOMAIN u = 1 .. L
  BY <1>6, StoreFacts
<1>8. \A k \in DOMAIN swept : k # i => swept[k].key # case.key
  BY <1>2, <1>4 DEF IsStore
<1>9. \A k \in DOMAIN u : u[k] = IF k = i THEN case ELSE swept[k]
  BY <1>2, <1>3, <1>4, <1>7, <1>8 DEF IsPut
<1>10. \A k \in DOMAIN u : IsCaseRecord(u[k]) /\ u[k].at = swept[k].at
  BY <1>2, <1>4, <1>7, <1>9 DEF AreCases
<1>11. AreCases(u, now, max)
  BY <1>2, <1>6, <1>7, <1>10 DEF AreCases
<1>12. QED
  BY <1>1, <1>2, <1>7, <1>9, <1>11

(* So does opening one, for which the oldest goes when the book is full.    *)
LEMMA OpenedAreCases ==
  ASSUME NEW swept, NEW now \in Nat, NEW max \in Nat \ {0}, AreCases(swept, now, max),
         NEW call, call.at = now, NEW case, Opened(case, call), call.id \notin Keys(swept)
  PROVE  /\ AreCases(Keep(swept, case, max), now, max)
         /\ \A k \in DOMAIN Keep(swept, case, max) :
              Keep(swept, case, max)[k] = case \/ \E i \in DOMAIN swept : Keep(swept, case, max)[k] = swept[i]
<1>1. PICK room, u, L : room = (IF Len(swept) >= max THEN Tail(swept) ELSE swept) /\ u = Put(room, case) /\ L = Len(swept)
  OBVIOUS
<1>2. Keep(swept, case, max) = u
  BY <1>1 DEF Keep
<1>3. IsStore(swept) /\ IsSequence(swept) /\ L \in Nat /\ DOMAIN swept = 1 .. L /\ L <= max
  BY <1>1, StoreFacts DEF AreCases
<1>4. IsPart(room, swept) /\ Len(room) < max
  <2>1. CASE L >= max
    <3>1. room = Tail(swept) /\ swept # <<>>
      BY <1>1, <1>3, <2>1
    <3>2. IsSequence(room) /\ Len(room) = L - 1 /\ \A k \in 1 .. L - 1 : room[k] = swept[k + 1]
      BY <1>1, <1>3, <3>1, TailShifts
    <3>3. PICK d : d = 1
      OBVIOUS
    <3>4. d \in 0 .. Len(swept) /\ Len(room) = Len(swept) - d /\ \A k \in 1 .. Len(swept) - d : room[k] = swept[k + d]
      BY <1>1, <1>3, <2>1, <3>2, <3>3
    <3>5. IsPart(room, swept)
      BY <1>3, <3>2, <3>4, RestIsPart
    <3>6. QED
      BY <1>3, <3>2, <3>5
  <2>2. CASE ~(L >= max)
    BY <1>1, <1>3, <2>2, IsPartOfItself
  <2>3. QED
    BY <2>1, <2>2
<1>5. AreCases(room, now, max)
  BY <1>4, PartIsCases
<1>6. IsStore(room) /\ Len(room) \in Nat /\ DOMAIN room = 1 .. Len(room)
  BY <1>5, StoreFacts DEF AreCases
<1>7. IsCaseRecord(case) /\ case.key = call.id /\ case.at = now
  BY DEF Opened
<1>8. case.key \notin Keys(room)
  BY <1>4, <1>7, PartHasFewerKeys
<1>9. IsPut(u, room, case)
  BY <1>1, <1>6, PutIsPut
<1>10. IsStore(u) /\ Len(u) = Len(room) + 1 /\ u[Len(room) + 1] = case /\ \A k \in DOMAIN room : u[k] = room[k]
  <2>1. \A k \in DOMAIN room : room[k].key # case.key
    BY <1>8 DEF Keys
  <2>2. QED
    BY <1>8, <1>9, <2>1 DEF IsPut
<1>11. DOMAIN u = 1 .. Len(room) + 1
  BY <1>10, StoreFacts
<1>12. PICK last : last = Len(room) + 1
  OBVIOUS
<1>13. \A k \in DOMAIN u : k \in DOMAIN room \/ k = last
  BY <1>6, <1>11, <1>12
<1>14. \A k \in DOMAIN u : IsCaseRecord(u[k]) /\ u[k].at \in Nat /\ u[k].at <= now
  BY <1>5, <1>7, <1>10, <1>12, <1>13 DEF AreCases
<1>15. \A j, k \in DOMAIN u : j < k => u[j].at <= u[k].at
  <2>1. SUFFICES ASSUME NEW j \in DOMAIN u, NEW k \in DOMAIN u, j < k PROVE u[j].at <= u[k].at
    OBVIOUS
  <2>2. j \in DOMAIN room
    BY <1>6, <1>11, <2>1
  <2>3. CASE k = last
    BY <1>7, <1>10, <1>12, <1>14, <2>3
  <2>4. CASE k # last
    BY <1>5, <1>10, <1>13, <2>1, <2>2, <2>4 DEF AreCases
  <2>5. QED
    BY <2>3, <2>4
<1>16. Len(u) <= max
  BY <1>4, <1>6, <1>10
<1>17. AreCases(u, now, max)
  BY <1>10, <1>14, <1>15, <1>16 DEF AreCases
<1>18. ASSUME NEW k \in DOMAIN u PROVE u[k] = case \/ \E i \in DOMAIN swept : u[k] = swept[i]
  BY <1>4, <1>10, <1>12, <1>13 DEF IsPart
<1>19. QED
  BY <1>2, <1>17, <1>18

(* A step keeps the cases, and each of them comes from somewhere. *)
LEMMA StepsKeepCases ==
  ASSUME NEW rule, rule.max \in Nat \ {0}, rule.ttl \in Nat, NEW cases, NEW before \in Nat,
         AreCases(cases, before, rule.max), NEW call, call.at \in Nat, before <= call.at,
         NEW after, BookSteps(after, cases, call, rule)
  PROVE  /\ AreCases(after, call.at, rule.max)
         /\ \A k \in DOMAIN after : ComesFrom(after[k], cases, call, rule.ttl)
<1>1. PICK now, max, ttl : now = call.at /\ max = rule.max /\ ttl = rule.ttl
  OBVIOUS
<1>2. now \in Nat /\ max \in Nat \ {0} /\ ttl \in Nat
  BY <1>1
<1>3. AreCases(cases, now, max)
  BY <1>1 DEF AreCases
<1>4. CASE after = cases
  BY <1>1, <1>3, <1>4 DEF ComesFrom
<1>5. ASSUME NEW swept, AreSwept(swept, cases, now, ttl),
             after = swept \/ IsOpening(after, swept, call, max) \/ IsAmended(after, swept, call)
      PROVE  AreCases(after, now, max) /\ \A k \in DOMAIN after : ComesFrom(after[k], cases, call, ttl)
  <2>1. IsPart(swept, cases)
    BY <1>5 DEF AreSwept
  <2>2. AreCases(swept, now, max)
    BY <1>2, <1>3, <2>1, PartIsCases
  <2>3. \A j \in DOMAIN swept : \E i \in DOMAIN cases : swept[j] = cases[i]
    BY <2>1 DEF IsPart
  <2>4. CASE after = swept
    BY <2>2, <2>3, <2>4 DEF ComesFrom
  <2>5. CASE IsOpening(after, swept, call, max)
    <3>1. PICK case : Opened(case, call) /\ after = Keep(swept, case, max)
      BY <2>5 DEF IsOpening
    <3>2. call.call = "identity" /\ call.id \notin Keys(swept)
      BY <2>5 DEF IsOpening
    <3>3. AreCases(after, now, max) /\ \A k \in DOMAIN after : after[k] = case \/ \E i \in DOMAIN swept : after[k] = swept[i]
      BY <1>1, <1>2, <2>2, <3>1, <3>2, OpenedAreCases
    <3>4. \A i \in DOMAIN cases : cases[i].key = call.id => ~(cases[i].at > now - ttl)
      BY <1>5, <3>2 DEF AreSwept, Keys
    <3>5. ComesFrom(case, cases, call, ttl)
      BY <1>1, <3>1, <3>2, <3>4 DEF ComesFrom
    <3>6. QED
      BY <2>3, <3>3, <3>5 DEF ComesFrom
  <2>6. CASE IsAmended(after, swept, call)
    <3>1. PICK i \in DOMAIN swept : \E case : Amended(case, swept[i], call) /\ after = Put(swept, case)
      BY <2>6 DEF IsAmended
    <3>2. PICK case : Amended(case, swept[i], call) /\ after = Put(swept, case)
      BY <3>1
    <3>3. AreCases(after, now, max) /\ \A k \in DOMAIN after : k \in DOMAIN swept /\ (after[k] = swept[k] \/ (k = i /\ after[k] = case))
      BY <1>2, <2>2, <3>2, AmendedAreCases
    <3>4. ASSUME NEW k \in DOMAIN after PROVE ComesFrom(after[k], cases, call, ttl)
      <4>1. PICK j \in DOMAIN cases : swept[k] = cases[j]
        BY <2>3, <3>3
      <4>2. after[k] = cases[j] \/ Amended(after[k], cases[j], call)
        BY <3>2, <3>3, <4>1
      <4>3. QED
        BY <4>2 DEF ComesFrom
    <3>5. QED
      BY <3>3, <3>4
  <2>7. QED
    BY <1>5, <2>4, <2>5, <2>6
<1>6. QED
  BY <1>1, <1>4, <1>5 DEF BookSteps

(* A call among the first n. *)
WasCalled(calls, n, call, id) == \E m \in 1 .. n : calls[m].call = call /\ calls[m].id = id

(* A case was opened by a verified presentation, its income put by one. *)
AreVerified(cases, calls, n) ==
  \A i \in DOMAIN cases :
    /\ WasCalled(calls, n, "identity", cases[i].key)
    /\ cases[i].income # 0 => WasCalled(calls, n, "income", cases[i].income)

(* Cases and incomes stay those of verified presentations.                 *)
LEMMA CasesStayVerified ==
  ASSUME NEW calls, NEW n \in Nat \ {0}, NEW cases, AreVerified(cases, calls, n - 1), NEW ttl, NEW after,
         \A k \in DOMAIN after : ComesFrom(after[k], cases, calls[n], ttl)
  PROVE  AreVerified(after, calls, n)
<1>1. n \in 1 .. n /\ 1 .. n - 1 \subseteq 1 .. n
  OBVIOUS
<1>2. \A call, id : WasCalled(calls, n - 1, call, id) => WasCalled(calls, n, call, id)
  BY <1>1 DEF WasCalled
<1>3. WasCalled(calls, n, calls[n].call, calls[n].id)
  BY <1>1 DEF WasCalled
<1>4. ASSUME NEW k \in DOMAIN after
      PROVE  /\ WasCalled(calls, n, "identity", after[k].key)
             /\ after[k].income # 0 => WasCalled(calls, n, "income", after[k].income)
  <2>1. PICK c : c = after[k]
    OBVIOUS
  <2>2. ASSUME NEW i \in DOMAIN cases, c = cases[i] \/ Amended(c, cases[i], calls[n])
        PROVE  /\ WasCalled(calls, n, "identity", c.key)
               /\ c.income # 0 => WasCalled(calls, n, "income", c.income)
    <3>1. /\ WasCalled(calls, n, "identity", cases[i].key)
          /\ cases[i].income # 0 => WasCalled(calls, n, "income", cases[i].income)
      BY <1>2 DEF AreVerified
    <3>2. CASE c = cases[i]
      BY <3>1, <3>2
    <3>3. CASE Amended(c, cases[i], calls[n])
      <4>1. c.key = cases[i].key /\ (c.income = cases[i].income \/ (calls[n].call = "income" /\ c.income = calls[n].id))
        BY <3>3 DEF Amended
      <4>2. QED
        BY <1>3, <3>1, <4>1
    <3>4. QED
      BY <2>2, <3>2, <3>3
  <2>3. CASE calls[n].call = "identity" /\ Opened(c, calls[n])
    BY <1>3, <2>1, <2>3 DEF Opened
  <2>4. QED
    BY <2>1, <2>2, <2>3 DEF ComesFrom
<1>5. QED
  BY <1>4 DEF AreVerified

(* A young case keeps its product. *)
LEMMA ProductStays ==
  ASSUME NEW cases, IsStore(cases), NEW call, NEW ttl, NEW c, ComesFrom(c, cases, call, ttl),
         c.at > call.at - ttl, NEW i \in DOMAIN cases, cases[i].key = c.key, cases[i].product # "none", cases[i].at = c.at
  PROVE  c.product = cases[i].product
<1>1. \A j \in DOMAIN cases : cases[j].key = c.key => j = i
  BY DEF IsStore
<1>2. ~(call.call = "identity" /\ Opened(c, call)
         /\ \A j \in DOMAIN cases : cases[j].key = call.id => ~(cases[j].at > call.at - ttl))
  BY DEF Opened
<1>3. PICK j \in DOMAIN cases : c = cases[j] \/ Amended(c, cases[j], call)
  BY <1>2 DEF ComesFrom
<1>4. CASE c = cases[j]
  BY <1>1, <1>4
<1>5. CASE Amended(c, cases[j], call)
  BY <1>1, <1>5 DEF Amended
<1>6. QED
  BY <1>3, <1>4, <1>5

(* What the n-th call makes of the book. *)
BookBy(after, n, calls, rule) ==
  IF n = 0 THEN EmptyBook
  ELSE BookAfter(after[n - 1], calls[n], rule)

AreBooks(after, n, calls, rule) == after = [k \in 0 .. n |-> BookBy(after, k, calls, rule)]

LEMMA BooksExist ==
  ASSUME NEW calls, NEW rule, NEW n \in Nat
  PROVE  \E after : AreBooks(after, n, calls, rule)
<1>1. PICK B : B = {k \in 0 .. n : ~\E after : AreBooks(after, k, calls, rule)}
  OBVIOUS
<1>2. SUFFICES ASSUME B # {} PROVE FALSE
  <2>1. n \in 0 .. n
    OBVIOUS
  <2>2. QED
    BY <1>1, <2>1
<1>3. PICK m \in B : \A k \in B : m <= k
  <2>1. B \subseteq Nat
    BY <1>1
  <2>2. QED
    BY <1>2, <2>1, LeastExists
<1>4. m \in 0 .. n /\ ~\E after : AreBooks(after, m, calls, rule)
  BY <1>1, <1>3
<1>5. CASE m = 0
  <2>1. PICK after : after = [k \in 0 .. 0 |-> EmptyBook]
    OBVIOUS
  <2>2. AreBooks(after, 0, calls, rule)
    BY <2>1 DEF AreBooks, BookBy
  <2>3. QED
    BY <1>4, <1>5, <2>2
<1>6. CASE m # 0
  <2>1. m \in Nat \ {0} /\ m - 1 \in 0 .. n /\ ~(m <= m - 1)
    BY <1>4, <1>6
  <2>2. PICK after : AreBooks(after, m - 1, calls, rule)
    BY <1>1, <1>3, <2>1
  <2>3. PICK longer : longer = [k \in 0 .. m |-> IF k = m THEN BookBy(after, m, calls, rule) ELSE after[k]]
    OBVIOUS
  <2>4. ASSUME NEW k \in 0 .. m PROVE longer[k] = BookBy(longer, k, calls, rule)
    <3>1. k # 0 => longer[k - 1] = after[k - 1]
      <4>1. k # 0 => k - 1 \in 0 .. m /\ k - 1 # m
        BY <2>1
      <4>2. QED
        BY <2>3, <4>1
    <3>2. BookBy(longer, k, calls, rule) = BookBy(after, k, calls, rule)
      BY <3>1 DEF BookBy
    <3>3. CASE k = m
      BY <2>3, <3>2, <3>3
    <3>4. CASE k # m
      <4>1. k \in 0 .. m - 1
        BY <2>1, <3>4
      <4>2. after[k] = BookBy(after, k, calls, rule)
        BY <2>2, <4>1 DEF AreBooks
      <4>3. QED
        BY <2>3, <3>2, <3>4, <4>2
    <3>5. QED
      BY <3>3, <3>4
  <2>5. longer = [k \in 0 .. m |-> longer[k]]
    BY <2>3
  <2>6. AreBooks(longer, m, calls, rule)
    BY <2>4, <2>5 DEF AreBooks
  <2>7. QED
    BY <1>4, <2>6
<1>7. QED
  BY <1>5, <1>6

IsCall(call) == call.call \in CALLS /\ call.at \in Nat

AreCalled(calls) ==
  /\ Len(calls) \in Nat /\ \A n \in 1 .. Len(calls) : IsCall(calls[n])
  /\ \A m, n \in 1 .. Len(calls) : m <= n => calls[m].at <= calls[n].at

TimeOf(calls, n) == IF n = 0 THEN 0 ELSE calls[n].at

BookIsInOrder(after, n, calls, rule) ==
  /\ IsBook(after[n]) /\ AreCases(after[n].cases, TimeOf(calls, n), rule.max)
  /\ AreVerified(after[n].cases, calls, n)

(* The book stays sound over any number of calls. *)
LEMMA BookStaysSound ==
  ASSUME NEW rule, rule.max \in Nat \ {0}, rule.ttl \in Nat, NEW calls, AreCalled(calls), NEW after,
         \A n \in 0 .. Len(calls) : after[n] = BookBy(after, n, calls, rule)
  PROVE  \A n \in 0 .. Len(calls) : BookIsInOrder(after, n, calls, rule)
<1>1. PICK N : N = Len(calls) /\ N \in Nat
  BY DEF AreCalled
<1>2. PICK B : B = {n \in 0 .. N : ~BookIsInOrder(after, n, calls, rule)}
  OBVIOUS
<1>3. SUFFICES ASSUME B # {} PROVE FALSE
  BY <1>1, <1>2
<1>4. PICK n \in B : \A k \in B : n <= k
  <2>1. B \subseteq Nat
    BY <1>2
  <2>2. QED
    BY <1>3, <2>1, LeastExists
<1>5. n \in 0 .. N /\ ~BookIsInOrder(after, n, calls, rule)
  BY <1>2, <1>4
<1>6. n # 0
  <2>1. 0 \in 0 .. N
    BY <1>1
  <2>2. after[0] = EmptyBook
    BY <1>1, <2>1 DEF BookBy
  <2>3. PICK s : s = <<>>
    OBVIOUS
  <2>4. s \in Seq({}) /\ Len(s) = 0 /\ DOMAIN s = {}
    BY <2>3
  <2>5. IsStore(s)
    BY <2>4, IsOne DEF IsStore
  <2>6. AreCases(s, 0, rule.max)
    BY <2>4, <2>5 DEF AreCases
  <2>7. AreVerified(s, calls, 0)
    BY <2>4 DEF AreVerified
  <2>8. after[0] = [cases |-> s, expected |-> s, links |-> s]
    BY <2>2, <2>3 DEF EmptyBook
  <2>9. IsBook(after[0]) /\ after[0].cases = s
    BY <2>8 DEF IsBook
  <2>10. TimeOf(calls, 0) = 0
    BY DEF TimeOf
  <2>11. BookIsInOrder(after, 0, calls, rule)
    BY <2>6, <2>7, <2>9, <2>10 DEF BookIsInOrder
  <2>12. QED
    BY <1>5, <2>11
<1>7. n \in 1 .. N /\ n - 1 \in 0 .. N /\ ~(n <= n - 1) /\ n \in Nat \ {0}
  BY <1>1, <1>5, <1>6
<1>8. PICK p : p = n - 1
  OBVIOUS
<1>9. BookIsInOrder(after, p, calls, rule)
  BY <1>2, <1>4, <1>7, <1>8
<1>10. PICK b, cases, before, call :
         b = after[p] /\ cases = b.cases /\ before = TimeOf(calls, p) /\ call = calls[n]
  OBVIOUS
<1>11. after[n] = BookAfter(b, call, rule)
  BY <1>1, <1>5, <1>6, <1>8, <1>10 DEF BookBy
<1>12. call.call \in CALLS /\ call.at \in Nat
  BY <1>1, <1>7, <1>10 DEF AreCalled, IsCall
<1>13. before \in Nat /\ before <= call.at
  <2>1. CASE p = 0
    BY <1>10, <1>12, <2>1 DEF TimeOf
  <2>2. CASE p # 0
    <3>1. p \in 1 .. N /\ p <= n
      BY <1>7, <1>8, <2>2
    <3>2. calls[p].at \in Nat /\ calls[p].at <= calls[n].at
      BY <1>1, <1>7, <3>1 DEF AreCalled, IsCall
    <3>3. QED
      BY <1>10, <2>2, <3>2 DEF TimeOf
  <2>3. QED
    BY <2>1, <2>2
<1>14. IsBook(b) /\ AreCases(cases, before, rule.max) /\ AreVerified(cases, calls, p)
  BY <1>9, <1>10 DEF BookIsInOrder
<1>15. IsBook(after[n]) /\ BookSteps(after[n].cases, cases, call, rule)
  BY <1>10, <1>11, <1>12, <1>13, <1>14, CallsAreSteps
<1>16. PICK table : table = after[n].cases
  OBVIOUS
<1>17. AreCases(table, call.at, rule.max) /\ \A k \in DOMAIN table : ComesFrom(table[k], cases, call, rule.ttl)
  BY <1>12, <1>13, <1>14, <1>15, <1>16, StepsKeepCases
<1>18. AreVerified(table, calls, n)
  BY <1>7, <1>8, <1>10, <1>14, <1>17, CasesStayVerified
<1>19. TimeOf(calls, n) = call.at
  BY <1>6, <1>10 DEF TimeOf
<1>20. BookIsInOrder(after, n, calls, rule)
  BY <1>15, <1>16, <1>17, <1>18, <1>19 DEF BookIsInOrder
<1>21. QED
  BY <1>5, <1>20

(* What the list of the cases after the n-th call says. *)
ListsRight(listed, after, n, calls, rule) ==
  /\ Len(listed) <= rule.max
  /\ \A m \in DOMAIN listed :
       /\ listed[m].at > calls[n].at - rule.ttl
       /\ m > 1 => listed[m - 1].at >= listed[m].at
       /\ WasCalled(calls, n, "identity", listed[m].key)
       /\ listed[m].income # 0 => WasCalled(calls, n, "income", listed[m].income)
       /\ n > 1 /\ listed[m].key \in Keys(after[n - 1].cases) =>
            LET before == Entry(after[n - 1].cases, listed[m].key) IN
            before.product # "none" /\ before.at = listed[m].at => listed[m].product = before.product

(* A sound book lists what it should.                                       *)
LEMMA BookListsRight ==
  ASSUME NEW rule, rule.max \in Nat \ {0}, rule.ttl \in Nat, NEW calls, AreCalled(calls), NEW after,
         \A n \in 0 .. Len(calls) : after[n] = BookBy(after, n, calls, rule), NEW n \in 1 .. Len(calls)
  PROVE  ListsRight(ListCases(after[n], calls[n].at, rule), after, n, calls, rule)
<1>1. Len(calls) \in Nat /\ n \in Nat \ {0} /\ n \in 0 .. Len(calls) /\ n - 1 \in 0 .. Len(calls)
  BY DEF AreCalled
<1>2. PICK p : p = n - 1
  OBVIOUS
<1>3. BookIsInOrder(after, p, calls, rule) /\ BookIsInOrder(after, n, calls, rule)
  BY <1>1, <1>2, BookStaysSound
<1>4. PICK earlier, cases, call, now, ttl :
        earlier = after[p].cases /\ cases = after[n].cases /\ call = calls[n] /\ now = call.at /\ ttl = rule.ttl
  OBVIOUS
<1>5. call.call \in CALLS /\ now \in Nat /\ TimeOf(calls, n) = now
  BY <1>1, <1>4 DEF AreCalled, IsCall, TimeOf
<1>6. TimeOf(calls, p) \in Nat /\ TimeOf(calls, p) <= now
  <2>1. CASE p = 0
    BY <1>5, <2>1 DEF TimeOf
  <2>2. CASE p # 0
    <3>1. p \in 1 .. Len(calls) /\ p <= n
      BY <1>1, <1>2, <2>2
    <3>2. calls[p].at \in Nat /\ calls[p].at <= calls[n].at
      BY <3>1 DEF AreCalled, IsCall
    <3>3. QED
      BY <1>4, <2>2, <3>2 DEF TimeOf
  <2>3. QED
    BY <2>1, <2>2
<1>7. /\ IsBook(after[p]) /\ AreCases(earlier, TimeOf(calls, p), rule.max)
      /\ IsBook(after[n]) /\ AreCases(cases, now, rule.max) /\ AreVerified(cases, calls, n)
  BY <1>3, <1>4, <1>5 DEF BookIsInOrder
<1>8. after[n] = BookAfter(after[p], call, rule)
  BY <1>1, <1>2, <1>4 DEF BookBy
<1>9. BookSteps(cases, earlier, call, rule)
  BY <1>4, <1>5, <1>6, <1>7, <1>8, CallsAreSteps
<1>10. \A k \in DOMAIN cases : ComesFrom(cases[k], earlier, call, ttl)
  BY <1>4, <1>5, <1>6, <1>7, <1>9, StepsKeepCases
<1>11. PICK kept, L, listed :
         kept = OpenedAfter(cases, now - ttl) /\ L = Len(kept) /\ listed = [i \in 1 .. L |-> kept[(L - i) + 1]]
  OBVIOUS
<1>12. ListCases(after[n], now, rule) = listed
  <2>1. Sweep(after[n], now, rule).cases = kept
    BY <1>4, <1>7, <1>11, BookIsSwept
  <2>2. QED
    BY <1>11, <2>1 DEF ListCases, Reverse
<1>13. AreSwept(kept, cases, now, ttl)
  BY <1>4, <1>5, <1>7, <1>11, SweepKeepsTheYoung DEF AreCases
<1>14. IsPart(kept, cases)
  BY <1>13 DEF AreSwept
<1>15. AreCases(kept, now, rule.max)
  BY <1>5, <1>7, <1>14, PartIsCases
<1>16. IsSequence(kept) /\ L \in Nat /\ DOMAIN kept = 1 .. L /\ L <= rule.max
  BY <1>11, <1>15, StoreFacts DEF AreCases
<1>17. DOMAIN listed = 1 .. L /\ \A m \in 1 .. L : L - m + 1 \in DOMAIN kept /\ listed[m] = kept[L - m + 1]
  BY <1>11, <1>16
<1>18. Len(listed) <= rule.max
  <2>1. Len(listed) = L
    <3>1. PICK S : S = Range(kept)
      OBVIOUS
    <3>2. \A m \in 1 .. L : kept[L - m + 1] \in S
      BY <1>17, <3>1 DEF Range
    <3>3. listed \in Seq(S)
      BY <1>11, <1>16, <1>17, <3>2
    <3>4. QED
      BY <1>16, <1>17, <3>3
  <2>2. QED
    BY <1>16, <2>1
<1>19. ASSUME NEW m \in 1 .. L
       PROVE  /\ listed[m].at > now - ttl
              /\ m > 1 => listed[m - 1].at >= listed[m].at
              /\ WasCalled(calls, n, "identity", listed[m].key)
              /\ listed[m].income # 0 => WasCalled(calls, n, "income", listed[m].income)
              /\ listed[m].key \in Keys(earlier) =>
                   LET before == Entry(earlier, listed[m].key) IN
                   before.product # "none" /\ before.at = listed[m].at => listed[m].product = before.product
  <2>1. PICK i \in DOMAIN kept : i = L - m + 1 /\ listed[m] = kept[i]
    BY <1>17
  <2>2. PICK c : c = listed[m]
    OBVIOUS
  <2>3. c = kept[i]
    BY <2>1, <2>2
  <2>4. PICK k \in DOMAIN cases : c = cases[k]
    BY <1>14, <2>3 DEF IsPart
  <2>5. c.at > now - ttl
    BY <1>13, <2>3 DEF AreSwept
  <2>6. m > 1 => listed[m - 1].at >= c.at
    <3>1. SUFFICES ASSUME m > 1 PROVE listed[m - 1].at >= c.at
      OBVIOUS
    <3>2. m - 1 \in 1 .. L /\ L - (m - 1) + 1 = i + 1
      BY <1>16, <2>1, <3>1
    <3>3. i + 1 \in DOMAIN kept /\ listed[m - 1] = kept[i + 1] /\ i < i + 1
      BY <1>16, <1>17, <3>2
    <3>4. kept[i].at <= kept[i + 1].at /\ kept[i].at \in Nat /\ kept[i + 1].at \in Nat
      BY <1>15, <3>3 DEF AreCases
    <3>5. QED
      BY <2>3, <3>3, <3>4
  <2>7. WasCalled(calls, n, "identity", c.key) /\ (c.income # 0 => WasCalled(calls, n, "income", c.income))
    BY <1>7, <2>4 DEF AreVerified
  <2>8. ASSUME c.key \in Keys(earlier), Entry(earlier, c.key).product # "none", Entry(earlier, c.key).at = c.at
        PROVE  c.product = Entry(earlier, c.key).product
    <3>1. PICK j \in DOMAIN earlier : earlier[j].key = c.key
      BY <2>8, KeyIsThere
    <3>2. IsStore(earlier)
      BY <1>7 DEF AreCases
    <3>3. Entry(earlier, c.key) = earlier[j]
      BY <3>1, <3>2, EntryIs
    <3>4. ComesFrom(c, earlier, call, ttl)
      BY <1>10, <2>4
    <3>5. c.at > call.at - ttl
      BY <1>4, <2>5
    <3>6. QED
      BY <2>8, <3>1, <3>2, <3>3, <3>4, <3>5, ProductStays
  <2>9. QED
    BY <2>2, <2>5, <2>6, <2>7, <2>8
<1>20. ListsRight(listed, after, n, calls, rule)
  BY <1>2, <1>4, <1>17, <1>18, <1>19 DEF ListsRight
<1>21. QED
  BY <1>4, <1>12, <1>20

(* The case book holds a handful of cases, none longer than its time, the   *)
(* newest first, opened and given an income by verified presentations only, *)
(* over every sequence of calls in the order of time (backoffice.ts:8).     *)
THEOREM BookAlwaysMeetsItsReference ==
  ASSUME NEW calls, AreCalled(calls), NEW rule, rule.max \in Nat \ {0}, rule.ttl \in Nat
  PROVE  BookMeetsItsReference(calls, rule)
<1>1. PICK N : N = Len(calls) /\ N \in Nat
  BY DEF AreCalled
<1>2. PICK after : after = CHOOSE a : AreBooks(a, N, calls, rule)
  OBVIOUS
<1>3. AreBooks(after, N, calls, rule)
  BY <1>1, <1>2, BooksExist
<1>4. BookCalls(calls, rule) = after
  BY <1>1, <1>2 DEF BookCalls, AreBooks, BookBy, BookAfter
<1>5. \A n \in 0 .. N : after[n] = BookBy(after, n, calls, rule)
  BY <1>3 DEF AreBooks
<1>6. \A n \in 1 .. N : ListsRight(ListCases(after[n], calls[n].at, rule), after, n, calls, rule)
  BY <1>1, <1>5, BookListsRight
<1>7. QED
  BY <1>1, <1>4, <1>6 DEF BookMeetsItsReference, ListsRight, WasCalled

-----------------------------------------------------------------------------
(* The gateway *)

(* Nothing but the listed endpoints is reached, within whatever limits and   *)
(* under any configuration (allow-list.ts:122), and of a tenant with a form *)
(* only the very request its pass was made for (hosted-form-gate.ts:29).    *)
THEOREM GatewayKeepsItsListAlways ==
  ASSUME NEW config, NEW target, NEW request, NEW within
  PROVE  GatewayKeepsItsList(config, target, request, within)
<1>1. PICK decision : decision = Decide(config, target, request, within)
  OBVIOUS
<1>2. IsAllowed(target, request) => <<target, request.endpoint>> \notin NEGATIVE_PROBES
  BY DEF IsAllowed, RulesOf, ENGINE_RULES, PLATFORM_RULES, NEGATIVE_PROBES
<1>3. CASE "general" \in within /\ IsAllowed(target, request) /\ ClassOf(target, request) \in within
  <2>1. CASE target = "engine" /\ IsGated(config, request)
    BY <1>1, <1>2, <1>3, <2>1
    DEF GatewayKeepsItsList, Decide, HostedFormGate, PassFits, HostedFormAuthorizePass, Forwarded, NoPass
  <2>2. CASE ~(target = "engine" /\ IsGated(config, request))
    BY <1>1, <1>2, <1>3, <2>2 DEF GatewayKeepsItsList
  <2>3. QED
    BY <2>1, <2>2
<1>4. CASE ~("general" \in within /\ IsAllowed(target, request) /\ ClassOf(target, request) \in within)
  <2>1. decision.answer \in {404, 429}
    BY <1>1, <1>4 DEF Decide
  <2>2. QED
    BY <1>1, <2>1 DEF GatewayKeepsItsList
<1>5. QED
  BY <1>3, <1>4

(* The gateway takes no key of the protocol from an answer but the details  *)
(* of a token, none from a success but these, and nothing unless it is told *)
(* to (test-gateway/src/main.ts:111).                                       *)
THEOREM AnswersKeepTheProtocol ==
  ASSUME NEW config, NEW request, NEW answer, answer.status \in Nat
  PROVE  AnswerKeepsTheProtocol(config, request, answer)
<1>1. IsSuccess(answer.status) => ~StripsErrorKeys(config, answer)
  BY DEF IsSuccess, StripsErrorKeys
<1>2. ~config.pinnedWalletCompat => ~InjectsKeyAttestation(config, request, answer) /\ ~StripsTokenDetails(config, request, answer)
  BY DEF InjectsKeyAttestation, StripsTokenDetails
<1>3. ~config.stripErrorKeys => ~StripsErrorKeys(config, answer)
  BY DEF StripsErrorKeys
<1>4. InjectsKeyAttestation(config, request, answer) => ~StripsTokenDetails(config, request, answer)
  BY DEF InjectsKeyAttestation, StripsTokenDetails
<1>5. QED
  BY <1>1, <1>2, <1>3, <1>4 DEF AnswerKeepsTheProtocol, Outgoing

-----------------------------------------------------------------------------
(* The lists *)

(* Rows of a table with a primary key. *)
IsTable(rows) ==
  /\ IsFiniteSet(rows)
  /\ \A r \in rows : r.at \in Int /\ r.id \in Int
  /\ \A r, s \in rows : r.id = s.id => r = s

(* A list is in the order its cursor assumes: newest first, each row once.  *)
LEMMA NewestFirstSorts ==
  ASSUME NEW rows, IsTable(rows)
  PROVE  LET n == Cardinality(rows)  ordered == NewestFirst(rows) IN
         /\ n \in Nat /\ ordered \in [1 .. n -> rows]
         /\ \A r \in rows : \E k \in 1 .. n : ordered[k] = r
         /\ \A j, k \in 1 .. n : j < k => Newest(ordered[j], ordered[k])
<1>. DEFINE before(r) == {s \in rows : Newest(s, r)}
            n == Cardinality(rows)
<1>1. n \in Nat
  BY FS_CardinalityType DEF IsTable
<1>2. \A r \in rows : IsFiniteSet(before(r)) /\ Cardinality(before(r)) \in Nat
  BY FS_Subset, FS_CardinalityType DEF IsTable
<1>3. PICK rank : rank = [r \in rows |-> Cardinality(before(r))]
  OBVIOUS
<1>4. rank \in [rows -> Nat] /\ \A r \in rows : rank[r] = Cardinality(before(r))
  BY <1>2, <1>3
<1>5. ASSUME NEW r \in rows, NEW s \in rows, r # s PROVE Newest(r, s) \/ Newest(s, r)
  <2>1. r.id # s.id
    BY <1>5 DEF IsTable
  <2>2. r.at \in Int /\ s.at \in Int /\ r.id \in Int /\ s.id \in Int
    BY DEF IsTable
  <2>3. QED
    BY <2>1, <2>2 DEF Newest
<1>6. \A r \in rows : ~Newest(r, r)
  BY DEF Newest, IsTable
<1>7. ASSUME NEW r \in rows, NEW s \in rows, NEW t \in rows, Newest(r, s), Newest(s, t)
      PROVE  Newest(r, t)
  <2>1. /\ r.at \in Int /\ s.at \in Int /\ t.at \in Int
        /\ r.id \in Int /\ s.id \in Int /\ t.id \in Int
    BY DEF IsTable
  <2>2. QED
    BY <1>7, <2>1 DEF Newest
<1>8. ASSUME NEW r \in rows, NEW s \in rows, Newest(r, s) PROVE rank[r] < rank[s]
  <2>1. before(r) \cup {r} \subseteq before(s)
    BY <1>7, <1>8
  <2>2. Cardinality(before(r) \cup {r}) = Cardinality(before(r)) + 1
    <3>1. r \notin before(r)
      BY <1>6
    <3>2. QED
      BY <1>2, <3>1, FS_AddElement
  <2>3. Cardinality(before(r) \cup {r}) <= Cardinality(before(s))
    BY <1>2, <2>1, FS_Subset
  <2>4. rank[r] + 1 <= rank[s]
    BY <1>4, <2>2, <2>3
  <2>5. QED
    BY <1>4, <2>4
<1>9. \A r \in rows : rank[r] + 1 \in 1 .. n
  <2>1. SUFFICES ASSUME NEW r \in rows PROVE rank[r] + 1 \in 1 .. n
    OBVIOUS
  <2>2. before(r) \subseteq rows \ {r}
    BY <1>6
  <2>3. IsFiniteSet(rows \ {r}) /\ Cardinality(rows \ {r}) = n - 1
    BY FS_RemoveElement DEF IsTable
  <2>4. Cardinality(before(r)) <= n - 1
    BY <2>2, <2>3, FS_Subset
  <2>5. QED
    BY <1>1, <1>4, <2>4
<1>10. PICK place : place = [r \in rows |-> rank[r] + 1]
  OBVIOUS
<1>11. place \in Injection(rows, 1 .. n)
  <2>1. place \in [rows -> 1 .. n]
    BY <1>9, <1>10
  <2>2. ASSUME NEW r \in rows, NEW s \in rows, place[r] = place[s] PROVE r = s
    <3>1. rank[r] = rank[s] /\ rank[r] \in Nat
      BY <1>4, <1>10, <2>2
    <3>2. ~(rank[r] < rank[s]) /\ ~(rank[s] < rank[r])
      BY <3>1
    <3>3. QED
      BY <1>5, <1>8, <3>2
  <2>3. QED
    BY <2>1, <2>2 DEF Injection, IsInjective
<1>12. \A k \in 1 .. n : \E r \in rows : place[r] = k
  <2>1. IsFiniteSet(1 .. n) /\ Cardinality(1 .. n) = n
    <3>1. Cardinality(1 .. n) = IF 1 > n THEN 0 ELSE n - 1 + 1
      BY <1>1, FS_Interval
    <3>2. QED
      BY <1>1, <3>1, FS_Interval
  <2>2. place \in Surjection(rows, 1 .. n)
    BY <1>11, <2>1, FS_Injection
  <2>3. QED
    BY <2>2 DEF Surjection
<1>13. PICK ordered : ordered = NewestFirst(rows)
  OBVIOUS
<1>14. ASSUME NEW k \in 1 .. n PROVE ordered[k] \in rows /\ rank[ordered[k]] = k - 1
  <2>1. \E r \in rows : Cardinality(before(r)) = k - 1
    <3>1. PICK r \in rows : place[r] = k
      BY <1>12
    <3>2. rank[r] = k - 1
      BY <1>4, <1>10, <3>1
    <3>3. QED
      BY <1>4, <3>2
  <2>2. ordered[k] = CHOOSE r \in rows : Cardinality(before(r)) = k - 1
    BY <1>13 DEF NewestFirst
  <2>3. ordered[k] \in rows /\ Cardinality(before(ordered[k])) = k - 1
    BY <2>1, <2>2
  <2>4. QED
    BY <1>4, <2>3
<1>15. ordered \in [1 .. n -> rows]
  BY <1>13, <1>14 DEF NewestFirst
<1>16. ASSUME NEW r \in rows PROVE \E k \in 1 .. n : ordered[k] = r
  <2>1. PICK k \in 1 .. n : k = rank[r] + 1
    BY <1>9
  <2>2. ordered[k] \in rows /\ rank[ordered[k]] = rank[r]
    BY <1>4, <1>14, <2>1
  <2>3. place[ordered[k]] = place[r]
    BY <1>10, <2>2
  <2>4. QED
    BY <1>11, <2>2, <2>3 DEF Injection, IsInjective
<1>17. ASSUME NEW j \in 1 .. n, NEW k \in 1 .. n, j < k PROVE Newest(ordered[j], ordered[k])
  <2>1. PICK r \in rows, s \in rows : r = ordered[j] /\ s = ordered[k]
    BY <1>14
  <2>2. rank[r] = j - 1 /\ rank[s] = k - 1
    BY <1>14, <2>1
  <2>3. ~(rank[s] < rank[r]) /\ r # s
    BY <1>17, <2>2
  <2>4. QED
    BY <1>5, <1>8, <2>1, <2>3
<1>18. QED
  BY <1>1, <1>13, <1>15, <1>16, <1>17

(* What a page shows. *)
SeenOn(page) == {page.items[k].id : k \in DOMAIN page.items}

(* A page shows the rows after its cursor up to the next one, and the next  *)
(* one is that of a row.                                                    *)
IsPage(page, rows, cursor) ==
  LET after == {r \in rows : AfterCursor(r, cursor)} IN
  /\ SeenOn(page) = {r.id : r \in {a \in after : page.next.given => ~AfterCursor(a, page.next)}}
  /\ IF page.next.given THEN \E last \in after : page.next = EncodeCursor(last)
     ELSE page.next = NoCursor

(* What is after a cursor is older than what the cursor names.              *)
LEMMA AfterIsOlder ==
  ASSUME NEW a, NEW last, a.at \in Int, last.at \in Int, a.id \in Int, last.id \in Int
  PROVE  AfterCursor(a, EncodeCursor(last)) <=> Newest(last, a)
BY DEF AfterCursor, EncodeCursor, Newest

(* The page is made of the rows after the cursor.                           *)
IsListing(p, rows, cursor, page, detail) ==
  p = Listed(FirstOf(NewestFirst({r \in rows : AfterCursor(r, cursor)}), page.limit + 1), page, detail)

(* Every item says of a row what the list selects.                          *)
Says(p, rows, detail) == \A k \in DOMAIN p.items : \E r \in rows : p.items[k].detail = detail[r]

(* A page is of the rows after its cursor and up to its own.                *)
LEMMA KeysetPage ==
  ASSUME NEW rows, IsTable(rows), NEW cursor, NEW limit \in Nat \ {0}, NEW detail, NEW page,
         page.limit = limit, NEW p, IsListing(p, rows, cursor, page, detail)
  PROVE  IsPage(p, rows, cursor) /\ Says(p, rows, detail)
<1>1. PICK after : after = {r \in rows : AfterCursor(r, cursor)}
  OBVIOUS
<1>2. IsTable(after)
  BY <1>1, FS_Subset DEF IsTable
<1>3. PICK m, ordered : m = Cardinality(after) /\ ordered = NewestFirst(after)
  OBVIOUS
<1>4. /\ m \in Nat /\ ordered \in [1 .. m -> after]
      /\ \A r \in after : \E k \in 1 .. m : ordered[k] = r
      /\ \A j, k \in 1 .. m : j < k => Newest(ordered[j], ordered[k])
  BY <1>2, <1>3, NewestFirstSorts
<1>5. PICK keyset, shown : keyset = FirstOf(ordered, limit + 1) /\ shown = IF m < limit + 1 THEN m ELSE limit + 1
  OBVIOUS
<1>6. /\ DOMAIN keyset = 1 .. shown /\ \A k \in 1 .. shown : keyset[k] = ordered[k]
  <2>1. PICK n : n = limit + 1 /\ n \in Nat
    OBVIOUS
  <2>2. keyset = FirstOf(ordered, n) /\ shown = IF m < n THEN m ELSE n
    BY <1>5, <2>1
  <2>3. ordered \in Seq(after) /\ Len(ordered) = m
    BY <1>4
  <2>4. FirstOf(ordered, n) = SubSeq(ordered, 1, shown)
    BY <2>2, <2>3 DEF FirstOf
  <2>5. shown \in Nat /\ shown <= m
    BY <1>4, <1>5
  <2>6. /\ DOMAIN SubSeq(ordered, 1, shown) = 1 .. shown
        /\ \A k \in 1 .. shown : SubSeq(ordered, 1, shown)[k] = ordered[k]
    BY <2>3, <2>5
  <2>7. QED
    BY <2>2, <2>4, <2>6
<1>7. PICK listed : listed = [n \in DOMAIN keyset |-> [id |-> keyset[n].id, at |-> keyset[n].at,
                                                   detail |-> detail[keyset[n]]]]
  OBVIOUS
<1>8. listed = [n \in 1 .. shown |-> [id |-> ordered[n].id, at |-> ordered[n].at,
                                     detail |-> detail[ordered[n]]]]
  BY <1>6, <1>7
<1>9. shown \in Nat /\ shown <= m
  BY <1>4, <1>5
<1>10. PICK S : listed \in [1 .. shown -> S]
  <2>1. listed \in [1 .. shown -> {listed[k] : k \in 1 .. shown}]
    BY <1>8
  <2>2. QED
    BY <2>1
<1>11. listed \in Seq(S) /\ Len(listed) = shown
  BY <1>9, <1>10
<1>12. p = ToPage(listed, limit)
  BY <1>1, <1>3, <1>5, <1>7 DEF IsListing, Listed
<1>13. \A k \in 1 .. m : ordered[k] \in after /\ ordered[k].at \in Int /\ ordered[k].id \in Int
  BY <1>2, <1>4 DEF IsTable
<1>14. ASSUME shown <= limit
       PROVE  IsPage(p, rows, cursor) /\ Says(p, rows, detail)
  <2>1. p.items = listed /\ p.next = NoCursor /\ shown = m
    BY <1>4, <1>5, <1>11, <1>12, <1>14 DEF ToPage
  <2>2. SeenOn(p) = {ordered[k].id : k \in 1 .. m}
    BY <1>8, <2>1 DEF SeenOn
  <2>3. SeenOn(p) = {r.id : r \in after}
    BY <1>4, <2>2
  <2>4. ~p.next.given
    BY <2>1 DEF NoCursor
  <2>5. IsPage(p, rows, cursor)
    BY <1>1, <2>1, <2>3, <2>4 DEF IsPage
  <2>6. \A k \in DOMAIN p.items : p.items[k].detail = detail[ordered[k]] /\ ordered[k] \in rows
    BY <1>1, <1>8, <1>13, <2>1
  <2>7. QED
    BY <2>5, <2>6 DEF Says
<1>15. ASSUME ~(shown <= limit)
       PROVE  IsPage(p, rows, cursor) /\ Says(p, rows, detail)
  <2>1. /\ shown = limit + 1 /\ limit \in 1 .. m /\ limit \in 1 .. shown
        /\ \A k \in 1 .. limit : k \in 1 .. m /\ k \in 1 .. shown
    BY <1>4, <1>5, <1>9, <1>15
  <2>2. p.items = SubSeq(listed, 1, limit) /\ p.next = EncodeCursor(listed[limit])
    BY <1>11, <1>12, <1>15 DEF ToPage
  <2>3. DOMAIN p.items = 1 .. limit /\ \A k \in 1 .. limit : p.items[k] = listed[k]
    BY <1>11, <2>1, <2>2
  <2>4. PICK last : last = ordered[limit]
    OBVIOUS
  <2>5. last \in after /\ p.next = EncodeCursor(last)
    <3>1. listed[limit].at = last.at /\ listed[limit].id = last.id
      BY <1>8, <2>1, <2>4
    <3>2. QED
      BY <1>13, <2>1, <2>2, <2>4, <3>1 DEF EncodeCursor
  <2>6. p.next.given
    BY <2>5 DEF EncodeCursor
  <2>7. SeenOn(p) = {ordered[k].id : k \in 1 .. limit}
    <3>1. \A k \in 1 .. limit : listed[k].id = ordered[k].id
      BY <1>8, <2>1
    <3>2. \A k \in 1 .. limit : p.items[k].id = ordered[k].id
      BY <2>3, <3>1
    <3>3. QED
      BY <2>3, <3>2 DEF SeenOn
  <2>8. \A k \in 1 .. m : AfterCursor(ordered[k], p.next) <=> Newest(last, ordered[k])
    BY <1>13, <2>1, <2>4, <2>5, AfterIsOlder
  <2>9. ASSUME NEW k \in 1 .. m PROVE AfterCursor(ordered[k], p.next) <=> limit < k
    <3>1. Newest(last, ordered[k]) => ~Newest(ordered[k], last) /\ ordered[k] # last
      BY <1>13, <2>1, <2>4 DEF Newest
    <3>2. limit < k => Newest(last, ordered[k])
      BY <1>4, <2>1, <2>4
    <3>3. k < limit => Newest(ordered[k], last)
      BY <1>4, <2>1, <2>4
    <3>4. QED
      BY <2>1, <2>4, <2>8, <3>1, <3>2, <3>3
  <2>10. {a \in after : ~AfterCursor(a, p.next)} = {ordered[k] : k \in 1 .. limit}
    <3>1. ASSUME NEW a PROVE a \in after /\ ~AfterCursor(a, p.next) <=> \E k \in 1 .. limit : a = ordered[k]
      <4>1. ASSUME a \in after, ~AfterCursor(a, p.next) PROVE \E k \in 1 .. limit : a = ordered[k]
        <5>1. PICK k \in 1 .. m : ordered[k] = a
          BY <1>4, <4>1
        <5>2. ~(limit < k)
          BY <2>9, <4>1, <5>1
        <5>3. k \in 1 .. limit
          BY <1>4, <2>1, <5>2
        <5>4. QED
          BY <5>1, <5>3
      <4>2. ASSUME NEW k \in 1 .. limit, a = ordered[k] PROVE a \in after /\ ~AfterCursor(a, p.next)
        <5>1. k \in 1 .. m /\ ~(limit < k)
          BY <1>4, <2>1
        <5>2. QED
          BY <1>13, <2>9, <4>2, <5>1
      <4>3. QED
        BY <4>1, <4>2
    <3>2. QED
      BY <3>1
  <2>11. SeenOn(p) = {r.id : r \in {a \in after : p.next.given => ~AfterCursor(a, p.next)}}
    BY <2>6, <2>7, <2>10
  <2>12. IsPage(p, rows, cursor)
    BY <1>1, <2>5, <2>6, <2>11 DEF IsPage
  <2>13. \A k \in DOMAIN p.items : p.items[k].detail = detail[ordered[k]] /\ ordered[k] \in rows
    <3>1. \A k \in 1 .. limit : listed[k].detail = detail[ordered[k]]
      BY <1>8, <2>1
    <3>2. QED
      BY <1>1, <1>13, <2>1, <2>3, <3>1
  <2>14. QED
    BY <2>12, <2>13 DEF Says
<1>16. QED
  BY <1>14, <1>15

ListRows(list, rows, ctx, of) == {r \in rows : InList(list, r, ctx, of)}

(* Nothing of a result or of an engine session is in what a list says.      *)
IsMetadata(detail) == {"result", "session"} \cap DOMAIN detail = {}

(* A list is its keyset, with metadata. *)
IsKeysetOf(p, rows, ctx, page, listed) ==
  \E base, detail :
    /\ {r \in base : r.tenant = ctx /\ AfterCursor(r, page.cursor)} = {r \in listed : AfterCursor(r, page.cursor)}
    /\ \A r \in rows : IsMetadata(detail[r])
    /\ p = Listed(Keyset(base, ctx, page), page, detail)

(* Every list of a tenant is a keyset,                                      *)
LEMMA TenantListsAreKeysets ==
  ASSUME NEW list \in TenantLists, NEW rows, NEW ctx, NEW of, NEW query, NEW page,
         ParsePageRequest(query) = page, page.refused = "no"
  PROVE  IsKeysetOf(ListPage(list, rows, ctx, of, query), rows, ctx, page, ListRows(list, rows, ctx, of))
<1>1. PICK p : p = ListPage(list, rows, ctx, of, query)
  OBVIOUS
<1>2. p = CASE list = "organisations" -> Organisations(rows, ctx, page)
            [] list = "rp-services" -> RelyingPartyServices(rows, ctx, page)
            [] list = "intended-uses" -> IntendedUses(rows, ctx, of, page)
            [] list = "presentation-policies" -> PresentationPoliciesList(rows, ctx, page)
            [] list = "attestation-providers" -> AttestationProviders(rows, ctx, page)
            [] list = "credential-types" -> CredentialTypesList(rows, ctx, page)
            [] list = "issuance-policies" -> IssuancePoliciesList(rows, ctx, page)
  BY <1>1 DEF ListPage, TenantListing, AssertTenantMatches
<1>3. CASE list = "organisations"
  <2>1. PICK detail : detail = [r \in rows |-> [name |-> r.name]]
    OBVIOUS
  <2>2. \A r \in rows : IsMetadata(detail[r])
    BY <2>1 DEF IsMetadata
  <2>3. p = Listed(Keyset(rows, ctx, page), page, detail)
    BY <1>1, <1>2, <1>3, <2>1 DEF Organisations
  <2>4. {r \in rows : r.tenant = ctx /\ AfterCursor(r, page.cursor)}
          = {r \in ListRows(list, rows, ctx, of) : AfterCursor(r, page.cursor)}
    BY <1>3 DEF ListRows, InList
  <2>5. QED
    BY <1>1, <2>2, <2>3, <2>4 DEF IsKeysetOf
<1>4. CASE list = "rp-services"
  <2>1. PICK detail : detail = [r \in rows |-> [name |-> r.name, hasWebhookEndpoint |-> r.parent # 0]]
    OBVIOUS
  <2>2. \A r \in rows : IsMetadata(detail[r])
    BY <2>1 DEF IsMetadata
  <2>3. p = Listed(Keyset(rows, ctx, page), page, detail)
    BY <1>1, <1>2, <1>4, <2>1 DEF RelyingPartyServices
  <2>4. {r \in rows : r.tenant = ctx /\ AfterCursor(r, page.cursor)}
          = {r \in ListRows(list, rows, ctx, of) : AfterCursor(r, page.cursor)}
    BY <1>4 DEF ListRows, InList
  <2>5. QED
    BY <1>1, <2>2, <2>3, <2>4 DEF IsKeysetOf
<1>5. CASE list = "intended-uses"
  <2>1. PICK detail : detail = [r \in rows |-> [name |-> r.name]]
    OBVIOUS
  <2>2. \A r \in rows : IsMetadata(detail[r])
    BY <2>1 DEF IsMetadata
  <2>3. p = Listed(Keyset({r \in rows : r.parent = of}, ctx, page), page, detail)
    BY <1>1, <1>2, <1>5, <2>1 DEF IntendedUses
  <2>4. {r \in {r \in rows : r.parent = of} : r.tenant = ctx /\ AfterCursor(r, page.cursor)}
          = {r \in ListRows(list, rows, ctx, of) : AfterCursor(r, page.cursor)}
    BY <1>5 DEF ListRows, InList
  <2>5. QED
    BY <1>1, <2>2, <2>3, <2>4 DEF IsKeysetOf
<1>6. CASE list = "presentation-policies"
  <2>1. PICK detail : detail = [r \in rows |-> [name |-> r.name, status |-> r.state, relyingPartyServiceId |-> r.parent,
                                         publishedVersion |-> LatestPublished(r)]]
    OBVIOUS
  <2>2. \A r \in rows : IsMetadata(detail[r])
    BY <2>1 DEF IsMetadata
  <2>3. p = Listed(Keyset(rows, ctx, page), page, detail)
    BY <1>1, <1>2, <1>6, <2>1 DEF PresentationPoliciesList
  <2>4. {r \in rows : r.tenant = ctx /\ AfterCursor(r, page.cursor)}
          = {r \in ListRows(list, rows, ctx, of) : AfterCursor(r, page.cursor)}
    BY <1>6 DEF ListRows, InList
  <2>5. QED
    BY <1>1, <2>2, <2>3, <2>4 DEF IsKeysetOf
<1>7. CASE list = "attestation-providers"
  <2>1. PICK detail : detail = [r \in rows |-> [name |-> r.name, provisioned |-> r.parent # 0]]
    OBVIOUS
  <2>2. \A r \in rows : IsMetadata(detail[r])
    BY <2>1 DEF IsMetadata
  <2>3. p = Listed(Keyset(rows, ctx, page), page, detail)
    BY <1>1, <1>2, <1>7, <2>1 DEF AttestationProviders
  <2>4. {r \in rows : r.tenant = ctx /\ AfterCursor(r, page.cursor)}
          = {r \in ListRows(list, rows, ctx, of) : AfterCursor(r, page.cursor)}
    BY <1>7 DEF ListRows, InList
  <2>5. QED
    BY <1>1, <2>2, <2>3, <2>4 DEF IsKeysetOf
<1>8. CASE list = "credential-types"
  <2>1. PICK detail : detail = [r \in rows |-> [name |-> r.name, attestationProviderId |-> r.parent]]
    OBVIOUS
  <2>2. \A r \in rows : IsMetadata(detail[r])
    BY <2>1 DEF IsMetadata
  <2>3. p = Listed(Keyset(rows, ctx, page), page, detail)
    BY <1>1, <1>2, <1>8, <2>1 DEF CredentialTypesList
  <2>4. {r \in rows : r.tenant = ctx /\ AfterCursor(r, page.cursor)}
          = {r \in ListRows(list, rows, ctx, of) : AfterCursor(r, page.cursor)}
    BY <1>8 DEF ListRows, InList
  <2>5. QED
    BY <1>1, <2>2, <2>3, <2>4 DEF IsKeysetOf
<1>9. CASE list = "issuance-policies"
  <2>1. PICK detail : detail = [r \in rows |-> [name |-> r.name, status |-> r.state, credentialTypeId |-> r.parent,
                                         publishedVersion |-> LatestPublished(r)]]
    OBVIOUS
  <2>2. \A r \in rows : IsMetadata(detail[r])
    BY <2>1 DEF IsMetadata
  <2>3. p = Listed(Keyset(rows, ctx, page), page, detail)
    BY <1>1, <1>2, <1>9, <2>1 DEF IssuancePoliciesList
  <2>4. {r \in rows : r.tenant = ctx /\ AfterCursor(r, page.cursor)}
          = {r \in ListRows(list, rows, ctx, of) : AfterCursor(r, page.cursor)}
    BY <1>9 DEF ListRows, InList
  <2>5. QED
    BY <1>1, <2>2, <2>3, <2>4 DEF IsKeysetOf
<1>10. QED
  BY <1>3, <1>4, <1>5, <1>6, <1>7, <1>8, <1>9 DEF TenantLists

(* and every list of transactions.                                          *)
LEMMA TransactionListsAreKeysets ==
  ASSUME NEW list \in TransactionLists, NEW rows, NEW ctx, NEW of, NEW query, NEW page,
         ParsePageRequest(query) = page, page.refused = "no"
  PROVE  IsKeysetOf(ListPage(list, rows, ctx, of, query), rows, ctx, page, ListRows(list, rows, ctx, of))
<1>1. PICK p : p = ListPage(list, rows, ctx, of, query)
  OBVIOUS
<1>2. p = CASE list = "presentations" -> PresentationsList(rows, ctx, page, of)
            [] list = "issuances" -> IssuancesList(rows, ctx, page, of)
            [] list = "issued-credentials" -> IssuedCredentials(rows, ctx, page)
  BY <1>1 DEF ListPage, TransactionListing, TenantLists, TransactionLists
<1>3. CASE list = "presentations"
  <2>1. PICK detail : detail = [r \in rows |-> [status |-> r.state, policyId |-> r.parent]]
    OBVIOUS
  <2>2. \A r \in rows : IsMetadata(detail[r])
    BY <2>1 DEF IsMetadata
  <2>3. p = Listed(Keyset({r \in rows : OfPolicy(r, of)}, ctx, page), page, detail)
    BY <1>1, <1>2, <1>3, <2>1 DEF PresentationsList
  <2>4. {r \in {r \in rows : OfPolicy(r, of)} : r.tenant = ctx /\ AfterCursor(r, page.cursor)}
          = {r \in ListRows(list, rows, ctx, of) : AfterCursor(r, page.cursor)}
    BY <1>3 DEF ListRows, InList, OfPolicy
  <2>5. QED
    BY <1>1, <2>2, <2>3, <2>4 DEF IsKeysetOf
<1>4. CASE list = "issuances"
  <2>1. PICK detail : detail = [r \in rows |-> [status |-> r.state, policyId |-> r.parent]]
    OBVIOUS
  <2>2. \A r \in rows : IsMetadata(detail[r])
    BY <2>1 DEF IsMetadata
  <2>3. p = Listed(Keyset({r \in rows : OfPolicy(r, of)}, ctx, page), page, detail)
    BY <1>1, <1>2, <1>4, <2>1 DEF IssuancesList
  <2>4. {r \in {r \in rows : OfPolicy(r, of)} : r.tenant = ctx /\ AfterCursor(r, page.cursor)}
          = {r \in ListRows(list, rows, ctx, of) : AfterCursor(r, page.cursor)}
    BY <1>4 DEF ListRows, InList, OfPolicy
  <2>5. QED
    BY <1>1, <2>2, <2>3, <2>4 DEF IsKeysetOf
<1>5. CASE list = "issued-credentials"
  <2>1. PICK detail : detail = [r \in rows |-> [status |-> r.state, credentialTypeId |-> r.parent]]
    OBVIOUS
  <2>2. \A r \in rows : IsMetadata(detail[r])
    BY <2>1 DEF IsMetadata
  <2>3. p = Listed(Keyset(rows, ctx, page), page, detail)
    BY <1>1, <1>2, <1>5, <2>1 DEF IssuedCredentials
  <2>4. {r \in rows : r.tenant = ctx /\ AfterCursor(r, page.cursor)}
          = {r \in ListRows(list, rows, ctx, of) : AfterCursor(r, page.cursor)}
    BY <1>5 DEF ListRows, InList
  <2>5. QED
    BY <1>1, <2>2, <2>3, <2>4 DEF IsKeysetOf
<1>6. QED
  BY <1>3, <1>4, <1>5 DEF TransactionLists

(* What a walk asks for. *)
AskedFor(limit, cursor) == [limit |-> [given |-> TRUE, whole |-> TRUE, value |-> limit], cursor |-> cursor]

(* One page of any list. *)
LEMMA ListsArePaged ==
  ASSUME NEW list \in TenantLists \cup TransactionLists, NEW rows, IsTable(rows), NEW ctx, NEW of,
         NEW limit \in 1 .. MAX_PAGE_SIZE, NEW cursor, cursor.decodes
  PROVE  /\ IsPage(ListPage(list, rows, ctx, of, AskedFor(limit, cursor)), ListRows(list, rows, ctx, of), cursor)
         /\ \A k \in DOMAIN ListPage(list, rows, ctx, of, AskedFor(limit, cursor)).items :
              IsMetadata(ListPage(list, rows, ctx, of, AskedFor(limit, cursor)).items[k].detail)
<1>1. PICK page : page = [refused |-> "no", cursor |-> cursor, limit |-> limit]
  OBVIOUS
<1>2. ParsePageRequest(AskedFor(limit, cursor)) = page
  <2>1. limit \in Int /\ ~(limit < 1) /\ ~(limit > MAX_PAGE_SIZE)
    BY DEF MAX_PAGE_SIZE
  <2>2. QED
    BY <1>1, <2>1 DEF ParsePageRequest, AskedFor
<1>3. PICK p, listed : /\ p = ListPage(list, rows, ctx, of, AskedFor(limit, cursor))
                       /\ listed = ListRows(list, rows, ctx, of)
  OBVIOUS
<1>4. page.refused = "no" /\ page.cursor = cursor /\ page.limit = limit
  BY <1>1
<1>5. IsKeysetOf(p, rows, ctx, page, listed)
  BY <1>2, <1>3, <1>4, TenantListsAreKeysets, TransactionListsAreKeysets
<1>6. PICK base, detail :
        /\ {r \in base : r.tenant = ctx /\ AfterCursor(r, cursor)} = {r \in listed : AfterCursor(r, cursor)}
        /\ \A r \in rows : IsMetadata(detail[r])
        /\ p = Listed(Keyset(base, ctx, page), page, detail)
  BY <1>4, <1>5 DEF IsKeysetOf
<1>7. Keyset(base, ctx, page) = FirstOf(NewestFirst({r \in listed : AfterCursor(r, cursor)}), limit + 1)
  BY <1>4, <1>6 DEF Keyset
<1>8. IsTable(listed) /\ listed \subseteq rows
  BY <1>3, FS_Subset DEF IsTable, ListRows
<1>9. limit \in Nat \ {0}
  BY DEF MAX_PAGE_SIZE
<1>10. IsPage(p, listed, cursor) /\ Says(p, listed, detail)
  <2>1. IsListing(p, listed, cursor, page, detail)
    BY <1>4, <1>6, <1>7 DEF IsListing
  <2>2. QED
    BY <1>4, <1>8, <1>9, <2>1, KeysetPage
<1>11. QED
  BY <1>3, <1>6, <1>8, <1>10 DEF Says

(* The n-th page: of the n-th table, after the cursor of the one before;    *)
(* nothing more once a page has none.                                       *)
IsNext(p, tables, n) ==
  IF n > 1 /\ ~p[n - 1].next.given THEN p[n].next = NoCursor /\ SeenOn(p[n]) = {}
  ELSE IsPage(p[n], tables[n], IF n > 1 THEN p[n - 1].next ELSE NoCursor)

(* A walk over tables into which rows are inserted. *)
IsWalk(p, tables, N) ==
  /\ N \in Nat
  /\ \A n \in 1 .. N : IsTable(tables[n]) /\ IsNext(p, tables, n)
  /\ \A m, n \in 1 .. N : m <= n => tables[m] \subseteq tables[n]

(* A page ends at a row it shows.                                           *)
EndsAt(p, n, last) ==
  /\ p[n].next = EncodeCursor(last) /\ last.id \in SeenOn(p[n])
  /\ last.at \in Int /\ last.id \in Int
  /\ n > 1 => AfterCursor(last, p[n - 1].next)

(* A cursor is a row of the table,                                          *)
LEMMA CursorIsARow ==
  ASSUME NEW p, NEW tables, NEW N, IsWalk(p, tables, N), NEW n \in 1 .. N, p[n].next.given
  PROVE  \E last \in tables[N] : EndsAt(p, n, last)
<1>1. IsPage(p[n], tables[n], IF n > 1 THEN p[n - 1].next ELSE NoCursor)
  BY DEF IsWalk, IsNext, NoCursor
<1>2. PICK cursor : cursor = IF n > 1 THEN p[n - 1].next ELSE NoCursor
  OBVIOUS
<1>3. PICK after : after = {r \in tables[n] : AfterCursor(r, cursor)}
  OBVIOUS
<1>4. /\ SeenOn(p[n]) = {r.id : r \in {a \in after : ~AfterCursor(a, p[n].next)}}
      /\ \E last \in after : p[n].next = EncodeCursor(last)
  BY <1>1, <1>2, <1>3 DEF IsPage
<1>5. PICK last \in after : p[n].next = EncodeCursor(last)
  BY <1>4
<1>6. last \in tables[n] /\ last \in tables[N] /\ last.at \in Int /\ last.id \in Int
  <2>1. N \in 1 .. N /\ n <= N
    BY DEF IsWalk
  <2>2. QED
    BY <1>3, <2>1 DEF IsWalk, IsTable
<1>7. ~AfterCursor(last, p[n].next)
  BY <1>5, <1>6, AfterIsOlder DEF Newest
<1>8. last.id \in SeenOn(p[n])
  BY <1>4, <1>7
<1>9. n > 1 => AfterCursor(last, p[n - 1].next)
  BY <1>2, <1>3
<1>10. QED
  BY <1>5, <1>6, <1>8, <1>9 DEF EndsAt

(* What is after a cursor was after those before.                           *)
LEMMA CursorsAdvance ==
  ASSUME NEW p, NEW tables, NEW N, IsWalk(p, tables, N), NEW n \in 1 .. N, n > 1, p[n].next.given
  PROVE  /\ p[n - 1].next.given
         /\ \A x \in tables[N] : AfterCursor(x, p[n].next) => AfterCursor(x, p[n - 1].next)
<1>1. n - 1 \in 1 .. N /\ N \in 1 .. N
  BY DEF IsWalk
<1>2. p[n - 1].next.given
  BY DEF IsWalk, IsNext, NoCursor
<1>3. PICK last \in tables[N] : EndsAt(p, n, last)
  BY CursorIsARow
<1>4. PICK former \in tables[N] : EndsAt(p, n - 1, former)
  BY <1>1, <1>2, CursorIsARow
<1>5. ASSUME NEW x \in tables[N], AfterCursor(x, p[n].next) PROVE AfterCursor(x, p[n - 1].next)
  <2>1. x.at \in Int /\ x.id \in Int
    BY <1>1 DEF IsWalk, IsTable
  <2>2. Newest(last, x) /\ Newest(former, last)
    BY <1>3, <1>4, <1>5, <2>1, AfterIsOlder DEF EndsAt
  <2>3. Newest(former, x)
    BY <1>3, <1>4, <2>1, <2>2 DEF Newest, EndsAt
  <2>4. QED
    BY <1>4, <2>1, <2>3, AfterIsOlder DEF EndsAt
<1>6. QED
  BY <1>2, <1>5

(* and what it has passed the later ones have passed.                       *)
LEMMA CursorsKeepAdvancing ==
  ASSUME NEW p, NEW tables, NEW N, IsWalk(p, tables, N), NEW m \in 1 .. N, NEW n \in 1 .. N, m <= n,
         p[n].next.given
  PROVE  /\ p[m].next.given
         /\ \A x \in tables[N] : AfterCursor(x, p[n].next) => AfterCursor(x, p[m].next)
<1>. DEFINE Good(k) == p[k].next.given
                         => /\ p[m].next.given
                            /\ \A x \in tables[N] : AfterCursor(x, p[k].next) => AfterCursor(x, p[m].next)
<1>1. PICK B : B = {k \in m .. N : ~Good(k)}
  OBVIOUS
<1>2. B \subseteq Nat
  BY <1>1 DEF IsWalk
<1>3. B = {}
  <2>1. SUFFICES ASSUME B # {} PROVE FALSE
    OBVIOUS
  <2>2. PICK k \in B : \A j \in B : k <= j
    BY <1>2, <2>1, LeastExists
  <2>3. k \in m .. N /\ k # m /\ ~Good(k)
    BY <1>1, <2>2
  <2>4. k \in 1 .. N /\ k > 1 /\ k - 1 \in m .. N /\ ~(k <= k - 1)
    BY <2>3 DEF IsWalk
  <2>5. Good(k - 1)
    BY <1>1, <2>2, <2>4
  <2>6. p[k].next.given
    BY <2>3
  <2>7. /\ p[k - 1].next.given
        /\ \A x \in tables[N] : AfterCursor(x, p[k].next) => AfterCursor(x, p[k - 1].next)
    BY <2>4, <2>6, CursorsAdvance
  <2>8. QED
    BY <2>3, <2>5, <2>7
<1>4. n \in m .. N
  BY DEF IsWalk
<1>5. Good(n)
  BY <1>1, <1>3, <1>4
<1>6. QED
  BY <1>5

(* What a page shows: rows of its table, after the cursor before and up to  *)
(* its own.                                                                 *)
LEMMA SeenIsBetween ==
  ASSUME NEW p, NEW tables, NEW N, IsWalk(p, tables, N), NEW n \in 1 .. N, NEW id \in SeenOn(p[n])
  PROVE  \E r \in tables[n] : /\ r.id = id /\ r \in tables[N]
                              /\ n > 1 => p[n - 1].next.given /\ AfterCursor(r, p[n - 1].next)
                              /\ p[n].next.given => ~AfterCursor(r, p[n].next)
<1>1. n > 1 => p[n - 1].next.given
  BY DEF IsWalk, IsNext
<1>2. PICK cursor : cursor = IF n > 1 THEN p[n - 1].next ELSE NoCursor
  OBVIOUS
<1>3. IsPage(p[n], tables[n], cursor)
  BY <1>1, <1>2 DEF IsWalk, IsNext
<1>4. PICK r : r \in tables[n] /\ AfterCursor(r, cursor) /\ r.id = id
               /\ (p[n].next.given => ~AfterCursor(r, p[n].next))
  BY <1>3 DEF IsPage
<1>5. N \in 1 .. N /\ n <= N
  BY DEF IsWalk
<1>6. r \in tables[N]
  BY <1>4, <1>5 DEF IsWalk
<1>7. QED
  BY <1>1, <1>2, <1>4, <1>6

(* What a page shows is in the table at the end of the walk. *)
LEMMA SeenIsThere ==
  ASSUME NEW p, NEW tables, NEW N, IsWalk(p, tables, N), NEW n \in 1 .. N, NEW id \in SeenOn(p[n])
  PROVE  \E r : r \in tables[N] /\ r.id = id
<1>1. PICK r \in tables[N] : r.id = id /\ (p[n].next.given => ~AfterCursor(r, p[n].next))
  BY SeenIsBetween
<1>2. QED
  BY <1>1

(* Two pages of a walk show different rows.                                 *)
LEMMA NoRowTwice ==
  ASSUME NEW p, NEW tables, NEW N, IsWalk(p, tables, N), NEW m \in 1 .. N, NEW n \in 1 .. N, m < n
  PROVE  SeenOn(p[m]) \cap SeenOn(p[n]) = {}
<1>1. SUFFICES ASSUME NEW id \in SeenOn(p[m]), id \in SeenOn(p[n]) PROVE FALSE
  OBVIOUS
<1>2. PICK r \in tables[N] : r.id = id /\ (p[m].next.given => ~AfterCursor(r, p[m].next))
  BY <1>1, SeenIsBetween
<1>3. n > 1 /\ n - 1 \in 1 .. N /\ m <= n - 1 /\ N \in 1 .. N
  BY <1>1 DEF IsWalk
<1>4. PICK s \in tables[N] : s.id = id /\ p[n - 1].next.given /\ AfterCursor(s, p[n - 1].next)
  BY <1>1, <1>3, SeenIsBetween
<1>5. r = s
  BY <1>2, <1>3, <1>4 DEF IsWalk, IsTable
<1>6. QED
  BY <1>2, <1>3, <1>4, <1>5, CursorsKeepAdvancing

(* A walk with as many pages as there may be rows comes to an end.          *)
LEMMA WalksEnd ==
  ASSUME NEW p, NEW tables, NEW N, IsWalk(p, tables, N), N > 0, Cardinality(tables[N]) < N
  PROVE  \E n \in 1 .. N : ~p[n].next.given
<1>1. SUFFICES ASSUME \A n \in 1 .. N : p[n].next.given PROVE FALSE
  OBVIOUS
<1>2. N \in Nat /\ N \in 1 .. N
  BY DEF IsWalk
<1>3. \A n \in 1 .. N : \E r \in tables[N] : r.id \in SeenOn(p[n])
  <2>1. SUFFICES ASSUME NEW n \in 1 .. N PROVE \E r \in tables[N] : r.id \in SeenOn(p[n])
    OBVIOUS
  <2>2. PICK last \in tables[N] : EndsAt(p, n, last)
    BY <1>1, CursorIsARow
  <2>3. QED
    BY <2>2 DEF EndsAt
<1>4. PICK f : f = [n \in 1 .. N |-> CHOOSE r \in tables[N] : r.id \in SeenOn(p[n])]
  OBVIOUS
<1>5. f \in [1 .. N -> tables[N]] /\ \A n \in 1 .. N : f[n].id \in SeenOn(p[n])
  BY <1>3, <1>4
<1>6. IsFiniteSet(1 .. N) /\ Cardinality(1 .. N) = N
  <2>1. IsFiniteSet(1 .. N) /\ Cardinality(1 .. N) = IF 1 > N THEN 0 ELSE N - 1 + 1
    BY <1>2, FS_Interval
  <2>2. QED
    BY <1>2, <2>1
<1>7. IsFiniteSet(tables[N])
  BY <1>2 DEF IsWalk, IsTable
<1>8. PICK m \in 1 .. N, n \in 1 .. N : m # n /\ f[m] = f[n]
  BY <1>5, <1>6, <1>7, FS_PigeonHole
<1>9. f[m].id \in SeenOn(p[m]) \cap SeenOn(p[n])
  BY <1>5, <1>8
<1>10. m < n \/ n < m
  BY <1>2, <1>8
<1>11. QED
  BY <1>9, <1>10, NoRowTwice

(* A row that was there all along is on one of the pages.                   *)
LEMMA NoRowIsSkipped ==
  ASSUME NEW p, NEW tables, NEW N, IsWalk(p, tables, N), N > 0, Cardinality(tables[N]) < N,
         NEW r \in tables[1]
  PROVE  \E n \in 1 .. N : r.id \in SeenOn(p[n])
<1>1. SUFFICES ASSUME \A n \in 1 .. N : r.id \notin SeenOn(p[n]) PROVE FALSE
  OBVIOUS
<1>. DEFINE Good(n) == p[n].next.given /\ AfterCursor(r, p[n].next)
<1>2. PICK B : B = {n \in 1 .. N : ~Good(n)}
  OBVIOUS
<1>3. PICK n \in B : \A k \in B : n <= k
  <2>1. \E n \in 1 .. N : ~p[n].next.given
    BY WalksEnd
  <2>2. B # {} /\ B \subseteq Nat
    BY <1>2, <2>1 DEF IsWalk
  <2>3. QED
    BY <2>2, LeastExists
<1>4. n \in 1 .. N /\ ~Good(n)
  BY <1>2, <1>3
<1>5. n > 1 => Good(n - 1)
  <2>1. SUFFICES ASSUME n > 1 PROVE Good(n - 1)
    OBVIOUS
  <2>2. n - 1 \in 1 .. N /\ ~(n <= n - 1)
    BY <1>4, <2>1 DEF IsWalk
  <2>3. QED
    BY <1>2, <1>3, <2>2
<1>6. r \in tables[n]
  <2>1. 1 \in 1 .. N /\ 1 <= n
    BY <1>4 DEF IsWalk
  <2>2. QED
    BY <1>4, <2>1 DEF IsWalk
<1>7. PICK cursor : cursor = IF n > 1 THEN p[n - 1].next ELSE NoCursor
  OBVIOUS
<1>8. AfterCursor(r, cursor)
  BY <1>5, <1>7 DEF AfterCursor, NoCursor
<1>9. IsPage(p[n], tables[n], cursor)
  BY <1>4, <1>5, <1>7 DEF IsWalk, IsNext
<1>10. (p[n].next.given => ~AfterCursor(r, p[n].next)) => r.id \in SeenOn(p[n])
  BY <1>6, <1>8, <1>9 DEF IsPage
<1>11. QED
  BY <1>1, <1>4, <1>10

(* The n-th page of Walk, given those before. *)
PageAfter(p, n, list, rows, ctx, of, limit) ==
  IF n = 1 THEN ListPage(list, rows[1], ctx, of, AskedFor(limit, NoCursor))
  ELSE IF ~p[n - 1].next.given THEN [items |-> <<>>, next |-> NoCursor]
  ELSE ListPage(list, rows[n], ctx, of, AskedFor(limit, p[n - 1].next))

IsRead(p, N, list, rows, ctx, of, limit) ==
  p = [n \in 1 .. N |-> PageAfter(p, n, list, rows, ctx, of, limit)]

LEMMA ReadExists ==
  ASSUME NEW N \in Nat, NEW list, NEW rows, NEW ctx, NEW of, NEW limit
  PROVE  \E p : IsRead(p, N, list, rows, ctx, of, limit)
<1>. DEFINE PageBy(p, n) == PageAfter(p, n, list, rows, ctx, of, limit)
            Read(p, n) == p = [k \in 1 .. n |-> PageBy(p, k)]
<1>1. PICK B : B = {n \in 0 .. N : ~\E p : Read(p, n)}
  OBVIOUS
<1>2. SUFFICES ASSUME B # {} PROVE FALSE
  <2>1. N \in 0 .. N
    OBVIOUS
  <2>2. QED
    BY <1>1, <2>1 DEF IsRead
<1>3. PICK m \in B : \A k \in B : m <= k
  <2>1. B \subseteq Nat
    BY <1>1
  <2>2. QED
    BY <1>2, <2>1, LeastExists
<1>4. m \in 0 .. N /\ ~\E p : Read(p, m)
  BY <1>1, <1>3
<1>5. m # 0
  <2>1. PICK p : p = [k \in 1 .. 0 |-> 0]
    OBVIOUS
  <2>2. Read(p, 0)
    <3>1. 1 .. 0 = {}
      OBVIOUS
    <3>2. QED
      BY <2>1, <3>1
  <2>3. QED
    BY <1>4, <2>2
<1>6. m \in Nat \ {0} /\ m - 1 \in 0 .. N /\ ~(m <= m - 1)
  BY <1>4, <1>5
<1>7. PICK p : Read(p, m - 1)
  BY <1>1, <1>3, <1>6
<1>8. PICK longer : longer = [k \in 1 .. m |-> IF k = m THEN PageBy(p, m) ELSE p[k]]
  OBVIOUS
<1>9. ASSUME NEW k \in 1 .. m PROVE longer[k] = PageBy(longer, k)
  <2>1. k # 1 => k - 1 \in 1 .. m - 1 /\ k - 1 \in 1 .. m /\ k - 1 # m
    BY <1>6
  <2>2. k # 1 => longer[k - 1] = p[k - 1]
    BY <1>8, <2>1
  <2>3. PageBy(longer, k) = PageBy(p, k)
    BY <2>2 DEF PageAfter
  <2>4. longer[k] = PageBy(p, k)
    <3>1. CASE k = m
      BY <1>8, <3>1
    <3>2. CASE k # m
      <4>1. k \in 1 .. m - 1
        BY <1>6, <3>2
      <4>2. p[k] = PageBy(p, k)
        BY <1>7, <4>1
      <4>3. QED
        BY <1>8, <3>2, <4>2
    <3>3. QED
      BY <3>1, <3>2
  <2>5. QED
    BY <2>3, <2>4
<1>10. longer = [k \in 1 .. m |-> longer[k]]
  BY <1>8
<1>11. Read(longer, m)
  BY <1>9, <1>10
<1>12. QED
  BY <1>4, <1>11

LEMMA WalkIsRead ==
  ASSUME NEW list, NEW rows, Len(rows) \in Nat, NEW ctx, NEW of, NEW limit
  PROVE  IsRead(Walk(list, rows, ctx, of, limit), Len(rows), list, rows, ctx, of, limit)
<1>1. PICK N : N = Len(rows)
  OBVIOUS
<1>2. PICK p : p = CHOOSE q : IsRead(q, N, list, rows, ctx, of, limit)
  OBVIOUS
<1>3. IsRead(p, N, list, rows, ctx, of, limit)
  BY <1>1, <1>2, ReadExists
<1>4. Walk(list, rows, ctx, of, limit) = p
  BY <1>1, <1>2 DEF Walk, IsRead, PageAfter, AskedFor
<1>5. QED
  BY <1>1, <1>3, <1>4

(* Of a list: its rows at each page, and none that was taken away.          *)
LEMMA ListIsWalked ==
  ASSUME NEW list \in TenantLists \cup TransactionLists, NEW ctx, NEW of, NEW limit \in 1 .. MAX_PAGE_SIZE,
         NEW N \in Nat, NEW rows, \A n \in 1 .. N : IsTable(rows[n]),
         \A m, n \in 1 .. N : m <= n => rows[m] \subseteq rows[n],
         NEW p, IsRead(p, N, list, rows, ctx, of, limit)
  PROVE  /\ IsWalk(p, [n \in 1 .. N |-> ListRows(list, rows[n], ctx, of)], N)
         /\ \A n \in 1 .. N : \A k \in DOMAIN p[n].items : IsMetadata(p[n].items[k].detail)
<1>1. PICK tables : tables = [n \in 1 .. N |-> ListRows(list, rows[n], ctx, of)]
  OBVIOUS
<1>2. \A n \in 1 .. N : p[n] = PageAfter(p, n, list, rows, ctx, of, limit)
  BY DEF IsRead
<1>. DEFINE Plain(n) == \A k \in DOMAIN p[n].items : IsMetadata(p[n].items[k].detail)
            Good(n) == IsNext(p, tables, n) /\ p[n].next.decodes /\ Plain(n)
<1>3. ASSUME NEW n \in 1 .. N, n > 1 => Good(n - 1) PROVE Good(n)
  <2>1. CASE n > 1 /\ ~p[n - 1].next.given
    <3>1. p[n] = [items |-> <<>>, next |-> NoCursor]
      BY <1>2, <2>1 DEF PageAfter
    <3>2. DOMAIN p[n].items = {}
      BY <3>1
    <3>3. SeenOn(p[n]) = {}
      BY <3>2 DEF SeenOn
    <3>4. IsNext(p, tables, n)
      BY <2>1, <3>1, <3>3 DEF IsNext
    <3>5. QED
      BY <3>1, <3>2, <3>4 DEF NoCursor
  <2>2. CASE ~(n > 1 /\ ~p[n - 1].next.given)
    <3>1. PICK cursor : cursor = IF n > 1 THEN p[n - 1].next ELSE NoCursor
      OBVIOUS
    <3>2. cursor.decodes
      BY <1>3, <3>1 DEF NoCursor
    <3>3. p[n] = ListPage(list, rows[n], ctx, of, AskedFor(limit, cursor))
      <4>1. CASE n > 1
        BY <1>2, <2>2, <3>1, <4>1 DEF PageAfter
      <4>2. CASE ~(n > 1)
        <5>1. n = 1
          BY <4>2
        <5>2. QED
          BY <1>2, <3>1, <5>1 DEF PageAfter
      <4>3. QED
        BY <4>1, <4>2
    <3>4. tables[n] = ListRows(list, rows[n], ctx, of)
      BY <1>1
    <3>5. IsPage(p[n], tables[n], cursor) /\ Plain(n)
      BY <3>2, <3>3, <3>4, ListsArePaged
    <3>6. IsNext(p, tables, n)
      BY <2>2, <3>1, <3>5 DEF IsNext
    <3>7. p[n].next.decodes
      <4>1. p[n].next = NoCursor \/ \E last : p[n].next = EncodeCursor(last)
        BY <3>5 DEF IsPage
      <4>2. CASE p[n].next = NoCursor
        BY <4>2 DEF NoCursor
      <4>3. CASE \E last : p[n].next = EncodeCursor(last)
        BY <4>3 DEF EncodeCursor
      <4>4. QED
        BY <4>1, <4>2, <4>3
    <3>8. QED
      BY <3>5, <3>6, <3>7
  <2>3. QED
    BY <2>1, <2>2
<1>4. \A n \in 1 .. N : Good(n)
  <2>1. PICK B : B = {n \in 1 .. N : ~Good(n)}
    OBVIOUS
  <2>2. SUFFICES ASSUME B # {} PROVE FALSE
    BY <2>1
  <2>3. PICK n \in B : \A k \in B : n <= k
    BY <2>1, <2>2, LeastExists
  <2>4. n \in 1 .. N /\ ~Good(n)
    BY <2>1, <2>3
  <2>5. n > 1 => n - 1 \in 1 .. N /\ ~(n <= n - 1)
    BY <2>4
  <2>6. n > 1 => Good(n - 1)
    BY <2>1, <2>3, <2>5
  <2>7. QED
    BY <1>3, <2>4, <2>6
<1>5. ASSUME NEW n \in 1 .. N PROVE IsTable(tables[n]) /\ tables[n] \subseteq rows[n]
  BY <1>1, FS_Subset DEF IsTable, ListRows
<1>6. ASSUME NEW m \in 1 .. N, NEW n \in 1 .. N, m <= n PROVE tables[m] \subseteq tables[n]
  <2>1. rows[m] \subseteq rows[n]
    BY <1>6
  <2>2. QED
    BY <1>1, <2>1 DEF ListRows
<1>7. IsWalk(p, tables, N)
  BY <1>4, <1>5, <1>6 DEF IsWalk
<1>8. QED
  BY <1>1, <1>4, <1>7

(* Whatever is inserted between the pages, a walk of any list shows every    *)
(* row that was there all along, each once, no row of another tenant and no *)
(* result (pagination.ts:12, listing.repository.ts:31).                     *)
THEOREM WalksSeeEachOnce ==
  ASSUME NEW list \in TenantLists \cup TransactionLists, NEW ctx, NEW of, NEW limit \in 1 .. MAX_PAGE_SIZE,
         NEW S, NEW rows \in Seq(S), \A n \in DOMAIN rows : IsTable(rows[n]),
         \A m, n \in DOMAIN rows : m <= n => rows[m] \subseteq rows[n],
         Len(rows) > 0, Cardinality(rows[Len(rows)]) < Len(rows)
  PROVE  WalkSeesEachOnce(list, rows, ctx, of, limit)
<1>. DEFINE N == Len(rows)
            p == Walk(list, rows, ctx, of, limit)
            seen == [n \in DOMAIN p |-> {p[n].items[k].id : k \in DOMAIN p[n].items}]
<1>1. N = Len(rows) /\ p = Walk(list, rows, ctx, of, limit)
  OBVIOUS
<1>2. N \in Nat /\ DOMAIN rows = 1 .. N /\ N \in 1 .. N /\ 1 \in 1 .. N
  BY <1>1
<1>3. IsRead(p, N, list, rows, ctx, of, limit)
  BY <1>1, <1>2, WalkIsRead
<1>. HIDE DEF N, p
<1>4. PICK tables : tables = [n \in 1 .. N |-> ListRows(list, rows[n], ctx, of)]
  OBVIOUS
<1>5. /\ IsWalk(p, tables, N)
      /\ \A n \in 1 .. N : \A k \in DOMAIN p[n].items : IsMetadata(p[n].items[k].detail)
  BY <1>2, <1>3, <1>4, ListIsWalked
<1>6. DOMAIN p = 1 .. N
  BY <1>3 DEF IsRead
<1>7. seen = [n \in DOMAIN p |-> {p[n].items[k].id : k \in DOMAIN p[n].items}]
  OBVIOUS
<1>. HIDE DEF seen
<1>8. DOMAIN seen = 1 .. N /\ \A n \in 1 .. N : seen[n] = SeenOn(p[n])
  BY <1>6, <1>7 DEF SeenOn
<1>9. Cardinality(tables[N]) < N
  <2>1. tables[N] \subseteq rows[N] /\ IsFiniteSet(rows[N])
    BY <1>2, <1>4 DEF ListRows, IsTable
  <2>2. /\ Cardinality(tables[N]) <= Cardinality(rows[N])
        /\ Cardinality(tables[N]) \in Nat /\ Cardinality(rows[N]) \in Nat
    BY <2>1, FS_Subset, FS_CardinalityType
  <2>3. QED
    BY <1>1, <1>2, <2>2
<1>10. {r.id : r \in {s \in rows[1] : InList(list, s, ctx, of)}} \subseteq UNION Range(seen)
  <2>1. SUFFICES ASSUME NEW r \in rows[1], InList(list, r, ctx, of) PROVE r.id \in UNION Range(seen)
    OBVIOUS
  <2>2. r \in tables[1]
    BY <1>2, <1>4, <2>1 DEF ListRows
  <2>3. PICK n \in 1 .. N : r.id \in SeenOn(p[n])
    BY <1>1, <1>5, <1>9, <2>2, NoRowIsSkipped
  <2>4. QED
    BY <1>8, <2>3 DEF Range
<1>11. \A m, n \in DOMAIN p : m < n => seen[m] \cap seen[n] = {}
  <2>1. SUFFICES ASSUME NEW m \in 1 .. N, NEW n \in 1 .. N, m < n PROVE seen[m] \cap seen[n] = {}
    BY <1>6
  <2>2. SeenOn(p[m]) \cap SeenOn(p[n]) = {}
    BY <1>5, <2>1, NoRowTwice
  <2>3. QED
    BY <1>8, <2>2
<1>12. UNION Range(seen) \subseteq {r.id : r \in {s \in rows[N] : InList(list, s, ctx, of)}}
  <2>1. SUFFICES ASSUME NEW n \in 1 .. N, NEW id \in SeenOn(p[n])
                 PROVE  \E r \in rows[N] : InList(list, r, ctx, of) /\ r.id = id
    <3>1. \A id \in UNION Range(seen) : \E n \in 1 .. N : id \in SeenOn(p[n])
      BY <1>8 DEF Range
    <3>2. QED
      BY <3>1
  <2>2. PICK r : r \in tables[N] /\ r.id = id
    BY <1>5, <2>1, SeenIsThere
  <2>3. QED
    BY <1>2, <1>4, <2>2 DEF ListRows
<1>13. \A n \in DOMAIN p : \A k \in DOMAIN p[n].items :
         {"result", "session"} \cap DOMAIN p[n].items[k].detail = {}
  BY <1>5, <1>6 DEF IsMetadata
<1>14. /\ {r.id : r \in {s \in rows[1] : InList(list, s, ctx, of)}} \subseteq UNION Range(seen)
       /\ \A m, n \in DOMAIN p : m < n => seen[m] \cap seen[n] = {}
       /\ UNION Range(seen) \subseteq {r.id : r \in {s \in rows[Len(rows)] : InList(list, s, ctx, of)}}
       /\ \A n \in DOMAIN p : \A k \in DOMAIN p[n].items :
            {"result", "session"} \cap DOMAIN p[n].items[k].detail = {}
  BY <1>1, <1>10, <1>11, <1>12, <1>13
<1>15. QED
  BY <1>14, Zenon DEF WalkSeesEachOnce, p, seen

-----------------------------------------------------------------------------
(* The rules of the fronts *)

(* On every sample that the code may meet, the limiter, the start links,    *)
(* the polls, the case book, the gateway and the walk of a list do what     *)
(* their references say (rate-limit.ts:8, test-start/main.ts:70, polls.ts:7,*)
(* backoffice.ts:8, allow-list.ts:122, pagination.ts:12).                   *)
THEOREM FrontRulesAlwaysMeetTheirReference == Spec => []FrontRulesMeetTheirReference
<1>1. ASSUME NEW calls \in Takes, NEW max \in 0 .. 2, NEW maxKeys \in 1 .. 2
      PROVE  LimiterMeetsItsReference(calls, [max |-> max, window |-> 2, maxKeys |-> maxKeys])
  <2>1. PICK rule : rule = [max |-> max, window |-> 2, maxKeys |-> maxKeys]
    OBVIOUS
  <2>2. IsRule(rule)
    BY <2>1 DEF IsRule
  <2>3. /\ Len(calls) \in Nat
        /\ \A n \in 1 .. Len(calls) : calls[n][2] \in Nat
        /\ \A m, n \in 1 .. Len(calls) : m <= n => calls[m][2] <= calls[n][2]
    BY SamplesAssumption
  <2>4. LimiterMeetsItsReference(calls, rule)
    BY <2>2, <2>3, LimiterAlwaysMeetsItsReference
  <2>5. QED
    BY <2>1, <2>4
<1>2. ASSUME NEW visits \in StartVisits, NEW max \in 1 .. 2
      PROVE  StartLinksOpenOnce(visits, max)
  <2>1. Len(visits) \in Nat /\ \A n \in 1 .. Len(visits) : IsVisit(visits[n])
    BY SamplesAssumption DEF IsVisit
  <2>2. max \in Nat \ {0}
    OBVIOUS
  <2>3. QED
    BY <2>1, <2>2, StartLinksAlwaysOpenOnce
<1>3. ASSUME NEW ids \in Asked, NEW max \in 1 .. 2
      PROVE  PollsMeetTheirReference(ids, "now", Tokens, max)
  <2>1. AreDistinct(ids)
    BY SamplesAssumption DEF AreDistinct
  <2>2. max \in Nat \ {0}
    OBVIOUS
  <2>3. QED
    BY <2>1, <2>2, PollsAlwaysMeetTheirReference
<1>4. ASSUME NEW calls \in CaseCalls
      PROVE  BookMeetsItsReference(calls, [max |-> 2, ttl |-> 1])
  <2>1. PICK rule : rule = [max |-> 2, ttl |-> 1]
    OBVIOUS
  <2>2. rule.max \in Nat \ {0} /\ rule.ttl \in Nat
    BY <2>1
  <2>3. AreCalled(calls)
    BY SamplesAssumption DEF AreCalled, IsCall, CALLS
  <2>4. BookMeetsItsReference(calls, rule)
    BY <2>2, <2>3, BookAlwaysMeetsItsReference
  <2>5. QED
    BY <2>1, <2>4
<1>5. ASSUME NEW config, NEW request \in Sent
      PROVE  /\ \A target \in {"engine", "platform"}, within \in SUBSET {"general", "issuance", "presentation"} :
                  GatewayKeepsItsList(config, target, request, within)
             /\ \A answer \in Answers : AnswerKeepsTheProtocol(config, request, answer)
  <2>1. \A answer \in Answers : answer.status \in Nat
    BY SamplesAssumption
  <2>2. QED
    BY <2>1, GatewayKeepsItsListAlways, AnswersKeepTheProtocol
<1>6. ASSUME NEW list \in TenantLists \cup TransactionLists, NEW of \in 0 .. 1, NEW limit \in 1 .. 2,
             NEW after \in SUBSET Rows, NEW before \in SUBSET after, NEW k \in 1 .. 3
      PROVE  WalkSeesEachOnce(list, Growing(before, after, k, Cardinality(Rows) + 1), "t1", of, limit)
  <2>1. PICK N, rows : N = Cardinality(Rows) + 1 /\ rows = Growing(before, after, k, N)
    OBVIOUS
  <2>2. IsTable(Rows) /\ IsFiniteSet(Rows) /\ Cardinality(Rows) \in Nat
    BY SamplesAssumption, FS_CardinalityType DEF IsTable
  <2>3. N \in Nat /\ N > 0
    BY <2>1, <2>2
  <2>4. DOMAIN rows = 1 .. N /\ \A n \in 1 .. N : rows[n] = IF n <= k THEN before ELSE after
    BY <2>1 DEF Growing
  <2>5. before \subseteq Rows /\ after \subseteq Rows /\ before \subseteq after
    OBVIOUS
  <2>6. IsTable(before) /\ IsTable(after)
    BY <2>2, <2>5, FS_Subset DEF IsTable
  <2>7. PICK S : S = SUBSET Rows
    OBVIOUS
  <2>8. rows \in Seq(S) /\ Len(rows) = N
    BY <2>1, <2>3, <2>4, <2>5, <2>7 DEF Growing
  <2>9. \A n \in DOMAIN rows : IsTable(rows[n])
    BY <2>4, <2>6
  <2>10. \A m, n \in DOMAIN rows : m <= n => rows[m] \subseteq rows[n]
    BY <2>3, <2>4, <2>5
  <2>11. Len(rows) > 0 /\ Cardinality(rows[Len(rows)]) < Len(rows)
    <3>1. N \in 1 .. N
      BY <2>3
    <3>2. rows[N] \in SUBSET Rows
      BY <2>4, <2>5, <3>1
    <3>3. Cardinality(rows[N]) <= Cardinality(Rows) /\ Cardinality(rows[N]) \in Nat
      BY <2>2, <3>2, FS_Subset, FS_CardinalityType
    <3>4. QED
      BY <2>1, <2>2, <2>3, <2>8, <3>3
  <2>12. limit \in 1 .. MAX_PAGE_SIZE
    BY DEF MAX_PAGE_SIZE
  <2>13. WalkSeesEachOnce(list, rows, "t1", of, limit)
    BY <2>8, <2>9, <2>10, <2>11, <2>12, WalksSeeEachOnce
  <2>14. QED
    BY <2>1, <2>13
<1>7. FrontRulesMeetTheirReference
  BY <1>1, <1>2, <1>3, <1>4, <1>5, <1>6 DEF FrontRulesMeetTheirReference
<1>8. QED
  BY <1>7, PTL

=============================================================================
