---------------------------- MODULE BoundedStores ---------------------------
(***************************************************************************)
(* The stores that the demonstration processes keep in memory, each with a *)
(* capacity: the rate limiter (packages/shared/src/rate-limit.ts), the     *)
(* nonces of used start links (apps/test-start/src/main.ts), the polls of  *)
(* cross-device presentations (apps/demo-onboarding/src/polls.ts) and the  *)
(* bank's case book (apps/demo-onboarding/src/backoffice.ts). Pure: a      *)
(* store is a sequence of records in the order a JavaScript Map iterates,  *)
(* the order their keys were inserted in.                                  *)
(***************************************************************************)
EXTENDS Naturals, Sequences, FiniteSets, SequencesExt

Keys(store) == {store[n].key : n \in DOMAIN store}

Entry(store, key) == CHOOSE e \in Range(store) : e.key = key

(* Map.set: a key that is there keeps its place. *)
Put(store, entry) ==
  IF entry.key \in Keys(store)
  THEN [n \in DOMAIN store |-> IF store[n].key = entry.key THEN entry ELSE store[n]]
  ELSE Append(store, entry)

(* The entries of a store that are among some, in their order. *)
Among(store, some) ==
  LET kept[n \in 0..Len(store)] ==
        IF n = 0 THEN <<>>
        ELSE IF store[n] \in some THEN Append(kept[n - 1], store[n]) ELSE kept[n - 1]
  IN kept[Len(store)]

Drop(store, key) == Among(store, {e \in Range(store) : e.key # key})

(* The store without its oldest entries, as few as leave it below max. *)
DropOldest(store, max) ==
  IF Len(store) < max THEN store ELSE SubSeq(store, Len(store) - max + 2, Len(store))

-----------------------------------------------------------------------------
(* RateLimiter. rule has max, window and maxKeys. *)

Expired(w, at, rule) == at - w.start >= rule.window

Evict(windows, at, rule) ==
  DropOldest(Among(windows, {w \in Range(windows) : ~Expired(w, at, rule)}), rule.maxKeys)

Take(windows, key, at, rule) ==
  LET known == key \in Keys(windows)
      fresh == known /\ ~Expired(Entry(windows, key), at, rule)
      room == IF ~known /\ Len(windows) >= rule.maxKeys THEN Evict(windows, at, rule) ELSE windows
      w == IF fresh THEN Entry(windows, key) ELSE [key |-> key, start |-> at, count |-> 0]
      counted == [w EXCEPT !.count = @ + 1]
  IN IF rule.max = 0 THEN [windows |-> windows, allowed |-> TRUE]
     ELSE [windows |-> Put(room, counted), allowed |-> counted.count <= rule.max]

(* The client a request is counted under. *)
ClientKey(headers) == IF headers.cf # "none" THEN headers.cf ELSE headers.socket

(* The limiter after each of a sequence of calls <<headers, at>>. *)
Calls(calls, rule) ==
  LET after[n \in 0..Len(calls)] ==
        IF n = 0 THEN [windows |-> <<>>, allowed |-> TRUE]
        ELSE Take(after[n - 1].windows, ClientKey(calls[n][1]), calls[n][2], rule)
  IN after

(* A client is refused only after max calls in a window that is still open; *)
(* one the table has not forgotten meanwhile gets max through in a window   *)
(* and no more; and the table stays within its bound (rate-limit.ts:8).     *)
LimiterMeetsItsReference(calls, rule) ==
  LET after == Calls(calls, rule)
      who(n) == ClientKey(calls[n][1])
      recent(n) == {m \in 1..n : who(m) = who(n) /\ calls[n][2] - calls[m][2] < rule.window}
      forgotten(n) == \E m \in 1..n : who(n) \in Keys(after[m - 1].windows)
                                      /\ who(n) \notin Keys(after[m].windows)
  IN \A n \in 1..Len(calls) :
       /\ Len(after[n].windows) <= rule.maxKeys
       /\ ~after[n].allowed => Cardinality(recent(n)) > rule.max
       /\ rule.max = 0 => after[n].allowed
       /\ rule.max > 0 /\ ~forgotten(n) /\ after[n].allowed =>
            LET start == Entry(after[n].windows, who(n)).start
                through == {m \in recent(n) : calls[m][2] >= start /\ after[m].allowed}
            IN Cardinality(through) <= rule.max

-----------------------------------------------------------------------------
(* Start links: mintStartToken of packages/start-token and the page of      *)
(* test-start that opens one. A token is signed over its payload, so what   *)
(* was not minted fails the signature.                                      *)

START_TOKEN_TTL_SECONDS == 120

PERMITTED_INTERACTION_SCHEMES == {"openid4vp:", "eudi-openid4vp:", "mdoc-openid4vp:", "haip:"}

MintStartToken(scheme, nonce, now, ttl) ==
  [signed |-> TRUE, scheme |-> scheme, nonce |-> nonce, expiresAt |-> now + ttl]

VerifyStartToken(token, now) ==
  CASE ~token.signed -> "bad_signature"
    [] token.signed /\ token.expiresAt <= now -> "expired"
    [] token.signed /\ token.expiresAt > now -> "ok"

(* A nonce that was seen is refused; a full set forgets the oldest. *)
RememberNonce(seen, nonce, max) ==
  IF nonce \in Keys(seen) THEN seen
  ELSE Append(IF Len(seen) >= max THEN Tail(seen) ELSE seen, [key |-> nonce])

OpenStartLink(seen, token, now, max) ==
  CASE VerifyStartToken(token, now) # "ok" -> [seen |-> seen, page |-> "no longer valid"]
    [] VerifyStartToken(token, now) = "ok"
         /\ token.scheme \notin PERMITTED_INTERACTION_SCHEMES -> [seen |-> seen, page |-> "unsupported"]
    [] VerifyStartToken(token, now) = "ok" /\ token.scheme \in PERMITTED_INTERACTION_SCHEMES ->
         [seen |-> RememberNonce(seen, token.nonce, max),
          page |-> IF token.nonce \in Keys(seen) THEN "already used" ELSE "open wallet"]

(* The page after each of a sequence of visits <<token, now>>. *)
Visits(visits, max) ==
  LET after[n \in 0..Len(visits)] ==
        IF n = 0 THEN [seen |-> <<>>, page |-> "none"]
        ELSE OpenStartLink(after[n - 1].seen, visits[n][1], visits[n][2], max)
  IN after

(* A link opens the wallet once, unless as many others as the set holds    *)
(* were opened in between; and only within its lifetime                    *)
(* (test-start/main.ts:70, start-token/index.ts:36).                       *)
StartLinksOpenOnce(visits, max) ==
  LET after == Visits(visits, max)
      opened(n) == after[n].page = "open wallet"
      others(m, n) == {visits[k][1].nonce : k \in {j \in m + 1..n - 1 : opened(j)}}
  IN \A n \in 1..Len(visits) :
       /\ Len(after[n].seen) <= max
       /\ opened(n) => visits[n][1].signed /\ visits[n][2] < visits[n][1].expiresAt
       /\ \A m \in 1..n - 1 : opened(m) /\ opened(n) /\ visits[m][1].nonce = visits[n][1].nonce
            => Cardinality(others(m, n)) >= max

-----------------------------------------------------------------------------
(* CrossDevicePolls: the token of a presentation that was asked for with a  *)
(* QR; a MAC is the key and the id it is computed over.                     *)

MacOf(key, id) == [mac |-> key, of |-> id]

RememberPoll(polls, id, max) ==
  Put(IF Len(polls) >= max THEN Tail(polls) ELSE polls, [key |-> id])

AllowsPoll(polls, key, id, token) == id \notin Keys(polls) \/ token = MacOf(key, id)

(* Of the last max presentations asked for with a QR, the outcome is given  *)
(* for the token made for it in this process and for nothing else           *)
(* (polls.ts:7).                                                            *)
PollsMeetTheirReference(ids, key, tokens, max) ==
  LET after[n \in 0..Len(ids)] == IF n = 0 THEN <<>> ELSE RememberPoll(after[n - 1], ids[n], max)
  IN \A n \in DOMAIN ids : n > Len(ids) - max =>
       \A token \in tokens \cup {MacOf(key, ids[n])} :
         AllowsPoll(after[Len(ids)], key, ids[n], token) <=> token = MacOf(key, ids[n])

-----------------------------------------------------------------------------
(* CaseBook. rule has max and ttl; what the browser says of an application  *)
(* (expect, link, declare) is kept apart from what was verified (identity,  *)
(* income: the presentations they came with).                               *)

EmptyBook == [cases |-> <<>>, expected |-> <<>>, links |-> <<>>]

Keep(store, entry, max) == Put(IF Len(store) >= max THEN Tail(store) ELSE store, entry)

(* The cases opened after a time, in their order. *)
OpenedAfter(cases, time) == Among(cases, {c \in Range(cases) : c.at > time})

Sweep(book, now, rule) == [book EXCEPT !.cases = OpenedAfter(@, now - rule.ttl)]

Expect(book, id, product, expectsIncome, rule) ==
  [book EXCEPT !.expected = Keep(@, [key |-> id, product |-> product, income |-> expectsIncome], 10 * rule.max)]

LinkIncome(book, id, case, rule) ==
  [book EXCEPT !.links = Keep(@, [key |-> id, case |-> case], 10 * rule.max)]

(* Polled again, the same presentation changes nothing. *)
OpenCase(book, id, now, rule) ==
  LET swept == Sweep(book, now, rule)
      said == IF id \in Keys(book.expected) THEN Entry(book.expected, id)
              ELSE [key |-> id, product |-> "none", income |-> FALSE]
      case == [key |-> id, at |-> now, product |-> said.product, expects |-> said.income,
               income |-> 0, declared |-> "none"]
  IN IF id \in Keys(swept.cases) THEN swept
     ELSE [swept EXCEPT !.expected = Drop(@, id), !.cases = Keep(@, case, rule.max)]

UpdateCase(book, id, now, rule, case) ==
  LET swept == Sweep(book, now, rule) IN
  IF id \in Keys(swept.cases) THEN [swept EXCEPT !.cases = Put(@, case)] ELSE swept

HasCase(book, id, now, rule) == id \in Keys(Sweep(book, now, rule).cases)

AddIncome(book, id, now, rule) ==
  IF id \notin Keys(book.links) THEN book
  ELSE LET case == Entry(book.links, id).case IN
       IF ~HasCase(book, case, now, rule) THEN Sweep(book, now, rule)
       ELSE UpdateCase(book, case, now, rule, [Entry(book.cases, case) EXCEPT !.income = id])

DeclareOutcome(book, id, now, rule, product) ==
  IF ~HasCase(book, id, now, rule) THEN Sweep(book, now, rule)
  ELSE LET case == Entry(book.cases, id) IN
       UpdateCase(book, id, now, rule,
         [case EXCEPT !.product = IF @ = "none" THEN product ELSE @, !.declared = product])

(* Newest first. *)
ListCases(book, now, rule) == Reverse(Sweep(book, now, rule).cases)

(* The book after each of a sequence of calls [call, id, of, at]. *)
BookCalls(calls, rule) ==
  LET step(book, c) ==
        CASE c.call = "expect" -> Expect(book, c.id, c.of, FALSE, rule)
          [] c.call = "link" -> LinkIncome(book, c.id, c.of, rule)
          [] c.call = "identity" -> OpenCase(book, c.id, c.at, rule)
          [] c.call = "income" -> AddIncome(book, c.id, c.at, rule)
          [] c.call = "declare" -> DeclareOutcome(book, c.id, c.at, rule, c.of)
      after[n \in 0..Len(calls)] == IF n = 0 THEN EmptyBook ELSE step(after[n - 1], calls[n])
  IN after

(* The book holds a handful of cases, none longer than its time, the newest *)
(* first; only a verified presentation opens one or puts an income on one,  *)
(* and while it lasts what the browser said first of its product stays      *)
(* (backoffice.ts:8).                                                       *)
BookMeetsItsReference(calls, rule) ==
  LET after == BookCalls(calls, rule)
      called(n, call, id) == \E m \in 1..n : calls[m].call = call /\ calls[m].id = id
  IN \A n \in 1..Len(calls) :
       LET listed == ListCases(after[n], calls[n].at, rule) IN
       /\ Len(listed) <= rule.max
       /\ \A m \in DOMAIN listed :
            /\ listed[m].at > calls[n].at - rule.ttl
            /\ m > 1 => listed[m - 1].at >= listed[m].at
            /\ called(n, "identity", listed[m].key)
            /\ listed[m].income # 0 => called(n, "income", listed[m].income)
            /\ n > 1 /\ listed[m].key \in Keys(after[n - 1].cases) =>
                 LET before == Entry(after[n - 1].cases, listed[m].key) IN
                 before.product # "none" /\ before.at = listed[m].at => listed[m].product = before.product
=============================================================================
