------------------------------ MODULE Listings ------------------------------
(***************************************************************************)
(* The list routes (apps/platform-api/src/http/listing.controllers.ts),    *)
(* the queries behind them (persistence/.../listing.repository.ts) and     *)
(* their pages (persistence/src/pagination.ts). Pure: a table is a set of  *)
(* rows, and a row has what the lists read of it. Identifiers are numbers, *)
(* ordered as PostgreSQL orders them; a time is a millisecond.             *)
(***************************************************************************)
EXTENDS Integers, Sequences, FiniteSets, SequencesExt

-----------------------------------------------------------------------------
(* Pages *)

DEFAULT_PAGE_SIZE == 25
MAX_PAGE_SIZE == 100

(* What a query string may give as limit and as cursor. *)
NoCursor == [given |-> FALSE, decodes |-> TRUE, at |-> 0, id |-> 0]
NoLimit == [given |-> FALSE, whole |-> FALSE, value |-> 0]

EncodeCursor(row) == [given |-> TRUE, decodes |-> TRUE, at |-> row.at, id |-> row.id]

Refusal(code) == [refused |-> code]

ParsePageRequest(query) ==
  LET limit == query.limit  cursor == query.cursor IN
  CASE limit.given /\ (~limit.whole \/ limit.value < 1) -> Refusal("invalid_page_size")
    [] limit.given /\ limit.whole /\ limit.value > MAX_PAGE_SIZE -> Refusal("page_size_too_large")
    [] (limit.given => limit.whole /\ limit.value \in 1..MAX_PAGE_SIZE)
         /\ cursor.given /\ ~cursor.decodes -> Refusal("invalid_cursor")
    [] OTHER -> [refused |-> "no", cursor |-> cursor,
                 limit |-> IF limit.given THEN limit.value ELSE DEFAULT_PAGE_SIZE]

(* One row more than the page holds was read: it says that there is more. *)
ToPage(rows, limit) ==
  IF Len(rows) <= limit THEN [items |-> rows, next |-> NoCursor]
  ELSE [items |-> SubSeq(rows, 1, limit), next |-> EncodeCursor(rows[limit])]

-----------------------------------------------------------------------------
(* The query every list shares *)

(* Mutated: compared on the time alone. *)
AfterCursorByTime(row, cursor) == ~cursor.given \/ row.at < cursor.at

AfterCursor(row, cursor) ==
  \/ ~cursor.given
  \/ row.at < cursor.at
  \/ row.at = cursor.at /\ row.id < cursor.id

Newest(a, b) == a.at > b.at \/ (a.at = b.at /\ a.id > b.id)

FirstOf(rows, n) == SubSeq(rows, 1, IF Len(rows) < n THEN Len(rows) ELSE n)

(* ORDER BY: the n-th row is the one that n - 1 others come before. *)
NewestFirst(rows) ==
  [n \in 1..Cardinality(rows) |->
     CHOOSE r \in rows : Cardinality({s \in rows : Newest(s, r)}) = n - 1]

Keyset(rows, tenant, page) ==
  FirstOf(NewestFirst({r \in rows : r.tenant = tenant /\ AfterCursor(r, page.cursor)}),
          page.limit + 1)

(* What a list says of each row, selected field by field. *)
Listed(rows, page, detail) ==
  ToPage([n \in DOMAIN rows |-> [id |-> rows[n].id, at |-> rows[n].at,
                                 detail |-> detail[rows[n]]]], page.limit)

-----------------------------------------------------------------------------
(* The lists *)

Organisations(rows, tenant, page) ==
  Listed(Keyset(rows, tenant, page), page, [r \in rows |-> [name |-> r.name]])

RelyingPartyServices(rows, tenant, page) ==
  Listed(Keyset(rows, tenant, page), page,
         [r \in rows |-> [name |-> r.name, hasWebhookEndpoint |-> r.parent # 0]])

IntendedUses(rows, tenant, service, page) ==
  Listed(Keyset({r \in rows : r.parent = service}, tenant, page), page,
         [r \in rows |-> [name |-> r.name]])

(* The highest published version, or none: 0. *)
LatestPublished(row) ==
  IF row.published = {} THEN 0 ELSE CHOOSE v \in row.published : \A w \in row.published : v >= w

(* A left join: a policy without a published version stays in the list. *)
PresentationPoliciesList(rows, tenant, page) ==
  Listed(Keyset(rows, tenant, page), page,
         [r \in rows |-> [name |-> r.name, status |-> r.state, relyingPartyServiceId |-> r.parent,
                          publishedVersion |-> LatestPublished(r)]])

IssuancePoliciesList(rows, tenant, page) ==
  Listed(Keyset(rows, tenant, page), page,
         [r \in rows |-> [name |-> r.name, status |-> r.state, credentialTypeId |-> r.parent,
                          publishedVersion |-> LatestPublished(r)]])

(* Without a policy the list is every policy's: 0. *)
OfPolicy(row, policy) == policy = 0 \/ row.parent = policy

(* Metadata only: the result of a presentation is in no list. *)
PresentationsList(rows, tenant, page, policy) ==
  Listed(Keyset({r \in rows : OfPolicy(r, policy)}, tenant, page), page,
         [r \in rows |-> [status |-> r.state, policyId |-> r.parent]])

IssuancesList(rows, tenant, page, policy) ==
  Listed(Keyset({r \in rows : OfPolicy(r, policy)}, tenant, page), page,
         [r \in rows |-> [status |-> r.state, policyId |-> r.parent]])

AttestationProviders(rows, tenant, page) ==
  Listed(Keyset(rows, tenant, page), page,
         [r \in rows |-> [name |-> r.name, provisioned |-> r.parent # 0]])

CredentialTypesList(rows, tenant, page) ==
  Listed(Keyset(rows, tenant, page), page,
         [r \in rows |-> [name |-> r.name, attestationProviderId |-> r.parent]])

(* Sorted by issuedAt; neither the session nor the status list entry. *)
IssuedCredentials(rows, tenant, page) ==
  Listed(Keyset(rows, tenant, page), page,
         [r \in rows |-> [status |-> r.state, credentialTypeId |-> r.parent]])

-----------------------------------------------------------------------------
(* The routes. The tenant of a path carries no authority. *)

AssertTenantMatches(ctx, tenant) == ctx = tenant

TenantLists == {"organisations", "rp-services", "intended-uses", "presentation-policies",
                "attestation-providers", "credential-types", "issuance-policies"}

TenantListing(list, rows, ctx, tenant, service, query) ==
  LET page == ParsePageRequest(query) IN
  IF ~AssertTenantMatches(ctx, tenant) THEN Refusal("tenant_mismatch")
  ELSE IF page.refused # "no" THEN page ELSE
  CASE list = "organisations" -> Organisations(rows, ctx, page)
    [] list = "rp-services" -> RelyingPartyServices(rows, ctx, page)
    [] list = "intended-uses" -> IntendedUses(rows, ctx, service, page)
    [] list = "presentation-policies" -> PresentationPoliciesList(rows, ctx, page)
    [] list = "attestation-providers" -> AttestationProviders(rows, ctx, page)
    [] list = "credential-types" -> CredentialTypesList(rows, ctx, page)
    [] list = "issuance-policies" -> IssuancePoliciesList(rows, ctx, page)

TransactionLists == {"presentations", "issuances", "issued-credentials"}

TransactionListing(list, rows, ctx, policy, query) ==
  LET page == ParsePageRequest(query) IN
  IF page.refused # "no" THEN page ELSE
  CASE list = "presentations" -> PresentationsList(rows, ctx, page, policy)
    [] list = "issuances" -> IssuancesList(rows, ctx, page, policy)
    [] list = "issued-credentials" -> IssuedCredentials(rows, ctx, page)

(* One page of any list, as a caller of tenant ctx gets it; of is the       *)
(* service or the policy the list is narrowed to, 0 for none.               *)
ListPage(list, rows, ctx, of, query) ==
  IF list \in TenantLists THEN TenantListing(list, rows, ctx, ctx, of, query)
  ELSE TransactionListing(list, rows, ctx, of, query)

-----------------------------------------------------------------------------
(* A walk over the pages of a list while rows are inserted *)

(* The n-th page is read from rows[n], after the cursor of the one before; *)
(* once a page says there is no next, nothing more is read.                *)
Walk(list, rows, ctx, of, limit) ==
  LET asked(cursor) == [limit |-> [given |-> TRUE, whole |-> TRUE, value |-> limit],
                        cursor |-> cursor]
      pages[n \in 1..Len(rows)] ==
        IF n = 1 THEN ListPage(list, rows[1], ctx, of, asked(NoCursor))
        ELSE IF ~pages[n - 1].next.given THEN [items |-> <<>>, next |-> NoCursor]
        ELSE ListPage(list, rows[n], ctx, of, asked(pages[n - 1].next))
  IN pages

(* Which rows a list is of. *)
InList(list, row, ctx, of) ==
  /\ row.tenant = ctx
  /\ list = "intended-uses" => row.parent = of
  /\ list \in {"presentations", "issuances"} => OfPolicy(row, of)

(* A caller who walks a list sees every row that was there all along, each  *)
(* once, no row twice, no row of another tenant and no result, and knows    *)
(* the end from a short page, whatever is inserted between the pages        *)
(* (pagination.ts:12, listing.repository.ts:31).                            *)
WalkSeesEachOnce(list, rows, ctx, of, limit) ==
  LET pages == Walk(list, rows, ctx, of, limit)
      seen == [n \in DOMAIN pages |-> {pages[n].items[k].id : k \in DOMAIN pages[n].items}]
  IN /\ {r.id : r \in {s \in rows[1] : InList(list, s, ctx, of)}} \subseteq UNION Range(seen)
     /\ \A m, n \in DOMAIN pages : m < n => seen[m] \cap seen[n] = {}
     /\ UNION Range(seen) \subseteq {r.id : r \in {s \in rows[Len(rows)] : InList(list, s, ctx, of)}}
     /\ \A n \in DOMAIN pages : \A k \in DOMAIN pages[n].items :
          {"result", "session"} \cap DOMAIN pages[n].items[k].detail = {}
=============================================================================
