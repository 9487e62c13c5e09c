----------------------------- MODULE ClaimPaths -----------------------------
(***************************************************************************)
(* Claims path pointers (domain/src/verification/claim-path.ts) and the    *)
(* documents they point into. A path is a sequence of segments: a member   *)
(* name, an index of an array, or the wildcard null. A document is the set *)
(* of its leaves: the concrete path that leads to a value, and that value. *)
(* An object or an array in it has at least one member.                    *)
(***************************************************************************)
EXTENDS Naturals, Sequences, FiniteSets, SequencesExt

CONSTANTS Members, Indexes, Wildcard,
          Values   \* what is neither an object nor an array, null among it

ASSUME SegmentAssumption ==
  /\ Members \cap Indexes = {}
  /\ Wildcard \notin Members \cup Indexes
  /\ Values \cap (Members \cup Indexes) = {}

(* isValidSegment *)
Segments == Members \cup Indexes \cup {Wildcard}

(* isValidClaimPath *)
IsValidClaimPath(path) == path # <<>> /\ \A i \in DOMAIN path : path[i] \in Segments

SegmentCovers(registered, requested) ==
  \/ registered = Wildcard
  \/ registered = requested

(* A registered path is the broader disclosure of those that extend it. *)
ClaimPathCovers(registered, requested) ==
  /\ Len(registered) <= Len(requested)
  /\ \A i \in DOMAIN registered : SegmentCovers(registered[i], requested[i])

IsClaimPathWithin(requested, registered) ==
  \E path \in registered : ClaimPathCovers(path, requested)

(* findClaimPathViolations *)
ClaimPathViolations(requested, registered) ==
  {path \in requested : ~IsClaimPathWithin(path, registered)}

-----------------------------------------------------------------------------
(* What is at an address: the leaves at or below it, addressed from it. *)
Below(document, address) ==
  {SubSeq(leaf, Len(address) + 1, Len(leaf)) :
     leaf \in {l \in document : IsPrefix(address, l)}}

(* A value is absent, an array (its leaves begin with an index), or else. *)
IsArray(value) == \E leaf \in value : leaf # <<>> /\ Head(leaf) \in Indexes

(* The segments of a path before the first that is not one of these. *)
Leading(path, segments) ==
  LET others == {i \in DOMAIN path : path[i] \notin segments}
  IN IF others = {} THEN path
     ELSE SubSeq(path, 1, (CHOOSE i \in others : \A j \in others : i <= j) - 1)

(* How far readClaimAtPath follows a path: up to a wildcard. *)
Address(path) == Leading(path, Members \cup Indexes)

(* readClaimAtPath: undefined is the empty value; a wildcard answers with   *)
(* the array itself and leaves the rest of the path unread.                 *)
ReadClaimAtPath(document, path) ==
  LET at == Below(document, Address(path))
  IN IF Wildcard \notin Range(path) \/ IsArray(at) THEN at ELSE {}

-----------------------------------------------------------------------------
(* The reference, OpenID4VP 7.1: the leaves of a document a path selects. *)
Selects(path, leaf) ==
  /\ Len(path) <= Len(leaf)
  /\ \A i \in DOMAIN path :
       IF path[i] = Wildcard THEN leaf[i] \in Indexes ELSE path[i] = leaf[i]

Selected(path, document) == {leaf \in document : Selects(path, leaf)}

SelectedByAny(paths, document) == UNION {Selected(path, document) : path \in paths}
=============================================================================
