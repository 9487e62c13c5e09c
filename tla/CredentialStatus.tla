-------------------------- MODULE CredentialStatus --------------------------
(***************************************************************************)
(* Changing the status of an issued attestation: changeCredentialStatus    *)
(* (apps/platform-api/.../issuance.service.ts) over the register           *)
(* (issued_credentials) and the status list that the engine publishes and  *)
(* relying parties read. The platform persists first, then tells the       *)
(* engine, then records that the engine agreed.                            *)
(***************************************************************************)
EXTENDS Integers

CONSTANTS Credentials,
          Operators,         \* executions of changeCredentialStatus
          SuspensionAllowed, \* attestations whose policy version permits it
          EngineAnswers,     \* what the engine may do with a status call
          MaxFaults          \* bound on failed statements and crashes

ASSUME CredentialStatusAssumption ==
  /\ Credentials # {}
  /\ SuspensionAllowed \subseteq Credentials
  /\ EngineAnswers \subseteq {"done", "refused", "unanswered", "late"}
  /\ MaxFaults \in Nat

VARIABLES
  record,     \* issued_credentials: status, and statusConfirmedAt # null
  list,       \* the status list of the engine
  overdue,    \* status calls that timed out and may still be carried out
  audit,      \* credential.status_changed and .status_change_unconfirmed
  pc, req,    \* what each operator's request awaits, and its local variables
  faults

vars == <<record, list, overdue, audit, pc, req, faults>>

Statuses == {"VALID", "SUSPENDED", "REVOKED"}

Reports == [action : {"changed", "unconfirmed"}, to : Statuses]

Locals == [c : Credentials, from : Statuses, to : Statuses]

NoLocals == [c |-> CHOOSE c \in Credentials : TRUE, from |-> "VALID", to |-> "VALID"]

(* recordIssued: confirmed on arrival, the engine issued it. *)
Init ==
  /\ record = [c \in Credentials |-> [status |-> "VALID", confirmed |-> TRUE]]
  /\ list = [c \in Credentials |-> "VALID"]
  /\ overdue = [c \in Credentials |-> {}]
  /\ audit = [c \in Credentials |-> {}]
  /\ pc = [o \in Operators |-> "idle"]
  /\ req = [o \in Operators |-> NoLocals]
  /\ faults = 0

Goto(o, label) == pc' = [pc EXCEPT ![o] = label]

(* The request is over: answered, or an error thrown to the operator. *)
Return(o) == Goto(o, "idle") /\ req' = [req EXCEPT ![o] = NoLocals]

(* STATUS_TRANSITIONS *)
NextStatuses(from) ==
  CASE from = "VALID" -> {"SUSPENDED", "REVOKED"}
    [] from = "SUSPENDED" -> {"VALID", "REVOKED"}
    [] from = "REVOKED" -> {}

(* Mutated: the policy is not asked. *)
PermittedByAnyPolicy(c, from, to) == to \in NextStatuses(from)

(* assertStatusTransition, given the policy version the record names. *)
Permitted(c, from, to) ==
  /\ to \in NextStatuses(from)
  /\ to = "SUSPENDED" => c \in SuspensionAllowed

-----------------------------------------------------------------------------
(* findIssued and listVersions. *)
Begin(o) ==
  /\ pc[o] = "idle"
  /\ \E c \in Credentials, to \in Statuses :
       req' = [req EXCEPT ![o] = [c |-> c, from |-> record[c].status, to |-> to]]
  /\ Goto(o, "change")
  /\ UNCHANGED <<record, list, overdue, audit, faults>>

(* Mutated: the UPDATE is not pinned to the status that was read. *)
ChangeUnpinned(o) ==
  /\ pc[o] = "change"
  /\ LET r == req[o] IN
       IF Permitted(r.c, r.from, r.to)
       THEN /\ record' = [record EXCEPT ![r.c] = [status |-> r.to, confirmed |-> FALSE]]
            /\ Goto(o, "tell") /\ UNCHANGED req
       ELSE Return(o) /\ UNCHANGED record
  /\ UNCHANGED <<list, overdue, audit, faults>>

(* changeStatus: refused by the domain or by the WHERE clause, or persisted *)
(* as intended but not in effect.                                           *)
Change(o) ==
  /\ pc[o] = "change"
  /\ LET r == req[o] IN
       IF Permitted(r.c, r.from, r.to) /\ record[r.c].status = r.from
       THEN /\ record' = [record EXCEPT ![r.c] = [status |-> r.to, confirmed |-> FALSE]]
            /\ Goto(o, "tell") /\ UNCHANGED req
       ELSE Return(o) /\ UNCHANGED record
  /\ UNCHANGED <<list, overdue, audit, faults>>

(* Mutated: a failed call is only thrown, not audited. *)
TellUnaudited(o) ==
  /\ pc[o] = "tell"
  /\ \E answer \in EngineAnswers :
       /\ list' = IF answer \in {"done", "unanswered"}
                  THEN [list EXCEPT ![req[o].c] = req[o].to] ELSE list
       /\ overdue' = IF answer = "late"
                  THEN [overdue EXCEPT ![req[o].c] = @ \cup {req[o].to}] ELSE overdue
       /\ IF answer = "done" THEN Goto(o, "confirm") /\ UNCHANGED req ELSE Return(o)
  /\ UNCHANGED <<record, audit, faults>>

(* updateCredentialStatus: the engine sets whatever it is told, in the      *)
(* order the calls arrive.                                                  *)
Tell(o) ==
  /\ pc[o] = "tell"
  /\ \E answer \in EngineAnswers :
       /\ list' = IF answer \in {"done", "unanswered"}
                  THEN [list EXCEPT ![req[o].c] = req[o].to] ELSE list
       /\ overdue' = IF answer = "late"
                  THEN [overdue EXCEPT ![req[o].c] = @ \cup {req[o].to}] ELSE overdue
       /\ Goto(o, IF answer = "done" THEN "confirm" ELSE "auditUnconfirmed")
  /\ UNCHANGED <<record, audit, req, faults>>

LateCall(c) ==
  /\ \E status \in overdue[c] :
       /\ list' = [list EXCEPT ![c] = status]
       /\ overdue' = [overdue EXCEPT ![c] = @ \ {status}]
  /\ UNCHANGED <<record, audit, pc, req, faults>>

(* Mutated: the confirmation writes the status it confirms. *)
ConfirmWhole(o) ==
  /\ pc[o] = "confirm"
  /\ record' = [record EXCEPT ![req[o].c] = [status |-> req[o].to, confirmed |-> TRUE]]
  /\ Goto(o, "audit")
  /\ UNCHANGED <<list, overdue, audit, req, faults>>

(* confirmStatus, pinned to the status it is confirming. *)
Confirm(o) ==
  /\ pc[o] = "confirm"
  /\ record' = [record EXCEPT ![req[o].c].confirmed = @ \/ record[req[o].c].status = req[o].to]
  /\ Goto(o, "audit")
  /\ UNCHANGED <<list, overdue, audit, req, faults>>

Audit(o) ==
  /\ pc[o] \in {"audit", "auditUnconfirmed"}
  /\ audit' = [audit EXCEPT ![req[o].c] = @ \cup
       {[action |-> IF pc[o] = "audit" THEN "changed" ELSE "unconfirmed", to |-> req[o].to]}]
  /\ Return(o)
  /\ UNCHANGED <<record, list, overdue, faults>>

(* A statement fails and its error reaches the operator. The tenant of the  *)
(* engine is looked up inside the try, so there the failure is audited.     *)
Fault(o) ==
  /\ pc[o] # "idle"
  /\ faults < MaxFaults
  /\ faults' = faults + 1
  /\ IF pc[o] = "tell" THEN Goto(o, "auditUnconfirmed") /\ UNCHANGED req ELSE Return(o)
  /\ UNCHANGED <<record, list, overdue, audit>>

Crash ==
  /\ \E o \in Operators : pc[o] # "idle"
  /\ faults < MaxFaults
  /\ faults' = faults + 1
  /\ pc' = [o \in Operators |-> "idle"]
  /\ req' = [o \in Operators |-> NoLocals]
  /\ UNCHANGED <<record, list, overdue, audit>>

Step(o) == Begin(o) \/ Change(o) \/ Tell(o) \/ Confirm(o) \/ Audit(o)

Next ==
  \/ \E o \in Operators : Step(o) \/ Fault(o)
  \/ \E c \in Credentials : LateCall(c)
  \/ Crash

Spec == Init /\ [][Next]_vars

-----------------------------------------------------------------------------
(* Properties *)

TypeOK ==
  /\ record \in [Credentials -> [status : Statuses, confirmed : BOOLEAN]]
  /\ list \in [Credentials -> Statuses]
  /\ overdue \in [Credentials -> SUBSET Statuses]
  /\ audit \in [Credentials -> SUBSET Reports]
  /\ pc \in [Operators -> {"idle", "change", "tell", "confirm", "audit", "auditUnconfirmed"}]
  /\ req \in [Operators -> Locals]
  /\ faults \in 0..MaxFaults

(* The register never leaves REVOKED, whatever requests raced with the      *)
(* revocation (changeStatus pins the status it read, confirmStatus the one  *)
(* it confirms).                                                            *)
RevocationIsFinal ==
  [][\A c \in Credentials :
       record[c].status = "REVOKED" => record'[c].status = "REVOKED"]_vars

(* Persist, then tell: nobody sees an attestation revoked on the status     *)
(* list whose register does not say so (changeCredentialStatus).            *)
RegisterGoesFirst ==
  \A c \in Credentials :
    list[c] = "REVOKED" \/ "REVOKED" \in overdue[c] => record[c].status = "REVOKED"

(* Neither the register nor the list ever holds back an attestation whose   *)
(* policy version forbids suspension (assertStatusTransition).              *)
SuspensionNeedsPolicy ==
  \A c \in Credentials \ SuspensionAllowed :
    record[c].status # "SUSPENDED" /\ list[c] # "SUSPENDED"

(* When nobody is at work on an attestation and no statement failed, a      *)
(* status still unconfirmed has been audited as such: whoever made the last *)
(* change either confirmed it or reported it, whatever the others did       *)
(* meanwhile (the catch of changeCredentialStatus).                         *)
DivergenceIsReported ==
  \A c \in Credentials :
    ~record[c].confirmed /\ faults = 0 /\ (\A o \in Operators : pc[o] = "idle" \/ req[o].c # c)
      => [action |-> "unconfirmed", to |-> record[c].status] \in audit[c]

-----------------------------------------------------------------------------
(* Refuted by a run of its own: "a concurrent revoke and reinstate cannot   *)
(* interleave into an un-revocation" (issuance.repository.ts:843). The      *)
(* register cannot, but the reinstatement's engine call may arrive after    *)
(* the revocation's, and the list is what a relying party reads.            *)
ListKeepsRevocations ==
  [][\A c \in Credentials : list[c] = "REVOKED" => list'[c] = "REVOKED"]_vars
=============================================================================
