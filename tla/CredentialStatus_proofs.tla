----------------------- MODULE CredentialStatus_proofs ----------------------
(***************************************************************************)
(* For any number of attestations and operators: the types, that the       *)
(* register is never un-revoked, that it is never behind the status list   *)
(* with a revocation, that suspension needs the policy, and that a         *)
(* divergence of the two was reported.                                     *)
(***************************************************************************)
EXTENDS CredentialStatus, TLAPS

(* The locals of an idle request are locals. *)
LEMMA NoLocalsTyped == NoLocals \in Locals
<1>1. (CHOOSE c \in Credentials : TRUE) \in Credentials
  BY CredentialStatusAssumption DEF CredentialStatusAssumption
<1>2. QED
  BY <1>1 DEF NoLocals, Locals, Statuses

(* The domain's table leads from a status to a status, never from REVOKED. *)
LEMMA TableTyped ==
  ASSUME NEW from \in Statuses
  PROVE  NextStatuses(from) \subseteq Statuses /\ NextStatuses("REVOKED") = {}
  BY DEF NextStatuses, Statuses

(* The initial states have the types. *)
LEMMA InitTyped == Init => TypeOK
<1>1. SUFFICES ASSUME Init PROVE TypeOK
  OBVIOUS
<1>2. req \in [Operators -> Locals]
  BY <1>1, NoLocalsTyped DEF Init
<1>3. faults = 0 /\ 0 \in 0..MaxFaults
  BY <1>1, CredentialStatusAssumption DEF CredentialStatusAssumption, Init
<1>4. /\ record \in [Credentials -> [status : Statuses, confirmed : BOOLEAN]]
      /\ list \in [Credentials -> Statuses]
      /\ overdue \in [Credentials -> SUBSET Statuses]
      /\ audit \in [Credentials -> SUBSET Reports]
  BY <1>1 DEF Init, Statuses
<1>5. pc \in [Operators -> {"idle", "change", "tell", "confirm", "audit", "auditUnconfirmed"}]
  BY <1>1 DEF Init
<1>6. QED
  BY <1>2, <1>3, <1>4, <1>5 DEF TypeOK

(* Every action keeps the types. *)
LEMMA NextTyped == TypeOK /\ [Next]_vars => TypeOK'
<1>1. SUFFICES ASSUME TypeOK, [Next]_vars PROVE TypeOK'
  OBVIOUS
<1>2. ASSUME NEW o \in Operators, Begin(o) PROVE TypeOK'
  <2>1. PICK c \in Credentials, to \in Statuses :
          req' = [req EXCEPT ![o] = [c |-> c, from |-> record[c].status, to |-> to]]
    BY <1>2 DEF Begin
  <2>2. [c |-> c, from |-> record[c].status, to |-> to] \in Locals
    BY <1>1 DEF TypeOK, Locals
  <2>3. QED
    BY <1>1, <1>2, <2>1, <2>2 DEF TypeOK, Begin, Goto
<1>3. ASSUME NEW o \in Operators, Change(o) PROVE TypeOK'
  <2>1. req[o].c \in Credentials /\ req[o].to \in Statuses
    BY <1>1 DEF TypeOK, Locals
  <2>2. record' \in [Credentials -> [status : Statuses, confirmed : BOOLEAN]]
    <3>1. \/ record' = record
          \/ record' = [record EXCEPT ![req[o].c] = [status |-> req[o].to, confirmed |-> FALSE]]
      BY <1>3 DEF Change
    <3>2. [status |-> req[o].to, confirmed |-> FALSE] \in [status : Statuses, confirmed : BOOLEAN]
      BY <2>1
    <3>3. QED
      BY <1>1, <2>1, <3>1, <3>2 DEF TypeOK
  <2>3. pc' \in [Operators -> {"idle", "change", "tell", "confirm", "audit", "auditUnconfirmed"}]
    BY <1>1, <1>3 DEF TypeOK, Change, Goto, Return
  <2>4. req' \in [Operators -> Locals]
    BY <1>1, <1>3, NoLocalsTyped DEF TypeOK, Change, Return
  <2>5. QED
    BY <1>1, <1>3, <2>2, <2>3, <2>4 DEF TypeOK, Change
<1>4. ASSUME NEW o \in Operators, Tell(o) PROVE TypeOK'
  <2>1. req[o].c \in Credentials /\ req[o].to \in Statuses
    BY <1>1 DEF TypeOK, Locals
  <2>2. PICK answer \in EngineAnswers :
          /\ list' = IF answer \in {"done", "unanswered"}
                     THEN [list EXCEPT ![req[o].c] = req[o].to] ELSE list
          /\ overdue' = IF answer = "late"
                     THEN [overdue EXCEPT ![req[o].c] = @ \cup {req[o].to}] ELSE overdue
          /\ Goto(o, IF answer = "done" THEN "confirm" ELSE "auditUnconfirmed")
    BY <1>4 DEF Tell
  <2>3. list' \in [Credentials -> Statuses] /\ overdue' \in [Credentials -> SUBSET Statuses]
    BY <1>1, <2>1, <2>2 DEF TypeOK
  <2>4. pc' \in [Operators -> {"idle", "change", "tell", "confirm", "audit", "auditUnconfirmed"}]
    BY <1>1, <2>2 DEF TypeOK, Goto
  <2>5. QED
    BY <1>1, <1>4, <2>3, <2>4 DEF TypeOK, Tell
<1>5. ASSUME NEW o \in Operators, Confirm(o) PROVE TypeOK'
  <2>1. req[o].c \in Credentials
    BY <1>1 DEF TypeOK, Locals
  <2>2. record' \in [Credentials -> [status : Statuses, confirmed : BOOLEAN]]
    BY <1>1, <1>5, <2>1 DEF TypeOK, Confirm
  <2>3. QED
    BY <1>1, <1>5, <2>2 DEF TypeOK, Confirm, Goto
<1>6. ASSUME NEW o \in Operators, Audit(o) PROVE TypeOK'
  <2>1. req[o].c \in Credentials /\ req[o].to \in Statuses
    BY <1>1 DEF TypeOK, Locals
  <2>2. audit' \in [Credentials -> SUBSET Reports]
    BY <1>1, <1>6, <2>1 DEF TypeOK, Audit, Reports
  <2>3. pc' \in [Operators -> {"idle", "change", "tell", "confirm", "audit", "auditUnconfirmed"}]
    BY <1>1, <1>6 DEF TypeOK, Audit, Goto, Return
  <2>4. req' \in [Operators -> Locals]
    BY <1>1, <1>6, NoLocalsTyped DEF TypeOK, Audit, Return
  <2>5. QED
    BY <1>1, <1>6, <2>2, <2>3, <2>4 DEF TypeOK, Audit
<1>7. ASSUME NEW o \in Operators, Fault(o) PROVE TypeOK'
  <2>1. pc' \in [Operators -> {"idle", "change", "tell", "confirm", "audit", "auditUnconfirmed"}]
    BY <1>1, <1>7 DEF TypeOK, Fault, Goto, Return
  <2>2. req' \in [Operators -> Locals]
    BY <1>1, <1>7, NoLocalsTyped DEF TypeOK, Fault, Return
  <2>3. faults' \in 0..MaxFaults
    BY <1>1, <1>7, CredentialStatusAssumption DEF CredentialStatusAssumption, TypeOK, Fault
  <2>4. QED
    BY <1>1, <1>7, <2>1, <2>2, <2>3 DEF TypeOK, Fault
<1>8. ASSUME NEW c \in Credentials, LateCall(c) PROVE TypeOK'
  <2>1. PICK status \in overdue[c] : /\ list' = [list EXCEPT ![c] = status]
                                  /\ overdue' = [overdue EXCEPT ![c] = @ \ {status}]
    BY <1>8 DEF LateCall
  <2>2. status \in Statuses
    BY <1>1, <2>1 DEF TypeOK
  <2>3. QED
    BY <1>1, <1>8, <2>1, <2>2 DEF TypeOK, LateCall
<1>9. ASSUME Crash PROVE TypeOK'
  <2>1. faults' \in 0..MaxFaults
    BY <1>1, <1>9, CredentialStatusAssumption DEF CredentialStatusAssumption, TypeOK, Crash
  <2>2. req' \in [Operators -> Locals]
    BY <1>9, NoLocalsTyped DEF Crash
  <2>3. QED
    BY <1>1, <1>9, <2>1, <2>2 DEF TypeOK, Crash
<1>10. ASSUME UNCHANGED vars PROVE TypeOK'
  BY <1>1, <1>10 DEF TypeOK, vars
<1>11. QED
  BY <1>1, <1>2, <1>3, <1>4, <1>5, <1>6, <1>7, <1>8, <1>9, <1>10 DEF Next, Step

(* Every variable of the status change keeps its type. *)
THEOREM TypeCorrect == Spec => []TypeOK
  BY InitTyped, NextTyped, PTL DEF Spec

-----------------------------------------------------------------------------
(* The inductive invariant. A request that has persisted its change and not *)
(* yet told the engine is the step between the register and the list: the   *)
(* change it carries is one the register has made or was allowed to make.   *)
ListFollows ==
  /\ RegisterGoesFirst
  /\ \A o \in Operators : pc[o] = "tell" /\ req[o].to = "REVOKED"
       => record[req[o].c].status = "REVOKED"

PolicyHolds ==
  /\ SuspensionNeedsPolicy
  /\ \A c \in Credentials \ SuspensionAllowed : "SUSPENDED" \notin overdue[c]
  /\ \A o \in Operators : pc[o] = "tell" /\ req[o].to = "SUSPENDED"
       => req[o].c \in SuspensionAllowed

Reporting(o, c) ==
  /\ req[o].c = c /\ req[o].to = record[c].status
  /\ pc[o] \in {"tell", "confirm", "auditUnconfirmed"}

SomebodyReports ==
  \A c \in Credentials : faults = 0 /\ ~record[c].confirmed =>
    \/ [action |-> "unconfirmed", to |-> record[c].status] \in audit[c]
    \/ \E o \in Operators : Reporting(o, c)

IInv == TypeOK /\ ListFollows /\ PolicyHolds /\ SomebodyReports

(* What the statements do to the row of an attestation: a change is made    *)
(* only by Change, from the status it read and along the domain's table.    *)
LEMMA ChangeOfStatus ==
  ASSUME TypeOK, [Next]_vars, NEW c \in Credentials,
         record'[c].status # record[c].status
  PROVE  \E o \in Operators :
           /\ Change(o) /\ pc[o] = "change" /\ req[o].c = c
           /\ Permitted(c, record[c].status, req[o].to)
           /\ record' = [record EXCEPT ![c] = [status |-> req[o].to, confirmed |-> FALSE]]
           /\ pc' = [pc EXCEPT ![o] = "tell"] /\ req' = req
<1>1. CASE record' = record
  BY <1>1
<1>2. ASSUME NEW o \in Operators, Confirm(o) PROVE record'[c].status = record[c].status
  <2>1. req[o].c \in Credentials /\ record \in [Credentials -> [status : Statuses, confirmed : BOOLEAN]]
    BY DEF TypeOK, Locals
  <2>2. QED
    BY <1>2, <2>1 DEF Confirm
<1>3. ASSUME NEW o \in Operators, Change(o), record' # record
      PROVE  \E q \in Operators :
           /\ Change(q) /\ pc[q] = "change" /\ req[q].c = c
           /\ Permitted(c, record[c].status, req[q].to)
           /\ record' = [record EXCEPT ![c] = [status |-> req[q].to, confirmed |-> FALSE]]
           /\ pc' = [pc EXCEPT ![q] = "tell"] /\ req' = req
  <2>1. /\ pc[o] = "change" /\ Permitted(req[o].c, req[o].from, req[o].to)
        /\ record[req[o].c].status = req[o].from
        /\ record' = [record EXCEPT ![req[o].c] = [status |-> req[o].to, confirmed |-> FALSE]]
        /\ pc' = [pc EXCEPT ![o] = "tell"] /\ req' = req
    BY <1>3 DEF Change, Goto
  <2>2. req[o].c = c
    BY <2>1 DEF TypeOK
  <2>3. QED
    BY <1>3, <2>1, <2>2
<1>4. QED
  BY <1>1, <1>2, <1>3
  DEF Next, Step, Begin, Tell, LateCall, Audit, Fault, Crash, vars

(* The initial states satisfy it: everything is valid and confirmed.        *)
LEMMA InitInvariant == Init => IInv
<1>1. SUFFICES ASSUME Init PROVE IInv
  OBVIOUS
<1>2. ListFollows /\ PolicyHolds
  BY <1>1 DEF Init, ListFollows, RegisterGoesFirst, PolicyHolds, SuspensionNeedsPolicy
<1>3. SomebodyReports
  BY <1>1 DEF Init, SomebodyReports
<1>4. QED
  BY <1>1, <1>2, <1>3, InitTyped DEF IInv

(* The register never leaves REVOKED.                                       *)
LEMMA RevokedStays ==
  ASSUME TypeOK, [Next]_vars, NEW c \in Credentials, record[c].status = "REVOKED"
  PROVE  record'[c].status = "REVOKED"
<1>1. SUFFICES ASSUME record'[c].status # record[c].status PROVE FALSE
  OBVIOUS
<1>2. PICK o \in Operators : Permitted(c, record[c].status, req[o].to)
  BY <1>1, ChangeOfStatus
<1>3. QED
  BY <1>2, TableTyped DEF Permitted, Statuses

(* Every step keeps the list no stricter than the register.                 *)
LEMMA ListFollowsStep == TypeOK /\ ListFollows /\ [Next]_vars => ListFollows'
<1>1. SUFFICES ASSUME TypeOK, ListFollows, [Next]_vars PROVE ListFollows'
  OBVIOUS
<1>2. \A c \in Credentials : record[c].status = "REVOKED" => record'[c].status = "REVOKED"
  BY <1>1, RevokedStays
<1>3. CASE UNCHANGED <<list, overdue, pc, req>>
  BY <1>1, <1>2, <1>3 DEF ListFollows, RegisterGoesFirst, TypeOK, Locals
<1>4. ASSUME NEW o \in Operators, Change(o), Return(o), UNCHANGED record PROVE ListFollows'
  BY <1>1, <1>4 DEF ListFollows, RegisterGoesFirst, TypeOK, Change, Goto, Return
<1>5. ASSUME NEW o \in Operators, Change(o), Goto(o, "tell"), UNCHANGED req,
             record' = [record EXCEPT ![req[o].c] = [status |-> req[o].to, confirmed |-> FALSE]]
      PROVE  ListFollows'
  <2>1. /\ record' = [record EXCEPT ![req[o].c] = [status |-> req[o].to, confirmed |-> FALSE]]
        /\ pc' = [pc EXCEPT ![o] = "tell"] /\ req' = req
        /\ UNCHANGED <<list, overdue>>
    BY <1>5 DEF Change, Goto
  <2>2. RegisterGoesFirst'
    BY <1>1, <1>2, <2>1 DEF ListFollows, RegisterGoesFirst
  <2>3. ASSUME NEW q \in Operators, pc'[q] = "tell", req'[q].to = "REVOKED"
        PROVE  record'[req'[q].c].status = "REVOKED"
    <3>1. req[q].c \in Credentials
      BY <1>1 DEF TypeOK, Locals
    <3>2. CASE q = o
      BY <1>1, <2>1, <2>3, <3>1, <3>2 DEF TypeOK
    <3>3. CASE q # o
      BY <1>1, <1>2, <2>1, <2>3, <3>1, <3>3 DEF ListFollows, TypeOK
    <3>4. QED
      BY <3>2, <3>3
  <2>4. QED
    BY <2>2, <2>3 DEF ListFollows
<1>6. ASSUME NEW o \in Operators, Tell(o) PROVE ListFollows'
  <2>1. pc[o] = "tell" /\ req[o].c \in Credentials
    BY <1>1, <1>6 DEF Tell, TypeOK, Locals
  <2>2. RegisterGoesFirst'
    BY <1>1, <1>6, <2>1 DEF Tell, ListFollows, RegisterGoesFirst, TypeOK
  <2>3. \A q \in Operators : pc'[q] = "tell" => pc[q] = "tell"
    BY <1>1, <1>6 DEF Tell, Goto, TypeOK
  <2>4. QED
    BY <1>1, <1>6, <2>2, <2>3 DEF Tell, ListFollows
<1>7. ASSUME NEW c \in Credentials, LateCall(c) PROVE ListFollows'
  BY <1>1, <1>7 DEF LateCall, ListFollows, RegisterGoesFirst, TypeOK
<1>8. ASSUME NEW o \in Operators, Begin(o) \/ Confirm(o) \/ Audit(o) \/ Fault(o) PROVE ListFollows'
  <2>1. UNCHANGED <<list, overdue>>
    BY <1>8 DEF Begin, Confirm, Audit, Fault
  <2>2. \A q \in Operators : pc'[q] = "tell" => pc[q] = "tell" /\ req'[q] = req[q]
    BY <1>1, <1>8 DEF Begin, Confirm, Audit, Fault, Goto, Return, TypeOK
  <2>3. \A q \in Operators : req[q].c \in Credentials
    BY <1>1 DEF TypeOK, Locals
  <2>4. QED
    BY <1>1, <1>2, <2>1, <2>2, <2>3 DEF ListFollows, RegisterGoesFirst
<1>9. ASSUME Crash PROVE ListFollows'
  BY <1>1, <1>9 DEF Crash, ListFollows, RegisterGoesFirst
<1>10. ASSUME NEW o \in Operators, Change(o) PROVE ListFollows'
  BY <1>4, <1>5, <1>10 DEF Change
<1>11. QED
  BY <1>1, <1>3, <1>6, <1>7, <1>8, <1>9, <1>10 DEF Next, Step, vars

(* Every step keeps a forbidden suspension out of register and list.        *)
LEMMA PolicyHoldsStep == TypeOK /\ PolicyHolds /\ [Next]_vars => PolicyHolds'
<1>1. SUFFICES ASSUME TypeOK, PolicyHolds, [Next]_vars PROVE PolicyHolds'
  OBVIOUS
<1>2. \A c \in Credentials \ SuspensionAllowed : record'[c].status # "SUSPENDED"
  <2>1. SUFFICES ASSUME NEW c \in Credentials \ SuspensionAllowed,
                        record'[c].status = "SUSPENDED"
                 PROVE  FALSE
    OBVIOUS
  <2>2. record[c].status # "SUSPENDED"
    BY <1>1 DEF PolicyHolds, SuspensionNeedsPolicy
  <2>3. PICK o \in Operators :
          /\ Permitted(c, record[c].status, req[o].to) /\ req[o].c = c
          /\ record' = [record EXCEPT ![c] = [status |-> req[o].to, confirmed |-> FALSE]]
    BY <1>1, <2>1, <2>2, ChangeOfStatus
  <2>4. req[o].to = "SUSPENDED"
    BY <1>1, <2>1, <2>3 DEF TypeOK
  <2>5. QED
    BY <2>3, <2>4 DEF Permitted
<1>3. CASE UNCHANGED <<list, overdue, pc, req>>
  BY <1>1, <1>2, <1>3 DEF PolicyHolds, SuspensionNeedsPolicy
<1>4. ASSUME NEW o \in Operators, Change(o) PROVE PolicyHolds'
  <2>1. \A q \in Operators : pc'[q] = "tell" =>
          /\ req'[q] = req[q]
          /\ \/ pc[q] = "tell"
             \/ q = o /\ Permitted(req[o].c, req[o].from, req[o].to)
    BY <1>1, <1>4 DEF Change, Goto, Return, TypeOK
  <2>2. UNCHANGED <<list, overdue>>
    BY <1>4 DEF Change
  <2>3. QED
    BY <1>1, <1>2, <2>1, <2>2 DEF PolicyHolds, SuspensionNeedsPolicy, Permitted
<1>5. ASSUME NEW o \in Operators, Tell(o) PROVE PolicyHolds'
  <2>1. pc[o] = "tell" /\ req[o].c \in Credentials
    BY <1>1, <1>5 DEF Tell, TypeOK, Locals
  <2>2. \A q \in Operators : pc'[q] = "tell" => pc[q] = "tell"
    BY <1>1, <1>5 DEF Tell, Goto, TypeOK
  <2>3. \A c \in Credentials \ SuspensionAllowed :
          list'[c] # "SUSPENDED" /\ "SUSPENDED" \notin overdue'[c]
    BY <1>1, <1>5, <2>1 DEF Tell, PolicyHolds, SuspensionNeedsPolicy, TypeOK
  <2>4. QED
    BY <1>1, <1>2, <1>5, <2>2, <2>3 DEF Tell, PolicyHolds, SuspensionNeedsPolicy
<1>6. ASSUME NEW c \in Credentials, LateCall(c) PROVE PolicyHolds'
  BY <1>1, <1>6 DEF LateCall, PolicyHolds, SuspensionNeedsPolicy, TypeOK
<1>7. ASSUME NEW o \in Operators, Begin(o) \/ Confirm(o) \/ Audit(o) \/ Fault(o) PROVE PolicyHolds'
  <2>1. UNCHANGED <<list, overdue>>
    BY <1>7 DEF Begin, Confirm, Audit, Fault
  <2>2. \A q \in Operators : pc'[q] = "tell" => pc[q] = "tell" /\ req'[q] = req[q]
    BY <1>1, <1>7 DEF Begin, Confirm, Audit, Fault, Goto, Return, TypeOK
  <2>3. QED
    BY <1>1, <1>2, <2>1, <2>2 DEF PolicyHolds, SuspensionNeedsPolicy
<1>8. ASSUME Crash PROVE PolicyHolds'
  BY <1>1, <1>8 DEF Crash, PolicyHolds, SuspensionNeedsPolicy
<1>9. QED
  BY <1>1, <1>3, <1>4, <1>5, <1>6, <1>7, <1>8 DEF Next, Step, vars

(* Every step keeps an unconfirmed status in somebody's hands or in the     *)
(* audit trail.                                                             *)
LEMMA SomebodyReportsStep == TypeOK /\ SomebodyReports /\ [Next]_vars => SomebodyReports'
<1>1. SUFFICES ASSUME TypeOK, SomebodyReports, [Next]_vars,
                      NEW c \in Credentials, faults' = 0, ~record'[c].confirmed
               PROVE  \/ [action |-> "unconfirmed", to |-> record'[c].status] \in audit'[c]
                      \/ \E o \in Operators : Reporting(o, c)'
  BY DEF SomebodyReports
<1> DEFINE Goal == \/ [action |-> "unconfirmed", to |-> record'[c].status] \in audit'[c]
                   \/ \E o \in Operators : Reporting(o, c)'
<1>2. \A o \in Operators : req[o].c \in Credentials
  BY <1>1 DEF TypeOK, Locals
<1>3. ASSUME faults = 0, record'[c] = record[c],
             \A r : r \in audit[c] => r \in audit'[c],
             \A o \in Operators : Reporting(o, c) =>
                \/ Reporting(o, c)'
                \/ [action |-> "unconfirmed", to |-> record[c].status] \in audit'[c]
      PROVE  Goal
  BY <1>1, <1>3 DEF SomebodyReports
<1>4. ASSUME NEW o \in Operators, Change(o), Return(o), UNCHANGED record PROVE Goal
  BY <1>1, <1>3, <1>4 DEF Change, Return, Goto, Reporting, TypeOK
<1>5. ASSUME NEW o \in Operators, Change(o), Goto(o, "tell"), UNCHANGED req,
             record' = [record EXCEPT ![req[o].c] = [status |-> req[o].to, confirmed |-> FALSE]]
      PROVE  Goal
  <2>1. CASE req[o].c = c
    BY <1>1, <1>5, <2>1 DEF Change, Goto, Reporting, TypeOK
  <2>2. CASE req[o].c # c
    BY <1>1, <1>2, <1>3, <1>5, <2>2 DEF Change, Goto, Reporting, TypeOK
  <2>3. QED
    BY <2>1, <2>2
<1>6. ASSUME NEW o \in Operators, Tell(o) PROVE Goal
  BY <1>1, <1>3, <1>6 DEF Tell, Goto, Reporting, TypeOK
<1>7. ASSUME NEW o \in Operators, Confirm(o) PROVE Goal
  <2>1. CASE req[o].c = c /\ req[o].to = record[c].status
    BY <1>1, <1>7, <2>1 DEF Confirm, TypeOK
  <2>2. CASE ~(req[o].c = c /\ req[o].to = record[c].status)
    <3>1. record'[c] = record[c]
      BY <1>1, <1>2, <1>7, <2>2 DEF Confirm, TypeOK
    <3>2. \A q \in Operators : Reporting(q, c) => Reporting(q, c)'
      BY <1>1, <1>7, <2>2, <3>1 DEF Confirm, Goto, Reporting, TypeOK
    <3>3. QED
      BY <1>1, <1>3, <1>7, <3>1, <3>2 DEF Confirm
  <2>3. QED
    BY <2>1, <2>2
<1>8. ASSUME NEW o \in Operators, Audit(o) PROVE Goal
  <2>1. \A r : r \in audit[c] => r \in audit'[c]
    BY <1>1, <1>2, <1>8 DEF Audit, TypeOK
  <2>2. ASSUME Reporting(o, c)
        PROVE  [action |-> "unconfirmed", to |-> record[c].status] \in audit'[c]
    BY <1>1, <1>8, <2>2 DEF Audit, Reporting, TypeOK
  <2>3. \A q \in Operators \ {o} : Reporting(q, c) => Reporting(q, c)'
    BY <1>1, <1>8 DEF Audit, Return, Goto, Reporting, TypeOK
  <2>4. QED
    BY <1>1, <1>3, <1>8, <2>1, <2>2, <2>3 DEF Audit
<1>9. ASSUME NEW o \in Operators, Begin(o) PROVE Goal
  BY <1>1, <1>3, <1>9 DEF Begin, Goto, Reporting, TypeOK
<1>10. ASSUME NEW b \in Credentials, LateCall(b) PROVE Goal
  BY <1>1, <1>3, <1>10 DEF LateCall, Reporting
<1>11. ASSUME (\E o \in Operators : Fault(o)) \/ Crash PROVE FALSE
  BY <1>1, <1>11 DEF Fault, Crash, TypeOK
<1>12. ASSUME UNCHANGED vars PROVE Goal
  BY <1>1, <1>3, <1>12 DEF vars, Reporting
<1>13. ASSUME NEW o \in Operators, Change(o) PROVE Goal
  BY <1>4, <1>5, <1>13 DEF Change
<1>14. QED
  BY <1>1, <1>6, <1>7, <1>8, <1>9, <1>10, <1>11, <1>12, <1>13 DEF Next, Step

(* The inductive invariant holds of every behaviour.                        *)
THEOREM Invariant == Spec => []IInv
<1>1. IInv /\ [Next]_vars => IInv'
  BY NextTyped, ListFollowsStep, PolicyHoldsStep, SomebodyReportsStep DEF IInv
<1>2. QED
  BY InitInvariant, <1>1, PTL DEF Spec

(* The register never leaves REVOKED, whatever raced with the revocation    *)
(* (changeStatus, confirmStatus).                                           *)
THEOREM RevocationStays == Spec => RevocationIsFinal
<1>1. TypeOK /\ [Next]_vars =>
        [\A c \in Credentials :
           record[c].status = "REVOKED" => record'[c].status = "REVOKED"]_vars
  BY RevokedStays
<1>2. QED
  BY <1>1, TypeCorrect, PTL DEF Spec, RevocationIsFinal

(* An attestation revoked on the status list, or to be revoked by a call    *)
(* still under way, is revoked in the register (changeCredentialStatus).    *)
THEOREM RegisterFirst == Spec => []RegisterGoesFirst
<1>1. IInv => RegisterGoesFirst
  BY DEF IInv, ListFollows
<1>2. QED
  BY <1>1, Invariant, PTL

(* No attestation is suspended, in the register or on the list, against its *)
(* policy version (assertStatusTransition).                                 *)
THEOREM SuspensionByPolicy == Spec => []SuspensionNeedsPolicy
<1>1. IInv => SuspensionNeedsPolicy
  BY DEF IInv, PolicyHolds
<1>2. QED
  BY <1>1, Invariant, PTL

(* An unconfirmed status nobody is at work on has been audited as such (the *)
(* catch of changeCredentialStatus).                                        *)
THEOREM DivergenceWasReported == Spec => []DivergenceIsReported
<1>1. IInv => DivergenceIsReported
  BY DEF IInv, SomebodyReports, Reporting, DivergenceIsReported
<1>2. QED
  BY <1>1, Invariant, PTL
=============================================================================
