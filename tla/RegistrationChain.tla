-------------------------- MODULE RegistrationChain --------------------------
(***************************************************************************)
(* The national registration client (packages/registration-client) and its *)
(* two front ends, the command line and the registration pages of the      *)
(* operator console. A session is a directory of files that both share:    *)
(* the identifiers the remote service has minted so far, the secret of the *)
(* login, the certificates. The service mints anew on every call and takes *)
(* nothing back, so a run that stops must be resumed and never repeated.   *)
(* One identifier stands for the list that a call answers with.            *)
(***************************************************************************)
EXTENDS Integers, Sequences, FiniteSets

CONSTANTS FrontEnds,      \* processes that use the session directory
          Consoles,       \* those that are the operator console
          Installations,  \* wallet installations a login may come from: one secret each
          EntityFiles,    \* what the entity file may hold
          None,
          MaxMinted,      \* bound on the entities the service mints
          MaxShared,      \* bound on those it mints once two have worked at the same time
          MaxVisits,      \* bound on the commands and presses that start something
          MaxFaults       \* bound on lost answers, unreadable ones, and crashes

ASSUME ChainAssumption == Consoles \subseteq FrontEnds

VARIABLES
  entity,      \* the entity file
  disk,        \* the session directory
  minted,      \* the entities of the service, in order; the position is the identifier
  issued,      \* how many access certificates it has issued
  shown,       \* the buttons on the page each console shows
  pc, loc,     \* what each front end awaits, and its local variables
  overlapped,  \* two front ends have been at work at the same time
  visits, faults

vars == <<entity, disk, minted, issued, shown, pc, loc, overlapped, visits, faults>>

(* The sections of the entity file, as its schema names them.               *)
Sections ==
  {"law", "legalPerson", "identifiers", "legalEntity", "policies", "provider", "credentials",
   "intendedUse", "providedAttestations", "supervisoryAuthority", "walletRelyingParty"}

(* A section may fail the schema, still hold the marker of the example, or  *)
(* name an entitlement the register has not shown.                          *)
Qualities == {"good", "invalid", "placeholder", "unlisted"}

(* checkEntity: the markers are looked for only once the schema holds.      *)
CheckEntity(file) ==
  LET of(quality) == {s \in Sections : file[s] = quality} IN
    IF of("invalid") # {}
    THEN [parsed |-> FALSE, problems |-> of("invalid"), runnable |-> FALSE]
    ELSE [parsed |-> TRUE, problems |-> of("placeholder") \cup of("unlisted"),
          runnable |-> of("placeholder") = {}]

(* A step sends one section and names the entities it depends on.           *)
Step(key, section, references) == [key |-> key, section |-> section, references |-> references]

StepList ==
  <<Step("law", "law", {}),
    Step("legal_person", "legalPerson", {"law"}),
    Step("identifier", "identifiers", {}),
    Step("legal_entity", "legalEntity", {"identifier", "legal_person"}),
    Step("policy_wrp", "policies", {}),
    Step("provider", "provider", {"legal_entity", "policy_wrp"}),
    Step("credential", "credentials", {}),
    Step("policy_intended_use", "policies", {}),
    Step("intended_use", "intendedUse", {"credential", "policy_intended_use"}),
    Step("provided_attestation", "providedAttestations", {}),
    Step("supervisory_authority", "supervisoryAuthority", {}),
    Step("wallet_rp", "walletRelyingParty",
         {"provider", "intended_use", "provided_attestation", "supervisory_authority"})>>

(* Mutated: the provider is registered before its policy. *)
StepsSwapped == [StepList EXCEPT ![5] = StepList[6], ![6] = StepList[5]]

STEPS == StepList

Keys == {StepList[i].key : i \in DOMAIN StepList}

(* state.json: the identifier recorded under each key, 0 for none. *)
NothingRecorded == [k \in Keys |-> 0]

(* A file that is not there is unlike any that is. *)
ASSUME AbsentAssumption == None \notin [Keys -> Nat]

(* state.json and its temporary file, hash_pid and hash_pid.previous, and   *)
(* the files of the two certificates, by what they were issued for.         *)
EmptySession ==
  [state |-> NothingRecorded, temporary |-> None, pid |-> None, previous |-> None,
   access |-> None, registration |-> {}]

Init ==
  /\ entity \in EntityFiles
  /\ disk = EmptySession
  /\ minted = <<>> /\ issued = 0
  /\ shown = [f \in FrontEnds |-> {}]
  /\ pc = [f \in FrontEnds |-> "idle"]
  /\ loc = [f \in FrontEnds |-> None]
  /\ overlapped = FALSE /\ visits = 0 /\ faults = 0

-----------------------------------------------------------------------------
Begin(f, label, locals) ==
  /\ visits < MaxVisits /\ visits' = visits + 1
  /\ pc' = [pc EXCEPT ![f] = label]
  /\ loc' = [loc EXCEPT ![f] = locals]
  /\ overlapped' = (overlapped \/ \E g \in FrontEnds \ {f} : pc[g] # "idle")

Await(f, label, locals) ==
  /\ pc' = [pc EXCEPT ![f] = label]
  /\ loc' = [loc EXCEPT ![f] = locals]
  /\ UNCHANGED <<overlapped, visits>>

(* Done, or an error shown to the operator. *)
Return(f) == Await(f, "idle", None)

(* stepStatuses *)
ChainComplete(state) == \A i \in DOMAIN STEPS : state[STEPS[i].key] # 0

(* stabilityVerdict *)
StabilityVerdict ==
  IF disk.pid = None \/ disk.previous = None THEN "unknown"
  ELSE IF disk.pid = disk.previous THEN "stable" ELSE "changed"

(* registrationView: the buttons on the page. *)
Buttons ==
  LET authenticated == disk.pid # None
      complete == ChainComplete(disk.state)
      offered ==
        [login |-> ~authenticated,
         reauthenticate |-> authenticated /\ StabilityVerdict = "unknown",
         run |-> authenticated /\ CheckEntity(entity).runnable /\ ~complete,
         certificate |-> authenticated /\ complete]
  IN {button \in DOMAIN offered : offered[button]}

(* A button of a page that may have gone stale, or a command. *)
Pressed(f, button) == pc[f] = "idle" /\ (f \in Consoles => button \in shown[f])

ShowPage(f) ==
  /\ f \in Consoles /\ pc[f] = "idle"
  /\ shown' = [shown EXCEPT ![f] = Buttons]
  /\ UNCHANGED <<entity, disk, minted, issued, pc, loc, overlapped, visits, faults>>

EditEntityFile ==
  /\ entity' \in EntityFiles \ {entity}
  /\ UNCHANGED <<disk, minted, issued, shown, pc, loc, overlapped, visits, faults>>

-----------------------------------------------------------------------------
(* beginLogin: the service shows a code, for a wallet to answer. *)
BeginLogin(f) == Begin(f, "presentation", [presented |-> None])

(* The command refuses while a secret is stored. *)
LoginByCommand(f) ==
  /\ f \notin Consoles /\ Pressed(f, "login")
  /\ disk.pid = None
  /\ BeginLogin(f)
  /\ UNCHANGED <<entity, disk, minted, issued, shown, faults>>

(* A second login archives the first before it asks the service for it.     *)
LoginFromPage(f, button) ==
  /\ f \in Consoles /\ Pressed(f, button)
  /\ disk' = IF button = "reauthenticate" /\ disk.pid # None
             THEN [disk EXCEPT !.previous = disk.pid, !.pid = None]
             ELSE disk
  /\ BeginLogin(f)
  /\ UNCHANGED <<entity, minted, issued, shown, faults>>

HolderPresents(f) ==
  /\ pc[f] = "presentation" /\ loc[f].presented = None
  /\ \E h \in Installations : loc' = [loc EXCEPT ![f].presented = h]
  /\ UNCHANGED <<entity, disk, minted, issued, shown, pc, overlapped, visits, faults>>

(* An error is not yet an answer, so only a presentation ends the polling.  *)
PollLogin(f) ==
  /\ pc[f] = "presentation" /\ loc[f].presented # None
  /\ Await(f, "exchange", loc[f])
  /\ UNCHANGED <<entity, disk, minted, issued, shown, faults>>

CompleteLogin(f) ==
  /\ pc[f] = "exchange"
  /\ disk' = [disk EXCEPT !.pid = loc[f].presented]
  /\ Return(f)
  /\ UNCHANGED <<entity, minted, issued, shown, faults>>

(* The deadline of the command, the attempts of the page, or the operator.  *)
AbandonLogin(f) ==
  /\ pc[f] = "presentation"
  /\ Return(f)
  /\ UNCHANGED <<entity, disk, minted, issued, shown, faults>>

-----------------------------------------------------------------------------
(* Mutated: a step is taken whether it is recorded or not. *)
NextStepAnyway(i, state) == i

(* The first step from the i-th on that is not recorded. *)
NextStep(i, state) ==
  CHOOSE j \in i .. Len(STEPS) + 1 :
    /\ j <= Len(STEPS) => state[STEPS[j].key] = 0
    /\ \A k \in i .. j - 1 : state[STEPS[k].key] # 0

ChainFrom(i, state) == [step |-> NextStep(i, state), state |-> state]

Resume(f, i, state) ==
  IF NextStep(i, state) > Len(STEPS) THEN Return(f)
  ELSE Await(f, "post", ChainFrom(i, state))

(* runChain, once the front end has found the entity file runnable. *)
BeginRun(f) ==
  /\ disk.pid # None
  /\ NextStep(1, disk.state) <= Len(STEPS)
  /\ Begin(f, "post", ChainFrom(1, disk.state))
  /\ UNCHANGED <<entity, disk, minted, issued, shown, faults>>

RunByCommand(f) ==
  /\ f \notin Consoles /\ Pressed(f, "run")
  /\ CheckEntity(entity).parsed /\ CheckEntity(entity).runnable
  /\ BeginRun(f)

(* The page it was pressed on may be older than the entity file. *)
RunFromPage(f) ==
  /\ f \in Consoles /\ Pressed(f, "run")
  /\ CheckEntity(entity).parsed /\ CheckEntity(entity).runnable
  /\ BeginRun(f)

(* The references of the body a step builds. *)
Body(step, state) == [k \in step.references |-> state[k]]

(* What the service wants of them. *)
Resolves(body) == \A k \in DOMAIN body : body[k] \in DOMAIN minted /\ minted[body[k]].key = k

(* The service mints, or names the field it does not accept. *)
Post(f) ==
  /\ pc[f] = "post"
  /\ LET step == STEPS[loc[f].step]
         body == Body(step, loc[f].state)
     IN IF Resolves(body) /\ Len(minted) < IF overlapped THEN MaxShared ELSE MaxMinted
        THEN /\ minted' = Append(minted, [key |-> step.key, references |-> body])
             /\ Await(f, "record", [step |-> loc[f].step, id |-> Len(minted) + 1])
        ELSE Return(f) /\ UNCHANGED minted
  /\ UNCHANGED <<entity, disk, issued, shown, faults>>

(* recordIds: the file is read again, and written under the temporary name. *)
RecordIds(f) ==
  /\ pc[f] = "record"
  /\ LET next == [disk.state EXCEPT ![STEPS[loc[f].step].key] = loc[f].id] IN
       /\ disk' = [disk EXCEPT !.temporary = next]
       /\ Await(f, "rename", [step |-> loc[f].step, state |-> next])
  /\ UNCHANGED <<entity, minted, issued, shown, faults>>

(* The rename takes whatever is there under the temporary name; without it  *)
(* it fails, and the run with it.                                           *)
RenameState(f) ==
  /\ pc[f] = "rename"
  /\ IF disk.temporary = None THEN Return(f) /\ UNCHANGED disk
     ELSE /\ disk' = [disk EXCEPT !.state = disk.temporary, !.temporary = None]
          /\ Resume(f, loc[f].step + 1, loc[f].state)
  /\ UNCHANGED <<entity, minted, issued, shown, faults>>

-----------------------------------------------------------------------------
(* Mutated: the certificate that is there is not looked for. *)
AccessCertificateWanted == disk.pid # None /\ disk.state["wallet_rp"] # 0

MayIssueAccessCertificate ==
  disk.pid # None /\ disk.state["wallet_rp"] # 0 /\ disk.access = None

(* issueAccessCertificate, up to its request. *)
BeginCertificates(f) ==
  /\ MayIssueAccessCertificate
  /\ Begin(f, "access", [id |-> disk.state["wallet_rp"]])
  /\ UNCHANGED <<entity, disk, minted, issued, shown, faults>>

(* Each asks for the passphrase in its own way, which is left out. *)
CertificatesByCommand(f) == f \notin Consoles /\ Pressed(f, "certificate") /\ BeginCertificates(f)

CertificatesFromPage(f) == f \in Consoles /\ Pressed(f, "certificate") /\ BeginCertificates(f)

IssueAccessCertificate(f) ==
  /\ pc[f] = "access"
  /\ issued' = issued + 1
  /\ Await(f, "write", [id |-> loc[f].id, serial |-> issued + 1])
  /\ UNCHANGED <<entity, disk, minted, shown, faults>>

(* The file, and then issueRegistrationCertificate reads the session again. *)
WriteAccessCertificate(f) ==
  /\ pc[f] = "write"
  /\ disk' = [disk EXCEPT !.access = loc[f]]
  /\ IF disk.pid = None \/ disk.state["intended_use"] = 0 THEN Return(f)
     ELSE Await(f, "registration", [id |-> disk.state["intended_use"]])
  /\ UNCHANGED <<entity, minted, issued, shown, faults>>

IssueRegistrationCertificate(f) ==
  /\ pc[f] = "registration"
  /\ disk' = [disk EXCEPT !.registration = @ \cup {loc[f].id}]
  /\ Return(f)
  /\ UNCHANGED <<entity, minted, issued, shown, faults>>

-----------------------------------------------------------------------------
(* An answer is lost or holds no identifiers, or the process stops: what    *)
(* the service has done, and what is on the disk, stays.                    *)
Fault(f) ==
  /\ pc[f] # "idle" /\ faults < MaxFaults
  /\ faults' = faults + 1
  /\ Return(f)
  /\ UNCHANGED <<entity, disk, minted, issued, shown>>

Next ==
  \/ EditEntityFile
  \/ \E f \in FrontEnds :
       \/ ShowPage(f)
       \/ LoginByCommand(f) \/ \E b \in {"login", "reauthenticate"} : LoginFromPage(f, b)
       \/ HolderPresents(f) \/ PollLogin(f) \/ CompleteLogin(f) \/ AbandonLogin(f)
       \/ RunByCommand(f) \/ RunFromPage(f) \/ Post(f) \/ RecordIds(f) \/ RenameState(f)
       \/ CertificatesByCommand(f) \/ CertificatesFromPage(f)
       \/ IssueAccessCertificate(f) \/ WriteAccessCertificate(f) \/ IssueRegistrationCertificate(f)
       \/ Fault(f)

Spec == Init /\ [][Next]_vars

-----------------------------------------------------------------------------
(* As long as one front end works at a time, a run that was interrupted     *)
(* resumes rather than starting over: it never sends a body that names an   *)
(* entity it does not have, and an entity is minted a second time only when *)
(* the answer that carried the first identifier was lost (runChain,         *)
(* recordIds; the service has no idempotency key).                          *)
InterruptedRunResumes ==
  ~overlapped =>
    /\ \A f \in FrontEnds :
         pc[f] = "post" => Resolves(Body(STEPS[loc[f].step], loc[f].state))
    /\ Len(minted) <= Cardinality({minted[i].key : i \in DOMAIN minted}) + faults

(* And what is recorded is one registration: every identifier is of an      *)
(* entity of its key, however many work on the session; and as long as one  *)
(* does at a time, that entity names the recorded ones, although some may   *)
(* have been minted twice.                                                  *)
RecordedHangsTogether ==
  \A k \in {x \in Keys : disk.state[x] # 0} :
    /\ disk.state[k] \in DOMAIN minted /\ minted[disk.state[k]].key = k
    /\ \A j \in DOMAIN minted[disk.state[k]].references :
         overlapped \/ minted[disk.state[k]].references[j] = disk.state[j]

(* An access certificate on the disk is never replaced: its private key is  *)
(* nowhere else (issueAccessCertificate refuses while the file is there, in *)
(* an earlier statement than the one that writes it).                       *)
AccessCertificateIsKept ==
  [][disk.access # None /\ ~overlapped => disk'.access = disk.access]_vars
=============================================================================
