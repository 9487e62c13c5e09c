---------------------- MODULE RegistrationChain_proofs ----------------------
(***************************************************************************)
(* The national registration client, proved for every number of front ends,*)
(* consoles and wallet installations, any entity files, and every bound on *)
(* what the service mints, what is started and what fails. The argument:   *)
(* what the service has minted stays, so whatever is recorded under a key  *)
(* is of that key, however many work on the session (AnyNumber); and as    *)
(* long as one works at a time, a run is at the first step that is not     *)
(* recorded, holds what is recorded, and every identifier that got lost    *)
(* cost a fault (OneAtATime).                                              *)
(***************************************************************************)
EXTENDS RegistrationChain, WellFoundedInduction, FiniteSetTheorems, TLAPS

-----------------------------------------------------------------------------
(* The inductive invariant: what is there                                   *)

Entities ==
  [key : Keys, references : UNION {[names -> Nat] : names \in SUBSET Keys}]

IsOf(id, key) == id \in DOMAIN minted /\ minted[id].key = key

(* Whatever is recorded under a key is an entity of that key. *)
Genuine(state) == state \in [Keys -> Nat] /\ \A k \in Keys : state[k] # 0 => IsOf(state[k], k)

Files == {"state", "temporary", "pid", "previous", "access", "registration"}

(* Who is about to record an identifier holds one the service has minted.   *)
Holds(f) ==
  /\ pc[f] \in {"post", "record", "rename"} => loc[f].step \in DOMAIN STEPS
  /\ pc[f] = "record" => IsOf(loc[f].id, STEPS[loc[f].step].key)

AnyNumber ==
  /\ DOMAIN disk = Files /\ DOMAIN pc = FrontEnds /\ DOMAIN loc = FrontEnds
  /\ overlapped \in BOOLEAN /\ faults \in Nat
  /\ minted \in Seq(Entities)
  /\ \A i \in DOMAIN minted : \A k \in DOMAIN minted[i].references :
       minted[i].references[k] \in DOMAIN minted
  /\ Genuine(disk.state) /\ (disk.temporary # None => Genuine(disk.temporary))
  /\ \A f \in FrontEnds : Holds(f)

-----------------------------------------------------------------------------
(* The inductive invariant: as long as one works at a time                  *)

HangsTogether(state) ==
  \A k \in {x \in Keys : state[x] # 0} :
    \A j \in DOMAIN minted[state[k]].references : minted[state[k]].references[j] = state[j]

(* The entity of a step, minted from what is recorded. *)
IsNext(id, step) == IsOf(id, step.key) /\ minted[id].references = Body(step, disk.state)

(* A run is at the first step that is not recorded. *)
InStep(f) ==
  /\ pc[f] \in {"post", "record", "rename"} =>
       /\ disk.state[STEPS[loc[f].step].key] = 0
       /\ \A i \in 1 .. loc[f].step - 1 : disk.state[STEPS[i].key] # 0
  /\ pc[f] = "post" => loc[f].state = disk.state
  /\ pc[f] = "record" => IsNext(loc[f].id, STEPS[loc[f].step])
  /\ pc[f] = "rename" =>
       /\ disk.temporary = loc[f].state
       /\ \E id \in DOMAIN minted :
            /\ IsNext(id, STEPS[loc[f].step])
            /\ loc[f].state = [disk.state EXCEPT ![STEPS[loc[f].step].key] = id]
  /\ pc[f] \in {"access", "write"} => disk.access = None

KeysMinted == {minted[i].key : i \in DOMAIN minted}

(* The keys whose identifiers are neither recorded nor about to be. *)
Lost ==
  {k \in KeysMinted :
     /\ disk.state[k] = 0
     /\ \A f \in FrontEnds : pc[f] \in {"record", "rename"} => STEPS[loc[f].step].key # k}

(* Each of them cost a fault, and so did each entity minted again.          *)
Counted == Len(minted) + Cardinality(Lost) <= Cardinality(KeysMinted) + faults

OneAtATime ==
  /\ \A f, g \in FrontEnds : pc[f] # "idle" /\ pc[g] # "idle" => f = g
  /\ HangsTogether(disk.state)
  /\ \A f \in FrontEnds : InStep(f)
  /\ Counted

IInv == AnyNumber /\ (~overlapped => OneAtATime)

-----------------------------------------------------------------------------
(* The steps *)

(* A step names what earlier ones have registered. *)
LEMMA StepsAreOrdered ==
  /\ DOMAIN STEPS = 1 .. 12 /\ Len(STEPS) = 12
  /\ \A i \in 1 .. 12 :
       /\ STEPS[i].key \in Keys /\ STEPS[i].references \subseteq Keys
       /\ \A k \in STEPS[i].references : \E j \in 1 .. i - 1 : STEPS[j].key = k
<1>1. DOMAIN STEPS = 1 .. 12 /\ Len(STEPS) = 12 /\ DOMAIN StepList = 1 .. 12
  BY DEF STEPS, StepList
<1>2. /\ STEPS[1].key = "law" /\ STEPS[2].key = "legal_person" /\ STEPS[3].key = "identifier"
      /\ STEPS[4].key = "legal_entity" /\ STEPS[5].key = "policy_wrp" /\ STEPS[6].key = "provider"
      /\ STEPS[7].key = "credential" /\ STEPS[8].key = "policy_intended_use"
      /\ STEPS[9].key = "intended_use" /\ STEPS[10].key = "provided_attestation"
      /\ STEPS[11].key = "supervisory_authority" /\ STEPS[12].key = "wallet_rp"
  BY DEF STEPS, StepList, Step
<1>3. /\ STEPS[1].references = {} /\ STEPS[2].references = {"law"} /\ STEPS[3].references = {}
      /\ STEPS[4].references = {"identifier", "legal_person"} /\ STEPS[5].references = {}
      /\ STEPS[6].references = {"legal_entity", "policy_wrp"} /\ STEPS[7].references = {}
      /\ STEPS[8].references = {} /\ STEPS[9].references = {"credential", "policy_intended_use"}
      /\ STEPS[10].references = {} /\ STEPS[11].references = {}
      /\ STEPS[12].references =
           {"provider", "intended_use", "provided_attestation", "supervisory_authority"}
  BY DEF STEPS, StepList, Step
<1>4. \A i \in 1 .. 12 : STEPS[i].key \in Keys
  BY <1>1 DEF Keys, STEPS
<1>5. \A i \in 1 .. 12 : \A k \in STEPS[i].references : \E j \in 1 .. i - 1 : STEPS[j].key = k
  <2>1. \A k \in STEPS[2].references : \E j \in 1 .. 2 - 1 : STEPS[j].key = k
    BY <1>2, <1>3
  <2>2. \A k \in STEPS[4].references : \E j \in 1 .. 4 - 1 : STEPS[j].key = k
    BY <1>2, <1>3
  <2>3. \A k \in STEPS[6].references : \E j \in 1 .. 6 - 1 : STEPS[j].key = k
    BY <1>2, <1>3
  <2>4. \A k \in STEPS[9].references : \E j \in 1 .. 9 - 1 : STEPS[j].key = k
    BY <1>2, <1>3
  <2>5. \A k \in STEPS[12].references : \E j \in 1 .. 12 - 1 : STEPS[j].key = k
    BY <1>2, <1>3
  <2>6. \A i \in 1 .. 12 : i \in {2, 4, 6, 9, 12} \/ STEPS[i].references = {}
    BY <1>3
  <2>7. QED
    BY <2>1, <2>2, <2>3, <2>4, <2>5, <2>6
<1>6. \A i \in 1 .. 12 : STEPS[i].references \subseteq Keys
  BY <1>4, <1>5
<1>7. QED
  BY <1>1, <1>4, <1>5, <1>6

LEMMA KeysAreFinite == IsFiniteSet(Keys)
<1>1. PICK n, f : n = 12 /\ f = [i \in 1 .. 12 |-> STEPS[i].key]
  OBVIOUS
<1>2. f \in [1 .. n -> Keys]
  BY <1>1, StepsAreOrdered
<1>3. \A k \in Keys : \E i \in 1 .. n : f[i] = k
  BY <1>1, StepsAreOrdered DEF Keys, STEPS
<1>4. f \in Surjection(1 .. n, Keys)
  BY <1>2, <1>3 DEF Surjection
<1>5. IsFiniteSet(1 .. n)
  <2>1. 1 \in Int /\ n \in Int
    BY <1>1
  <2>2. QED
    BY <2>1, FS_Interval
<1>6. QED
  BY <1>4, <1>5, FS_Surjection

(* The least of a set of numbers. *)
LEMMA LeastExists ==
  ASSUME NEW S, S \subseteq Nat, S # {}
  PROVE  \E m \in S : \A n \in S : m <= n
<1>1. PICK m \in S : \A n \in S : ~(<<n, m>> \in OpToRel(<, Nat))
  BY WFMin, NatLessThanWellFounded
<1>2. \A n \in S : ~(n < m)
  BY <1>1 DEF OpToRel
<1>3. QED
  BY <1>2

(* The run goes on with the first step that is not recorded. *)
LEMMA NextStepIsFirst ==
  ASSUME NEW i \in 1 .. 13, NEW state
  PROVE  /\ NextStep(i, state) \in i .. 13
         /\ NextStep(i, state) <= 12 => state[STEPS[NextStep(i, state)].key] = 0
         /\ \A k \in i .. NextStep(i, state) - 1 : state[STEPS[k].key] # 0
<1>1. Len(STEPS) = 12
  BY StepsAreOrdered
<1>2. PICK S : S = {j \in i .. 13 : j <= 12 => state[STEPS[j].key] = 0}
  OBVIOUS
<1>3. S \subseteq Nat /\ 13 \in S
  BY <1>2
<1>4. PICK m \in S : \A n \in S : m <= n
  BY <1>3, LeastExists
<1>5. \A k \in i .. m - 1 : k \in i .. 13 /\ k <= 12 /\ k \notin S
  BY <1>2, <1>3, <1>4
<1>6. /\ m \in i .. Len(STEPS) + 1
      /\ m <= Len(STEPS) => state[STEPS[m].key] = 0
      /\ \A k \in i .. m - 1 : state[STEPS[k].key] # 0
  BY <1>1, <1>2, <1>4, <1>5
<1>7. \E j \in i .. Len(STEPS) + 1 :
        /\ j <= Len(STEPS) => state[STEPS[j].key] = 0
        /\ \A k \in i .. j - 1 : state[STEPS[k].key] # 0
  BY <1>6
<1>8. /\ NextStep(i, state) \in i .. Len(STEPS) + 1
      /\ NextStep(i, state) <= Len(STEPS) => state[STEPS[NextStep(i, state)].key] = 0
      /\ \A k \in i .. NextStep(i, state) - 1 : state[STEPS[k].key] # 0
  BY <1>7, Zenon DEF NextStep
<1>9. QED
  BY <1>1, <1>8

-----------------------------------------------------------------------------
(* However many work on the session                                         *)

Minting == \A i \in DOMAIN minted : i \in DOMAIN minted' /\ minted'[i] = minted[i]

LEMMA GenuineStays ==
  ASSUME Minting, NEW state, Genuine(state)
  PROVE  Genuine(state)'
BY DEF Minting, Genuine, IsOf

MovesTo(f, label, l) ==
  /\ DOMAIN pc' = FrontEnds /\ DOMAIN loc' = FrontEnds
  /\ pc'[f] = label /\ loc'[f] = l
  /\ \A g \in FrontEnds \ {f} : pc'[g] = pc[g] /\ loc'[g] = loc[g]

LEMMA BegunOrAwaited ==
  ASSUME AnyNumber, NEW f \in FrontEnds, NEW label, NEW l, Begin(f, label, l) \/ Await(f, label, l)
  PROVE  MovesTo(f, label, l) /\ overlapped' \in BOOLEAN
BY DEF Begin, Await, AnyNumber, MovesTo

LEMMA Moved ==
  ASSUME AnyNumber, NEW f \in FrontEnds, NEW label, NEW l, MovesTo(f, label, l),
         UNCHANGED minted, overlapped' \in BOOLEAN, faults' \in Nat,
         DOMAIN disk' = Files,
         NEW state, state = disk'.state, Genuine(state),
         NEW temporary, temporary = disk'.temporary, temporary # None => Genuine(temporary),
         label \in {"post", "record", "rename"} => l.step \in DOMAIN STEPS,
         label = "record" => IsOf(l.id, STEPS[l.step].key)
  PROVE  AnyNumber'
<1>1. Minting
  BY DEF Minting
<1>2. Genuine(state)' /\ (temporary # None => Genuine(temporary)')
  BY <1>1, GenuineStays
<1>3. ASSUME NEW g \in FrontEnds PROVE Holds(g)'
  <2>1. CASE g = f
    BY <2>1 DEF AnyNumber, Holds, IsOf, MovesTo
  <2>2. CASE g # f
    BY <2>2 DEF AnyNumber, Holds, IsOf, MovesTo
  <2>3. QED
    BY <2>1, <2>2
<1>4. QED
  BY <1>2, <1>3 DEF AnyNumber, MovesTo

(* A move that leaves what is recorded as it is. *)
LEMMA MovedQuietly ==
  ASSUME AnyNumber, NEW f \in FrontEnds, NEW label, NEW l,
         Begin(f, label, l) \/ Await(f, label, l),
         UNCHANGED minted, faults' \in Nat,
         DOMAIN disk' = Files, disk'.state = disk.state, disk'.temporary = disk.temporary,
         label \in {"post", "record", "rename"} => l.step \in DOMAIN STEPS,
         label = "record" => IsOf(l.id, STEPS[l.step].key)
  PROVE  AnyNumber'
<1>1. MovesTo(f, label, l) /\ overlapped' \in BOOLEAN
  BY BegunOrAwaited
<1>2. PICK state, temporary : state = disk.state /\ temporary = disk.temporary
  OBVIOUS
<1>3. Genuine(state) /\ (temporary # None => Genuine(temporary))
  BY <1>2 DEF AnyNumber
<1>4. QED
  BY <1>1, <1>2, <1>3, Moved

LEMMA LoginAnyNumber ==
  ASSUME AnyNumber, NEW f \in FrontEnds,
         \/ LoginByCommand(f) \/ \E b \in {"login", "reauthenticate"} : LoginFromPage(f, b)
         \/ HolderPresents(f) \/ PollLogin(f) \/ CompleteLogin(f) \/ AbandonLogin(f)
  PROVE  AnyNumber'
<1>1. DOMAIN disk = Files /\ DOMAIN pc = FrontEnds /\ DOMAIN loc = FrontEnds /\ faults \in Nat
  BY DEF AnyNumber
<1>2. UNCHANGED <<minted, faults>>
  BY DEF LoginByCommand, LoginFromPage, HolderPresents, PollLogin, CompleteLogin, AbandonLogin
<1>3. DOMAIN disk' = Files /\ disk'.state = disk.state /\ disk'.temporary = disk.temporary
  BY <1>1 DEF LoginByCommand, LoginFromPage, HolderPresents, PollLogin, CompleteLogin, AbandonLogin,
     Files
<1>4. CASE HolderPresents(f)
  <2>1. PICK h : loc' = [loc EXCEPT ![f].presented = h]
    BY <1>4 DEF HolderPresents
  <2>2. PICK l : l = [loc[f] EXCEPT !.presented = h]
    OBVIOUS
  <2>3. MovesTo(f, "presentation", l)
    BY <1>1, <1>4, <2>1, <2>2 DEF HolderPresents, MovesTo
  <2>4. PICK state, temporary : state = disk.state /\ temporary = disk.temporary
    OBVIOUS
  <2>5. Genuine(state) /\ (temporary # None => Genuine(temporary)) /\ overlapped' \in BOOLEAN
    BY <1>4, <2>4 DEF AnyNumber, HolderPresents
  <2>6. QED
    BY <1>1, <1>2, <1>3, <2>3, <2>4, <2>5, Moved
<1>5. CASE ~HolderPresents(f)
  <2>1. \E label, l : /\ label \in {"presentation", "exchange", "idle"}
                      /\ Begin(f, label, l) \/ Await(f, label, l)
    BY <1>5 DEF LoginByCommand, LoginFromPage, PollLogin, CompleteLogin, AbandonLogin, BeginLogin, Return
  <2>2. QED
    BY <1>1, <1>2, <1>3, <2>1, MovedQuietly
<1>6. QED
  BY <1>4, <1>5

LEMMA RunAnyNumber ==
  ASSUME AnyNumber, NEW f \in FrontEnds, RunByCommand(f) \/ RunFromPage(f)
  PROVE  AnyNumber'
<1>1. PICK state, next, l :
        state = disk.state /\ next = NextStep(1, state) /\ l = ChainFrom(1, state)
  OBVIOUS
<1>2. Begin(f, "post", l) /\ UNCHANGED <<disk, minted, faults>> /\ next <= Len(STEPS)
  BY <1>1 DEF RunByCommand, RunFromPage, BeginRun
<1>3. next \in 1 .. 13 /\ Len(STEPS) = 12 /\ DOMAIN STEPS = 1 .. 12
  BY <1>1, NextStepIsFirst, StepsAreOrdered
<1>4. l.step = next
  BY <1>1 DEF ChainFrom
<1>5. l.step \in DOMAIN STEPS
  BY <1>2, <1>3, <1>4
<1>6. faults' \in Nat /\ DOMAIN disk' = Files
  BY <1>2 DEF AnyNumber
<1>7. QED
  BY <1>2, <1>5, <1>6, MovedQuietly

LEMMA PostAnyNumber ==
  ASSUME AnyNumber, NEW f \in FrontEnds, Post(f)
  PROVE  AnyNumber' /\ Minting
<1>1. PICK i, step, body, entry, l :
        /\ i = loc[f].step /\ step = STEPS[i] /\ body = Body(step, loc[f].state)
        /\ entry = [key |-> step.key, references |-> body]
        /\ l = [step |-> i, id |-> Len(minted) + 1]
  OBVIOUS
<1>2. /\ i \in DOMAIN STEPS /\ UNCHANGED <<disk, faults>>
      /\ faults' \in Nat /\ DOMAIN disk' = Files
  BY <1>1 DEF AnyNumber, Holds, Post
<1>3. CASE Return(f) /\ UNCHANGED minted
  BY <1>2, <1>3, MovedQuietly DEF Return, Minting
<1>4. CASE Resolves(body) /\ minted' = Append(minted, entry) /\ Await(f, "record", l)
  <2>1. minted \in Seq(Entities)
    BY DEF AnyNumber
  <2>2. step.references \subseteq Keys /\ step.key \in Keys
    BY <1>1, <1>2, StepsAreOrdered
  <2>3. DOMAIN body = step.references
    BY <1>1 DEF Body
  <2>4. \A k \in DOMAIN body : body[k] \in DOMAIN minted
    BY <1>4 DEF Resolves
  <2>5. entry \in Entities
    <3>1. \A k \in step.references : body[k] \in Nat
      BY <2>1, <2>3, <2>4
    <3>2. body \in [step.references -> Nat]
      BY <1>1, <3>1 DEF Body
    <3>3. body \in UNION {[names -> Nat] : names \in SUBSET Keys}
      BY <2>2, <3>2
    <3>4. QED
      BY <1>1, <2>2, <3>3 DEF Entities
  <2>6. /\ minted' \in Seq(Entities) /\ Len(minted') = Len(minted) + 1
        /\ \A j \in DOMAIN minted : j \in DOMAIN minted' /\ minted'[j] = minted[j]
        /\ DOMAIN minted' = DOMAIN minted \cup {Len(minted) + 1}
        /\ minted'[Len(minted) + 1] = entry
    BY <1>4, <2>1, <2>5
  <2>7. Minting
    BY <2>6 DEF Minting
  <2>8. PICK state, temporary : state = disk.state /\ temporary = disk.temporary
    OBVIOUS
  <2>9. Genuine(state)' /\ (temporary # None => Genuine(temporary)')
    BY <2>7, <2>8, GenuineStays DEF AnyNumber
  <2>10. \A j \in DOMAIN minted' : \A k \in DOMAIN minted'[j].references :
           minted'[j].references[k] \in DOMAIN minted'
    <3>1. ASSUME NEW j \in DOMAIN minted, NEW k \in DOMAIN minted'[j].references
          PROVE  minted'[j].references[k] \in DOMAIN minted'
      BY <2>6 DEF AnyNumber
    <3>2. entry.references = body
      BY <1>1
    <3>3. \A k \in DOMAIN entry.references : entry.references[k] \in DOMAIN minted'
      BY <2>4, <2>6, <3>2
    <3>4. QED
      BY <2>6, <3>1, <3>3
  <2>11. ASSUME NEW g \in FrontEnds PROVE Holds(g)'
    <3>1. CASE g = f
      <4>1. pc'[f] = "record" /\ loc'[f] = l
        BY <1>4 DEF Await, AnyNumber
      <4>2. l.step = i /\ l.id = Len(minted) + 1 /\ entry.key = step.key
        BY <1>1
      <4>3. QED
        BY <1>1, <1>2, <2>6, <3>1, <4>1, <4>2 DEF Holds, IsOf
    <3>2. CASE g # f
      <4>1. pc'[g] = pc[g] /\ loc'[g] = loc[g]
        BY <1>4, <3>2 DEF Await, AnyNumber
      <4>2. QED
        BY <2>6, <4>1 DEF Holds, IsOf, AnyNumber
    <3>3. QED
      BY <3>1, <3>2
  <2>12. DOMAIN pc' = FrontEnds /\ DOMAIN loc' = FrontEnds /\ overlapped' \in BOOLEAN
    BY <1>4 DEF Await, AnyNumber
  <2>13. QED
    BY <1>2, <2>6, <2>7, <2>8, <2>9, <2>10, <2>11, <2>12 DEF AnyNumber
<1>5. QED
  BY <1>1, <1>3, <1>4 DEF Post

LEMMA Recorded ==
  ASSUME NEW state, Genuine(state), NEW key \in Keys, NEW id, IsOf(id, key), id \in Nat
  PROVE  Genuine([state EXCEPT ![key] = id])
BY DEF Genuine

LEMMA RecordAnyNumber ==
  ASSUME AnyNumber, NEW f \in FrontEnds, RecordIds(f) \/ RenameState(f)
  PROVE  AnyNumber'
<1>1. PICK i, key, id : i = loc[f].step /\ key = STEPS[i].key /\ id = loc[f].id
  OBVIOUS
<1>2. /\ i \in DOMAIN STEPS /\ i \in 1 .. 12 /\ key \in Keys
      /\ DOMAIN disk = Files /\ UNCHANGED <<minted, faults>> /\ faults' \in Nat
  BY <1>1, StepsAreOrdered DEF AnyNumber, Holds, RecordIds, RenameState
<1>3. CASE RecordIds(f)
  <2>1. PICK next, l : next = [disk.state EXCEPT ![key] = id] /\ l = [step |-> i, state |-> next]
    OBVIOUS
  <2>2. Await(f, "rename", l) /\ disk' = [disk EXCEPT !.temporary = next]
    BY <1>1, <1>3, <2>1 DEF RecordIds
  <2>3. IsOf(id, key) /\ id \in Nat
    BY <1>1, <1>3 DEF RecordIds, AnyNumber, Holds, IsOf
  <2>4. PICK state : state = disk.state
    OBVIOUS
  <2>5. Genuine(state) /\ Genuine(next)
    BY <1>2, <2>1, <2>3, <2>4, Recorded DEF AnyNumber
  <2>6. DOMAIN disk' = Files /\ state = disk'.state /\ next = disk'.temporary
    BY <1>2, <2>2, <2>4 DEF Files
  <2>7. MovesTo(f, "rename", l) /\ overlapped' \in BOOLEAN
    BY <2>2, BegunOrAwaited
  <2>8. l.step \in DOMAIN STEPS
    BY <1>2, <2>1
  <2>9. QED
    BY <1>2, <2>5, <2>6, <2>7, <2>8, Moved
<1>4. CASE RenameState(f) /\ disk.temporary = None
  <2>1. Return(f) /\ UNCHANGED disk
    BY <1>4 DEF RenameState
  <2>2. QED
    BY <1>2, <2>1, MovedQuietly DEF Return
<1>5. CASE RenameState(f) /\ disk.temporary # None
  <2>1. PICK state, temporary : state = disk.temporary /\ temporary = None
    OBVIOUS
  <2>2. disk' = [disk EXCEPT !.state = state, !.temporary = temporary]
        /\ Resume(f, i + 1, loc[f].state)
    BY <1>1, <1>5, <2>1 DEF RenameState
  <2>3. DOMAIN disk' = Files /\ state = disk'.state /\ temporary = disk'.temporary
    BY <1>2, <2>2 DEF Files
  <2>4. Genuine(state) /\ temporary = None
    BY <1>5, <2>1 DEF AnyNumber
  <2>5. PICK next, l : next = NextStep(i + 1, loc[f].state) /\ l = ChainFrom(i + 1, loc[f].state)
    OBVIOUS
  <2>6. next \in i + 1 .. 13 /\ Len(STEPS) = 12 /\ DOMAIN STEPS = 1 .. 12 /\ l.step = next
    <3>1. i + 1 \in 1 .. 13
      BY <1>2
    <3>2. QED
      BY <2>5, <3>1, NextStepIsFirst, StepsAreOrdered DEF ChainFrom
  <2>7. CASE Return(f)
    <3>1. MovesTo(f, "idle", None) /\ overlapped' \in BOOLEAN
      BY <2>7, BegunOrAwaited DEF Return
    <3>2. QED
      BY <1>2, <2>3, <2>4, <3>1, Moved
  <2>8. CASE next <= Len(STEPS) /\ Await(f, "post", l)
    <3>1. MovesTo(f, "post", l) /\ overlapped' \in BOOLEAN
      BY <2>8, BegunOrAwaited
    <3>2. l.step \in DOMAIN STEPS
      BY <1>2, <2>6, <2>8
    <3>3. QED
      BY <1>2, <2>3, <2>4, <3>1, <3>2, Moved
  <2>9. QED
    BY <2>2, <2>5, <2>6, <2>7, <2>8 DEF Resume
<1>6. QED
  BY <1>3, <1>4, <1>5

LEMMA RestAnyNumber ==
  ASSUME AnyNumber, NEW f \in FrontEnds,
         \/ CertificatesByCommand(f) \/ CertificatesFromPage(f)
         \/ IssueAccessCertificate(f) \/ WriteAccessCertificate(f) \/ IssueRegistrationCertificate(f)
         \/ Fault(f)
  PROVE  AnyNumber'
<1>1. DOMAIN disk = Files /\ faults \in Nat
  BY DEF AnyNumber
<1>2. UNCHANGED minted /\ faults' \in Nat
  BY <1>1 DEF CertificatesByCommand, CertificatesFromPage, BeginCertificates, IssueAccessCertificate,
     WriteAccessCertificate, IssueRegistrationCertificate, Fault
<1>3. DOMAIN disk' = Files /\ disk'.state = disk.state /\ disk'.temporary = disk.temporary
  BY <1>1 DEF CertificatesByCommand, CertificatesFromPage, BeginCertificates, IssueAccessCertificate,
     WriteAccessCertificate, IssueRegistrationCertificate, Fault, Files
<1>4. \E label, l : /\ label \in {"access", "write", "registration", "idle"}
                    /\ Begin(f, label, l) \/ Await(f, label, l)
  BY DEF CertificatesByCommand, CertificatesFromPage, BeginCertificates, IssueAccessCertificate,
     WriteAccessCertificate, IssueRegistrationCertificate, Fault, Return
<1>5. QED
  BY <1>2, <1>3, <1>4, MovedQuietly

LEMMA NobodyMoves ==
  ASSUME EditEntityFile \/ (\E f \in FrontEnds : ShowPage(f)) \/ UNCHANGED vars
  PROVE  UNCHANGED <<disk, minted, pc, loc, overlapped, faults>>
BY DEF EditEntityFile, ShowPage, vars

LEMMA AnyNumberStep ==
  ASSUME AnyNumber, [Next]_vars
  PROVE  AnyNumber'
<1>1. CASE UNCHANGED <<disk, minted, pc, loc, overlapped, faults>>
  BY <1>1 DEF AnyNumber, Genuine, IsOf, Holds
<1>2. ASSUME NEW f \in FrontEnds,
             \/ LoginByCommand(f) \/ \E b \in {"login", "reauthenticate"} : LoginFromPage(f, b)
             \/ HolderPresents(f) \/ PollLogin(f) \/ CompleteLogin(f) \/ AbandonLogin(f)
      PROVE  AnyNumber'
  BY <1>2, LoginAnyNumber
<1>3. ASSUME NEW f \in FrontEnds, RunByCommand(f) \/ RunFromPage(f) PROVE AnyNumber'
  BY <1>3, RunAnyNumber
<1>4. ASSUME NEW f \in FrontEnds, Post(f) PROVE AnyNumber'
  BY <1>4, PostAnyNumber
<1>5. ASSUME NEW f \in FrontEnds, RecordIds(f) \/ RenameState(f) PROVE AnyNumber'
  BY <1>5, RecordAnyNumber
<1>6. ASSUME NEW f \in FrontEnds,
             \/ CertificatesByCommand(f) \/ CertificatesFromPage(f)
             \/ IssueAccessCertificate(f) \/ WriteAccessCertificate(f) \/ IssueRegistrationCertificate(f)
             \/ Fault(f)
      PROVE  AnyNumber'
  BY <1>6, RestAnyNumber
<1>7. QED
  BY <1>1, <1>2, <1>3, <1>4, <1>5, <1>6, NobodyMoves DEF Next

LEMMA StartAnyNumber == Init => AnyNumber
<1>1. SUFFICES ASSUME Init PROVE AnyNumber
  OBVIOUS
<1>2. DOMAIN disk = Files /\ disk.state = NothingRecorded /\ disk.temporary = None
  BY <1>1 DEF Init, EmptySession, Files
<1>3. PICK state : state = NothingRecorded
  OBVIOUS
<1>4. Genuine(state)
  BY <1>3 DEF NothingRecorded, Genuine
<1>5. minted = <<>> /\ minted \in Seq(Entities) /\ DOMAIN minted = {}
  BY <1>1 DEF Init
<1>6. \A f \in FrontEnds : Holds(f)
  BY <1>1 DEF Init, Holds
<1>7. DOMAIN pc = FrontEnds /\ DOMAIN loc = FrontEnds /\ overlapped \in BOOLEAN /\ faults \in Nat
  BY <1>1 DEF Init
<1>8. QED
  BY <1>2, <1>3, <1>4, <1>5, <1>6, <1>7 DEF AnyNumber

-----------------------------------------------------------------------------
(* As long as one works at a time                                           *)

(* Whoever acts is then the only one at work. *)
LEMMA Sole ==
  ASSUME AnyNumber, ~overlapped => OneAtATime, ~overlapped', NEW f \in FrontEnds,
         NEW label, NEW l, Begin(f, label, l) \/ (pc[f] # "idle" /\ UNCHANGED overlapped)
  PROVE  ~overlapped /\ OneAtATime /\ \A g \in FrontEnds \ {f} : pc[g] = "idle"
<1>1. CASE Begin(f, label, l)
  BY <1>1 DEF Begin
<1>2. CASE pc[f] # "idle" /\ UNCHANGED overlapped
  BY <1>2 DEF OneAtATime
<1>3. QED
  BY <1>1, <1>2

InFlight(label, l) == IF label \in {"record", "rename"} THEN {STEPS[l.step].key} ELSE {}

LEMMA OneIsEnough ==
  ASSUME NEW f \in FrontEnds, NEW label, NEW l, MovesTo(f, label, l),
         \A g \in FrontEnds \ {f} : pc[g] = "idle",
         HangsTogether(disk.state)', InStep(f)', Counted'
  PROVE  OneAtATime'
<1>1. \A g \in FrontEnds \ {f} : pc'[g] = "idle"
  BY DEF MovesTo
<1>2. \A g \in FrontEnds \ {f} : InStep(g)'
  BY <1>1 DEF InStep
<1>3. QED
  BY <1>1, <1>2 DEF OneAtATime

LEMMA LostOfOne ==
  ASSUME NEW f \in FrontEnds, \A g \in FrontEnds \ {f} : pc[g] = "idle",
         NEW label, label = pc[f], NEW l, l = loc[f], NEW state, state = disk.state
  PROVE  Lost = {k \in KeysMinted : state[k] = 0} \ InFlight(label, l)
BY DEF Lost, InFlight

LEMMA LostOfOneNext ==
  ASSUME NEW f \in FrontEnds, \A g \in FrontEnds \ {f} : pc[g] = "idle",
         NEW label, NEW l, MovesTo(f, label, l), NEW state, state = disk'.state,
         NEW keys, keys = KeysMinted'
  PROVE  Lost' = {k \in keys : state[k] = 0} \ InFlight(label, l)
<1>1. \A g \in FrontEnds \ {f} : pc'[g] = "idle"
  BY DEF MovesTo
<1>2. QED
  BY <1>1 DEF Lost, InFlight, MovesTo

LEMMA KeysMintedAreFinite ==
  ASSUME AnyNumber
  PROVE  /\ KeysMinted \subseteq Keys /\ IsFiniteSet(KeysMinted) /\ IsFiniteSet(Lost)
         /\ Cardinality(KeysMinted) \in Nat /\ Cardinality(Lost) \in Nat /\ Len(minted) \in Nat
<1>1. minted \in Seq(Entities)
  BY DEF AnyNumber
<1>2. \A i \in DOMAIN minted : minted[i] \in Entities
  BY <1>1
<1>3. \A m \in Entities : m.key \in Keys
  BY DEF Entities
<1>4. KeysMinted \subseteq Keys
  BY <1>2, <1>3 DEF KeysMinted
<1>5. Lost \subseteq Keys
  BY <1>4 DEF Lost
<1>6. IsFiniteSet(KeysMinted) /\ IsFiniteSet(Lost)
  BY <1>4, <1>5, KeysAreFinite, FS_Subset
<1>7. QED
  BY <1>1, <1>4, <1>6, FS_CardinalityType

(* What does not touch the run, and a fault, which may lose an identifier.  *)
LEMMA OneAside ==
  ASSUME AnyNumber, OneAtATime, NEW f \in FrontEnds, \A g \in FrontEnds \ {f} : pc[g] = "idle",
         NEW label, NEW l, MovesTo(f, label, l), UNCHANGED minted, disk'.state = disk.state,
         label \notin {"post", "record", "rename"},
         label \in {"access", "write"} => disk'.access = None,
         \/ pc[f] \notin {"record", "rename"} /\ faults' = faults
         \/ faults' = faults + 1
  PROVE  OneAtATime'
<1>1. PICK state, at, here : state = disk.state /\ at = pc[f] /\ here = loc[f]
  OBVIOUS
<1>2. HangsTogether(disk.state)'
  BY DEF OneAtATime, HangsTogether
<1>3. InStep(f)'
  BY DEF InStep, MovesTo
<1>4. PICK keys, lost, next, n :
        /\ keys = KeysMinted /\ lost = Lost /\ next = Lost' /\ n = Cardinality(keys)
  OBVIOUS
<1>5. keys = KeysMinted'
  BY <1>4 DEF KeysMinted
<1>6. /\ lost = {k \in keys : state[k] = 0} \ InFlight(at, here)
      /\ next = {k \in keys : state[k] = 0} \ InFlight(label, l)
  BY <1>1, <1>4, <1>5, LostOfOne, LostOfOneNext
<1>7. InFlight(label, l) = {}
  BY DEF InFlight
<1>8. /\ IsFiniteSet(lost) /\ Cardinality(lost) \in Nat /\ n \in Nat
      /\ Len(minted) \in Nat /\ faults \in Nat
  BY <1>4, KeysMintedAreFinite DEF AnyNumber
<1>9. Len(minted) + Cardinality(lost) <= n + faults
  BY <1>4 DEF OneAtATime, Counted
<1>10. CASE at \notin {"record", "rename"}
  <2>1. next = lost
    BY <1>6, <1>7, <1>10 DEF InFlight
  <2>2. PICK cost : cost = faults' /\ (cost = faults \/ cost = faults + 1)
    OBVIOUS
  <2>3. Len(minted) + Cardinality(next) <= n + cost
    BY <1>8, <1>9, <2>1, <2>2
  <2>4. Counted'
    BY <1>4, <1>5, <2>2, <2>3 DEF Counted
  <2>5. QED
    BY <1>2, <1>3, <2>4, OneIsEnough
<1>11. CASE at \in {"record", "rename"}
  <2>1. PICK key : key = STEPS[here.step].key
    OBVIOUS
  <2>2. next = lost \/ next = lost \cup {key}
    BY <1>6, <1>7, <1>11, <2>1 DEF InFlight
  <2>3. /\ IsFiniteSet(lost \cup {key})
        /\ Cardinality(lost \cup {key}) = IF key \in lost THEN Cardinality(lost) ELSE Cardinality(lost) + 1
    BY <1>8, FS_AddElement
  <2>4. faults' = faults + 1
    BY <1>1, <1>11
  <2>5. Cardinality(next) = Cardinality(lost) \/ Cardinality(next) = Cardinality(lost) + 1
    BY <2>2, <2>3
  <2>6. Len(minted) + Cardinality(next) <= n + (faults + 1)
    BY <1>8, <1>9, <2>5
  <2>7. Counted'
    BY <1>4, <1>5, <2>4, <2>6 DEF Counted
  <2>8. QED
    BY <1>2, <1>3, <2>7, OneIsEnough
<1>12. QED
  BY <1>10, <1>11

LEMMA OneLogsInOrCertifies ==
  ASSUME AnyNumber, ~overlapped => OneAtATime, ~overlapped', NEW f \in FrontEnds,
         \/ LoginByCommand(f) \/ \E b \in {"login", "reauthenticate"} : LoginFromPage(f, b)
         \/ HolderPresents(f) \/ PollLogin(f) \/ CompleteLogin(f) \/ AbandonLogin(f)
         \/ CertificatesByCommand(f) \/ CertificatesFromPage(f)
         \/ IssueAccessCertificate(f) \/ WriteAccessCertificate(f) \/ IssueRegistrationCertificate(f)
         \/ Fault(f)
  PROVE  OneAtATime'
<1>1. DOMAIN disk = Files
  BY DEF AnyNumber
<1>2. PICK label, l : /\ MovesTo(f, label, l)
                      /\ label \in {"presentation", "exchange", "idle", "access", "write", "registration"}
                      /\ Begin(f, label, l) \/ (pc[f] # "idle" /\ UNCHANGED overlapped)
                      /\ label = "access" => MayIssueAccessCertificate
                      /\ label = "write" => pc[f] = "access"
  <2>1. CASE HolderPresents(f)
    <3>1. MovesTo(f, "presentation", loc'[f])
      BY <2>1 DEF HolderPresents, MovesTo, AnyNumber
    <3>2. pc[f] # "idle" /\ UNCHANGED overlapped
      BY <2>1 DEF HolderPresents
    <3>3. QED
      BY <3>1, <3>2
  <2>2. CASE ~HolderPresents(f)
    <3>1. PICK label, l :
            /\ label \in {"presentation", "exchange", "idle", "access", "write", "registration"}
            /\ Begin(f, label, l) \/ (pc[f] # "idle" /\ Await(f, label, l))
            /\ label = "access" => MayIssueAccessCertificate
            /\ label = "write" => pc[f] = "access"
      BY <2>2 DEF LoginByCommand, LoginFromPage, PollLogin, CompleteLogin, AbandonLogin, BeginLogin, Return,
         CertificatesByCommand, CertificatesFromPage, BeginCertificates, IssueAccessCertificate,
         WriteAccessCertificate, IssueRegistrationCertificate, Fault
    <3>2. MovesTo(f, label, l)
      BY <3>1, BegunOrAwaited
    <3>3. QED
      BY <3>1, <3>2 DEF Await
  <2>3. QED
    BY <2>1, <2>2
<1>3. ~overlapped /\ OneAtATime /\ \A g \in FrontEnds \ {f} : pc[g] = "idle"
  BY <1>2, Sole
<1>4. UNCHANGED minted /\ disk'.state = disk.state
  BY <1>1 DEF LoginByCommand, LoginFromPage, HolderPresents, PollLogin, CompleteLogin, AbandonLogin,
     CertificatesByCommand, CertificatesFromPage, BeginCertificates, IssueAccessCertificate,
     WriteAccessCertificate, IssueRegistrationCertificate, Fault, Files
<1>5. \/ pc[f] \notin {"record", "rename"} /\ faults' = faults
      \/ faults' = faults + 1
  BY DEF LoginByCommand, LoginFromPage, HolderPresents, PollLogin, CompleteLogin, AbandonLogin, Pressed,
     CertificatesByCommand, CertificatesFromPage, BeginCertificates, IssueAccessCertificate,
     WriteAccessCertificate, IssueRegistrationCertificate, Fault
<1>6. ASSUME label \in {"access", "write"} PROVE disk'.access = None
  <2>1. disk.access = None
    BY <1>2, <1>3, <1>6 DEF MayIssueAccessCertificate, OneAtATime, InStep
  <2>2. CASE WriteAccessCertificate(f)
    <3>1. pc[f] = "write" /\ UNCHANGED overlapped
      BY <2>2 DEF WriteAccessCertificate, Return, Await
    <3>2. pc'[f] \in {"idle", "registration"}
      BY <2>2 DEF WriteAccessCertificate, Return, Await, AnyNumber
    <3>3. QED
      BY <1>2, <1>6, <3>2 DEF MovesTo
  <2>3. CASE ~WriteAccessCertificate(f)
    BY <1>1, <2>1, <2>3 DEF LoginByCommand, LoginFromPage, HolderPresents, PollLogin, CompleteLogin,
       AbandonLogin, CertificatesByCommand, CertificatesFromPage, BeginCertificates,
       IssueAccessCertificate, IssueRegistrationCertificate, Fault, Files
  <2>4. QED
    BY <2>2, <2>3
<1>7. label \notin {"post", "record", "rename"}
  BY <1>2
<1>8. QED
  BY <1>2, <1>3, <1>4, <1>5, <1>6, <1>7, OneAside

(* A run that starts, or goes on, at the first step that is not recorded.   *)
LEMMA OneRuns ==
  ASSUME AnyNumber, ~overlapped => OneAtATime, ~overlapped', NEW f \in FrontEnds,
         RunByCommand(f) \/ RunFromPage(f)
  PROVE  OneAtATime'
<1>1. PICK state, next, l :
        state = disk.state /\ next = NextStep(1, state) /\ l = ChainFrom(1, state)
  OBVIOUS
<1>2. /\ Begin(f, "post", l) /\ UNCHANGED <<disk, minted, faults>> /\ next <= Len(STEPS)
      /\ pc[f] = "idle"
  BY <1>1 DEF RunByCommand, RunFromPage, BeginRun, Pressed
<1>3. /\ ~overlapped /\ OneAtATime /\ MovesTo(f, "post", l)
      /\ \A g \in FrontEnds \ {f} : pc[g] = "idle"
  BY <1>2, Sole, BegunOrAwaited
<1>4. l.step = next /\ l.state = state
  BY <1>1 DEF ChainFrom
<1>5. state[STEPS[next].key] = 0 /\ \A i \in 1 .. next - 1 : state[STEPS[i].key] # 0
  BY <1>1, <1>2, NextStepIsFirst, StepsAreOrdered
<1>6. InStep(f)'
  BY <1>1, <1>2, <1>3, <1>4, <1>5 DEF InStep, MovesTo
<1>7. HangsTogether(disk.state)'
  BY <1>2, <1>3 DEF OneAtATime, HangsTogether
<1>8. Counted'
  <2>1. KeysMinted' = KeysMinted
    BY <1>2 DEF KeysMinted
  <2>2. Lost' = Lost
    <3>1. PICK idle, here, keys : idle = pc[f] /\ here = loc[f] /\ keys = KeysMinted
      OBVIOUS
    <3>2. Lost = {k \in KeysMinted : state[k] = 0} \ InFlight(idle, here)
      BY <1>1, <1>3, <3>1, LostOfOne
    <3>3. Lost' = {k \in keys : state[k] = 0} \ InFlight("post", l)
      BY <1>1, <1>2, <1>3, <2>1, <3>1, LostOfOneNext
    <3>4. InFlight(idle, here) = {} /\ InFlight("post", l) = {}
      BY <1>2, <3>1 DEF InFlight
    <3>5. QED
      BY <3>1, <3>2, <3>3, <3>4
  <2>3. QED
    BY <1>2, <1>3, <2>1, <2>2 DEF OneAtATime, Counted
<1>9. QED
  BY <1>3, <1>6, <1>7, <1>8, OneIsEnough

(* A mint may be of a key minted before, but then one whose identifier was  *)
(* lost.                                                                    *)
LEMMA OnePosts ==
  ASSUME AnyNumber, ~overlapped => OneAtATime, ~overlapped', NEW f \in FrontEnds, Post(f)
  PROVE  OneAtATime'
<1>1. PICK i, step, state, body, entry, l, here :
        /\ i = loc[f].step /\ step = STEPS[i] /\ state = disk.state
        /\ body = Body(step, loc[f].state)
        /\ entry = [key |-> step.key, references |-> body]
        /\ l = [step |-> i, id |-> Len(minted) + 1] /\ here = loc[f]
  OBVIOUS
<1>2. /\ i \in DOMAIN STEPS /\ UNCHANGED <<disk, faults, overlapped>> /\ pc[f] = "post"
      /\ i \in 1 .. 12 /\ step.key \in Keys
  BY <1>1, StepsAreOrdered DEF AnyNumber, Holds, Post, Await, Return
<1>3. ~overlapped /\ OneAtATime /\ \A g \in FrontEnds \ {f} : pc[g] = "idle"
  BY <1>2, Sole
<1>4. /\ loc[f].state = state /\ state[step.key] = 0
      /\ \A j \in 1 .. i - 1 : state[STEPS[j].key] # 0
  BY <1>1, <1>2, <1>3 DEF OneAtATime, InStep
<1>5. CASE Return(f) /\ UNCHANGED minted
  <2>1. MovesTo(f, "idle", None)
    BY <1>5, BegunOrAwaited DEF Return
  <2>2. QED
    BY <1>2, <1>3, <1>5, <2>1, OneAside
<1>6. CASE minted' = Append(minted, entry) /\ Await(f, "record", l)
  <2>1. MovesTo(f, "record", l)
    BY <1>6, BegunOrAwaited
  <2>2. minted \in Seq(Entities)
    BY DEF AnyNumber
  <2>3. /\ Len(minted') = Len(minted) + 1 /\ Len(minted) \in Nat
        /\ \A j \in DOMAIN minted : minted'[j] = minted[j]
        /\ DOMAIN minted' = DOMAIN minted \cup {Len(minted) + 1}
        /\ minted'[Len(minted) + 1] = entry
    BY <1>6, <2>2
  <2>4. entry.key = step.key /\ entry.references = body /\ body = Body(step, state)
        /\ l.step = i /\ l.id = Len(minted) + 1
    BY <1>1, <1>4
  <2>5. HangsTogether(disk.state)'
    <3>1. \A k \in Keys : state[k] # 0 => state[k] \in DOMAIN minted
      BY <1>1 DEF AnyNumber, Genuine, IsOf
    <3>2. HangsTogether(state)
      BY <1>1, <1>3 DEF OneAtATime
    <3>3. HangsTogether(state)'
      BY <2>3, <3>1, <3>2 DEF HangsTogether
    <3>4. QED
      BY <1>1, <1>2, <3>3
  <2>6. InStep(f)'
    <3>1. IsNext(l.id, STEPS[l.step])'
      BY <1>1, <1>2, <2>3, <2>4 DEF IsNext, IsOf, Body
    <3>2. QED
      BY <1>1, <1>2, <1>4, <2>1, <2>4, <3>1 DEF InStep, MovesTo
  <2>7. Counted'
    <3>1. PICK keys, more, lost, next, key :
            /\ keys = KeysMinted /\ more = KeysMinted' /\ lost = Lost /\ next = Lost' /\ key = step.key
      OBVIOUS
    <3>2. more = keys \cup {key}
      BY <2>3, <2>4, <3>1 DEF KeysMinted
    <3>3. lost = {k \in keys : state[k] = 0} \ InFlight("post", here)
      BY <1>1, <1>2, <1>3, <3>1, LostOfOne
    <3>4. next = {k \in more : state[k] = 0} \ InFlight("record", l)
      BY <1>1, <1>2, <1>3, <2>1, <3>1, LostOfOneNext
    <3>5. InFlight("post", here) = {} /\ InFlight("record", l) = {key}
      BY <1>1, <2>4, <3>1 DEF InFlight
    <3>6. next = lost \ {key} /\ (key \in lost <=> key \in keys)
      BY <1>4, <3>1, <3>2, <3>3, <3>4, <3>5
    <3>7. /\ IsFiniteSet(keys) /\ IsFiniteSet(lost)
          /\ Cardinality(keys) \in Nat /\ Cardinality(lost) \in Nat /\ faults \in Nat
      BY <3>1, KeysMintedAreFinite DEF AnyNumber
    <3>8. Cardinality(keys \cup {key}) = IF key \in keys THEN Cardinality(keys) ELSE Cardinality(keys) + 1
      BY <3>7, FS_AddElement
    <3>9. Cardinality(lost \ {key}) = IF key \in lost THEN Cardinality(lost) - 1 ELSE Cardinality(lost)
      BY <3>7, FS_RemoveElement
    <3>10. Len(minted) + Cardinality(lost) <= Cardinality(keys) + faults
      BY <1>3, <3>1 DEF OneAtATime, Counted
    <3>11. (Len(minted) + 1) + Cardinality(next) <= Cardinality(more) + faults
      <4>1. CASE key \in keys
        BY <2>3, <3>2, <3>6, <3>7, <3>8, <3>9, <3>10, <4>1
      <4>2. CASE key \notin keys
        BY <2>3, <3>2, <3>6, <3>7, <3>8, <3>9, <3>10, <4>2
      <4>3. QED
        BY <4>1, <4>2
    <3>12. QED
      BY <1>2, <2>3, <3>1, <3>11 DEF Counted
  <2>8. QED
    BY <1>3, <2>1, <2>5, <2>6, <2>7, OneIsEnough
<1>7. QED
  BY <1>1, <1>5, <1>6 DEF Post

(* The identifier goes to the file by way of the temporary one.             *)
LEMMA OneRecords ==
  ASSUME AnyNumber, ~overlapped => OneAtATime, ~overlapped', NEW f \in FrontEnds, RecordIds(f)
  PROVE  OneAtATime'
<1>1. PICK i, key, id, state, next, l, here :
        /\ i = loc[f].step /\ key = STEPS[i].key /\ id = loc[f].id /\ state = disk.state
        /\ next = [state EXCEPT ![key] = id] /\ l = [step |-> i, state |-> next] /\ here = loc[f]
  OBVIOUS
<1>2. /\ pc[f] = "record" /\ UNCHANGED <<minted, faults, overlapped>>
      /\ disk' = [disk EXCEPT !.temporary = next] /\ Await(f, "rename", l)
  BY <1>1 DEF RecordIds, Await
<1>3. ~overlapped /\ OneAtATime /\ \A g \in FrontEnds \ {f} : pc[g] = "idle"
  BY <1>2, Sole
<1>4. disk'.state = state /\ disk'.temporary = next
  BY <1>1, <1>2 DEF AnyNumber, Files
<1>5. MovesTo(f, "rename", l) /\ l.step = i /\ l.state = next
  BY <1>1, <1>2, BegunOrAwaited
<1>6. /\ state[key] = 0 /\ \A j \in 1 .. i - 1 : state[STEPS[j].key] # 0
      /\ IsNext(id, STEPS[i]) /\ id \in DOMAIN minted
  BY <1>1, <1>2, <1>3 DEF OneAtATime, InStep, IsNext, IsOf
<1>7. IsNext(id, STEPS[i])'
  BY <1>1, <1>2, <1>4, <1>6 DEF IsNext, IsOf, Body
<1>8. InStep(f)'
  <2>1. pc'[f] = "rename" /\ loc'[f] = l /\ l.step = i /\ l.state = next
    BY <1>5 DEF MovesTo
  <2>2. /\ disk'.state[STEPS[i].key] = 0 /\ \A j \in 1 .. i - 1 : disk'.state[STEPS[j].key] # 0
        /\ disk'.temporary = next /\ id \in DOMAIN minted'
        /\ next = [disk'.state EXCEPT ![STEPS[i].key] = id]
    BY <1>1, <1>2, <1>4, <1>6
  <2>3. QED
    BY <1>7, <2>1, <2>2 DEF InStep
<1>9. HangsTogether(disk.state)'
  BY <1>1, <1>2, <1>3, <1>4 DEF OneAtATime, HangsTogether
<1>10. Counted'
  <2>1. KeysMinted' = KeysMinted
    BY <1>2 DEF KeysMinted
  <2>2. PICK keys : keys = KeysMinted
    OBVIOUS
  <2>3. /\ Lost = {k \in keys : state[k] = 0} \ InFlight("record", here)
        /\ Lost' = {k \in keys : state[k] = 0} \ InFlight("rename", l)
    BY <1>1, <1>2, <1>3, <1>4, <1>5, <2>1, <2>2, LostOfOne, LostOfOneNext
  <2>4. InFlight("record", here) = InFlight("rename", l)
    BY <1>1, <1>5 DEF InFlight
  <2>5. QED
    BY <1>2, <1>3, <2>1, <2>3, <2>4 DEF OneAtATime, Counted
<1>11. QED
  BY <1>3, <1>5, <1>8, <1>9, <1>10, OneIsEnough

LEMMA OneRenames ==
  ASSUME AnyNumber, ~overlapped => OneAtATime, ~overlapped', NEW f \in FrontEnds, RenameState(f)
  PROVE  OneAtATime'
<1>1. PICK i, key, state, new, here, next, l :
        /\ i = loc[f].step /\ key = STEPS[i].key /\ state = disk.state /\ new = loc[f].state
        /\ here = loc[f] /\ next = NextStep(i + 1, new) /\ l = ChainFrom(i + 1, new)
  OBVIOUS
<1>2. /\ pc[f] = "rename" /\ UNCHANGED <<minted, faults, overlapped>> /\ i \in 1 .. 12 /\ key \in Keys
      /\ Len(STEPS) = 12
  BY <1>1, StepsAreOrdered DEF RenameState, Await, Return, Resume, AnyNumber, Holds
<1>3. ~overlapped /\ OneAtATime /\ \A g \in FrontEnds \ {f} : pc[g] = "idle"
  BY <1>2, Sole
<1>4. /\ state[key] = 0 /\ \A j \in 1 .. i - 1 : state[STEPS[j].key] # 0
      /\ disk.temporary = new
  BY <1>1, <1>2, <1>3 DEF OneAtATime, InStep
<1>5. PICK id \in DOMAIN minted : IsNext(id, STEPS[i]) /\ new = [state EXCEPT ![key] = id]
  BY <1>1, <1>2, <1>3 DEF OneAtATime, InStep
<1>6. /\ Genuine(state) /\ state \in [Keys -> Nat] /\ id \in Nat \ {0}
      /\ new[key] = id /\ \A k \in Keys \ {key} : new[k] = state[k]
      /\ new \in [Keys -> Nat]
  <2>1. Genuine(state) /\ minted \in Seq(Entities)
    BY <1>1 DEF AnyNumber
  <2>2. state \in [Keys -> Nat] /\ id \in Nat \ {0}
    BY <2>1 DEF Genuine
  <2>3. QED
    BY <1>2, <1>5, <2>1, <2>2
<1>7. new # None
  BY <1>6, AbsentAssumption
<1>8. disk' = [disk EXCEPT !.state = new, !.temporary = None] /\ Resume(f, i + 1, new)
  BY <1>1, <1>4, <1>7 DEF RenameState
<1>9. disk'.state = new
  BY <1>8 DEF AnyNumber, Files
<1>10. \A k \in Keys : state[k] # 0 =>
         /\ state[k] \in DOMAIN minted
         /\ \A j \in DOMAIN minted[state[k]].references :
              minted[state[k]].references[j] = state[j] /\ state[j] # 0
  <2>1. HangsTogether(state)
    BY <1>1, <1>3 DEF OneAtATime
  <2>2. ASSUME NEW k \in Keys, state[k] # 0 PROVE state[k] \in DOMAIN minted
    BY <1>6, <2>2 DEF Genuine, IsOf
  <2>3. ASSUME NEW k \in Keys, state[k] # 0, NEW j \in DOMAIN minted[state[k]].references
        PROVE  minted[state[k]].references[j] = state[j] /\ state[j] # 0
    <3>1. minted[state[k]].references[j] \in DOMAIN minted /\ minted \in Seq(Entities)
      BY <2>2, <2>3 DEF AnyNumber
    <3>2. minted[state[k]].references[j] # 0
      BY <3>1
    <3>3. QED
      BY <2>1, <2>3, <3>2 DEF HangsTogether
  <2>4. QED
    BY <2>2, <2>3
<1>11. \A j \in DOMAIN minted[id].references : minted[id].references[j] = state[j] /\ state[j] # 0
  <2>1. \A j \in DOMAIN minted[id].references : minted[id].references[j] = state[j]
    BY <1>1, <1>5 DEF IsNext, Body
  <2>2. \A j \in DOMAIN minted[id].references : minted[id].references[j] \in DOMAIN minted
    BY DEF AnyNumber
  <2>3. minted \in Seq(Entities)
    BY DEF AnyNumber
  <2>4. QED
    BY <2>1, <2>2, <2>3
<1>12. HangsTogether(new)
  <2>1. ASSUME NEW k \in Keys, new[k] # 0, NEW j \in DOMAIN minted[new[k]].references
        PROVE  minted[new[k]].references[j] = new[j]
    <3>1. minted[new[k]].references[j] = state[j] /\ state[j] # 0
      <4>1. CASE k = key
        BY <1>6, <1>11, <2>1, <4>1
      <4>2. CASE k # key
        BY <1>6, <1>10, <2>1, <4>2
      <4>3. QED
        BY <4>1, <4>2
    <3>2. j # key
      BY <1>4, <3>1
    <3>3. new[j] = state[j]
      BY <1>5, <3>2, <1>6, <3>1
    <3>4. QED
      BY <3>1, <3>3
  <2>2. QED
    BY <2>1 DEF HangsTogether
<1>13. HangsTogether(disk.state)'
  BY <1>2, <1>9, <1>12 DEF HangsTogether
<1>14. ASSUME NEW label \in {"idle", "post"}, NEW r, MovesTo(f, label, r) PROVE Counted'
  <2>1. KeysMinted' = KeysMinted
    BY <1>2 DEF KeysMinted
  <2>2. PICK keys : keys = KeysMinted
    OBVIOUS
  <2>3. /\ Lost = {k \in keys : state[k] = 0} \ InFlight("rename", here)
        /\ Lost' = {k \in keys : new[k] = 0} \ InFlight(label, r)
    BY <1>1, <1>2, <1>3, <1>9, <1>14, <2>1, <2>2, LostOfOne, LostOfOneNext
  <2>4. InFlight("rename", here) = {key} /\ InFlight(label, r) = {}
    BY <1>1, <1>14 DEF InFlight
  <2>5. keys \subseteq Keys
    BY <2>2, KeysMintedAreFinite
  <2>6. Lost' = Lost
    BY <1>6, <2>3, <2>4, <2>5
  <2>7. QED
    BY <1>2, <1>3, <2>1, <2>6 DEF OneAtATime, Counted
<1>15. CASE Return(f)
  <2>1. MovesTo(f, "idle", None)
    BY <1>15, BegunOrAwaited DEF Return
  <2>2. InStep(f)'
    BY <2>1 DEF InStep, MovesTo
  <2>3. QED
    BY <1>3, <1>13, <1>14, <2>1, <2>2, OneIsEnough
<1>16. CASE next <= Len(STEPS) /\ Await(f, "post", l)
  <2>1. MovesTo(f, "post", l)
    BY <1>16, BegunOrAwaited
  <2>2. l.step = next /\ l.state = new
    BY <1>1 DEF ChainFrom
  <2>3. /\ next \in i + 1 .. 13
        /\ new[STEPS[next].key] = 0
        /\ \A j \in i + 1 .. next - 1 : new[STEPS[j].key] # 0
    <3>1. i + 1 \in 1 .. 13
      BY <1>2
    <3>2. QED
      BY <1>1, <1>2, <1>16, <3>1, NextStepIsFirst
  <2>4. \A j \in 1 .. next - 1 : new[STEPS[j].key] # 0
    <3>1. ASSUME NEW j \in 1 .. i - 1 PROVE new[STEPS[j].key] # 0
      <4>1. STEPS[j].key \in Keys
        BY <1>2, StepsAreOrdered
      <4>2. QED
        BY <1>4, <1>6, <4>1
    <3>2. new[STEPS[i].key] # 0
      BY <1>1, <1>6
    <3>3. \A j \in 1 .. next - 1 : j \in 1 .. i - 1 \/ j = i \/ j \in i + 1 .. next - 1
      BY <1>2, <2>3
    <3>4. QED
      BY <2>3, <3>1, <3>2, <3>3
  <2>5. InStep(f)'
    BY <1>9, <2>1, <2>2, <2>3, <2>4 DEF InStep, MovesTo
  <2>6. QED
    BY <1>3, <1>13, <1>14, <2>1, <2>5, OneIsEnough
<1>17. next \in i + 1 .. 13
  <2>1. i + 1 \in 1 .. 13
    BY <1>2
  <2>2. QED
    BY <1>1, <2>1, NextStepIsFirst
<1>18. Return(f) \/ (next <= Len(STEPS) /\ Await(f, "post", l))
  <2>1. IF next > Len(STEPS) THEN Return(f) ELSE Await(f, "post", l)
    BY <1>1, <1>8 DEF Resume
  <2>2. next > Len(STEPS) \/ next <= Len(STEPS)
    BY <1>2, <1>17
  <2>3. QED
    BY <2>1, <2>2
<1>19. QED
  BY <1>15, <1>16, <1>18

LEMMA OneAtATimeStep ==
  ASSUME AnyNumber, ~overlapped => OneAtATime, ~overlapped', [Next]_vars
  PROVE  OneAtATime'
<1>1. CASE UNCHANGED <<disk, minted, pc, loc, overlapped, faults>>
  <2>1. OneAtATime
    BY <1>1
  <2>2. HangsTogether(disk.state)'
    BY <1>1, <2>1 DEF OneAtATime, HangsTogether
  <2>3. ASSUME NEW f \in FrontEnds PROVE InStep(f)'
    <3>1. InStep(f)
      BY <2>1 DEF OneAtATime
    <3>2. \A id, step : IsNext(id, step)' <=> IsNext(id, step)
      BY <1>1 DEF IsNext, IsOf, Body
    <3>3. QED
      BY <1>1, <3>1, <3>2 DEF InStep
  <2>4. Counted'
    BY <1>1, <2>1 DEF OneAtATime, Counted, Lost, KeysMinted
  <2>5. QED
    BY <1>1, <2>1, <2>2, <2>3, <2>4 DEF OneAtATime
<1>2. ASSUME NEW f \in FrontEnds,
             \/ LoginByCommand(f) \/ \E b \in {"login", "reauthenticate"} : LoginFromPage(f, b)
             \/ HolderPresents(f) \/ PollLogin(f) \/ CompleteLogin(f) \/ AbandonLogin(f)
             \/ CertificatesByCommand(f) \/ CertificatesFromPage(f)
             \/ IssueAccessCertificate(f) \/ WriteAccessCertificate(f) \/ IssueRegistrationCertificate(f)
             \/ Fault(f)
      PROVE  OneAtATime'
  BY <1>2, OneLogsInOrCertifies
<1>3. ASSUME NEW f \in FrontEnds, RunByCommand(f) \/ RunFromPage(f) PROVE OneAtATime'
  BY <1>3, OneRuns
<1>4. ASSUME NEW f \in FrontEnds, Post(f) PROVE OneAtATime'
  BY <1>4, OnePosts
<1>5. ASSUME NEW f \in FrontEnds, RecordIds(f) PROVE OneAtATime'
  BY <1>5, OneRecords
<1>6. ASSUME NEW f \in FrontEnds, RenameState(f) PROVE OneAtATime'
  BY <1>6, OneRenames
<1>7. QED
  BY <1>1, <1>2, <1>3, <1>4, <1>5, <1>6, NobodyMoves DEF Next

LEMMA StartOneAtATime == Init => OneAtATime
<1>1. SUFFICES ASSUME Init PROVE OneAtATime
  OBVIOUS
<1>2. DOMAIN minted = {} /\ Len(minted) = 0 /\ faults = 0 /\ \A f \in FrontEnds : pc[f] = "idle"
  BY <1>1 DEF Init
<1>3. PICK state : state = NothingRecorded /\ state = disk.state
  BY <1>1 DEF Init, EmptySession
<1>4. HangsTogether(disk.state)
  BY <1>3 DEF HangsTogether, NothingRecorded
<1>5. \A f \in FrontEnds : InStep(f)
  BY <1>2 DEF InStep
<1>6. KeysMinted = {} /\ Lost = {}
  BY <1>2 DEF KeysMinted, Lost
<1>7. Counted
  BY <1>2, <1>6, FS_EmptySet DEF Counted
<1>8. QED
  BY <1>2, <1>4, <1>5, <1>7 DEF OneAtATime

LEMMA Always == Spec => []IInv
<1>1. Init => IInv
  BY StartAnyNumber, StartOneAtATime DEF IInv
<1>2. IInv /\ [Next]_vars => IInv'
  BY AnyNumberStep, OneAtATimeStep DEF IInv
<1>3. QED
  BY <1>1, <1>2, PTL DEF Spec

-----------------------------------------------------------------------------
(* What follows *)

(* As long as one front end works at a time, an interrupted run resumes: it *)
(* never sends a body that names an entity it does not have, and mints one  *)
(* a second time only when an answer was lost (runChain, recordIds).        *)
THEOREM InterruptedRunsResume == Spec => []InterruptedRunResumes
<1>1. IInv => InterruptedRunResumes
  <2>1. SUFFICES ASSUME IInv, ~overlapped PROVE InterruptedRunResumes
    BY DEF InterruptedRunResumes
  <2>2. AnyNumber /\ OneAtATime
    BY <2>1 DEF IInv
  <2>3. ASSUME NEW f \in FrontEnds, pc[f] = "post"
        PROVE  Resolves(Body(STEPS[loc[f].step], loc[f].state))
    <3>1. PICK i, step, state, body :
            i = loc[f].step /\ step = STEPS[i] /\ state = disk.state /\ body = Body(step, state)
      OBVIOUS
    <3>2. i \in DOMAIN STEPS /\ Genuine(state)
      BY <2>2, <2>3, <3>1 DEF AnyNumber, Holds
    <3>3. loc[f].state = state /\ \A j \in 1 .. i - 1 : state[STEPS[j].key] # 0
      BY <2>2, <2>3, <3>1 DEF OneAtATime, InStep
    <3>4. \A k \in step.references : k \in Keys /\ \E j \in 1 .. i - 1 : STEPS[j].key = k
      BY <3>1, <3>2, StepsAreOrdered
    <3>5. \A k \in step.references : IsOf(state[k], k)
      BY <3>2, <3>3, <3>4 DEF Genuine
    <3>6. Resolves(body)
      BY <3>1, <3>5 DEF Body, Resolves, IsOf
    <3>7. QED
      BY <3>1, <3>3, <3>6
  <2>4. Len(minted) <= Cardinality(KeysMinted) + faults
    <3>1. /\ Cardinality(KeysMinted) \in Nat /\ Cardinality(Lost) \in Nat
          /\ Len(minted) \in Nat /\ faults \in Nat
      BY <2>2, KeysMintedAreFinite DEF AnyNumber
    <3>2. Len(minted) + Cardinality(Lost) <= Cardinality(KeysMinted) + faults
      BY <2>2 DEF OneAtATime, Counted
    <3>3. QED
      BY <3>1, <3>2
  <2>5. QED
    BY <2>3, <2>4 DEF InterruptedRunResumes, KeysMinted
<1>2. QED
  BY <1>1, Always, PTL

(* What is recorded is one registration: every identifier is of an entity   *)
(* of its key, and as long as one works at a time that entity names the     *)
(* recorded ones (recordIds, runChain).                                     *)
THEOREM RecordsHangTogether == Spec => []RecordedHangsTogether
<1>1. IInv => RecordedHangsTogether
  <2>1. SUFFICES ASSUME IInv, NEW k \in Keys, disk.state[k] # 0
                 PROVE  /\ disk.state[k] \in DOMAIN minted /\ minted[disk.state[k]].key = k
                        /\ \A j \in DOMAIN minted[disk.state[k]].references :
                             overlapped \/ minted[disk.state[k]].references[j] = disk.state[j]
    BY DEF RecordedHangsTogether
  <2>2. disk.state[k] \in DOMAIN minted /\ minted[disk.state[k]].key = k
    BY <2>1 DEF IInv, AnyNumber, Genuine, IsOf
  <2>3. overlapped \/ HangsTogether(disk.state)
    BY <2>1 DEF IInv, OneAtATime
  <2>4. QED
    BY <2>1, <2>2, <2>3 DEF HangsTogether
<1>2. QED
  BY <1>1, Always, PTL

(* An access certificate on the disk is never replaced while one front end  *)
(* works at a time, although an earlier statement than the one that writes  *)
(* the file looks for it (issueAccessCertificate).                          *)
THEOREM AccessCertificatesAreKept == Spec => AccessCertificateIsKept
<1>. DEFINE Kept == disk.access # None /\ ~overlapped => disk'.access = disk.access
<1>1. IInv /\ [Next]_vars => Kept
  <2>1. SUFFICES ASSUME IInv, [Next]_vars, disk.access # None, ~overlapped
                 PROVE  disk'.access = disk.access
    OBVIOUS
  <2>2. DOMAIN disk = Files /\ OneAtATime
    BY <2>1 DEF IInv, AnyNumber
  <2>3. ASSUME NEW f \in FrontEnds, WriteAccessCertificate(f) PROVE FALSE
    BY <2>1, <2>2, <2>3 DEF OneAtATime, InStep, WriteAccessCertificate
  <2>4. CASE UNCHANGED disk
    BY <2>4
  <2>5. ASSUME NEW f \in FrontEnds,
               \/ \E b \in {"login", "reauthenticate"} : LoginFromPage(f, b)
               \/ CompleteLogin(f) \/ RecordIds(f) \/ RenameState(f) \/ IssueRegistrationCertificate(f)
        PROVE  disk'.access = disk.access
    BY <2>2, <2>5 DEF LoginFromPage, CompleteLogin, RecordIds, RenameState,
       IssueRegistrationCertificate, Files
  <2>6. ASSUME NEW f \in FrontEnds,
               \/ LoginByCommand(f) \/ HolderPresents(f) \/ PollLogin(f) \/ AbandonLogin(f)
               \/ RunByCommand(f) \/ RunFromPage(f) \/ Post(f)
               \/ CertificatesByCommand(f) \/ CertificatesFromPage(f) \/ IssueAccessCertificate(f)
               \/ Fault(f)
        PROVE  UNCHANGED disk
    BY <2>6 DEF LoginByCommand, HolderPresents, PollLogin, AbandonLogin, RunByCommand, RunFromPage,
       BeginRun, Post, CertificatesByCommand, CertificatesFromPage, BeginCertificates,
       IssueAccessCertificate, Fault
  <2>7. QED
    BY <2>1, <2>3, <2>4, <2>5, <2>6, NobodyMoves DEF Next
<1>. HIDE DEF Kept
<1>2. Spec => [][Kept]_vars
  BY <1>1, Always, PTL DEF Spec
<1>3. QED
  BY <1>2 DEF Kept, AccessCertificateIsKept
=============================================================================
