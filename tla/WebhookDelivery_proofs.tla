----------------------- MODULE WebhookDelivery_proofs -----------------------
(***************************************************************************)
(* For any number of deliveries and workers: the types, and that nothing   *)
(* is called delivered which its receiver did not take in. For any number  *)
(* of deliveries and one worker at a time, as one process has it: that     *)
(* attempts are bounded, and that the status of a transaction follows the  *)
(* row of its callback. Two processes may claim one row, and count the     *)
(* attempts on it apart; there neither holds.                              *)
(***************************************************************************)
EXTENDS WebhookDelivery, TLAPS

Labels == {"idle", "next", "post", "unsigned", "mark", "setDelivered", "fail", "setFailed"}

(* The claim of an idle worker is a claim. *)
LEMMA NoClaimTyped == NoClaim \in Claims
<1>1. (CHOOSE d \in Deliveries : TRUE) \in Deliveries
  BY DeliveryAssumption DEF DeliveryAssumption
<1>2. QED
  BY <1>1 DEF NoClaim, Claims

(* The end of a pass keeps the types of the worker's variables. *)
LEMMA EndPassTyped ==
  ASSUME TypeOK, NEW w \in Workers, EndPass(w)
  PROVE  /\ pc' \in [Workers -> Labels] /\ batch' \in [Workers -> SUBSET Claims]
         /\ current' \in [Workers -> Claims] /\ started' \in [Workers -> Nat]
  BY NoClaimTyped DEF TypeOK, EndPass, Goto, Labels

LEMMA TakeNextTyped ==
  ASSUME TypeOK, NEW w \in Workers, TakeNext(w)
  PROVE  pc' \in [Workers -> Labels] /\ current' \in [Workers -> Claims]
  BY NoClaimTyped DEF TypeOK, TakeNext, Goto, Labels

(* The next attempt is scheduled for a time. *)
LEMMA ScheduledAtATime ==
  ASSUME NEW time \in Nat, NEW attempt \in Nat, NEW delay \in Backoff(attempt)
  PROVE  Due(time + delay) \in Nat
BY DeliveryAssumption DEF DeliveryAssumption, Backoff, Due

(* The initial states have the types. *)
LEMMA InitTyped == Init => TypeOK
BY NoClaimTyped, DeliveryAssumption DEF DeliveryAssumption, Init, TypeOK, NoRow, Rows

(* Every action keeps the types. *)
LEMMA NextTyped == TypeOK /\ [Next]_vars => TypeOK'
<1>1. SUFFICES ASSUME TypeOK, [Next]_vars PROVE TypeOK'
  OBVIOUS
<1>2. ASSUME NEW d \in Deliveries, Enqueue(d) PROVE TypeOK'
  BY <1>1, <1>2 DEF TypeOK, Enqueue, Rows, world, worker
<1>3. ASSUME NEW w \in Workers, ClaimDue(w) PROVE TypeOK'
  <2>1. PICK taken \in SUBSET DueRows :
          batch' = [batch EXCEPT ![w] =
            {[id |-> d, attempt |-> queue[d].attempt,
              nextAttemptAt |-> queue[d].nextAttemptAt] : d \in taken}]
    BY <1>3 DEF ClaimDue
  <2>2. \A d \in taken : d \in Deliveries /\ queue[d].attempt \in Nat /\ queue[d].nextAttemptAt \in Nat
    BY <1>1, <2>1 DEF TypeOK, DueRows, Rows
  <2>3. {[id |-> d, attempt |-> queue[d].attempt,
              nextAttemptAt |-> queue[d].nextAttemptAt] : d \in taken} \in SUBSET Claims
    BY <2>2 DEF Claims
  <2>4. batch' \in [Workers -> SUBSET Claims]
    BY <1>1, <2>1, <2>3 DEF TypeOK
  <2>5. QED
    BY <1>1, <1>3, <2>4 DEF TypeOK, ClaimDue, Goto, world
<1>4. ASSUME NEW w \in Workers, NextDelivery(w) PROVE TypeOK'
  <2>1. PICK claim \in batch[w] :
          /\ batch' = [batch EXCEPT ![w] = @ \ {claim}]
          /\ current' = [current EXCEPT ![w] = claim]
          /\ Goto(w, IF signed[claim.id] THEN "post" ELSE "unsigned")
    BY <1>4 DEF NextDelivery
  <2>2. claim \in Claims /\ batch[w] \ {claim} \in SUBSET Claims
    BY <1>1, <2>1 DEF TypeOK
  <2>3. batch' \in [Workers -> SUBSET Claims] /\ current' \in [Workers -> Claims]
    BY <1>1, <2>1, <2>2 DEF TypeOK
  <2>4. QED
    BY <1>1, <1>4, <2>1, <2>3 DEF TypeOK, NextDelivery, Goto, world
<1>5. ASSUME NEW w \in Workers, PassDone(w) PROVE TypeOK'
  BY <1>1, <1>5, EndPassTyped DEF TypeOK, PassDone, Labels, world
<1>6. ASSUME NEW w \in Workers, Post(w) PROVE TypeOK'
  BY <1>1, <1>6 DEF TypeOK, Post, Goto, id, Claims
<1>7. ASSUME NEW w \in Workers, MarkDelivered(w) PROVE TypeOK'
  <2>1. id(w) \in Deliveries
    BY <1>1 DEF TypeOK, id, Claims
  <2>2. queue' \in [Deliveries -> Rows]
    BY <1>1, <1>7, <2>1 DEF TypeOK, MarkDelivered, Rows
  <2>3. pc' \in [Workers -> Labels] /\ current' \in [Workers -> Claims]
    BY <1>1, <1>7, TakeNextTyped DEF TypeOK, MarkDelivered, Goto, Labels
  <2>4. QED
    BY <1>1, <1>7, <2>2, <2>3 DEF TypeOK, MarkDelivered, Labels, world
<1>8. ASSUME NEW w \in Workers, SetDeliveryStatus(w) PROVE TypeOK'
  <2>1. delivery' \in [Deliveries -> {"PENDING", "DELIVERED", "FAILED"}]
    BY <1>1, <1>8 DEF TypeOK, SetDeliveryStatus, id, Claims
  <2>2. QED
    BY <1>1, <1>8, <2>1, TakeNextTyped DEF TypeOK, SetDeliveryStatus, Labels, world
<1>9. ASSUME NEW w \in Workers, RecordFailure(w) PROVE TypeOK'
  <2>1. current[w].attempt \in Nat /\ id(w) \in Deliveries /\ started[w] \in Nat
    BY <1>1 DEF TypeOK, id, Claims
  <2>2. PICK delay \in Backoff(current[w].attempt) :
       queue' = [queue EXCEPT ![id(w)] =
                   [status |-> IF Exhausted(w) THEN "FAILED" ELSE "PENDING",
                    attempt |-> current[w].attempt + 1,
                    nextAttemptAt |-> Due(started[w] + delay)]]
    BY <1>9 DEF RecordFailure
  <2>3. Due(started[w] + delay) \in Nat
    BY <2>1, ScheduledAtATime
  <2>4. [status |-> IF Exhausted(w) THEN "FAILED" ELSE "PENDING",
         attempt |-> current[w].attempt + 1,
         nextAttemptAt |-> Due(started[w] + delay)] \in Rows
    BY <2>1, <2>3 DEF Rows
  <2>5. queue' \in [Deliveries -> Rows]
    BY <1>1, <2>2, <2>4 DEF TypeOK
  <2>6. pc' \in [Workers -> Labels] /\ current' \in [Workers -> Claims]
    BY <1>1, <1>9, TakeNextTyped DEF TypeOK, RecordFailure, Goto, Labels
  <2>7. QED
    BY <1>1, <1>9, <2>5, <2>6 DEF TypeOK, RecordFailure, Labels, world
<1>10. ASSUME NEW w \in Workers, Fault(w) PROVE TypeOK'
  <2>1. faults' \in 0..MaxFaults
    BY <1>1, <1>10, DeliveryAssumption DEF DeliveryAssumption, TypeOK, Fault
  <2>2. /\ pc' \in [Workers -> Labels] /\ batch' \in [Workers -> SUBSET Claims]
        /\ current' \in [Workers -> Claims] /\ started' \in [Workers -> Nat]
    BY <1>1, <1>10, EndPassTyped DEF TypeOK, Fault, Goto, Labels
  <2>3. QED
    BY <1>1, <1>10, <2>1, <2>2 DEF TypeOK, Fault, Labels, world
<1>11. ASSUME Crash PROVE TypeOK'
  <2>1. faults' \in 0..MaxFaults
    BY <1>1, <1>11, DeliveryAssumption DEF DeliveryAssumption, TypeOK, Crash
  <2>2. QED
    BY <1>1, <1>11, <2>1, NoClaimTyped DEF TypeOK, Crash, world
<1>12. ASSUME Tick PROVE TypeOK'
  BY <1>1, <1>12, DeliveryAssumption DEF DeliveryAssumption, TypeOK, Tick, world, worker
<1>13. ASSUME UNCHANGED vars PROVE TypeOK'
  BY <1>1, <1>13 DEF TypeOK, vars, world, worker
<1>14. QED
  BY <1>1, <1>2, <1>3, <1>4, <1>5, <1>6, <1>7, <1>8, <1>9, <1>10, <1>11, <1>12, <1>13
  DEF Next, Deliver

(* Every variable of the queue and its workers keeps its type. *)
THEOREM TypeCorrect == Spec => []TypeOK
  BY InitTyped, NextTyped, PTL DEF Spec

-----------------------------------------------------------------------------
(* What is being recorded as delivered was taken in. *)
TakenIn ==
  /\ DeliveredWasAccepted
  /\ \A w \in Workers : pc[w] \in {"mark", "setDelivered"} => accepted[id(w)] > 0

LEMMA InitTakenIn == Init => TakenIn
BY DEF Init, TakenIn, DeliveredWasAccepted, NoRow

(* Every action keeps it: only MarkDelivered and SetDeliveryStatus speak of *)
(* a delivery, and only an acknowledged POST leads to them.                 *)
LEMMA NextTakenIn == TypeOK /\ TakenIn /\ [Next]_vars => TakenIn'
<1>1. SUFFICES ASSUME TypeOK, TakenIn, [Next]_vars PROVE TakenIn'
  OBVIOUS
<1>. USE DEF TakenIn, DeliveredWasAccepted, TypeOK
<1>2. ASSUME NEW d \in Deliveries, Enqueue(d) PROVE TakenIn'
  BY <1>1, <1>2 DEF Enqueue, id, world, worker
<1>3. ASSUME NEW w \in Workers, ClaimDue(w) PROVE TakenIn'
  BY <1>1, <1>3 DEF ClaimDue, Goto, id, world
<1>4. ASSUME NEW w \in Workers, NextDelivery(w) PROVE TakenIn'
  BY <1>1, <1>4 DEF NextDelivery, Goto, id, world
<1>5. ASSUME NEW w \in Workers, PassDone(w) PROVE TakenIn'
  BY <1>1, <1>5 DEF PassDone, EndPass, Goto, id, world
<1>6. ASSUME NEW w \in Workers, Post(w) PROVE TakenIn'
  <2>1. \A v \in Workers : id(v) \in Deliveries /\ id(v)' = id(v)
    BY <1>1, <1>6 DEF Post, id, Claims
  <2>2. \A d \in Deliveries : accepted'[d] >= accepted[d]
    BY <1>1, <1>6, <2>1 DEF Post
  <2>3. pc'[w] = "mark" => accepted'[id(w)] > 0
    BY <1>1, <1>6, <2>1 DEF Post, Goto
  <2>4. \A v \in Workers : pc'[v] # pc[v] => v = w /\ pc'[w] \in {"mark", "fail"}
    BY <1>1, <1>6 DEF Post, Goto
  <2>5. QED
    BY <1>1, <1>6, <2>1, <2>2, <2>3, <2>4 DEF Post
<1>7. ASSUME NEW w \in Workers, MarkDelivered(w) PROVE TakenIn'
  <2>1. id(w) \in Deliveries /\ accepted[id(w)] > 0
    BY <1>1, <1>7 DEF MarkDelivered, id, Claims
  <2>2. \A d \in Deliveries : queue'[d].status = "DELIVERED" => accepted'[d] > 0
    BY <1>1, <1>7, <2>1 DEF MarkDelivered, world
  <2>3. \A v \in Workers : pc'[v] \in {"mark", "setDelivered"}
                             => pc[v] \in {"mark", "setDelivered"} /\ id(v)' = id(v)
    BY <1>1, <1>7 DEF MarkDelivered, TakeNext, Goto, id
  <2>4. QED
    BY <1>1, <1>7, <2>2, <2>3 DEF MarkDelivered, world
<1>8. ASSUME NEW w \in Workers, SetDeliveryStatus(w) PROVE TakenIn'
  <2>1. id(w) \in Deliveries /\ (pc[w] = "setDelivered" => accepted[id(w)] > 0)
    BY <1>1, <1>8 DEF SetDeliveryStatus, id, Claims
  <2>2. \A d \in Deliveries : delivery'[d] = "DELIVERED" => accepted'[d] > 0
    BY <1>1, <1>8, <2>1 DEF SetDeliveryStatus, world
  <2>3. \A v \in Workers : pc'[v] \in {"mark", "setDelivered"}
                             => pc[v] \in {"mark", "setDelivered"} /\ id(v)' = id(v)
    BY <1>1, <1>8 DEF SetDeliveryStatus, TakeNext, Goto, id
  <2>4. QED
    BY <1>1, <1>8, <2>2, <2>3 DEF SetDeliveryStatus, world
<1>9. ASSUME NEW w \in Workers, RecordFailure(w) PROVE TakenIn'
  <2>1. id(w) \in Deliveries
    BY <1>1 DEF id, Claims
  <2>2. \A d \in Deliveries : queue'[d].status = "DELIVERED" => queue[d].status = "DELIVERED"
    BY <1>1, <1>9, <2>1 DEF RecordFailure
  <2>3. \A v \in Workers : pc'[v] \in {"mark", "setDelivered"}
                             => pc[v] \in {"mark", "setDelivered"} /\ id(v)' = id(v)
    BY <1>1, <1>9 DEF RecordFailure, TakeNext, Goto, id
  <2>4. QED
    BY <1>1, <1>9, <2>2, <2>3 DEF RecordFailure, world
<1>10. ASSUME NEW w \in Workers, Fault(w) PROVE TakenIn'
  BY <1>1, <1>10 DEF Fault, EndPass, Goto, id, world
<1>11. ASSUME Crash PROVE TakenIn'
  BY <1>1, <1>11 DEF Crash, id, world
<1>12. ASSUME Tick PROVE TakenIn'
  BY <1>1, <1>12 DEF Tick, id, world, worker
<1>13. ASSUME UNCHANGED vars PROVE TakenIn'
  BY <1>1, <1>13 DEF id, vars, world, worker
<1>14. QED
  BY <1>1, <1>2, <1>3, <1>4, <1>5, <1>6, <1>7, <1>8, <1>9, <1>10, <1>11, <1>12, <1>13
  DEF Next, Deliver

(* Neither the queue nor a transaction claims a delivery the receiver did   *)
(* not take in, whatever passes overlap, fail or stop (deliverDue).         *)
THEOREM NothingIsCalledDelivered == Spec => []DeliveredWasAccepted
<1>1. TypeOK /\ TakenIn /\ [Next]_vars => (TypeOK /\ TakenIn)'
  BY NextTyped, NextTakenIn
<1>2. TakenIn => DeliveredWasAccepted
  BY DEF TakenIn
<1>3. QED
  BY <1>1, <1>2, InitTyped, InitTakenIn, PTL DEF Spec

-----------------------------------------------------------------------------
(* One worker at a time: one process, whose timer does not start a pass     *)
(* before the last one has ended (the running flag of runOnce).             *)
OneWorker == \A v, w \in Workers : v = w

Busy == {"post", "unsigned", "mark", "setDelivered", "fail", "setFailed"}

(* The claims a worker holds are copies of rows as they still are, no two   *)
(* of one row.                                                              *)
ClaimsAreCurrent ==
  \A w \in Workers :
    /\ pc[w] = "idle" => batch[w] = {}
    /\ \A c \in batch[w] :
         /\ queue[c.id].status = "PENDING" /\ queue[c.id].attempt = c.attempt
         /\ \A e \in batch[w] : e.id = c.id => e = c
         /\ pc[w] \in Busy => c.id # id(w)
    /\ pc[w] \in {"post", "unsigned", "mark"} =>
         queue[id(w)].status = "PENDING" /\ queue[id(w)].attempt = current[w].attempt
    /\ pc[w] = "setDelivered" =>
         queue[id(w)].status = "DELIVERED" /\ queue[id(w)].attempt = current[w].attempt + 1
    /\ pc[w] = "fail" =>
         /\ queue[id(w)].status \in {"PENDING", "DELIVERED"}
         /\ queue[id(w)].attempt \in {current[w].attempt, current[w].attempt + 1}
    /\ pc[w] = "setFailed" => queue[id(w)].status = "FAILED"
    /\ pc[w] \in Busy \ {"setFailed"} => current[w].attempt < MaxAttempts

(* A row waits only while attempts are left; one not yet queued counts none. *)
RowsAreBounded ==
  \A d \in Deliveries :
    /\ queue[d].attempt <= MaxAttempts
    /\ queue[d].status = "PENDING" => queue[d].attempt < MaxAttempts
    /\ queue[d].status = "ABSENT" => queue[d].attempt = 0

(* Every POST is counted in its row, is about to be, or was lost to a failure. *)
PostsAreCounted ==
  \A d \in Deliveries :
    \/ posts[d] <= queue[d].attempt + faults
    \/ \E w \in Workers : /\ pc[w] \in {"mark", "fail"} /\ id(w) = d
                          /\ posts[d] <= current[w].attempt + 1 + faults

Counted == ClaimsAreCurrent /\ RowsAreBounded /\ PostsAreCounted

(* Without a failure a transaction is told of a delivery by the worker that *)
(* has just ended it.                                                       *)
StatusIsDue ==
  faults = 0 =>
    /\ \A w \in Workers :
         /\ pc[w] \in {"post", "mark", "fail"} => signed[id(w)] /\ queue[id(w)].status = "PENDING"
         /\ pc[w] = "unsigned" => ~signed[id(w)]
         /\ pc[w] \in {"setDelivered", "setFailed"} => delivery[id(w)] = "PENDING"
    /\ \A d \in OfPresentation :
         /\ queue[d].status = "ABSENT" => delivery[d] = "PENDING"
         /\ signed[d] /\ queue[d].status # "ABSENT" =>
              \/ delivery[d] = queue[d].status
              \/ \E w \in Workers : pc[w] \in {"setDelivered", "setFailed"} /\ id(w) = d

LEMMA InitCounted == Init => Counted
BY DeliveryAssumption
DEF DeliveryAssumption, Init, Counted, ClaimsAreCurrent, RowsAreBounded, PostsAreCounted, NoRow, Busy

(* An action that touches no row and leaves its only worker idle loses at   *)
(* most one POST, to the failure it counts.                                 *)
LEMMA StoppedCounted ==
  ASSUME OneWorker, TypeOK, Counted, UNCHANGED <<queue, posts>>,
         faults' \in {faults, faults + 1},
         \A w \in Workers : pc[w] \in {"mark", "fail"} => faults' = faults + 1,
         \A w \in Workers : pc'[w] = "idle" /\ batch'[w] = {}
  PROVE  Counted'
<1>1. RowsAreBounded' /\ ClaimsAreCurrent'
  BY DEF Counted, RowsAreBounded, ClaimsAreCurrent, Busy
<1>2. PostsAreCounted'
  <2>. SUFFICES ASSUME NEW d \in Deliveries PROVE posts'[d] <= queue'[d].attempt + faults'
    BY DEF PostsAreCounted
  <2>1. CASE posts[d] <= queue[d].attempt + faults
    BY <2>1 DEF TypeOK, Rows
  <2>2. ASSUME NEW w \in Workers, pc[w] \in {"mark", "fail"}, id(w) = d,
               posts[d] <= current[w].attempt + 1 + faults
        PROVE  posts'[d] <= queue'[d].attempt + faults'
    BY <2>2, SMTT(30) DEF TypeOK, Rows, Claims, Counted, ClaimsAreCurrent
  <2>3. QED
    BY <2>1, <2>2 DEF Counted, PostsAreCounted
<1>3. QED
  BY <1>1, <1>2 DEF Counted

(* Every action of one worker keeps the count. *)
LEMMA NextCounted ==
  ASSUME OneWorker PROVE TypeOK /\ Counted /\ [Next]_vars => Counted'
<1>1. SUFFICES ASSUME TypeOK, Counted, [Next]_vars PROVE Counted'
  OBVIOUS
<1>. USE DEF OneWorker, Counted, TypeOK, Busy
<1>2. ASSUME NEW d \in Deliveries, Enqueue(d) PROVE Counted'
  BY <1>1, <1>2, DeliveryAssumption
  DEF DeliveryAssumption, Enqueue, id, world, worker, ClaimsAreCurrent, RowsAreBounded,
      PostsAreCounted, Claims, Rows
<1>3. ASSUME NEW w \in Workers, ClaimDue(w) PROVE Counted'
  <2>1. PICK taken \in SUBSET DueRows :
          batch' = [batch EXCEPT ![w] =
            {[id |-> d, attempt |-> queue[d].attempt,
              nextAttemptAt |-> queue[d].nextAttemptAt] : d \in taken}]
    BY <1>3 DEF ClaimDue
  <2>2. \A c \in batch'[w] : c.id \in DueRows /\ c.attempt = queue[c.id].attempt
                             /\ c.nextAttemptAt = queue[c.id].nextAttemptAt
    BY <1>1, <2>1
  <2>3. \A c, e \in batch'[w] : e.id = c.id => e = c
    BY <1>1, <2>1
  <2>4. \A v \in Workers : v = w /\ pc'[v] = "next"
    BY <1>1, <1>3 DEF ClaimDue, Goto
  <2>5. ClaimsAreCurrent'
    BY <1>1, <1>3, <2>2, <2>3, <2>4 DEF ClaimDue, DueRows, ClaimsAreCurrent
  <2>6. RowsAreBounded' /\ PostsAreCounted'
    BY <1>1, <1>3, <2>4 DEF ClaimDue, RowsAreBounded, PostsAreCounted, world
  <2>7. QED
    BY <2>5, <2>6
<1>4. ASSUME NEW w \in Workers, NextDelivery(w) PROVE Counted'
  <2>1. PICK claim \in batch[w] :
          /\ batch' = [batch EXCEPT ![w] = @ \ {claim}]
          /\ current' = [current EXCEPT ![w] = claim]
          /\ Goto(w, IF signed[claim.id] THEN "post" ELSE "unsigned")
    BY <1>4 DEF NextDelivery
  <2>2. /\ batch'[w] = batch[w] \ {claim} /\ current'[w] = claim
        /\ pc'[w] \in {"post", "unsigned"}
        /\ claim.id \in Deliveries
    BY <1>1, <2>1 DEF Goto, Claims
  <2>3. ClaimsAreCurrent'
    BY <1>1, <1>4, <2>2 DEF NextDelivery, id, ClaimsAreCurrent, RowsAreBounded
  <2>4. RowsAreBounded' /\ PostsAreCounted'
    BY <1>1, <1>4, <2>2 DEF NextDelivery, RowsAreBounded, PostsAreCounted, world
  <2>5. QED
    BY <2>3, <2>4
<1>5. ASSUME NEW w \in Workers, PassDone(w) PROVE Counted'
  BY <1>1, <1>5, StoppedCounted DEF PassDone, EndPass, Goto, world
<1>6. ASSUME NEW w \in Workers, Post(w) PROVE Counted'
  <2>1. pc'[w] \in {"mark", "fail"} /\ pc[w] = "post" /\ id(w) \in Deliveries /\ id(w)' = id(w)
    BY <1>1, <1>6 DEF Post, Goto, id, Claims
  <2>2. ClaimsAreCurrent' /\ RowsAreBounded'
    BY <1>1, <1>6, <2>1 DEF Post, id, ClaimsAreCurrent, RowsAreBounded
  <2>3. ASSUME NEW d \in Deliveries, d # id(w) PROVE posts'[d] <= queue'[d].attempt + faults'
    BY <1>1, <1>6, <2>1, <2>3 DEF Post, PostsAreCounted
  <2>4. posts'[id(w)] <= current'[w].attempt + 1 + faults'
    <3>1. posts[id(w)] <= queue[id(w)].attempt + faults
      BY <1>1, <2>1 DEF PostsAreCounted
    <3>2. queue[id(w)].attempt = current[w].attempt
      BY <1>1, <2>1 DEF ClaimsAreCurrent
    <3>3. QED
      BY <1>1, <1>6, <2>1, <3>1, <3>2 DEF Post, Claims
  <2>5. QED
    BY <2>1, <2>2, <2>3, <2>4 DEF PostsAreCounted
<1>7. ASSUME NEW w \in Workers, MarkDelivered(w) PROVE Counted'
  <2>1. /\ pc[w] = "mark" /\ id(w) \in Deliveries
        /\ pc'[w] \in {"next", "setDelivered"} /\ (pc'[w] = "setDelivered" => id(w)' = id(w))
    BY <1>1, <1>7 DEF MarkDelivered, TakeNext, Goto, id, Claims
  <2>2. /\ queue'[id(w)].status = "DELIVERED"
        /\ queue'[id(w)].attempt = queue[id(w)].attempt + 1
        /\ \A d \in Deliveries \ {id(w)} : queue'[d] = queue[d]
    BY <1>1, <1>7, <2>1 DEF MarkDelivered, Rows
  <2>3. /\ queue[id(w)].attempt = current[w].attempt /\ current[w].attempt < MaxAttempts
        /\ current[w].attempt \in Nat
    BY <1>1, <2>1 DEF ClaimsAreCurrent, Claims
  <2>4. ClaimsAreCurrent'
    <3>1. \A c \in batch[w] : c.id \in Deliveries \ {id(w)}
      BY <1>1, <2>1 DEF ClaimsAreCurrent, Claims
    <3>2. pc'[w] = "setDelivered" => current' = current
      BY <1>1, <1>7 DEF MarkDelivered, TakeNext, Goto
    <3>3. QED
      BY <1>1, <1>7, <2>1, <2>2, <2>3, <3>1, <3>2 DEF MarkDelivered, ClaimsAreCurrent, id
  <2>5. RowsAreBounded'
    BY <1>1, <1>7, <2>1, <2>2, <2>3, DeliveryAssumption DEF DeliveryAssumption, RowsAreBounded
  <2>6. PostsAreCounted'
    BY <1>1, <1>7, <2>1, <2>2, <2>3 DEF MarkDelivered, PostsAreCounted, world
  <2>7. QED
    BY <2>4, <2>5, <2>6
<1>8. ASSUME NEW w \in Workers, SetDeliveryStatus(w) PROVE Counted'
  <2>1. pc[w] \in {"setDelivered", "setFailed"} /\ pc'[w] = "next"
    BY <1>1, <1>8 DEF SetDeliveryStatus, TakeNext, Goto
  <2>2. QED
    BY <1>1, <1>8, <2>1
    DEF SetDeliveryStatus, ClaimsAreCurrent, RowsAreBounded, PostsAreCounted, world
<1>9. ASSUME NEW w \in Workers, RecordFailure(w) PROVE Counted'
  <2>1. /\ pc[w] \in {"fail", "unsigned"} /\ id(w) \in Deliveries
        /\ pc'[w] \in {"next", "setFailed"}
    BY <1>1, <1>9 DEF RecordFailure, TakeNext, Goto, id, Claims
  <2>2. /\ queue'[id(w)].status = IF Exhausted(w) THEN "FAILED" ELSE "PENDING"
        /\ queue'[id(w)].attempt = current[w].attempt + 1
        /\ \A d \in Deliveries \ {id(w)} : queue'[d] = queue[d]
    BY <1>1, <1>9, <2>1 DEF RecordFailure
  <2>3. current[w].attempt < MaxAttempts /\ current[w].attempt \in Nat
    BY <1>1, <2>1 DEF ClaimsAreCurrent, Claims
  <2>4. pc'[w] = "setFailed" => Exhausted(w) /\ current' = current
    BY <1>1, <1>9 DEF RecordFailure, TakeNext, Goto
  <2>5. ClaimsAreCurrent'
    <3>1. \A c \in batch[w] : c.id \in Deliveries \ {id(w)}
      BY <1>1, <2>1 DEF ClaimsAreCurrent, Claims
    <3>2. QED
      BY <1>1, <1>9, <2>1, <2>2, <2>4, <3>1 DEF RecordFailure, ClaimsAreCurrent, id
  <2>6. RowsAreBounded'
    BY <1>1, <2>1, <2>2, <2>3, DeliveryAssumption DEF DeliveryAssumption, RowsAreBounded, Exhausted
  <2>7. PostsAreCounted'
    <3>1. ASSUME NEW d \in Deliveries \ {id(w)} PROVE posts'[d] <= queue'[d].attempt + faults'
      BY <1>1, <1>9, <2>1, <2>2 DEF RecordFailure, PostsAreCounted, world
    <3>2. queue[id(w)].attempt \in {current[w].attempt, current[w].attempt + 1}
      BY <1>1, <2>1 DEF ClaimsAreCurrent
    <3>3. posts[id(w)] <= current[w].attempt + 1 + faults
      BY <1>1, <2>1, <2>3, <3>2 DEF PostsAreCounted
    <3>4. QED
      BY <1>1, <1>9, <2>1, <2>2, <3>1, <3>3 DEF RecordFailure, PostsAreCounted, world
  <2>8. QED
    BY <2>5, <2>6, <2>7
<1>10. ASSUME NEW w \in Workers, Fault(w) PROVE Counted'
  <2>1. CASE pc[w] \in {"mark", "setDelivered"} /\ Goto(w, "fail")
             /\ UNCHANGED <<batch, current, started>>
    <3>1. pc'[w] = "fail" /\ faults' = faults + 1 /\ id(w)' = id(w)
      BY <1>1, <1>10, <2>1 DEF Fault, Goto, id
    <3>2. ClaimsAreCurrent' /\ RowsAreBounded'
      BY <1>1, <1>10, <2>1, <3>1 DEF Fault, ClaimsAreCurrent, RowsAreBounded, id
    <3>3. PostsAreCounted'
      BY <1>1, <1>10, <2>1, <3>1 DEF Fault, PostsAreCounted, id, world, Rows, Claims
    <3>4. QED
      BY <3>2, <3>3
  <2>2. CASE EndPass(w)
    BY <1>1, <1>10, <2>2, StoppedCounted DEF Fault, EndPass, Goto, world
  <2>3. QED
    BY <1>10, <2>1, <2>2 DEF Fault
<1>11. ASSUME Crash PROVE Counted'
  BY <1>1, <1>11, StoppedCounted DEF Crash, world
<1>12. ASSUME Tick PROVE Counted'
  BY <1>1, <1>12 DEF Tick, id, world, worker, ClaimsAreCurrent, RowsAreBounded, PostsAreCounted
<1>13. ASSUME UNCHANGED vars PROVE Counted'
  BY <1>1, <1>13 DEF id, vars, world, worker, ClaimsAreCurrent, RowsAreBounded, PostsAreCounted
<1>14. QED
  BY <1>1, <1>2, <1>3, <1>4, <1>5, <1>6, <1>7, <1>8, <1>9, <1>10, <1>11, <1>12, <1>13
  DEF Next, Deliver

(* One worker at a time sends an event WEBHOOK_MAX_ATTEMPTS times at most,  *)
(* and once more for each failure that kept an attempt from being counted   *)
(* (recordFailure, markDelivered).                                          *)
THEOREM AttemptsStayBounded ==
  ASSUME OneWorker PROVE Spec => []AttemptsAreBounded
<1>1. TypeOK /\ Counted => AttemptsAreBounded
  <2>. SUFFICES ASSUME TypeOK, Counted, NEW d \in Deliveries
                PROVE  posts[d] <= MaxAttempts + faults
    BY DEF AttemptsAreBounded
  <2>1. queue[d].attempt <= MaxAttempts /\ queue[d].attempt \in Nat
    BY DEF TypeOK, Rows, Counted, RowsAreBounded
  <2>2. \A w \in Workers : pc[w] \in {"mark", "fail"} =>
          current[w].attempt < MaxAttempts /\ current[w].attempt \in Nat
    BY DEF TypeOK, Claims, Counted, ClaimsAreCurrent, Busy
  <2>3. posts[d] \in Nat /\ faults \in Nat /\ MaxAttempts \in Nat
    BY DeliveryAssumption DEF DeliveryAssumption, TypeOK
  <2>4. QED
    BY <2>1, <2>2, <2>3 DEF Counted, PostsAreCounted
<1>2. TypeOK /\ Counted /\ [Next]_vars => (TypeOK /\ Counted)'
  BY NextTyped, NextCounted
<1>3. QED
  BY <1>1, <1>2, InitTyped, InitCounted, PTL DEF Spec

-----------------------------------------------------------------------------
LEMMA InitStatusIsDue == Init => StatusIsDue
BY DeliveryAssumption DEF DeliveryAssumption, Init, StatusIsDue, NoRow

(* Every action of one worker keeps the statuses due; a failure is allowed  *)
(* to lose one, and ends what is claimed.                                   *)
LEMMA NextStatusIsDue ==
  ASSUME OneWorker PROVE TypeOK /\ Counted /\ StatusIsDue /\ [Next]_vars => StatusIsDue'
<1>1. SUFFICES ASSUME TypeOK, Counted, StatusIsDue, [Next]_vars, faults' = 0 PROVE StatusIsDue'
  BY DEF StatusIsDue
<1>. USE DEF OneWorker, TypeOK, StatusIsDue
<1>2. ASSUME NEW d \in Deliveries, Enqueue(d) PROVE StatusIsDue'
  BY <1>1, <1>2 DEF Enqueue, id, world, worker, Counted, ClaimsAreCurrent, Busy
<1>3. ASSUME NEW w \in Workers, ClaimDue(w) PROVE StatusIsDue'
  <2>1. pc[w] = "idle" /\ pc'[w] = "next"
    BY <1>1, <1>3 DEF ClaimDue, Goto
  <2>2. QED
    BY <1>1, <1>3, <2>1 DEF ClaimDue, world
<1>4. ASSUME NEW w \in Workers, NextDelivery(w) PROVE StatusIsDue'
  <2>1. PICK claim \in batch[w] :
          /\ current' = [current EXCEPT ![w] = claim]
          /\ Goto(w, IF signed[claim.id] THEN "post" ELSE "unsigned")
    BY <1>4 DEF NextDelivery
  <2>2. /\ id(w)' = claim.id /\ claim.id \in Deliveries
        /\ pc[w] = "next" /\ pc'[w] = IF signed[claim.id] THEN "post" ELSE "unsigned"
    BY <1>1, <1>4, <2>1 DEF NextDelivery, Goto, Claims, id
  <2>3. queue[claim.id].status = "PENDING"
    BY <1>1, <2>1 DEF Counted, ClaimsAreCurrent
  <2>4. signed[claim.id] \in BOOLEAN
    BY <1>1, <2>2
  <2>5. QED
    BY <1>1, <1>4, <2>2, <2>3, <2>4 DEF NextDelivery, world
<1>5. ASSUME NEW w \in Workers, PassDone(w) PROVE StatusIsDue'
  BY <1>1, <1>5 DEF PassDone, EndPass, Goto, world
<1>6. ASSUME NEW w \in Workers, Post(w) PROVE StatusIsDue'
  <2>1. pc'[w] \in {"mark", "fail"} /\ pc[w] = "post" /\ id(w)' = id(w)
    BY <1>1, <1>6 DEF Post, Goto, id
  <2>2. signed[id(w)] /\ queue[id(w)].status = "PENDING"
    BY <1>1, <1>6, <2>1 DEF Post, Counted, ClaimsAreCurrent
  <2>3. QED
    BY <1>1, <1>6, <2>1, <2>2 DEF Post
<1>7. ASSUME NEW w \in Workers, MarkDelivered(w) PROVE StatusIsDue'
  <2>1. /\ pc[w] = "mark" /\ id(w) \in Deliveries
        /\ queue'[id(w)].status = "DELIVERED"
        /\ \A d \in Deliveries \ {id(w)} : queue'[d] = queue[d]
    BY <1>1, <1>7 DEF MarkDelivered, id, Claims
  <2>2. signed[id(w)] /\ (id(w) \in OfPresentation => delivery[id(w)] = "PENDING")
    BY <1>1, <1>7, <2>1 DEF MarkDelivered
  <2>3. IF id(w) \in OfPresentation THEN pc'[w] = "setDelivered" /\ id(w)' = id(w)
                                    ELSE pc'[w] = "next"
    BY <1>1, <1>7 DEF MarkDelivered, TakeNext, Goto, id
  <2>4. \A d \in OfPresentation : d \in Deliveries
    BY DeliveryAssumption DEF DeliveryAssumption
  <2>5. pc'[w] = "setDelivered" => id(w)' = id(w) /\ id(w) \in OfPresentation
    BY <2>3
  <2>6. faults = 0 /\ delivery' = delivery /\ signed' = signed /\ \A v \in Workers : v = w
    BY <1>1, <1>7 DEF MarkDelivered
  <2>7. \A v \in Workers : pc'[v] \in {"setDelivered", "setFailed"} => delivery'[id(v)'] = "PENDING"
    BY <2>2, <2>3, <2>5, <2>6
  <2>8. ASSUME NEW d \in OfPresentation, d # id(w)
        PROVE  /\ queue'[d].status = "ABSENT" => delivery'[d] = "PENDING"
               /\ signed'[d] /\ queue'[d].status # "ABSENT" => delivery'[d] = queue'[d].status
    BY <1>1, <2>1, <2>4, <2>6, <2>8
  <2>9. QED
    BY <2>1, <2>3, <2>6, <2>7, <2>8
<1>8. ASSUME NEW w \in Workers, SetDeliveryStatus(w) PROVE StatusIsDue'
  <2>1. pc'[w] = "next" /\ pc[w] \in {"setDelivered", "setFailed"} /\ id(w) \in Deliveries
    BY <1>1, <1>8 DEF SetDeliveryStatus, TakeNext, Goto, id, Claims
  <2>2. /\ queue[id(w)].status = IF pc[w] = "setDelivered" THEN "DELIVERED" ELSE "FAILED"
        /\ delivery[id(w)] = "PENDING"
    BY <1>1, <1>8, <2>1 DEF SetDeliveryStatus, Counted, ClaimsAreCurrent
  <2>3. /\ delivery'[id(w)] = queue[id(w)].status
        /\ \A d \in Deliveries \ {id(w)} : delivery'[d] = delivery[d]
    BY <1>1, <1>8, <2>1, <2>2 DEF SetDeliveryStatus
  <2>4. \A d \in OfPresentation : d \in Deliveries
    BY DeliveryAssumption DEF DeliveryAssumption
  <2>5. QED
    BY <1>1, <1>8, <2>1, <2>2, <2>3, <2>4 DEF SetDeliveryStatus
<1>9. ASSUME NEW w \in Workers, RecordFailure(w) PROVE StatusIsDue'
  <2>1. /\ pc[w] \in {"fail", "unsigned"} /\ id(w) \in Deliveries
        /\ queue'[id(w)].status = IF Exhausted(w) THEN "FAILED" ELSE "PENDING"
        /\ \A d \in Deliveries \ {id(w)} : queue'[d] = queue[d]
    BY <1>1, <1>9 DEF RecordFailure, id, Claims
  <2>2. /\ pc'[w] \in {"next", "setFailed"}
        /\ pc'[w] = "setFailed" <=> pc[w] = "fail" /\ Exhausted(w) /\ id(w) \in OfPresentation
        /\ pc'[w] = "setFailed" => id(w)' = id(w)
    BY <1>1, <1>9 DEF RecordFailure, TakeNext, Goto, id
  <2>3. /\ queue[id(w)].status = "PENDING"
        /\ pc[w] = "fail" <=> signed[id(w)]
    BY <1>1, <1>9, <2>1 DEF RecordFailure, Counted, ClaimsAreCurrent
  <2>4. id(w) \in OfPresentation /\ signed[id(w)] => delivery[id(w)] = "PENDING"
    BY <1>1, <1>9, <2>1, <2>3 DEF RecordFailure
  <2>5. \A d \in OfPresentation : d \in Deliveries
    BY DeliveryAssumption DEF DeliveryAssumption
  <2>6. faults = 0 /\ delivery' = delivery /\ signed' = signed /\ \A v \in Workers : v = w
    BY <1>1, <1>9 DEF RecordFailure
  <2>7. \A v \in Workers : pc'[v] \in {"setDelivered", "setFailed"} => delivery'[id(v)'] = "PENDING"
    BY <2>2, <2>3, <2>4, <2>6
  <2>8. ASSUME NEW d \in OfPresentation, d # id(w)
        PROVE  /\ queue'[d].status = "ABSENT" => delivery'[d] = "PENDING"
               /\ signed'[d] /\ queue'[d].status # "ABSENT" => delivery'[d] = queue'[d].status
    BY <1>1, <2>1, <2>5, <2>6, <2>8
  <2>9. ASSUME id(w) \in OfPresentation, signed[id(w)]
        PROVE  delivery'[id(w)] = queue'[id(w)].status \/ (pc'[w] = "setFailed" /\ id(w)' = id(w))
    BY <2>1, <2>2, <2>3, <2>4, <2>6, <2>9
  <2>10. QED
    BY <2>1, <2>2, <2>6, <2>7, <2>8, <2>9
<1>10. ASSUME NEW w \in Workers, Fault(w) PROVE StatusIsDue'
  BY <1>1, <1>10 DEF Fault
<1>11. ASSUME Crash PROVE StatusIsDue'
  BY <1>1, <1>11 DEF Crash
<1>12. ASSUME Tick PROVE StatusIsDue'
  BY <1>1, <1>12 DEF Tick, id, world, worker
<1>13. ASSUME UNCHANGED vars PROVE StatusIsDue'
  BY <1>1, <1>13 DEF id, vars, world, worker
<1>14. QED
  BY <1>1, <1>2, <1>3, <1>4, <1>5, <1>6, <1>7, <1>8, <1>9, <1>10, <1>11, <1>12, <1>13
  DEF Next, Deliver

(* Between the passes of one worker none of whose statements failed, the    *)
(* delivery status of a transaction is the status of its callback's row     *)
(* (setDeliveryStatus after markDelivered and recordFailure).               *)
THEOREM StatusIsTheRows ==
  ASSUME OneWorker PROVE Spec => []StatusFollowsQueue
<1>1. StatusIsDue => StatusFollowsQueue
  BY DEF StatusIsDue, StatusFollowsQueue
<1>2. TypeOK /\ Counted /\ StatusIsDue /\ [Next]_vars => (TypeOK /\ Counted /\ StatusIsDue)'
  BY NextTyped, NextCounted, NextStatusIsDue
<1>3. QED
  BY <1>1, <1>2, InitTyped, InitCounted, InitStatusIsDue, PTL DEF Spec
=============================================================================
