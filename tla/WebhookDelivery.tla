--------------------------- MODULE WebhookDelivery --------------------------
(***************************************************************************)
(* The outbound callback queue: rows of webhook_deliveries                 *)
(* (persistence/.../support.repository.ts), the passes that deliver them   *)
(* (platform-api/src/webhook/webhook.service.ts) and the delivery status   *)
(* each presentation transaction keeps apart from its outcome.             *)
(*                                                                         *)
(* A worker is the deliverDue call of one background pass. Claiming reads  *)
(* the due rows FOR UPDATE SKIP LOCKED, in a statement of its own: the     *)
(* locks are gone when the rows are returned, so nothing of them is left   *)
(* to model.                                                               *)
(***************************************************************************)
EXTENDS Integers, FiniteSets

CONSTANTS Deliveries,       \* queued events, each for a subject of its own
          OfPresentation,   \* those whose subject is a presentation
          Workers,          \* background passes that may overlap
          MaxAttempts,      \* WEBHOOK_MAX_ATTEMPTS
          ClaimLimit,       \* LIMIT of claimDue
          BaseDelay, MaxDelay,  \* backoffDelayMs
          Healthy,          \* those whose receiver takes every POST in and says so
          Answers,          \* what any other receiver may do with a POST
          EndpointSigned,   \* whether an endpoint row may have a secret row
          MaxTime,          \* bound on the clock
          MaxFaults         \* bound on failed statements and crashes

ASSUME DeliveryAssumption ==
  /\ Deliveries # {} /\ OfPresentation \subseteq Deliveries /\ Healthy \subseteq Deliveries
  /\ MaxAttempts \in Nat \ {0}
  /\ ClaimLimit \in Nat \ {0}
  /\ BaseDelay \in Nat \ {0} /\ MaxDelay \in Nat \ {0}
  /\ Answers \subseteq {"accepted", "refused", "unanswered"}
  /\ EndpointSigned \subseteq BOOLEAN /\ EndpointSigned # {}
  /\ MaxTime \in Nat /\ MaxFaults \in Nat

VARIABLES
  now,
  queue,      \* webhook_deliveries
  delivery,   \* delivery_status of each subject's transaction
  signed,     \* the endpoint of each delivery has its secret
  posts,      \* POSTs sent for each event
  accepted,   \* POSTs the receiver took in
  pc, batch,  \* what each worker awaits, and the rows it still holds
  current,    \* the row it is delivering, as it was when claimed
  started,    \* the time its pass began
  faults

world == <<posts, accepted>>
worker == <<pc, batch, current, started>>
vars == <<now, queue, delivery, signed, world, worker, faults>>

NoRow == [status |-> "ABSENT", attempt |-> 0, nextAttemptAt |-> 0]

Rows == [status : {"ABSENT", "PENDING", "DELIVERED", "FAILED"},
         attempt : Nat, nextAttemptAt : Nat]

Claims == [id : Deliveries, attempt : Nat, nextAttemptAt : Nat]

NoClaim == [id |-> CHOOSE d \in Deliveries : TRUE, attempt |-> 0, nextAttemptAt |-> 0]

Init ==
  /\ now = 0
  /\ queue = [d \in Deliveries |-> NoRow]
  /\ delivery = [d \in Deliveries |-> "PENDING"]
  /\ signed \in [Deliveries -> EndpointSigned]
  /\ posts = [d \in Deliveries |-> 0]
  /\ accepted = [d \in Deliveries |-> 0]
  /\ pc = [w \in Workers |-> "idle"]
  /\ batch = [w \in Workers |-> {}]
  /\ current = [w \in Workers |-> NoClaim]
  /\ started = [w \in Workers |-> 0]
  /\ faults = 0

Goto(w, label) == pc' = [pc EXCEPT ![w] = label]

id(w) == current[w].id

(* The loop turns to the next claimed row. *)
TakeNext(w) == Goto(w, "next") /\ current' = [current EXCEPT ![w] = NoClaim]

(* The pass is over: no row left, or an exception escaped the loop. *)
EndPass(w) ==
  /\ Goto(w, "idle")
  /\ batch' = [batch EXCEPT ![w] = {}]
  /\ current' = [current EXCEPT ![w] = NoClaim]
  /\ started' = [started EXCEPT ![w] = 0]

-----------------------------------------------------------------------------
(* enqueueEvent *)
Enqueue(d) ==
  /\ queue[d].status = "ABSENT"
  /\ queue' = [queue EXCEPT ![d] = [status |-> "PENDING", attempt |-> 0,
                                    nextAttemptAt |-> now]]
  /\ UNCHANGED <<now, delivery, signed, world, worker, faults>>

(* claimDue: the due rows by next attempt, at most ClaimLimit. *)
DueRows == {d \in Deliveries : queue[d].status = "PENDING" /\ queue[d].nextAttemptAt <= now}

(* Mutated: claiming takes the rows off the queue. *)
ClaimDueTaking(w) ==
  /\ pc[w] = "idle"
  /\ \E d \in DueRows :
       /\ batch' = [batch EXCEPT ![w] = {[id |-> d, attempt |-> queue[d].attempt,
                                          nextAttemptAt |-> queue[d].nextAttemptAt]}]
       /\ queue' = [queue EXCEPT ![d] = [@ EXCEPT !.status = "DELIVERED"]]
  /\ started' = [started EXCEPT ![w] = now]
  /\ Goto(w, "next")
  /\ UNCHANGED <<now, delivery, signed, world, current, faults>>

ClaimDue(w) ==
  /\ pc[w] = "idle"
  /\ \E taken \in SUBSET DueRows \ {{}} :
       /\ taken = DueRows \/ Cardinality(taken) = ClaimLimit
       /\ Cardinality(taken) <= ClaimLimit
       /\ \A d \in taken, e \in DueRows \ taken :
            queue[d].nextAttemptAt <= queue[e].nextAttemptAt
       /\ batch' = [batch EXCEPT ![w] =
            {[id |-> d, attempt |-> queue[d].attempt,
              nextAttemptAt |-> queue[d].nextAttemptAt] : d \in taken}]
  /\ started' = [started EXCEPT ![w] = now]
  /\ Goto(w, "next")
  /\ UNCHANGED <<now, queue, delivery, signed, world, current, faults>>

(* Mutated: a delivery without a secret is skipped. *)
NextDeliverySkipping(w) ==
  /\ pc[w] = "next"
  /\ \E claim \in batch[w] :
       /\ batch' = [batch EXCEPT ![w] = @ \ {claim}]
       /\ current' = [current EXCEPT ![w] = IF signed[claim.id] THEN claim ELSE NoClaim]
       /\ Goto(w, IF signed[claim.id] THEN "post" ELSE "next")
  /\ UNCHANGED <<now, queue, delivery, signed, world, started, faults>>

(* findSecret decides between signing and recording a failure. *)
NextDelivery(w) ==
  /\ pc[w] = "next"
  /\ \E claim \in batch[w] :
       /\ \A other \in batch[w] : claim.nextAttemptAt <= other.nextAttemptAt
       /\ batch' = [batch EXCEPT ![w] = @ \ {claim}]
       /\ current' = [current EXCEPT ![w] = claim]
       /\ Goto(w, IF signed[claim.id] THEN "post" ELSE "unsigned")
  /\ UNCHANGED <<now, queue, delivery, signed, world, started, faults>>

PassDone(w) ==
  /\ pc[w] = "next"
  /\ batch[w] = {}
  /\ EndPass(w)
  /\ UNCHANGED <<now, queue, delivery, signed, world, faults>>

AnswersFor(d) == IF d \in Healthy THEN {"accepted"} ELSE Answers

(* Mutated: the status of the response is not looked at. *)
PostUnchecked(w) ==
  /\ pc[w] = "post"
  /\ posts' = [posts EXCEPT ![id(w)] = @ + 1]
  /\ \E answer \in AnswersFor(id(w)) :
       /\ accepted' = IF answer = "refused" THEN accepted
                      ELSE [accepted EXCEPT ![id(w)] = @ + 1]
       /\ Goto(w, IF answer = "unanswered" THEN "fail" ELSE "mark")
  /\ UNCHANGED <<now, queue, delivery, signed, batch, current, started, faults>>

(* The POST: refused, timed out before or after the receiver took it, or    *)
(* acknowledged.                                                            *)
Post(w) ==
  /\ pc[w] = "post"
  /\ posts' = [posts EXCEPT ![id(w)] = @ + 1]
  /\ \E answer \in AnswersFor(id(w)) :
       /\ accepted' = IF answer = "refused" THEN accepted
                      ELSE [accepted EXCEPT ![id(w)] = @ + 1]
       /\ Goto(w, IF answer = "accepted" THEN "mark" ELSE "fail")
  /\ UNCHANGED <<now, queue, delivery, signed, batch, current, started, faults>>

MarkDelivered(w) ==
  /\ pc[w] = "mark"
  /\ queue' = [queue EXCEPT ![id(w)] =
                  [status |-> "DELIVERED", attempt |-> @.attempt + 1,
                   nextAttemptAt |-> @.nextAttemptAt]]
  /\ IF id(w) \in OfPresentation
     THEN Goto(w, "setDelivered") /\ UNCHANGED current
     ELSE TakeNext(w)
  /\ UNCHANGED <<now, delivery, signed, world, batch, started, faults>>

(* setDeliveryStatus, which touches a PENDING transaction only. *)
SetDeliveryStatus(w) ==
  /\ pc[w] \in {"setDelivered", "setFailed"}
  /\ delivery' = [delivery EXCEPT ![id(w)] =
       IF @ = "PENDING" THEN (IF pc[w] = "setDelivered" THEN "DELIVERED" ELSE "FAILED")
       ELSE @]
  /\ TakeNext(w)
  /\ UNCHANGED <<now, queue, signed, world, batch, started, faults>>

(* backoffDelayMs: between half of the bounded exponential and all of it. *)
Backoff(attempt) ==
  LET exponential == BaseDelay * 2^attempt
      bounded == IF exponential <= MaxDelay THEN exponential ELSE MaxDelay
  IN {delay \in 0..MaxDelay : bounded \div 2 <= delay /\ delay <= bounded}

(* Bound: the clock stops at MaxTime, when everything scheduled is due. *)
Due(time) == IF time <= MaxTime THEN time ELSE MaxTime

(* Mutated: one attempt too many. *)
ExhaustedLate(w) == current[w].attempt + 1 > MaxAttempts

Exhausted(w) == current[w].attempt + 1 >= MaxAttempts

(* Mutated: the transaction is not told that its callback was given up. *)
RecordFailureOnly(w) ==
  /\ pc[w] \in {"fail", "unsigned"}
  /\ \E delay \in Backoff(current[w].attempt) :
       queue' = [queue EXCEPT ![id(w)] =
                   [status |-> IF Exhausted(w) THEN "FAILED" ELSE "PENDING",
                    attempt |-> current[w].attempt + 1,
                    nextAttemptAt |-> Due(started[w] + delay)]]
  /\ TakeNext(w)
  /\ UNCHANGED <<now, delivery, signed, world, batch, started, faults>>

(* The attempt is counted from the claimed copy of the row, whatever the    *)
(* row has become since.                                                    *)
RecordFailure(w) ==
  /\ pc[w] \in {"fail", "unsigned"}
  /\ \E delay \in Backoff(current[w].attempt) :
       queue' = [queue EXCEPT ![id(w)] =
                   [status |-> IF Exhausted(w) THEN "FAILED" ELSE "PENDING",
                    attempt |-> current[w].attempt + 1,
                    nextAttemptAt |-> Due(started[w] + delay)]]
  /\ IF pc[w] = "fail" /\ Exhausted(w) /\ id(w) \in OfPresentation
     THEN Goto(w, "setFailed") /\ UNCHANGED current
     ELSE TakeNext(w)
  /\ UNCHANGED <<now, delivery, signed, world, batch, started, faults>>

-----------------------------------------------------------------------------
(* A statement fails: inside the try it counts as a failed delivery, even   *)
(* after the receiver has acknowledged; outside it the pass is abandoned.   *)
Fault(w) ==
  /\ faults < MaxFaults
  /\ faults' = faults + 1
  /\ \/ /\ pc[w] \in {"mark", "setDelivered"}
        /\ Goto(w, "fail")
        /\ UNCHANGED <<batch, current, started>>
     \/ /\ pc[w] \in {"next", "fail", "unsigned", "setFailed"}
        /\ EndPass(w)
  /\ UNCHANGED <<now, queue, delivery, signed, world>>

(* The process stops; a new one starts its passes from the rows. *)
Crash ==
  /\ faults < MaxFaults
  /\ \E w \in Workers : pc[w] # "idle"
  /\ faults' = faults + 1
  /\ pc' = [w \in Workers |-> "idle"]
  /\ batch' = [w \in Workers |-> {}]
  /\ current' = [w \in Workers |-> NoClaim]
  /\ started' = [w \in Workers |-> 0]
  /\ UNCHANGED <<now, queue, delivery, signed, world>>

Tick ==
  /\ now < MaxTime
  /\ now' = now + 1
  /\ UNCHANGED <<queue, delivery, signed, world, worker, faults>>

Deliver(w) ==
  \/ ClaimDue(w) \/ NextDelivery(w) \/ PassDone(w)
  \/ Post(w) \/ MarkDelivered(w) \/ SetDeliveryStatus(w) \/ RecordFailure(w)

Next ==
  \/ \E d \in Deliveries : Enqueue(d)
  \/ \E w \in Workers : Deliver(w) \/ Fault(w)
  \/ Crash
  \/ Tick

Spec == Init /\ [][Next]_vars

(* The interval timer starts pass after pass and every POST has a timeout. *)
FairSpec == Spec /\ (\A w \in Workers : WF_vars(Deliver(w))) /\ WF_vars(Tick)

-----------------------------------------------------------------------------
(* Properties *)

TypeOK ==
  /\ now \in 0..MaxTime
  /\ queue \in [Deliveries -> Rows]
  /\ delivery \in [Deliveries -> {"PENDING", "DELIVERED", "FAILED"}]
  /\ signed \in [Deliveries -> BOOLEAN]
  /\ posts \in [Deliveries -> Nat] /\ accepted \in [Deliveries -> Nat]
  /\ pc \in [Workers -> {"idle", "next", "post", "unsigned", "mark",
                         "setDelivered", "fail", "setFailed"}]
  /\ batch \in [Workers -> SUBSET Claims]
  /\ current \in [Workers -> Claims]
  /\ started \in [Workers -> Nat]
  /\ faults \in 0..MaxFaults

(* Neither the queue nor the transaction claims a delivery the receiver     *)
(* did not take in, through retries, lost answers and crashes (deliverDue). *)
DeliveredWasAccepted ==
  \A d \in Deliveries :
    queue[d].status = "DELIVERED" \/ delivery[d] = "DELIVERED" => accepted[d] > 0

(* A receiver is not sent an event more often than WEBHOOK_MAX_ATTEMPTS,    *)
(* except once more for each failure that kept an attempt from being        *)
(* counted (recordFailure, markDelivered).                                  *)
AttemptsAreBounded ==
  \A d \in Deliveries : posts[d] <= MaxAttempts + faults

(* Between passes the delivery status of a transaction tells how the queue  *)
(* row of its callback ended (setDeliveryStatus after markDelivered and     *)
(* recordFailure), for endpoints that have their secret.                    *)
StatusFollowsQueue ==
  (faults = 0 /\ \A w \in Workers : pc[w] = "idle") =>
    \A d \in OfPresentation :
      signed[d] /\ queue[d].status # "ABSENT" => delivery[d] = queue[d].status

(* Every queued callback ends: delivered or given up, no row is retried for *)
(* ever and none is forgotten by an abandoned pass (deliverDue, claimDue).  *)
QueueDrains ==
  \A d \in Deliveries :
    queue[d].status = "PENDING" ~> queue[d].status \in {"DELIVERED", "FAILED"}

(* A receiver that is up gets every callback of a signed endpoint, although *)
(* passes fail or crash at any statement, as long as the failures are fewer *)
(* than the attempts.                                                       *)
HealthyReceiverIsTold ==
  \A d \in Healthy : queue[d].status = "PENDING" /\ signed[d] ~> accepted[d] > 0
=============================================================================
