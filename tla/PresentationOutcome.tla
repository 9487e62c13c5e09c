------------------------- MODULE PresentationOutcome ------------------------
(***************************************************************************)
(* What the presentation API promises its customer about a transaction:    *)
(* once open it settles at most once; nothing is told about it before; all *)
(* that is ever told (audit trail, callback, answers to polls) is the one  *)
(* outcome; and the callback is queued at most once.                       *)
(***************************************************************************)
EXTENDS Naturals

CONSTANTS Presentations,
          Outcomes         \* final outcomes, "absent" and "open" not among them

VARIABLES phase, told, callbacks

promise == <<phase, told, callbacks>>

Init ==
  /\ phase = [p \in Presentations |-> "absent"]
  /\ told = [p \in Presentations |-> {}]
  /\ callbacks = [p \in Presentations |-> 0]

Open(p) ==
  /\ phase[p] = "absent"
  /\ phase' = [phase EXCEPT ![p] = "open"]
  /\ UNCHANGED <<told, callbacks>>

Settle(p) ==
  /\ phase[p] = "open"
  /\ \E outcome \in Outcomes : phase' = [phase EXCEPT ![p] = outcome]
  /\ UNCHANGED <<told, callbacks>>

Tell(p) ==
  /\ phase[p] \in Outcomes
  /\ told' = [told EXCEPT ![p] = {phase[p]}]
  /\ UNCHANGED <<phase, callbacks>>

QueueCallback(p) ==
  /\ phase[p] \in Outcomes
  /\ callbacks[p] = 0
  /\ callbacks' = [callbacks EXCEPT ![p] = 1]
  /\ UNCHANGED <<phase, told>>

Next == \E p \in Presentations : Open(p) \/ Settle(p) \/ Tell(p) \/ QueueCallback(p)

Spec == Init /\ [][Next]_promise
=============================================================================
