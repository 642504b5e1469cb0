----------------------------- MODULE EventRelay -----------------------------
(***************************************************************************)
(* What the transactional outbox promises to the rest of the service,      *)
(* without tables, locks, batches or retries: an accepted event is         *)
(* delivered to the channel any number of times while it is queued, leaves *)
(* the queue as settled only after a delivery, and may also be dropped.    *)
(* OutboxRelay is shown to implement this specification.                   *)
(***************************************************************************)

CONSTANT Events

VARIABLES
  stage,      \* where each event is in its life
  delivered   \* whether the channel ever carried the event

vars == <<stage, delivered>>

Stages == {"absent", "queued", "settled", "dropped"}

TypeOK ==
  /\ stage \in [Events -> Stages]
  /\ delivered \in [Events -> BOOLEAN]

Init ==
  /\ stage = [e \in Events |-> "absent"]
  /\ delivered = [e \in Events |-> FALSE]

(* A service transaction commits the event together with its data. *)
Accept(e) ==
  /\ stage[e] = "absent"
  /\ stage' = [stage EXCEPT ![e] = "queued"]
  /\ UNCHANGED delivered

(* Only a queued event reaches the channel. *)
Deliver(e) ==
  /\ stage[e] = "queued"
  /\ delivered' = [delivered EXCEPT ![e] = TRUE]
  /\ UNCHANGED stage

(* A whole batch leaves the queue at once: delivered events are settled,   *)
(* the others of the batch are dropped for good.                           *)
Finish(done, lost) ==
  /\ \A e \in done \cup lost : stage[e] = "queued"
  /\ \A e \in done : delivered[e]
  /\ done \cap lost = {}
  /\ stage' = [e \in Events |-> IF e \in done THEN "settled"
                                ELSE IF e \in lost THEN "dropped"
                                ELSE stage[e]]
  /\ UNCHANGED delivered

Next ==
  \/ \E e \in Events : Accept(e) \/ Deliver(e)
  \/ \E done, lost \in SUBSET Events : Finish(done, lost)

Spec == Init /\ [][Next]_vars
=============================================================================
