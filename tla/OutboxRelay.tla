---------------------------- MODULE OutboxRelay ----------------------------
(***************************************************************************)
(* The outbox_messages table and the workers that drain it to the Redis    *)
(* channel (workers/outbox_worker.py over                                  *)
(* infrastructure/db/repositories/outbox.py).                              *)
(*                                                                         *)
(* A worker runs one database transaction per batch: it claims due rows    *)
(* with FOR UPDATE SKIP LOCKED, publishes them one by one to Redis, which  *)
(* is outside the transaction, and commits the new statuses at the end. A  *)
(* database error or the death of the worker rolls the transaction back;   *)
(* what was published stays published.                                     *)
(*                                                                         *)
(* Events are the row ids, numbered in the order of created_at. That is    *)
(* the order in which the writing transactions began, so the rows may be   *)
(* committed in any other order. next_retry_at is kept as the time left    *)
(* until it, 0 once it has passed (or is NULL).                            *)
(***************************************************************************)
EXTENDS Integers, FiniteSets

CONSTANTS
  Events,        \* outbox_messages ids, in created_at order
  Workers,       \* running copies of the outbox worker
  BatchSize,     \* OUTBOX_BATCH_SIZE
  MaxAttempts,   \* OUTBOX_MAX_ATTEMPTS
  BaseDelay,     \* BASE_DELAY_SECONDS
  MaxDelay,      \* MAX_DELAY_SECONDS
  MaxRollbacks   \* bound of the model: transactions that fail or die

(* _calc_backoff, as a number of ticks: min(BaseDelay * 2^attempts, MaxDelay). *)
Backoff(attempts) ==
  IF BaseDelay * 2^attempts <= MaxDelay THEN BaseDelay * 2^attempts ELSE MaxDelay

ASSUME ConstantsAssumption ==
  /\ Events \subseteq Nat
  /\ BatchSize \in Nat \ {0}
  /\ MaxAttempts \in Nat
  /\ MaxRollbacks \in Nat
  /\ \A n \in 0..MaxAttempts : Backoff(n) \in Nat

VARIABLES
  row,        \* committed version of each row
  draft,      \* version written by the transaction that holds the row's lock
  claimed,    \* rows locked by each worker's open transaction
  todo,       \* those its loop has not reached
  acked,      \* sent_ids of its loop
  publishes,  \* how often the channel carried each event
  strays,     \* publishes no committed "sent" accounts for (history)
  rollbacks   \* transactions lost so far (history, bounded)

vars == <<row, draft, claimed, todo, acked, publishes, strays, rollbacks>>

Statuses == {"absent", "pending", "processing", "sent", "failed"}
Row == [status : Statuses, attempts : Nat, wait : Nat]
NoRow == [status |-> "absent", attempts |-> 0, wait |-> 0]

Init ==
  /\ row = [e \in Events |-> NoRow]
  /\ draft = [e \in Events |-> NoRow]
  /\ claimed = [w \in Workers |-> {}]
  /\ todo = [w \in Workers |-> {}]
  /\ acked = [w \in Workers |-> {}]
  /\ publishes = [e \in Events |-> 0]
  /\ strays = [e \in Events |-> 0]
  /\ rollbacks = 0

-----------------------------------------------------------------------------
(* Rows as the claiming query sees them. *)

\* A slip: the status filter is forgotten.
DueWhateverStatus(e) == row[e].status # "absent" /\ row[e].wait = 0
\* A slip: failed rows are never looked at again.
DuePendingOnly(e) == row[e].status = "pending"

Due(e) == row[e].status \in {"pending", "failed"} /\ row[e].wait = 0

\* A slip: a plain SELECT, which neither takes nor respects row locks.
EligibleUnlocked == {e \in Events : Due(e)}

(* FOR UPDATE SKIP LOCKED: rows locked by an open transaction are passed over. *)
Eligible == {e \in Events : Due(e)} \ UNION {claimed[w] : w \in Workers}

(* ORDER BY created_at LIMIT n *)
Oldest(S, n) == {e \in S : Cardinality({f \in S : f < e}) < n}

(* The loop takes the claimed rows in the order of the query. *)
IsHead(w, e) == e \in todo[w] /\ \A f \in todo[w] : e <= f

-----------------------------------------------------------------------------
(* OutboxWriterRepo.add, as the other tables' writers leave it: the row is  *)
(* visible from the commit of the service transaction that wrote it.       *)
Add(e) ==
  /\ row[e].status = "absent"
  /\ row' = [row EXCEPT ![e].status = "pending"]
  /\ draft' = [draft EXCEPT ![e].status = "pending"]
  /\ UNCHANGED <<claimed, todo, acked, publishes, strays, rollbacks>>

Claim(w, batch) ==
  /\ claimed' = [claimed EXCEPT ![w] = batch]
  /\ todo' = [todo EXCEPT ![w] = batch]
  /\ draft' = [e \in Events |-> IF e \in batch
                                THEN [draft[e] EXCEPT !.status = "processing"]
                                ELSE draft[e]]
  /\ UNCHANGED <<acked, publishes, strays, rollbacks>>

\* A slip: the mark is committed before the batch is worked on.
FetchPendingAndCommit(w) ==
  /\ claimed[w] = {}
  /\ Eligible # {}
  /\ Claim(w, Oldest(Eligible, BatchSize))
  /\ row' = draft'

(* fetch_pending: claim the oldest due rows and mark them, inside the       *)
(* transaction. An empty batch returns at once and changes nothing.        *)
FetchPending(w) ==
  /\ claimed[w] = {}
  /\ Eligible # {}
  /\ Claim(w, Oldest(Eligible, BatchSize))
  /\ UNCHANGED row

(* The body of the loop for the row at its head. *)
Advance(w, e) ==
  /\ IsHead(w, e)
  /\ todo' = [todo EXCEPT ![w] = @ \ {e}]
  /\ UNCHANGED <<row, claimed, rollbacks>>

(* A row out of attempts is skipped; it keeps the mark of fetch_pending. *)
Skip(w, e) ==
  /\ row[e].attempts >= MaxAttempts
  /\ Advance(w, e)
  /\ UNCHANGED <<draft, acked, publishes, strays>>

PublishOk(w, e) ==
  /\ row[e].attempts < MaxAttempts
  /\ Advance(w, e)
  /\ publishes' = [publishes EXCEPT ![e] = @ + 1]
  /\ acked' = [acked EXCEPT ![w] = @ \cup {e}]
  /\ UNCHANGED <<draft, strays>>

(* mark_failed with _calc_backoff of the attempts the batch was loaded with. *)
MarkFailed(r) == [status |-> "failed", attempts |-> r.attempts + 1, wait |-> Backoff(r.attempts)]

\* A slip: one attempt too many.
PublishFailsOffByOne(w, e, reached) ==
  /\ row[e].attempts <= MaxAttempts
  /\ Advance(w, e)
  /\ draft' = [draft EXCEPT ![e] = MarkFailed(row[e])]
  /\ publishes' = [publishes EXCEPT ![e] = @ + reached]
  /\ strays' = [strays EXCEPT ![e] = @ + reached]
  /\ UNCHANGED acked

(* publish raised: mark_failed schedules a retry. The command may have      *)
(* reached Redis all the same when only its answer was lost (reached = 1). *)
PublishFails(w, e, reached) ==
  /\ row[e].attempts < MaxAttempts
  /\ Advance(w, e)
  /\ draft' = [draft EXCEPT ![e] = MarkFailed(row[e])]
  /\ publishes' = [publishes EXCEPT ![e] = @ + reached]
  /\ strays' = [strays EXCEPT ![e] = @ + reached]
  /\ UNCHANGED acked

Deliver(w) ==
  \E e \in todo[w] :
    \/ Skip(w, e)
    \/ PublishOk(w, e)
    \/ \E reached \in {0, 1} : PublishFails(w, e, reached)

Release(w) ==
  /\ claimed' = [claimed EXCEPT ![w] = {}]
  /\ todo' = [todo EXCEPT ![w] = {}]
  /\ acked' = [acked EXCEPT ![w] = {}]

\* A slip: the whole batch is marked, not the rows that were published.
WrittenBatch(w, e) == [draft[e] EXCEPT !.status = "sent"]

(* The version of a claimed row at the commit, after mark_sent(sent_ids). *)
Written(w, e) ==
  IF e \in acked[w] THEN [draft[e] EXCEPT !.status = "sent"] ELSE draft[e]

(* mark_sent and commit, once the loop is through. *)
Commit(w) ==
  /\ claimed[w] # {}
  /\ todo[w] = {}
  /\ row' = [e \in Events |-> IF e \in claimed[w] THEN Written(w, e) ELSE row[e]]
  /\ draft' = [e \in Events |-> IF e \in claimed[w] THEN Written(w, e) ELSE draft[e]]
  /\ Release(w)
  /\ UNCHANGED <<publishes, strays, rollbacks>>

(* An error of a statement or of the commit, which run_outbox_worker logs,  *)
(* or the death of the process: PostgreSQL rolls the transaction back and  *)
(* frees the rows, while the events of sent_ids are on the channel.        *)
Rollback(w) ==
  /\ claimed[w] # {}
  /\ rollbacks < MaxRollbacks
  /\ rollbacks' = rollbacks + 1
  /\ draft' = [e \in Events |-> IF e \in claimed[w] THEN row[e] ELSE draft[e]]
  /\ strays' = [e \in Events |-> strays[e] + (IF e \in acked[w] THEN 1 ELSE 0)]
  /\ Release(w)
  /\ UNCHANGED <<row, publishes>>

Older(r) == IF r.wait > 0 THEN [r EXCEPT !.wait = @ - 1] ELSE r

(* The clock moves towards every next_retry_at. *)
Tick ==
  /\ \E e \in Events : row[e].wait > 0 \/ draft[e].wait > 0
  /\ row' = [e \in Events |-> Older(row[e])]
  /\ draft' = [e \in Events |-> Older(draft[e])]
  /\ UNCHANGED <<claimed, todo, acked, publishes, strays, rollbacks>>

-----------------------------------------------------------------------------
Next ==
  \/ \E e \in Events : Add(e)
  \/ \E w \in Workers : FetchPending(w) \/ Deliver(w) \/ Commit(w) \/ Rollback(w)
  \/ Tick

Spec == Init /\ [][Next]_vars

(* The worker's loop never stops polling and each of its steps ends; time   *)
(* passes. Nothing is assumed of the writers of events, and rollbacks are  *)
(* bounded: the database is eventually usable.                             *)
Fairness ==
  /\ \A w \in Workers : WF_vars(FetchPending(w)) /\ WF_vars(Deliver(w)) /\ WF_vars(Commit(w))
  /\ WF_vars(Tick)

FairSpec == Spec /\ Fairness

-----------------------------------------------------------------------------
TypeOK ==
  /\ row \in [Events -> Row]
  /\ draft \in [Events -> Row]
  /\ claimed \in [Workers -> SUBSET Events]
  /\ todo \in [Workers -> SUBSET Events]
  /\ acked \in [Workers -> SUBSET Events]
  /\ publishes \in [Events -> Nat]
  /\ strays \in [Events -> Nat]
  /\ rollbacks \in 0..MaxRollbacks

(* Two workers never work on the same outbox row at the same time, whatever *)
(* the polling interleaving (FOR UPDATE SKIP LOCKED in fetch_pending).     *)
ClaimsDisjoint ==
  \A v, w \in Workers : v # w => claimed[v] \cap claimed[w] = {}

(* A row committed as sent was carried by the channel at least once:        *)
(* mark_sent covers exactly the rows whose publish returned.               *)
SentWasPublished ==
  \A e \in Events : row[e].status = "sent" => publishes[e] > 0

(* A row is found in "processing" only when its attempts are used up: the   *)
(* mark of fetch_pending never outlives a crash of the worker.             *)
StuckMeansExhausted ==
  \A e \in Events :
    /\ row[e].attempts <= MaxAttempts
    /\ row[e].status = "processing" => row[e].attempts = MaxAttempts

(* The channel carries an event more than once only for a cause: a publish  *)
(* whose answer was lost or a rolled back batch accounts for every copy    *)
(* but one.                                                                *)
DuplicatesExplained ==
  \A e \in Events : publishes[e] <= strays[e] + 1

(* However often Redis, the database and the workers fail, an event is      *)
(* broadcast at most max_attempts times, and once more for each batch that *)
(* was rolled back: attempts are counted for every publish that returned   *)
(* or raised (mark_failed), unless a rollback takes the count back.        *)
CopiesBounded ==
  \A e \in Events : publishes[e] <= MaxAttempts + rollbacks

(* Why the above hold together: what an open transaction may have written   *)
(* over the rows it locked.                                                *)
LoopBookkeeping ==
  \A w \in Workers :
    /\ todo[w] \subseteq claimed[w]
    /\ acked[w] \subseteq claimed[w] \ todo[w]

Free(e) == \A w \in Workers : e \notin claimed[w]

OnlyClaimedAreDrafted == \A e \in Events : Free(e) => draft[e] = row[e]

Marked(r) == [r EXCEPT !.status = "processing"]

RightlyDrafted(w, e) ==
  /\ Due(e)
  /\ e \in todo[w] \cup acked[w] => draft[e] = Marked(row[e])
  /\ e \in acked[w] => row[e].attempts < MaxAttempts
  /\ e \notin todo[w] \cup acked[w] =>
       \/ draft[e] = Marked(row[e]) /\ row[e].attempts = MaxAttempts
       \/ /\ draft[e].status = "failed"
          /\ draft[e].attempts = row[e].attempts + 1
          /\ row[e].attempts < MaxAttempts

DraftOfClaimed == \A w \in Workers : \A e \in claimed[w] : RightlyDrafted(w, e)

Carried(e) == row[e].status = "sent" \/ \E w \in Workers : e \in acked[w]

(* Each copy on the channel is a stray or the one that a commit has recorded *)
(* as sent, or that the worker holding the row is about to record.         *)
PublishesAccounted ==
  \A e \in Events : publishes[e] = strays[e] + (IF Carried(e) THEN 1 ELSE 0)

(* The inductive invariant of the relay: _process_batch keeps its database  *)
(* transaction, its list sent_ids and the channel in step at every moment. *)
RelayInvariant ==
  /\ TypeOK
  /\ ClaimsDisjoint
  /\ LoopBookkeeping
  /\ OnlyClaimedAreDrafted
  /\ DraftOfClaimed
  /\ StuckMeansExhausted
  /\ PublishesAccounted

Final(e) == row[e].status \in {"sent", "processing"}

FinalKept == \A e \in Events : Final(e) => /\ row'[e].status = row[e].status
                                         /\ publishes'[e] = publishes[e]

(* Once a row is committed as sent, or given up, no worker publishes it     *)
(* again and its status never changes, however late a competing worker is. *)
FinalIsFinal == [][FinalKept]_vars

(* Every outbox row is eventually sent or given up with its attempts spent: *)
(* no crash, lock or back-off leaves a row waiting for ever.               *)
EventuallyFinal ==
  \A e \in Events : row[e].status \in {"pending", "failed"} ~> Final(e)

(* README.md:164 promises that an event written to the outbox is not lost   *)
(* (at-least-once delivery): every pending row is eventually published.    *)
AtLeastOnce ==
  \A e \in Events : row[e].status = "pending" ~> publishes[e] > 0

-----------------------------------------------------------------------------
(* The outbox as the rest of the service sees it. *)
StageOf(r) ==
  CASE r.status = "absent" -> "absent"
    [] r.status \in {"pending", "failed"} -> "queued"
    [] r.status = "sent" -> "settled"
    [] r.status = "processing" -> "dropped"

Relay == INSTANCE EventRelay WITH
  stage <- [e \in Events |-> StageOf(row[e])],
  delivered <- [e \in Events |-> publishes[e] > 0]

(* The workers implement the relay: a step of theirs is a step of it or     *)
(* changes nothing it sees.                                                *)
RelaySpec == Relay!Spec
=============================================================================
