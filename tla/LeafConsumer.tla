--------------------------- MODULE LeafConsumer ---------------------------
(***************************************************************************)
(* The consumer of LeafFlow's events: a Redis stream, its consumer group   *)
(* and the processes that read it (leaf_events_consumer.py,                *)
(* redis_streams.py).                                                      *)
(*                                                                         *)
(* An entry is named by its place in the stream. A handler is one step, the *)
(* commit of its transaction; what other transactions may do inside it is  *)
(* in ChatStore. user.blocked, user.updated and unknown types change        *)
(* nothing and are all "other".                                            *)
(***************************************************************************)
EXTENDS Integers, Sequences, FiniteSets

CONSTANTS
  Consumers,    \* processes of the consumer, which may be restarted
  Orders,
  BatchSize,    \* count of XREADGROUP
  MaxEntries,   \* bound: entries LeafFlow adds
  MaxStarts,    \* bound: starts of consumer processes, the last of which is for good
  MaxErrors,    \* bound: when so many errors and losses happened, only crashes follow
  NoGroup       \* the group has not been created

ASSUME ConsumerAssumption ==
  /\ BatchSize \in Nat \ {0}
  /\ MaxEntries \in Nat /\ MaxStarts \in Nat /\ MaxErrors \in Nat
  /\ NoGroup \notin Nat

VARIABLES
  stream,    \* the entries, in the order of their XADD
  start,     \* where the group was created, or NoGroup
  group,     \* its last delivered entry
  pending,   \* its pending entries: <<entry, name of the consumer>>
  name,      \* the name of each running consumer, 0 while it is down
  names,     \* how many names were drawn: each start draws a fresh one
  batch,     \* what each consumer has read and not finished, the head first
  stage,     \* "handle" or "ack": what it does to the head
  chats,     \* orders that have a conversation
  notes,     \* committed status messages in that order: <<entry, its consumer>>
  effects,   \* history: entries whose handler committed or had nothing to do
  dropped,   \* history: status entries that found no conversation
  acked,     \* history: acknowledged entries
  errors,    \* history: handlers and acknowledgements that failed
  losses     \* history: replies lost and batches cut short by a crash

redis == <<start, group, pending, acked>>
chat == <<chats, notes, effects, dropped>>
vars == <<stream, redis, name, names, batch, stage, chat, errors, losses>>

Entry == [type : {"created", "status", "other"}, order : Orders]

Init ==
  /\ stream = <<>>
  /\ start = NoGroup /\ group = 0
  /\ pending = {} /\ acked = {}
  /\ name = [c \in Consumers |-> 0]
  /\ names = 0
  /\ batch = [c \in Consumers |-> <<>>]
  /\ stage = [c \in Consumers |-> "handle"]
  /\ chats = {} /\ notes = <<>>
  /\ effects = {} /\ dropped = {}
  /\ errors = 0 /\ losses = 0

Up(c) == name[c] # 0
Working(c) == Up(c) /\ batch[c] # <<>>
Troubles == errors + losses

(* LeafFlow adds an entry, as the handlers' fields tell. *)
Add(e) ==
  /\ Len(stream) < MaxEntries
  /\ stream' = Append(stream, e)
  /\ UNCHANGED <<redis, name, names, batch, stage, chat, errors, losses>>

(* XGROUP CREATE with id "$"; BUSYGROUP is ignored. *)
EnsureGroup ==
  /\ start' = IF start = NoGroup THEN Len(stream) ELSE start
  /\ group' = IF start = NoGroup THEN Len(stream) ELSE group
  /\ UNCHANGED <<pending, acked>>

(* scripts/create_consumer_group.py *)
CreateGroup ==
  /\ start = NoGroup
  /\ EnsureGroup
  /\ UNCHANGED <<stream, name, names, batch, stage, chat, errors, losses>>

(* run_consumer: a new name, then the group. *)
Start(c) ==
  /\ ~Up(c) /\ names < MaxStarts
  /\ names' = names + 1
  /\ name' = [name EXCEPT ![c] = names + 1]
  /\ EnsureGroup
  /\ UNCHANGED <<stream, batch, stage, chat, errors, losses>>

Least(m, n) == IF m <= n THEN m ELSE n

Entries(m, n) == [i \in 1..(n - m) |-> m + i]

\* A slip: entries that are pending for somebody are delivered again.
FetchFromPending(c) ==
  LET first == IF pending = {} THEN group
               ELSE CHOOSE n \in 0..group : /\ \E x \in pending : x[1] = n + 1
                                            /\ \A x \in pending : x[1] > n
      last == Least(first + BatchSize, Len(stream))
  IN  /\ Up(c) /\ batch[c] = <<>> /\ first < Len(stream)
      /\ group' = last
      /\ pending' = pending \cup {<<i, name[c]>> : i \in (first + 1)..last}
      /\ \/ batch' = [batch EXCEPT ![c] = Entries(first, last)] /\ UNCHANGED losses
         \/ /\ Troubles < MaxErrors
            /\ losses' = losses + 1
            /\ UNCHANGED batch
      /\ UNCHANGED <<stream, start, acked, name, names, stage, chat, errors>>

(* XREADGROUP ">": the next entries, pending for this name from then on,    *)
(* whether or not the reply arrives.                                       *)
Fetch(c) ==
  LET last == Least(group + BatchSize, Len(stream))
  IN  /\ Up(c) /\ batch[c] = <<>> /\ group < Len(stream)
      /\ group' = last
      /\ pending' = pending \cup {<<i, name[c]>> : i \in (group + 1)..last}
      /\ \/ batch' = [batch EXCEPT ![c] = Entries(group, last)] /\ UNCHANGED losses
         \/ /\ Troubles < MaxErrors
            /\ losses' = losses + 1
            /\ UNCHANGED batch
      /\ UNCHANGED <<stream, start, acked, name, names, stage, chat, errors>>

(* The callback's effect for entry i at c: the dispatch by event type. *)
Effect(c, i) ==
  LET e == stream[i]
  IN  /\ chats' = IF e.type = "created" THEN chats \cup {e.order} ELSE chats
      /\ notes' = IF e.type = "status" /\ e.order \in chats THEN Append(notes, <<i, c>>)
                  ELSE notes
      /\ dropped' = IF e.type = "status" /\ e.order \notin chats THEN dropped \cup {i}
                    ELSE dropped
      /\ effects' = effects \cup {i}

Handle(c) ==
  /\ Working(c) /\ stage[c] = "handle"
  /\ Effect(c, Head(batch[c]))
  /\ stage' = [stage EXCEPT ![c] = "ack"]
  /\ UNCHANGED <<stream, redis, name, names, batch, errors, losses>>

NextEntry(c) ==
  /\ batch' = [batch EXCEPT ![c] = Tail(@)]
  /\ stage' = [stage EXCEPT ![c] = "handle"]

\* A slip: an entry that failed is tried again after the others of its batch.
FailLater(c) ==
  /\ Working(c) /\ Troubles < MaxErrors
  /\ errors' = errors + 1
  /\ UNCHANGED chat
  /\ batch' = [batch EXCEPT ![c] = Append(Tail(@), Head(@))]
  /\ stage' = [stage EXCEPT ![c] = "handle"]
  /\ UNCHANGED <<stream, redis, name, names, losses>>
\* A slip: after a failure the task of the consumer is over, as the process is not.
FailForGood(c) ==
  /\ Working(c) /\ Troubles < MaxErrors
  /\ errors' = errors + 1
  /\ UNCHANGED chat
  /\ stage' = [stage EXCEPT ![c] = "over"]
  /\ UNCHANGED <<stream, redis, name, names, batch, losses>>
\* A slip: an exception leaves the loop over the batch.
FailAll(c) ==
  /\ Working(c) /\ Troubles < MaxErrors
  /\ errors' = errors + 1
  /\ UNCHANGED chat
  /\ batch' = [batch EXCEPT ![c] = <<>>]
  /\ stage' = [stage EXCEPT ![c] = "handle"]
  /\ UNCHANGED <<stream, redis, name, names, losses>>

\* A slip: an entry whose callback raised is tried again, committed or not.
FailRetried(c) ==
  /\ Working(c) /\ Troubles < MaxErrors
  /\ errors' = errors + 1
  /\ \/ UNCHANGED chat
     \/ stage[c] = "handle" /\ Effect(c, Head(batch[c]))
  /\ stage' = [stage EXCEPT ![c] = "handle"]
  /\ UNCHANGED <<stream, redis, name, names, batch, losses>>

(* The callback or the XACK raises: logged, and the entry stays pending.    *)
(* A callback may raise after its commit.                                  *)
Fail(c) ==
  /\ Working(c) /\ Troubles < MaxErrors
  /\ errors' = errors + 1
  /\ \/ UNCHANGED chat
     \/ stage[c] = "handle" /\ Effect(c, Head(batch[c]))
  /\ NextEntry(c)
  /\ UNCHANGED <<stream, redis, name, names, losses>>

\* A slip: an entry is acknowledged before its handler runs.
AckFirst(c) ==
  /\ Working(c)
  /\ pending' = {x \in pending : x[1] # Head(batch[c])}
  /\ acked' = acked \cup {Head(batch[c])}
  /\ NextEntry(c)
  /\ UNCHANGED <<stream, start, group, name, names, chat, errors, losses>>

(* XACK removes the entry, whichever consumer it is pending for. *)
Ack(c) ==
  /\ Working(c) /\ stage[c] = "ack"
  /\ pending' = {x \in pending : x[1] # Head(batch[c])}
  /\ acked' = acked \cup {Head(batch[c])}
  /\ NextEntry(c)
  /\ UNCHANGED <<stream, start, group, name, names, chat, errors, losses>>

(* The process is stopped or dies, between two awaits of its loop. *)
Crash(c) ==
  /\ Up(c) /\ names < MaxStarts
  /\ name' = [name EXCEPT ![c] = 0]
  /\ batch' = [batch EXCEPT ![c] = <<>>]
  /\ stage' = [stage EXCEPT ![c] = "handle"]
  /\ losses' = losses + (IF batch[c] = <<>> THEN 0 ELSE 1)
  /\ UNCHANGED <<stream, redis, names, chat, errors>>

Next ==
  \/ \E e \in Entry : Add(e)
  \/ CreateGroup
  \/ \E c \in Consumers : \/ Start(c) \/ Fetch(c) \/ Handle(c) \/ Fail(c)
                          \/ Ack(c) \/ Crash(c)

Spec == Init /\ [][Next]_vars

(* A consumer is started again when it is down and goes on with its loop    *)
(* while it is up, whatever is raised in it.                                *)
Fairness ==
  \A c \in Consumers : WF_vars(Start(c)) /\ WF_vars(Fetch(c) \/ Handle(c) \/ Ack(c))

FairSpec == Spec /\ Fairness

-----------------------------------------------------------------------------
TypeOK ==
  /\ stream \in Seq(Entry)
  /\ start \in Nat \cup {NoGroup} /\ group \in 0..Len(stream)
  /\ pending \subseteq (1..group) \X (1..names)
  /\ acked \subseteq 1..group
  /\ names \in Nat /\ name \in [Consumers -> 0..names]
  /\ batch \in [Consumers -> Seq(1..group)]
  /\ stage \in [Consumers -> {"handle", "ack"}]
  /\ chats \subseteq Orders /\ notes \in Seq((1..group) \X Consumers)
  /\ effects \subseteq 1..group /\ dropped \subseteq effects
  /\ errors \in Nat /\ losses \in Nat

Holds(c, i) == \E k \in 1..Len(batch[c]) : batch[c][k] = i

Stranded == {x[1] : x \in {y \in pending : \A c \in Consumers : ~Holds(c, y[1])}}

(* The group forgets an entry only when its handler has done its work: the  *)
(* entries behind the group's position are the acknowledged and the        *)
(* pending, and what is acknowledged took effect.                          *)
AckedTookEffect ==
  /\ acked \subseteq effects
  /\ start # NoGroup => acked \cup {x[1] : x \in pending} = (start + 1)..group
  /\ \A x \in pending : x[1] \notin acked

(* An entry is in one consumer's hands and is handled once, whatever fails   *)
(* and however consumers are restarted: an order status is never announced  *)
(* twice.                                                                   *)
HandledOnce ==
  /\ \A j, k \in 1..Len(notes) : notes[j][1] = notes[k][1] => j = k
  /\ \A b, c \in Consumers : \A j \in 1..Len(batch[b]), k \in 1..Len(batch[c]) :
       batch[b][j] = batch[c][k] => b = c /\ j = k

(* An error costs one entry; only a crash or a lost reply costs a batch. *)
StrandedHasCause == Cardinality(Stranded) <= errors + BatchSize * losses

(* The messages of one consumer, and of those started in its place later,   *)
(* appear in the order of their events. Two consumers may overtake each     *)
(* other.                                                                  *)
NotesInOrder ==
  \A j, k \in 1..Len(notes) :
    j < k /\ notes[j][2] = notes[k][2] => notes[j][1] < notes[k][1]

(* A status change is dropped after its order's creation only if that came   *)
(* before the group, is stranded itself or is still with another consumer.  *)
DroppedHasCause ==
  [][\A c \in Consumers : \A i \in dropped' \ dropped : \A j \in 1..(i - 1) :
       Holds(c, i) /\ stream[j] = [type |-> "created", order |-> stream[i].order]
         => \/ j <= start \/ j \in Stranded
            \/ \E b \in Consumers \ {c} : Holds(b, j)]_vars

(* No entry blocks the ones behind it: every entry added after the group is  *)
(* acknowledged or stranded at last.                                        *)
EntriesSettle ==
  \A i \in 1..MaxEntries :
    (start # NoGroup /\ start < i /\ i <= Len(stream))
      ~> (i \in acked \/ i \in Stranded)

(* The inbox as the services see it: who announced a message is left out.   *)
Inbox == INSTANCE LeafInbox WITH notes <- [k \in 1..Len(notes) |-> notes[k][1]]

(* Whatever fails and whoever reads, an entry behind the group's start takes *)
(* effect at most once, as a whole and as its type says, and XACK follows.  *)
InboxSpec == Inbox!Spec

(* README.md:210 says of a failed entry that it "stays in pending and will   *)
(* be processed again".                                                     *)
Reprocessed == \A i \in 1..MaxEntries : (\E x \in pending : x[1] = i) ~> i \in acked
=============================================================================
