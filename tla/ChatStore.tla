----------------------------- MODULE ChatStore -----------------------------
(***************************************************************************)
(* The use cases of services/ as concurrent PostgreSQL transactions at the *)
(* isolation the engine is created with (READ COMMITTED): send_message,    *)
(* assign_conversation, close_conversation, the two get_or_create          *)
(* functions and the order status notification of the LeafFlow consumer.   *)
(*                                                                         *)
(* A request is one call with its own session. It takes one step per       *)
(* statement at which other transactions can interfere; what it writes is  *)
(* seen by others from its commit on, while its locks are felt from the    *)
(* statement that takes them: the unique index entry of an inserted        *)
(* message or participant, and the row lock an UPDATE takes on the         *)
(* conversation. Rows are named by the request that creates them (every id *)
(* is a fresh uuid4). Time is a counter, advanced by every                 *)
(* datetime.now() of the services.                                         *)
(***************************************************************************)
EXTENDS Integers, Sequences

CONSTANTS
  Requests,   \* calls of the services, each runs at most once
  Tasks,      \* what a request may be asked to do
  Existing,   \* conversations made before: pairs <<topic, user>>
  Users,
  Admins,     \* the consumer's _SYSTEM_PRINCIPAL is one of them
  Topics,     \* topics of conversations
  Support,    \* the topic of support conversations, one of Topics
  Keys,       \* client_msg_id values that clients choose, and may repeat
  Fresh,      \* stands for a uuid4() made by the service itself
  None

Conversations == Existing \cup Requests
Principals == Users \cup Admins
Kinds == {"send", "notify", "assign", "close", "open"}
Admin == {"assign", "close"}

(* on: the conversation of send, assign and close, the topic of the others. *)
(* who: the sender, the admin assigned, the closing admin, the owner.      *)
Task == [kind : Kinds, on : Conversations \cup Topics \cup {None},
         who : Principals, key : Keys \cup {Fresh}]

ASSUME StoreAssumption ==
  /\ Existing \subseteq Topics \X Users
  /\ Existing \cap Requests = {}
  /\ Users \cap Admins = {}
  /\ Support \in Topics
  /\ Fresh \notin Keys
  /\ None \notin Conversations \cup Topics \cup Principals
  /\ Keys \cap Requests = {}
  /\ Tasks \subseteq Task
  /\ \A t \in Tasks : t.kind = "send" \/ t.key = Fresh
  /\ \A t \in Tasks : t.kind = "open" => t.who \in Users /\ t.on \in Topics
  /\ \A t \in Tasks : t.kind = "assign" => t.who \in Admins

VARIABLES
  conv,     \* committed conversations rows, by id
  member,   \* committed participants rows
  log,      \* committed messages, in the order of their commits
  events,   \* committed outbox rows: <<event type, request>>
  clock,    \* the last time read
  task,     \* what each request was asked to do
  pc,       \* how far it is
  dest,     \* the conversation it works on
  at,       \* the time it read: created_at of the row it writes
  reply     \* what it answered

tables == <<conv, member, log, events>>
vars == <<conv, member, log, events, clock, task, pc, dest, at, reply>>

Conversation == [topic : Topics, status : {"open", "closed"},
                 assignee : Admins \cup {None}, last : Nat, born : Nat]

Ended == {"done", "refused", "failed", "aborted"}
Places == {"new", "stamped", "inserted", "refetch", "loaded", "locked", "toJoin",
           "joined", "ready", "creating"} \cup Ended

NewConversation(topic, now) ==
  [topic |-> topic, status |-> "open", assignee |-> None, last |-> 0, born |-> now]

(* last_message_at is 0 while it is NULL. *)
Init ==
  /\ conv = [c \in Existing |-> NewConversation(c[1], 0)]
  /\ member = {<<c, c[2]>> : c \in Existing}
  /\ log = <<>>
  /\ events = {}
  /\ clock = 0
  /\ task \in [Requests -> Tasks]
  /\ pc = [r \in Requests |-> "new"]
  /\ dest = [r \in Requests |-> None]
  /\ at = [r \in Requests |-> 0]
  /\ reply = [r \in Requests |-> None]

-----------------------------------------------------------------------------
(* Queries. *)

(* The columns of uq_message_idempotency. A key the service makes up is     *)
(* nobody else's.                                                          *)
MsgKey(r) == <<dest[r], task[r].who, IF task[r].key = Fresh THEN r ELSE task[r].key>>

Posted == {log[i] : i \in 1..Len(log)}

(* assert_conversation_access *)
Allowed(r) == task[r].who \in Admins \/ <<task[r].on, task[r].who>> \in member

Latest(S) == {c \in S : \A d \in S : conv[d].born <= conv[c].born}

(* get_support_for_user, and get_by_topic with status "open". *)
Matching(r) ==
  {c \in DOMAIN conv : /\ conv[c].status = "open"
                       /\ conv[c].topic = task[r].on
                       /\ task[r].on = Support => <<c, task[r].who>> \in member}

(* get_by_topic as the consumer calls it, whatever the status. *)
OfTopic(r) == {c \in DOMAIN conv : conv[c].topic = task[r].on}

-----------------------------------------------------------------------------
(* Locks of open transactions. *)

(* The unique index entry of a message that is inserted and not committed. *)
HoldsKey(r) == pc[r] \in {"inserted", "joined", "ready"}

\* A slip: the row is first locked by touch_last_message_at.
HoldsRowFromTouch(r) == pc[r] = "ready"
\* A slip: inserting a message locks its conversation against updates.
HoldsRowFromInsert(r) == pc[r] \in {"inserted", "locked", "toJoin", "joined", "ready"}

(* The conversations row, locked by the transaction's first UPDATE of it:   *)
(* assign, close or touch_last_message_at. The foreign key check of an      *)
(* insert locks the row in a mode that such an UPDATE does not conflict    *)
(* with.                                                                   *)
HoldsRow(r) == pc[r] \in {"locked", "toJoin", "joined", "ready"}

\* A slip: the insert of a message does not wait for another of its key.
BlockersKeyless(r) ==
  {q \in Requests \ {r} :
     /\ dest[q] = dest[r]
     /\ \/ pc[r] \in {"inserted", "loaded"} /\ HoldsRow(q)
        \/ pc[r] = "toJoin" /\ pc[q] = "joined" /\ task[q].who = task[r].who}

(* The transactions that the next statement of r must wait for. *)
Blockers(r) ==
  {q \in Requests \ {r} :
     /\ dest[q] = dest[r]
     /\ \/ pc[r] = "stamped" /\ HoldsKey(q) /\ MsgKey(q) = MsgKey(r)
        \/ pc[r] \in {"inserted", "loaded"} /\ HoldsRow(q)
        \/ pc[r] = "toJoin" /\ pc[q] = "joined" /\ task[q].who = task[r].who}

-----------------------------------------------------------------------------
Goto(r, place) == pc' = [pc EXCEPT ![r] = place]

Now(r) ==
  /\ clock' = clock + 1
  /\ at' = [at EXCEPT ![r] = clock + 1]

Answer(r, what) ==
  /\ Goto(r, "done")
  /\ reply' = [reply EXCEPT ![r] = what]

(* NotFoundError or ForbiddenError, or nobody to notify. *)
Refuse(r) ==
  /\ Goto(r, "refused")
  /\ UNCHANGED <<tables, clock, task, dest, at, reply>>

(* An IntegrityError or AssertionError, which no handler expects. *)
Fail(r) ==
  /\ Goto(r, "failed")
  /\ UNCHANGED <<tables, clock, task, dest, at, reply>>

(* send_message down to the creation of the Message. *)
Authorize(r, c) ==
  /\ Now(r)
  /\ dest' = [dest EXCEPT ![r] = c]
  /\ Goto(r, "stamped")
  /\ UNCHANGED <<tables, task, reply>>

Send(r) ==
  /\ pc[r] = "new" /\ task[r].kind = "send"
  /\ \/ task[r].on \in DOMAIN conv /\ Allowed(r) /\ Authorize(r, task[r].on)
     \/ ~(task[r].on \in DOMAIN conv /\ Allowed(r)) /\ Refuse(r)

(* _handle_order_status_changed: the latest conversation of the order,      *)
(* closed or not, receives a system message.                               *)
Notify(r) ==
  /\ pc[r] = "new" /\ task[r].kind = "notify"
  /\ \/ \E c \in Latest(OfTopic(r)) : Authorize(r, c)
     \/ OfTopic(r) = {} /\ Refuse(r)

(* INSERT ... ON CONFLICT DO NOTHING waits for an uncommitted row of the    *)
(* same key, then inserts or reports the conflict.                         *)
Insert(r) ==
  /\ pc[r] = "stamped" /\ Blockers(r) = {}
  /\ Goto(r, IF \E m \in Posted : MsgKey(m) = MsgKey(r) THEN "refetch" ELSE "inserted")
  /\ UNCHANGED <<tables, clock, task, dest, at, reply>>

\* A slip: the answer is the message that was built, not the stored one.
RefetchOwn(r) ==
  /\ pc[r] = "refetch"
  /\ Answer(r, r)
  /\ UNCHANGED <<tables, clock, task, dest, at>>

(* get_by_client_msg_id; nothing is committed. *)
Refetch(r) ==
  /\ pc[r] = "refetch"
  /\ IF \E m \in Posted : MsgKey(m) = MsgKey(r)
     THEN /\ \E m \in Posted : MsgKey(m) = MsgKey(r) /\ Answer(r, m)
          /\ UNCHANGED <<tables, clock, task, dest, at>>
     ELSE Fail(r)

(* touch_last_message_at, then the outbox row. *)
Touch(r) ==
  /\ pc[r] = "inserted" /\ Blockers(r) = {}
  /\ Goto(r, "ready")
  /\ UNCHANGED <<tables, clock, task, dest, at, reply>>

(* assign_conversation and close_conversation: get_by_id. *)
Load(r) ==
  /\ pc[r] = "new" /\ task[r].kind \in Admin
  /\ \/ /\ task[r].on \in DOMAIN conv
        /\ dest' = [dest EXCEPT ![r] = task[r].on]
        /\ Goto(r, "loaded")
        /\ UNCHANGED <<tables, clock, task, at, reply>>
     \/ task[r].on \notin DOMAIN conv /\ Refuse(r)

(* Their first UPDATE. close reads the clock right after it. *)
Lock(r) ==
  /\ pc[r] = "loaded" /\ Blockers(r) = {}
  /\ \/ task[r].kind = "assign" /\ Goto(r, "locked") /\ UNCHANGED <<clock, at>>
     \/ task[r].kind = "close" /\ Goto(r, "ready") /\ Now(r)
  /\ UNCHANGED <<tables, task, dest, reply>>

\* A slip: is_participant forgets the subject_id.
CheckAnyMember(r) ==
  /\ pc[r] = "locked"
  /\ \/ (\E a \in Admins : <<dest[r], a>> \in member) /\ Goto(r, "ready") /\ Now(r)
     \/ (\A a \in Admins : <<dest[r], a>> \notin member) /\ Goto(r, "toJoin")
                                                         /\ UNCHANGED <<clock, at>>
  /\ UNCHANGED <<tables, task, dest, reply>>

(* is_participant *)
CheckMember(r) ==
  /\ pc[r] = "locked"
  /\ \/ <<dest[r], task[r].who>> \in member /\ Goto(r, "ready") /\ Now(r)
     \/ <<dest[r], task[r].who>> \notin member /\ Goto(r, "toJoin") /\ UNCHANGED <<clock, at>>
  /\ UNCHANGED <<tables, task, dest, reply>>

(* participants_w.add, under uq_participant_member, and the clock. *)
Join(r) ==
  /\ pc[r] = "toJoin" /\ Blockers(r) = {}
  /\ IF <<dest[r], task[r].who>> \in member
     THEN Fail(r)
     ELSE Goto(r, "joined") /\ Now(r) /\ UNCHANGED <<tables, task, dest, reply>>

\* A slip: closing does not touch last_message_at.
WrittenUntouched(r) ==
  [conv[dest[r]] EXCEPT
     !.last = IF task[r].kind = "close" THEN @ ELSE at[r],
     !.status = IF task[r].kind = "close" THEN "closed" ELSE @,
     !.assignee = IF task[r].kind = "assign" THEN task[r].who ELSE @]

(* What the UPDATEs of r leave in the conversation row it has locked. *)
Written(r) ==
  [conv[dest[r]] EXCEPT
     !.last = at[r],
     !.status = IF task[r].kind = "close" THEN "closed" ELSE @,
     !.assignee = IF task[r].kind = "assign" THEN task[r].who ELSE @]

(* And in the participants: what r has added, if it has. *)
Members(r) == IF pc[r] = "joined" THEN member \cup {<<dest[r], task[r].who>>} ELSE member

EventType(r) ==
  CASE task[r].kind \in {"send", "notify"} -> "chat.message_created"
    [] task[r].kind \in Admin -> "chat.conversation_updated"
    [] task[r].kind = "open" -> "chat.conversation_created"

\* A slip: the system message has a commit of its own, without its event.
CommitUnannounced(r) ==
  /\ pc[r] \in {"joined", "ready"}
  /\ conv' = [conv EXCEPT ![dest[r]] = Written(r)]
  /\ member' = Members(r)
  /\ log' = Append(log, r)
  /\ events' = IF task[r].kind = "notify" THEN events ELSE events \cup {<<EventType(r), r>>}
  /\ Answer(r, r)
  /\ UNCHANGED <<clock, task, dest, at>>

(* The message, the conversation row, the participant and the outbox row    *)
(* become visible together.                                                *)
Commit(r) ==
  /\ pc[r] \in {"joined", "ready"}
  /\ conv' = [conv EXCEPT ![dest[r]] = Written(r)]
  /\ member' = Members(r)
  /\ log' = Append(log, r)
  /\ events' = events \cup {<<EventType(r), r>>}
  /\ Answer(r, r)
  /\ UNCHANGED <<clock, task, dest, at>>

(* The lookup of get_or_create_support_conversation and                    *)
(* get_or_create_topic_conversation, then the clock.                       *)
Lookup(r) ==
  /\ pc[r] = "new" /\ task[r].kind = "open"
  /\ \/ /\ \E c \in Latest(Matching(r)) : Answer(r, c)
        /\ UNCHANGED <<tables, clock, task, dest, at>>
     \/ /\ Matching(r) = {}
        /\ Goto(r, "creating")
        /\ Now(r)
        /\ UNCHANGED <<tables, task, dest, reply>>

(* Their inserts, which touch no row of anybody else, and their commit. *)
Create(r) ==
  /\ pc[r] = "creating"
  /\ conv' = [c \in DOMAIN conv \cup {r} |->
                IF c = r THEN NewConversation(task[r].on, at[r]) ELSE conv[c]]
  /\ member' = member \cup {<<r, task[r].who>>}
  /\ events' = events \cup {<<EventType(r), r>>}
  /\ Answer(r, r)
  /\ UNCHANGED <<log, clock, task, dest, at>>

(* The process dies, the client goes away or the database fails a          *)
(* statement: the transaction is rolled back and its locks are free.       *)
Abort(r) ==
  /\ pc[r] \notin Ended \cup {"new"}
  /\ Goto(r, "aborted")
  /\ UNCHANGED <<tables, clock, task, dest, at, reply>>

Step(r) ==
  \/ Send(r) \/ Notify(r) \/ Insert(r) \/ Refetch(r) \/ Touch(r)
  \/ Load(r) \/ Lock(r) \/ CheckMember(r) \/ Join(r) \/ Commit(r)
  \/ Lookup(r) \/ Create(r)

Next == \E r \in Requests : Step(r) \/ Abort(r)

Spec == Init /\ [][Next]_vars

(* A statement that need not wait is executed: the event loop and the      *)
(* database serve every request. A request need never arrive.              *)
Serve(r) == pc[r] # "new" /\ Step(r)

FairSpec == Spec /\ \A r \in Requests : WF_vars(Serve(r))

-----------------------------------------------------------------------------
TypeOK ==
  /\ DOMAIN conv \subseteq Conversations
  /\ conv \in [DOMAIN conv -> Conversation]
  /\ member \subseteq Conversations \X Principals
  /\ log \in Seq(Requests)
  /\ events \subseteq {"chat.message_created", "chat.conversation_updated",
                       "chat.conversation_created"} \X Requests
  /\ clock \in Nat
  /\ task \in [Requests -> Tasks]
  /\ pc \in [Requests -> Places]
  /\ dest \in [Requests -> Conversations \cup {None}]
  /\ at \in [Requests -> 0..clock]
  /\ reply \in [Requests -> Conversations \cup {None}]

IsPost(r) == task[r].kind \in {"send", "notify"}

(* send_message is idempotent whatever retries race one another: a key has  *)
(* at most one committed message, and the outbox has one                   *)
(* chat.message_created for each posted message and for nothing else.      *)
ExactlyOnce ==
  /\ \A m, n \in Posted : MsgKey(m) = MsgKey(n) => m = n
  /\ \A i, j \in 1..Len(log) : log[i] = log[j] => i = j
  /\ {r \in Requests : <<"chat.message_created", r>> \in events} = {m \in Posted : IsPost(m)}

(* All answers to one client_msg_id name the same message, and it is        *)
(* committed: neither a caller that lost the race nor one that retries     *)
(* after a rollback is told of a message that is not stored.               *)
AnswersAgree ==
  \A q, r \in Requests :
    pc[q] = "done" /\ pc[r] = "done" /\ IsPost(q) /\ IsPost(r) /\ MsgKey(q) = MsgKey(r)
      => reply[q] = reply[r] /\ reply[q] \in Posted

(* No interleaving makes a request fail on uq_participant_member (the check *)
(* of assign_conversation is made under the row lock) or on the assertion  *)
(* of create_if_not_exists (the row in conflict can be read).              *)
NeverFails == \A r \in Requests : pc[r] # "failed"

(* Transactions never wait for each other in a circle: message keys are     *)
(* taken before the conversation row, and only there.                      *)
NoWaitCycle ==
  \A S \in SUBSET Requests : S # {} => \E r \in S : Blockers(r) \cap S = {}

(* An assignment or closing reads its clock under the row lock, so its      *)
(* system message is later than every message its conversation has when it *)
(* commits, and history pages never show it out of place.                  *)
AdminMessagesAreNewest ==
  \A i, j \in 1..Len(log) :
    i < j /\ task[log[j]].kind \in Admin /\ dest[log[i]] = dest[log[j]]
      => at[log[i]] < at[log[j]]

(* last_message_at belongs to the message whose transaction committed last, *)
(* and is NULL exactly while the conversation has no message.              *)
LastFollowsCommits ==
  \A c \in DOMAIN conv :
    LET mine == {i \in 1..Len(log) : dest[log[i]] = c}
    IN  /\ mine = {} => conv[c].last = 0
        /\ \A i \in mine : (\A j \in mine : j <= i) => conv[c].last = at[log[i]]

(* The positions in the log of the messages that announce an assignment of c. *)
Assignments(c) ==
  {i \in 1..Len(log) : dest[log[i]] = c /\ task[log[i]].kind = "assign"}

(* However assignments race, fail and repeat one another, three tables      *)
(* agree: an admin is a participant of exactly those conversations that    *)
(* have a message of their assignment, be it found by is_participant or    *)
(* added, and the assignee is the admin of the last such message.          *)
RightMembers ==
  \A c \in DOMAIN conv :
    /\ {a \in Admins : <<c, a>> \in member} = {task[log[i]].who : i \in Assignments(c)}
    /\ Assignments(c) = {} => conv[c].assignee = None
    /\ \A i \in Assignments(c) :
         (\A j \in Assignments(c) : j <= i) => conv[c].assignee = task[log[i]].who

(* A row lock and a message key are held by one transaction at a time. *)
LocksExclusive ==
  \A q, r \in Requests : q # r =>
    /\ HoldsRow(q) /\ HoldsRow(r) => dest[q] # dest[r]
    /\ HoldsKey(q) /\ HoldsKey(r) => MsgKey(q) # MsgKey(r)

(* What a request may rely on at each place of its course. *)
InPlace(r) ==
  /\ pc[r] \in {"stamped", "inserted", "refetch"} => IsPost(r)
  /\ pc[r] = "loaded" => task[r].kind \in Admin
  /\ pc[r] \in {"locked", "toJoin", "joined"} => task[r].kind = "assign"
  /\ pc[r] = "ready" => task[r].kind # "open"
  /\ pc[r] = "creating" => task[r].kind = "open"
  /\ pc[r] \notin Ended \cup {"new", "creating"} => dest[r] \in DOMAIN conv
  /\ pc[r] = "toJoin" => <<dest[r], task[r].who>> \notin member
  /\ pc[r] = "ready" /\ task[r].kind = "assign" => <<dest[r], task[r].who>> \in member
  /\ HoldsKey(r) => \A m \in Posted : MsgKey(m) # MsgKey(r)
  /\ pc[r] = "refetch" => \E m \in Posted : MsgKey(m) = MsgKey(r)
  /\ pc[r] = "done" /\ IsPost(r) => reply[r] \in Posted /\ MsgKey(reply[r]) = MsgKey(r)
  /\ pc[r] # "failed"
  /\ r \in Posted \cup DOMAIN conv => pc[r] = "done"

(* The inductive invariant of the services: what each place of a request    *)
(* says of the tables stays true while others commit, because the locks    *)
(* that imply it are exclusive.                                            *)
StoreInvariant ==
  /\ TypeOK
  /\ LocksExclusive
  /\ \A r \in Requests : InPlace(r)
  /\ ExactlyOnce

ClosedKept ==
  \A c \in DOMAIN conv : conv[c].status = "closed" => conv'[c].status = "closed"

(* A closed conversation stays closed and stays in the table, even when the *)
(* closing overtakes an assignment that had loaded it open.                *)
ClosedIsFinal == [][ClosedKept]_vars

(* Every request that has started is answered or aborted: no interleaving   *)
(* of row locks and key waits keeps it waiting for ever.                   *)
EveryRequestEnds == \A r \in Requests : pc[r] # "new" ~> pc[r] \in Ended

-----------------------------------------------------------------------------
(* The services as their callers see them. *)
Ledger == INSTANCE ChatLedger WITH
  messages <- [i \in 1..Len(log) |-> [id |-> log[i], conv |-> dest[log[i]], at |-> at[log[i]]]],
  outcome <- [r \in Requests |-> IF pc[r] \in Ended THEN pc[r] ELSE "pending"]

(* The interleaved statements of any number of transactions implement calls *)
(* that take effect in one step each: the commit, or the query that finds   *)
(* what is answered.                                                       *)
LedgerSpec == Ledger!Spec

-----------------------------------------------------------------------------
(* A statement of the documentation that concurrent requests refute. *)

(* conversation_service.py:19 returns "an existing open support            *)
(* conversation for the user", or creates one: a user has at most one.     *)
OneSupportEach ==
  \A c, d \in DOMAIN conv : \A u \in Users :
    /\ conv[c].status = "open" /\ conv[d].status = "open"
    /\ conv[c].topic = Support /\ conv[d].topic = Support
    /\ <<c, u>> \in member /\ <<d, u>> \in member
    => c = d
=============================================================================
