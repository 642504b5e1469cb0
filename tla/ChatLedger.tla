----------------------------- MODULE ChatLedger -----------------------------
(***************************************************************************)
(* What the services promise to their callers, without transactions,       *)
(* statements or locks: a call takes effect in one step that changes all   *)
(* of its tables, or has no effect. A repeated client_msg_id is answered   *)
(* with the message that is stored, whoever stored it, and a change by an  *)
(* admin is the newest message of its conversation.                        *)
(* ChatStore is shown to implement this specification.                     *)
(***************************************************************************)
EXTENDS Integers, Sequences

CONSTANTS Requests, Tasks, Existing, Admins, Support, Fresh, None

VARIABLES
  conv,      \* conversations, by id
  member,    \* participants: <<conversation, principal>>
  messages,  \* stored messages [id, conv, at], in the order they became visible
  events,    \* <<event type, request>> for the outbox
  clock,     \* the time
  task,      \* what each caller asks for
  outcome,   \* whether and how its call ended
  reply      \* what it was answered

vars == <<conv, member, messages, events, clock, task, outcome, reply>>

NewConversation(topic, now) ==
  [topic |-> topic, status |-> "open", assignee |-> None, last |-> 0, born |-> now]

Init ==
  /\ conv = [c \in Existing |-> NewConversation(c[1], 0)]
  /\ member = {<<c, c[2]>> : c \in Existing}
  /\ messages = <<>>
  /\ events = {}
  /\ clock = 0
  /\ task \in [Requests -> Tasks]
  /\ outcome = [r \in Requests |-> "pending"]
  /\ reply = [r \in Requests |-> None]

Stored == {messages[i] : i \in 1..Len(messages)}

(* What r would repeat in c: the message of its sender with its client_msg_id. *)
Repeated(r, c) ==
  {m \in Stored : /\ m.conv = c
                  /\ task[r].key # Fresh
                  /\ task[m.id].who = task[r].who
                  /\ task[m.id].key = task[r].key}

(* Participants and admins send to a conversation that they name, the       *)
(* consumer to one of the order's.                                         *)
MayPost(r, c) ==
  /\ c \in DOMAIN conv
  /\ \/ /\ task[r].kind = "send" /\ c = task[r].on
        /\ task[r].who \in Admins \/ <<c, task[r].who>> \in member
     \/ task[r].kind = "notify" /\ conv[c].topic = task[r].on

Matching(r) ==
  {c \in DOMAIN conv : /\ conv[c].status = "open"
                       /\ conv[c].topic = task[r].on
                       /\ task[r].on = Support => <<c, task[r].who>> \in member}

-----------------------------------------------------------------------------
End(r, how) ==
  /\ outcome[r] = "pending"
  /\ outcome' = [outcome EXCEPT ![r] = how]

Answer(r, what) == End(r, "done") /\ reply' = [reply EXCEPT ![r] = what]

(* The message of r and the change of its conversation to row. *)
Write(r, c, now, row, type) ==
  /\ messages' = Append(messages, [id |-> r, conv |-> c, at |-> now])
  /\ conv' = [conv EXCEPT ![c] = row]
  /\ events' = events \cup {<<type, r>>}
  /\ Answer(r, r)
  /\ UNCHANGED <<clock, task>>

Post(r, c, now) ==
  /\ MayPost(r, c)
  /\ Repeated(r, c) = {}
  /\ Write(r, c, now, [conv[c] EXCEPT !.last = now], "chat.message_created")
  /\ UNCHANGED member

Repeat(r, c) ==
  /\ MayPost(r, c)
  /\ \E m \in Repeated(r, c) : Answer(r, m.id)
  /\ UNCHANGED <<conv, member, messages, events, clock, task>>

(* The system message of an admin's change is newer than all others. *)
Newest(c, now) == \A m \in Stored : m.conv = c => m.at < now

Assign(r, c, now) ==
  /\ task[r].kind = "assign" /\ c = task[r].on /\ Newest(c, now)
  /\ Write(r, c, now, [conv[c] EXCEPT !.last = now, !.assignee = task[r].who],
           "chat.conversation_updated")
  /\ member' = member \cup {<<c, task[r].who>>}

Close(r, c, now) ==
  /\ task[r].kind = "close" /\ c = task[r].on /\ Newest(c, now)
  /\ Write(r, c, now, [conv[c] EXCEPT !.last = now, !.status = "closed"],
           "chat.conversation_updated")
  /\ UNCHANGED member

(* An open conversation that is found, the latest one, or a new one. A new  *)
(* one is no promise that there is no other (ChatStore!OneSupportEach).    *)
Find(r) ==
  /\ task[r].kind = "open"
  /\ \E c \in Matching(r) : /\ \A d \in Matching(r) : conv[d].born <= conv[c].born
                            /\ Answer(r, c)
  /\ UNCHANGED <<conv, member, messages, events, clock, task>>

Open(r, now) ==
  /\ task[r].kind = "open"
  /\ conv' = [c \in DOMAIN conv \cup {r} |->
                IF c = r THEN NewConversation(task[r].on, now) ELSE conv[c]]
  /\ member' = member \cup {<<r, task[r].who>>}
  /\ events' = events \cup {<<"chat.conversation_created", r>>}
  /\ Answer(r, r)
  /\ UNCHANGED <<messages, clock, task>>

(* Only a call that must not or cannot be served is refused. *)
Refuse(r) ==
  /\ task[r].kind # "open"
  /\ task[r].kind \in {"send", "notify"} => \A c \in DOMAIN conv : ~MayPost(r, c)
  /\ task[r].kind \in {"assign", "close"} => task[r].on \notin DOMAIN conv
  /\ End(r, "refused")
  /\ UNCHANGED <<conv, member, messages, events, clock, task, reply>>

(* A call that is broken off leaves nothing behind. *)
BreakOff(r) ==
  /\ End(r, "aborted")
  /\ UNCHANGED <<conv, member, messages, events, clock, task, reply>>

Tick == clock' = clock + 1 /\ UNCHANGED <<conv, member, messages, events, task, outcome, reply>>

Next ==
  \/ Tick
  \/ \E r \in Requests :
       \/ Find(r) \/ Refuse(r) \/ BreakOff(r)
       \/ \E c \in DOMAIN conv : Repeat(r, c)
       \/ \E now \in 0..clock :
            \/ Open(r, now)
            \/ \E c \in DOMAIN conv : Post(r, c, now) \/ Assign(r, c, now) \/ Close(r, c, now)

Spec == Init /\ [][Next]_vars
=============================================================================
