------------------------- MODULE ChatLedgerProofs --------------------------
(***************************************************************************)
(* ChatStore implements ChatLedger, for any set of requests and of tasks:  *)
(* a request takes effect where it commits, or where it reads what it      *)
(* answers, and each of its other steps is at most the clock's. What it    *)
(* checked before is still true there: StoreInvariant and OrderInvariant   *)
(* say so of keys, members and times, RightsLast of its right to be there. *)
(***************************************************************************)
EXTENDS ChatStoreProofs, SequenceTheorems

(* A request that is under way may do what it does in its conversation,     *)
(* from its check to its end.                                              *)
Rightful(r) ==
  pc[r] \notin Ended \cup {"new", "creating"} =>
    /\ IsPost(r) => Ledger!MayPost(r, dest[r])
    /\ task[r].kind \in Admin => dest[r] = task[r].on

RightsLast == \A r \in Requests : Rightful(r)

(* Rights are never lost: conversations keep their topic, members stay. *)
Grows ==
  /\ DOMAIN conv \subseteq DOMAIN conv' /\ member \subseteq member' /\ task' = task
  /\ \A c \in DOMAIN conv : conv'[c].topic = conv[c].topic

LEMMA StepGrows ==
  ASSUME StoreInvariant, NEW r \in Requests, Step(r) \/ Abort(r)
  PROVE  Grows
<1>1. CASE Commit(r)
  <2>1. DOMAIN conv' = DOMAIN conv /\ dest[r] \in DOMAIN conv
    BY <1>1, CommitFacts
  <2>2. \A c \in DOMAIN conv : conv[c] \in Conversation
    BY DEF StoreInvariant, TypeOK
  <2>3. Written(r).topic = conv[dest[r]].topic
    BY <2>1, <2>2 DEF Written, Conversation
  <2> QED
    BY <1>1, <2>1, <2>3 DEF Commit, Members, Grows
<1>2. CASE Create(r)
  BY <1>2, CreateFacts DEF Create, Grows
<1>3. CASE ~Commit(r) /\ ~Create(r)
  BY <1>3, QuietStep DEF MovesInOrder, Moves, Grows
<1> QED
  BY <1>1, <1>2, <1>3

LEMMA MayPostStays ==
  ASSUME Grows, NEW r, NEW c, Ledger!MayPost(r, c)
  PROVE  Ledger!MayPost(r, c)'
BY DEF Grows, Ledger!MayPost

(* The steps by which a request enters a conversation. *)
LEMMA EntersRightly ==
  ASSUME StoreInvariant, NEW r \in Requests, Send(r) \/ Notify(r) \/ Load(r)
  PROVE  Rightful(r)'
<1>0. TypeOK
  BY DEF StoreInvariant
<1>1. CASE Refuse(r)
  BY <1>0, <1>1 DEF Refuse, Goto, TypeOK, Rightful, Ended
<1>2. CASE Send(r) /\ ~Refuse(r)
  <2>1. /\ task[r].kind = "send" /\ task[r].on \in DOMAIN conv
        /\ Allowed(r) /\ Authorize(r, task[r].on)
    BY <1>2 DEF Send
  <2>2. /\ dest'[r] = task[r].on /\ UNCHANGED <<tables, task>>
    BY <1>0, <2>1 DEF Authorize, TypeOK
  <2>3. Ledger!MayPost(r, task[r].on)'
    BY <2>1, <2>2 DEF Allowed, tables, Ledger!MayPost
  <2> QED
    BY <2>1, <2>2, <2>3 DEF Rightful, Admin
<1>3. CASE Notify(r) /\ ~Refuse(r)
  <2>1. PICK c \in Latest(OfTopic(r)) : Authorize(r, c)
    BY <1>3 DEF Notify
  <2>2. c \in DOMAIN conv /\ conv[c].topic = task[r].on
    BY DEF Latest, OfTopic
  <2> QED
    BY <1>0, <1>3, <2>1, <2>2 DEF Notify, Authorize, Goto, tables, TypeOK, Rightful, IsPost,
                                  Admin, Ledger!MayPost
<1>4. CASE Load(r) /\ ~Refuse(r)
  BY <1>0, <1>4 DEF Load, Goto, tables, TypeOK, Rightful, IsPost, Admin
<1> QED
  BY <1>1, <1>2, <1>3, <1>4

LEMMA RightsKept ==
  ASSUME StoreInvariant, RightsLast, NEW r \in Requests, Step(r) \/ Abort(r)
  PROVE  RightsLast'
<1>0. TypeOK /\ Grows
  BY StepGrows DEF StoreInvariant
<1>1. /\ task' = task
      /\ \A q \in Requests \ {r} : pc'[q] = pc[q] /\ dest'[q] = dest[q]
      /\ pc'[r] \in Ended \/ pc[r] = "new" \/ (dest'[r] = dest[r] /\ pc[r] \notin Ended \cup {"creating"})
  <2>1. CASE Commit(r) \/ Create(r)
    <3>1. pc'[r] \in Ended /\ UNCHANGED <<task, dest>>
          /\ \A q \in Requests \ {r} : pc'[q] = pc[q]
      BY <1>0, <2>1, CommitFacts, CreateFacts DEF Commit, Create, Answer, Goto, TypeOK, Ended
    <3> QED
      BY <3>1
  <2>2. CASE Abort(r)
    BY <1>0, <2>2 DEF Abort, Goto, tables, TypeOK, Ended
  <2>3. CASE Step(r) /\ ~Commit(r) /\ ~Create(r)
    <3>1. pc[r] # "creating"
      BY <2>3 DEF Step, Send, Notify, Insert, Refetch, Touch, Load, Lock, CheckMember, Join,
                  Lookup
    <3> QED
      BY <2>3, <3>1, QuietStep DEF MovesInOrder, Moves
  <2> QED
    BY <2>1, <2>2, <2>3
<1>2. ASSUME NEW q \in Requests, pc'[q] = pc[q] \/ pc[q] \notin Ended \cup {"new", "creating"},
             dest'[q] = dest[q]
      PROVE  Rightful(q)'
  BY <1>0, <1>1, <1>2, MayPostStays DEF RightsLast, Rightful, IsPost
<1>3. ASSUME pc[r] = "new"
      PROVE  Rightful(r)'
  <2>1. CASE Send(r) \/ Notify(r) \/ Load(r)
    BY <2>1, EntersRightly
  <2>2. CASE Lookup(r)
    BY <1>0, <2>2 DEF Lookup, Answer, Goto, TypeOK, Rightful, Ended
  <2> QED
    BY <1>3, <2>1, <2>2 DEF Step, Abort, Insert, Refetch, Touch, Lock, CheckMember, Join, Commit,
                            Create
<1>4. CASE pc'[r] \in Ended
  <2>1. Rightful(r)'
    BY <1>4 DEF Rightful
  <2> QED
    BY <1>1, <1>2, <2>1 DEF RightsLast
<1>5. CASE pc'[r] \notin Ended
  <2>1. Rightful(r)'
    BY <1>1, <1>2, <1>3, <1>5
  <2> QED
    BY <1>1, <1>2, <2>1 DEF RightsLast
<1> QED
  BY <1>4, <1>5

-----------------------------------------------------------------------------
(* What the ledger sees. *)

Messages == [i \in 1..Len(log) |-> [id |-> log[i], conv |-> dest[log[i]], at |-> at[log[i]]]]
Outcome == [r \in Requests |-> IF pc[r] \in Ended THEN pc[r] ELSE "pending"]

Entry(m) == [id |-> m, conv |-> dest[m], at |-> at[m]]

LEMMA MessagesLength ==
  ASSUME StoreInvariant
  PROVE  /\ Len(Messages) = Len(log) /\ Len(log) \in Nat
         /\ \A i \in 1..Len(log) : log[i] \in Requests /\ log[i] \in Posted
         /\ Messages \in Seq([id : Requests, conv : Conversations \cup {None}, at : Nat])
<1>1. Len(log) \in Nat /\ \A i \in 1..Len(log) : log[i] \in Requests /\ log[i] \in Posted
  BY ElementOfSeq DEF StoreInvariant, TypeOK, Posted
<1>2. \A m \in Requests : Entry(m) \in [id : Requests, conv : Conversations \cup {None}, at : Nat]
  BY DEF StoreInvariant, TypeOK, Entry
<1>3. \A i \in 1..Len(log) : Messages[i] \in [id : Requests, conv : Conversations \cup {None}, at : Nat]
  BY <1>1, <1>2 DEF Messages, Entry
<1> QED
  BY <1>1, <1>3 DEF Messages

LEMMA StoredIsPosted ==
  ASSUME StoreInvariant
  PROVE  Ledger!Stored = {Entry(m) : m \in Posted}
<1>1. Ledger!Stored = {Messages[i] : i \in 1..Len(log)}
  BY MessagesLength DEF Ledger!Stored, Messages
<1>2. \A i \in 1..Len(log) : Messages[i] = Entry(log[i])
  BY DEF Messages, Entry
<1> QED
  BY <1>1, <1>2 DEF Posted

LEMMA MessagesSame ==
  ASSUME StoreInvariant, NEW r \in Requests, MovesInOrder(r)
  PROVE  Messages' = Messages
<1>1. Posted \subseteq Requests \ {r}
  BY MoveFrame DEF MovesInOrder
<1>2. \A i \in 1..Len(log) : dest'[log[i]] = dest[log[i]] /\ at'[log[i]] = at[log[i]]
  BY <1>1, MessagesLength DEF MovesInOrder, Moves
<1> QED
  BY <1>2 DEF Messages, MovesInOrder, Moves

(* A request ends once. *)
LEMMA EndsOnce ==
  ASSUME TypeOK, NEW r \in Requests, NEW how \in Ended, pc[r] \notin Ended,
         pc' = [pc EXCEPT ![r] = how]
  PROVE  Ledger!End(r, how)
<1>1. Outcome[r] = "pending"
  BY DEF Outcome
<1>2. Outcome' = [Outcome EXCEPT ![r] = how]
  BY DEF Outcome, TypeOK
<1> QED
  BY <1>1, <1>2 DEF Ledger!End, Outcome

(* A statement that is neither the last of its request nor a commit is at   *)
(* most a step of the clock.                                               *)
LEMMA InnerStep ==
  ASSUME StoreInvariant, NEW r \in Requests, MovesInOrder(r),
         pc' = [pc EXCEPT ![r] = pc'[r]], pc'[r] \notin Ended, reply' = reply,
         clock' = clock \/ clock' = clock + 1
  PROVE  Ledger!Tick \/ UNCHANGED Ledger!vars
<1>1. UNCHANGED <<conv, member, events, task, reply>>
  BY DEF MovesInOrder, Moves
<1>2. Messages' = Messages
  BY MessagesSame
<1>3. Outcome' = Outcome
  BY DEF Outcome, MovesInOrder, Moves
<1> QED
  BY <1>1, <1>2, <1>3 DEF Ledger!Tick, Ledger!vars, Messages, Outcome

LEMMA InnerSteps ==
  ASSUME StoreInvariant, StoreInvariant', NEW r \in Requests,
         \/ (Send(r) \/ Notify(r) \/ Load(r)) /\ ~Refuse(r)
         \/ Insert(r) \/ Touch(r) \/ Lock(r) \/ CheckMember(r) \/ Join(r)
         \/ Lookup(r) /\ Matching(r) = {}
  PROVE  Ledger!Tick \/ UNCHANGED Ledger!vars
<1>1. MovesInOrder(r)
  <2>1. ~Commit(r) /\ ~Create(r)
    BY DEF Commit, Create, Send, Notify, Load, Insert, Touch, Lock, CheckMember, Join, Lookup
  <2> QED
    BY <2>1, QuietStep DEF Step
<1>2. /\ pc' = [pc EXCEPT ![r] = pc'[r]] /\ pc'[r] \notin Ended /\ reply' = reply
      /\ clock' = clock \/ clock' = clock + 1
  <2> USE DEF StoreInvariant, TypeOK, Goto, Now, tables, Ended
  <2>1. CASE (Send(r) \/ Notify(r)) /\ ~Refuse(r)
    BY <2>1 DEF Send, Notify, Authorize
  <2>2. CASE Load(r) /\ ~Refuse(r)
    BY <2>2 DEF Load
  <2>3. CASE Insert(r) \/ Touch(r)
    BY <2>3 DEF Insert, Touch
  <2>4. CASE Lock(r) \/ CheckMember(r)
    BY <2>4 DEF Lock, CheckMember
  <2>5. CASE Join(r)
    <3>1. pc'[r] # "failed"
      BY DEF InPlace
    <3> QED
      BY <2>5, <3>1 DEF Join, Fail
  <2>6. CASE Lookup(r) /\ Matching(r) = {}
    BY <2>6 DEF Lookup, Latest
  <2> QED
    BY <2>1, <2>2, <2>3, <2>4, <2>5, <2>6
<1> QED
  BY <1>1, <1>2, InnerStep

-----------------------------------------------------------------------------
(* The steps at which a request takes effect. *)

LEMMA RefusesRightly ==
  ASSUME StoreInvariant, NEW r \in Requests, Send(r) \/ Notify(r) \/ Load(r), Refuse(r)
  PROVE  Ledger!Refuse(r)
<1>0. TypeOK
  BY DEF StoreInvariant
<1>1. Ledger!End(r, "refused") /\ UNCHANGED <<conv, member, events, clock, task, reply>>
  BY <1>0, EndsOnce DEF Refuse, Goto, tables, Ended, Send, Notify, Load
<1>2. Messages' = Messages
  BY DEF Refuse, tables, Messages
<1>3. pc'[r] = "refused"
  BY <1>0 DEF Refuse, Goto, TypeOK
<1>4. CASE Send(r)
  <2>1. task[r].kind = "send" /\ ~(task[r].on \in DOMAIN conv /\ Allowed(r))
    BY <1>0, <1>3, <1>4 DEF Send, Authorize, Goto, TypeOK
  <2>2. \A c \in DOMAIN conv : ~Ledger!MayPost(r, c)
    BY <2>1 DEF Allowed, Ledger!MayPost
  <2> QED
    BY <1>1, <1>2, <2>1, <2>2 DEF Ledger!Refuse, Messages
<1>5. CASE Notify(r)
  <2>1. task[r].kind = "notify" /\ OfTopic(r) = {}
    BY <1>0, <1>3, <1>5 DEF Notify, Authorize, Goto, TypeOK
  <2>2. \A c \in DOMAIN conv : ~Ledger!MayPost(r, c)
    BY <2>1 DEF OfTopic, Ledger!MayPost
  <2> QED
    BY <1>1, <1>2, <2>1, <2>2 DEF Ledger!Refuse, Messages
<1>6. CASE Load(r)
  <2>1. task[r].kind \in Admin /\ task[r].on \notin DOMAIN conv
    BY <1>0, <1>3, <1>6 DEF Load, Goto, TypeOK
  <2> QED
    BY <1>1, <1>2, <2>1 DEF Ledger!Refuse, Messages, Admin
<1> QED
  BY <1>4, <1>5, <1>6

LEMMA AbortBreaksOff ==
  ASSUME StoreInvariant, NEW r \in Requests, Abort(r)
  PROVE  Ledger!BreakOff(r)
<1>1. Ledger!End(r, "aborted") /\ UNCHANGED <<conv, member, events, clock, task, reply>>
  BY EndsOnce DEF StoreInvariant, Abort, Goto, tables, Ended
<1>2. Messages' = Messages
  BY DEF Abort, tables, Messages
<1> QED
  BY <1>1, <1>2 DEF Ledger!BreakOff, Messages

(* Keys are the same for what the unique index takes to be the same. *)
LEMMA SameKey ==
  ASSUME StoreInvariant, NEW r \in Requests, NEW m \in Posted, pc[r] # "done"
  PROVE  MsgKey(m) = MsgKey(r) <=> Entry(m) \in Ledger!Repeated(r, dest[r])
<1>0. m \in Requests
  BY MessagesLength DEF Posted
<1>1. m \in Requests /\ m # r
  BY <1>0 DEF StoreInvariant, InPlace
<1>2. Entry(m) \in Ledger!Repeated(r, dest[r]) <=>
        /\ dest[m] = dest[r] /\ task[r].key # Fresh
        /\ task[m].who = task[r].who /\ task[m].key = task[r].key
  BY StoredIsPosted DEF Ledger!Repeated, Entry
<1>3. MsgKey(m) = MsgKey(r) => task[r].key # Fresh /\ task[m].key # Fresh
  BY <1>1, FreshKey
<1> QED
  BY <1>2, <1>3 DEF MsgKey

LEMMA RefetchRepeats ==
  ASSUME StoreInvariant, RightsLast, NEW r \in Requests, Refetch(r)
  PROVE  \E c \in DOMAIN conv : Ledger!Repeat(r, c)
<1>1. /\ pc[r] = "refetch" /\ UNCHANGED <<tables, clock, task, dest, at>>
      /\ \E m \in Posted : MsgKey(m) = MsgKey(r) /\ Answer(r, m)
  BY DEF Refetch, StoreInvariant, InPlace
<1>2. PICK m \in Posted : MsgKey(m) = MsgKey(r) /\ Answer(r, m)
  BY <1>1
<1>3. dest[r] \in DOMAIN conv /\ Ledger!MayPost(r, dest[r])
  BY <1>1 DEF StoreInvariant, InPlace, RightsLast, Rightful, Ended
<1>4. Entry(m) \in Ledger!Repeated(r, dest[r]) /\ Entry(m).id = m
  BY <1>1, <1>2, SameKey DEF Entry
<1>5. Ledger!Answer(r, m)
  BY <1>1, <1>2, EndsOnce DEF StoreInvariant, Answer, Goto, Ended, Ledger!Answer
<1>6. UNCHANGED <<conv, member, events, clock, task>> /\ Messages' = Messages
  BY <1>1 DEF tables, Messages
<1> QED
  <2>1. PICK c \in DOMAIN conv : c = dest[r]
    BY <1>3
  <2>2. Ledger!Repeat(r, c)
    BY <1>3, <1>4, <1>5, <1>6, <2>1 DEF Ledger!Repeat, Messages, Ledger!MayPost, Ledger!Repeated
  <2> QED
    BY <2>2

LEMMA LookupFinds ==
  ASSUME StoreInvariant, NEW r \in Requests, Lookup(r), Matching(r) # {}
  PROVE  Ledger!Find(r)
<1>1. /\ pc[r] = "new" /\ task[r].kind = "open" /\ UNCHANGED <<tables, clock, task, dest, at>>
      /\ \E c \in Latest(Matching(r)) : Answer(r, c)
  BY DEF Lookup
<1>2. PICK c \in Latest(Matching(r)) : Answer(r, c)
  BY <1>1
<1>3. c \in Matching(r) /\ \A d \in Matching(r) : conv[d].born <= conv[c].born
  BY <1>2 DEF Latest
<1>4. Ledger!Answer(r, c)
  BY <1>1, <1>2, EndsOnce DEF StoreInvariant, Answer, Goto, Ended, Ledger!Answer
<1>5. UNCHANGED <<conv, member, events, clock, task>> /\ Messages' = Messages
  BY <1>1 DEF tables, Messages
<1> QED
  BY <1>1, <1>3, <1>4, <1>5 DEF Ledger!Find, Ledger!Matching, Matching, Messages

LEMMA CreateOpens ==
  ASSUME StoreInvariant, NEW r \in Requests, Create(r)
  PROVE  at[r] \in 0..clock /\ Ledger!Open(r, at[r])
<1>1. at[r] \in 0..clock /\ task[r].kind = "open" /\ EventType(r) = "chat.conversation_created"
  BY CreateFacts DEF StoreInvariant, TypeOK, EventType, Admin
<1>2. Ledger!Answer(r, r)
  BY EndsOnce DEF StoreInvariant, Create, Answer, Goto, Ended, Ledger!Answer
<1>3. Messages' = Messages
  BY DEF Create, Messages
<1> QED
  BY <1>1, <1>2, <1>3 DEF Create, Ledger!Open, Ledger!NewConversation, NewConversation, Messages

LEMMA AppendedEntry ==
  ASSUME NEW S, NEW s \in Seq(S), NEW e \in S, NEW t,
         t = [i \in 1..Len(s) + 1 |-> t[i]],
         t[Len(s) + 1] = e, \A i \in 1..Len(s) : t[i] = s[i]
  PROVE  t = Append(s, e)
<1>1. /\ Append(s, e) \in Seq(S) /\ Len(Append(s, e)) = Len(s) + 1
      /\ Append(s, e)[Len(s) + 1] = e /\ \A i \in 1..Len(s) : Append(s, e)[i] = s[i]
  BY AppendProperties
<1>2. Len(s) \in Nat /\ \A i \in 1..Len(s) + 1 : i = Len(s) + 1 \/ i \in 1..Len(s)
  OBVIOUS
<1>3. \A i \in 1..Len(s) + 1 : t[i] = Append(s, e)[i] /\ t[i] \in S
  BY <1>1, <1>2, ElementOfSeq
<1>4. t \in Seq(S) /\ Len(t) = Len(s) + 1
  BY <1>2, <1>3
<1> QED
  BY <1>1, <1>3, <1>4, SeqEqual

LEMMA CommitWrites ==
  ASSUME StoreInvariant, NEW r \in Requests, Commit(r)
  PROVE  Ledger!Write(r, dest[r], at[r], Written(r), EventType(r))
<1>0. log \in Seq(Requests) /\ dest' = dest /\ at' = at
  BY DEF StoreInvariant, TypeOK, Commit
<1>1. /\ Len(log') = Len(log) + 1 /\ log'[Len(log')] = r
      /\ \A i \in 1..Len(log) : log'[i] = log[i]
  BY <1>0, AppendedPost DEF Commit
<1>2. Messages' = Append(Messages, Entry(r))
  <2>1. Messages' = [i \in 1..Len(log) + 1 |-> Entry(log'[i])]
    BY <1>0, <1>1 DEF Messages, Entry
  <2>2. \A i \in 1..Len(log) : Messages[i] = Entry(log'[i])
    BY <1>1 DEF Messages, Entry
  <2>3. Entry(r) \in [id : Requests, conv : Conversations \cup {None}, at : Nat]
    BY DEF StoreInvariant, TypeOK, Entry
  <2>4. Len(Messages) = Len(log) /\ Len(log) \in Nat
    BY MessagesLength
  <2>5. /\ Messages' = [i \in 1..Len(Messages) + 1 |-> Messages'[i]]
        /\ Messages'[Len(Messages) + 1] = Entry(r)
        /\ \A i \in 1..Len(Messages) : Messages'[i] = Messages[i]
    BY <1>1, <2>1, <2>2, <2>4
  <2> QED
    BY <2>3, <2>5, MessagesLength, AppendedEntry
<1>3. Ledger!Answer(r, r)
  BY EndsOnce DEF StoreInvariant, Commit, Answer, Goto, Ended, Ledger!Answer
<1> QED
  BY <1>2, <1>3 DEF Commit, Ledger!Write, Messages, Entry

LEMMA CommitTakesEffect ==
  ASSUME StoreInvariant, OrderInvariant, RightsLast, NEW r \in Requests, Commit(r)
  PROVE  /\ dest[r] \in DOMAIN conv /\ at[r] \in 0..clock
         /\ \/ Ledger!Post(r, dest[r], at[r])
            \/ Ledger!Assign(r, dest[r], at[r])
            \/ Ledger!Close(r, dest[r], at[r])
<1>1. /\ dest[r] \in DOMAIN conv /\ at[r] \in 0..clock /\ pc[r] \in {"joined", "ready"}
      /\ HoldsKey(r) /\ conv[dest[r]] \in Conversation
      /\ task[r].kind \in {"send", "notify", "assign", "close"}
  BY CommitFacts, TaskFacts DEF StoreInvariant, TypeOK, Commit, Task, Kinds
<1>2. Ledger!Write(r, dest[r], at[r], Written(r), EventType(r)) /\ member' = Members(r)
  BY CommitWrites DEF Commit
<1>3. member' = IF task[r].kind = "assign" THEN member \cup {<<dest[r], task[r].who>>} ELSE member
  <2>1. /\ pc[r] = "joined" => task[r].kind = "assign"
        /\ pc[r] = "ready" /\ task[r].kind = "assign" => <<dest[r], task[r].who>> \in member
    BY DEF StoreInvariant, InPlace
  <2> QED
    BY <1>1, <1>2, <2>1 DEF Members
<1>4. CASE IsPost(r)
  <2>1. Written(r) = [conv[dest[r]] EXCEPT !.last = at[r]]
    BY <1>1, <1>4 DEF Written, IsPost, Conversation
  <2>2. EventType(r) = "chat.message_created" /\ member' = member
    BY <1>3, <1>4 DEF EventType, IsPost, Admin
  <2>3. Ledger!MayPost(r, dest[r])
    BY <1>1, <1>4 DEF RightsLast, Rightful, Ended
  <2>4. Ledger!Repeated(r, dest[r]) = {}
    <3>0. pc[r] # "done" /\ \A m \in Posted : MsgKey(m) # MsgKey(r)
      BY <1>1 DEF StoreInvariant, InPlace
    <3>1. \A m \in Posted : Entry(m) \notin Ledger!Repeated(r, dest[r])
      BY <3>0, SameKey
    <3>2. \A x \in Ledger!Repeated(r, dest[r]) : \E m \in Posted : x = Entry(m)
      BY StoredIsPosted DEF Ledger!Repeated
    <3> QED
      BY <3>1, <3>2
  <2>5. Ledger!Write(r, dest[r], at[r], [conv[dest[r]] EXCEPT !.last = at[r]],
                     "chat.message_created")
    BY <1>2, <2>1, <2>2 DEF Ledger!Write
  <2>6. Ledger!Post(r, dest[r], at[r])
    BY <2>2, <2>3, <2>4, <2>5 DEF Ledger!Post
  <2> QED
    BY <1>1, <2>6
<1>5. ASSUME task[r].kind \in Admin
      PROVE  /\ dest[r] = task[r].on /\ EventType(r) = "chat.conversation_updated"
             /\ Ledger!Newest(dest[r], at[r])
  <2>1. dest[r] = task[r].on /\ EventType(r) = "chat.conversation_updated"
    BY <1>1, <1>5 DEF RightsLast, Rightful, Ended, EventType, Admin
  <2>2. \A m \in Posted : dest[m] = dest[r] => at[m] < at[r]
    BY <1>1, <1>5 DEF OrderInvariant, LateUnderLock, ReadLate
  <2> QED
    BY <2>1, <2>2, StoredIsPosted DEF Ledger!Newest, Entry
<1>6. CASE task[r].kind = "assign"
  <2>1. Written(r) = [conv[dest[r]] EXCEPT !.last = at[r], !.assignee = task[r].who]
    BY <1>1, <1>6 DEF Written, Conversation
  <2>2. Ledger!Write(r, dest[r], at[r],
                     [conv[dest[r]] EXCEPT !.last = at[r], !.assignee = task[r].who],
                     "chat.conversation_updated")
    BY <1>2, <1>5, <1>6, <2>1 DEF Admin, Ledger!Write
  <2>3. Ledger!Assign(r, dest[r], at[r])
    BY <1>3, <1>5, <1>6, <2>2 DEF Ledger!Assign, Admin
  <2> QED
    BY <1>1, <2>3
<1>7. CASE task[r].kind = "close"
  <2>1. Written(r) = [conv[dest[r]] EXCEPT !.last = at[r], !.status = "closed"]
    BY <1>1, <1>7 DEF Written, Conversation
  <2>2. Ledger!Write(r, dest[r], at[r],
                     [conv[dest[r]] EXCEPT !.last = at[r], !.status = "closed"],
                     "chat.conversation_updated")
    BY <1>2, <1>5, <1>7, <2>1 DEF Admin, Ledger!Write
  <2>3. Ledger!Close(r, dest[r], at[r])
    BY <1>3, <1>5, <1>7, <2>2 DEF Ledger!Close, Admin
  <2> QED
    BY <1>1, <2>3
<1> QED
  BY <1>1, <1>4, <1>6, <1>7 DEF IsPost

-----------------------------------------------------------------------------
LEMMA LedgerInit == Init => Ledger!Init
<1> SUFFICES ASSUME Init
             PROVE  Ledger!Init
  OBVIOUS
<1>1. Messages = <<>>
  BY DEF Init, Messages
<1>2. Outcome = [r \in Requests |-> "pending"]
  BY DEF Init, Outcome, Ended
<1> QED
  BY <1>1, <1>2 DEF Init, Ledger!Init, Ledger!NewConversation, NewConversation, Messages, Outcome

LEMMA LedgerStep ==
  ASSUME StoreInvariant, StoreInvariant', OrderInvariant, RightsLast,
         NEW r \in Requests, Step(r) \/ Abort(r)
  PROVE  Ledger!Next \/ UNCHANGED Ledger!vars
<1>1. CASE Commit(r)
  BY <1>1, CommitTakesEffect DEF Ledger!Next
<1>2. CASE Create(r)
  BY <1>2, CreateOpens DEF Ledger!Next
<1>3. CASE Refetch(r)
  <2>1. \E c \in DOMAIN conv : Ledger!Repeat(r, c)
    BY <1>3, RefetchRepeats
  <2> QED
    BY <2>1 DEF Ledger!Next
<1>4. CASE Abort(r)
  BY <1>4, AbortBreaksOff DEF Ledger!Next
<1>5. CASE (Send(r) \/ Notify(r) \/ Load(r)) /\ Refuse(r)
  BY <1>5, RefusesRightly DEF Ledger!Next
<1>6. CASE Lookup(r) /\ Matching(r) # {}
  BY <1>6, LookupFinds DEF Ledger!Next
<1>7. CASE \/ (Send(r) \/ Notify(r) \/ Load(r)) /\ ~Refuse(r)
           \/ Insert(r) \/ Touch(r) \/ Lock(r) \/ CheckMember(r) \/ Join(r)
           \/ Lookup(r) /\ Matching(r) = {}
  <2>1. Ledger!Tick \/ UNCHANGED Ledger!vars
    BY <1>7, InnerSteps
  <2> QED
    BY <2>1 DEF Ledger!Next
<1> QED
  BY <1>1, <1>2, <1>3, <1>4, <1>5, <1>6, <1>7 DEF Step

LEMMA RightsInductive == Spec => []RightsLast
<1>1. Init => RightsLast
  BY DEF Init, RightsLast, Rightful
<1>2. StoreInvariant /\ RightsLast /\ [Next]_vars => RightsLast'
  <2> SUFFICES ASSUME StoreInvariant, RightsLast, [Next]_vars
               PROVE  RightsLast'
    OBVIOUS
  <2>1. CASE UNCHANGED vars
    BY <2>1 DEF vars, tables, RightsLast, Rightful, IsPost, Ledger!MayPost
  <2>2. CASE Next
    BY <2>2, RightsKept DEF Next
  <2> QED
    BY <2>1, <2>2
<1> QED
  BY <1>1, <1>2, StoreInductive, PTL DEF Spec

(* The services of any number of concurrent requests, with every            *)
(* interleaving of their statements and any of them aborted anywhere,       *)
(* behave as if each request took effect in one step.                      *)
THEOREM ImplementsLedger == Spec => LedgerSpec
<1>1. /\ StoreInvariant /\ StoreInvariant' /\ OrderInvariant /\ RightsLast /\ [Next]_vars
      => [Ledger!Next]_(Ledger!vars)
  <2> SUFFICES ASSUME StoreInvariant, StoreInvariant', OrderInvariant, RightsLast, [Next]_vars
               PROVE  Ledger!Next \/ UNCHANGED Ledger!vars
    OBVIOUS
  <2>1. CASE UNCHANGED vars
    BY <2>1 DEF vars, tables, Ledger!vars
  <2>2. CASE Next
    BY <2>2, LedgerStep DEF Next
  <2> QED
    BY <2>1, <2>2
<1> QED
  BY <1>1, LedgerInit, StoreInductive, OrderInductive, RightsInductive, PTL
     DEF Spec, LedgerSpec, Ledger!Spec
=============================================================================
