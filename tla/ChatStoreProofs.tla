-------------------------- MODULE ChatStoreProofs --------------------------
(***************************************************************************)
(* Proofs about ChatStore for any set of requests and of tasks.            *)
(* StoreInvariant is inductive: a step changes the place of one request,   *)
(* and what the other requests rely on is guarded by their locks.          *)
(***************************************************************************)
EXTENDS ChatStore, TLAPS

(* A step of r that writes no table. *)
Moves(r) ==
  /\ UNCHANGED <<conv, member, log, events, task>>
  /\ \A q \in Requests \ {r} : pc'[q] = pc[q] /\ dest'[q] = dest[q] /\ reply'[q] = reply[q]
  /\ pc[r] \notin Ended
  /\ pc[r] = "new" \/ dest'[r] = dest[r]

(* Such a step disturbs nobody else. *)
LEMMA MoveFrame ==
  ASSUME StoreInvariant, NEW r \in Requests, Moves(r)
  PROVE  /\ Posted' = Posted /\ Posted \subseteq Requests \ {r}
         /\ \A q \in Requests \ {r} : /\ MsgKey(q)' = MsgKey(q)
                                     /\ HoldsRow(q)' = HoldsRow(q)
                                     /\ HoldsKey(q)' = HoldsKey(q)
                                     /\ InPlace(q)'
         /\ dest'[r] = dest[r] => MsgKey(r)' = MsgKey(r)
         /\ ExactlyOnce'
<1> USE DEF StoreInvariant
<1>1. Posted' = Posted
  BY DEF Moves, Posted
<1>2. Posted \subseteq Requests \ {r}
  <2>1. Posted \subseteq Requests
    BY DEF Posted, TypeOK
  <2>2. r \notin Posted
    BY DEF Moves, InPlace, Ended
  <2> QED
    BY <2>1, <2>2
<1>3. \A q \in Requests \ {r} : MsgKey(q)' = MsgKey(q)
  BY DEF Moves, MsgKey
<1>4. \A q \in Requests \ {r} : HoldsRow(q)' = HoldsRow(q) /\ HoldsKey(q)' = HoldsKey(q)
  BY DEF Moves, HoldsRow, HoldsKey
<1>5. ASSUME NEW q \in Requests \ {r}
      PROVE  InPlace(q)'
  <2>1. InPlace(q)
    OBVIOUS
  <2>2. \A m \in Posted : MsgKey(m)' = MsgKey(m)
    BY <1>2, <1>3
  <2>3. MsgKey(q)' = MsgKey(q) /\ HoldsKey(q)' = HoldsKey(q) /\ IsPost(q)' = IsPost(q)
    BY <1>3, <1>4 DEF Moves, IsPost
  <2> QED
    BY <1>1, <2>1, <2>2, <2>3 DEF Moves, InPlace
<1>6. ExactlyOnce'
  <2>1. \A m \in Posted : MsgKey(m)' = MsgKey(m) /\ IsPost(m)' = IsPost(m)
    BY <1>2, <1>3 DEF Moves, IsPost
  <2> QED
    BY <1>1, <2>1 DEF ExactlyOnce, Moves
<1>7. dest'[r] = dest[r] => MsgKey(r)' = MsgKey(r)
  BY DEF Moves, MsgKey
<1> QED
  BY <1>1, <1>2, <1>3, <1>4, <1>5, <1>6, <1>7

(* A move that takes no lock, or one that it was free to take. *)
LEMMA MoveKeeps ==
  ASSUME StoreInvariant, TypeOK', NEW r \in Requests, Moves(r), InPlace(r)',
         HoldsRow(r)' => \A q \in Requests \ {r} : HoldsRow(q) => dest[q] # dest'[r],
         HoldsKey(r)' => \A q \in Requests \ {r} : HoldsKey(q) => MsgKey(q) # MsgKey(r)'
  PROVE  StoreInvariant'
<1>1. LocksExclusive'
  <2> SUFFICES ASSUME NEW p \in Requests, NEW q \in Requests, p # q
               PROVE  /\ HoldsRow(p)' /\ HoldsRow(q)' => dest'[p] # dest'[q]
                      /\ HoldsKey(p)' /\ HoldsKey(q)' => MsgKey(p)' # MsgKey(q)'
    BY DEF LocksExclusive
  <2>1. CASE p = r
    BY <2>1, MoveFrame DEF Moves
  <2>2. CASE q = r
    BY <2>2, MoveFrame DEF Moves
  <2>3. CASE p # r /\ q # r
    BY <2>3, MoveFrame DEF Moves, StoreInvariant, LocksExclusive
  <2> QED
    BY <2>1, <2>2, <2>3
<1> QED
  BY <1>1, MoveFrame DEF StoreInvariant

(* What r relies on after a move, in terms of the state before it. *)
LEMMA MoveInPlace ==
  ASSUME StoreInvariant, NEW r \in Requests, Moves(r),
         pc'[r] \notin {"done", "failed"},
         pc'[r] \in {"stamped", "inserted", "refetch"} => IsPost(r),
         pc'[r] = "loaded" => task[r].kind \in Admin,
         pc'[r] \in {"locked", "toJoin", "joined"} => task[r].kind = "assign",
         pc'[r] = "ready" => task[r].kind # "open",
         pc'[r] = "creating" => task[r].kind = "open",
         pc'[r] \notin Ended \cup {"new", "creating"} => dest'[r] \in DOMAIN conv,
         pc'[r] = "toJoin" => <<dest'[r], task[r].who>> \notin member,
         pc'[r] = "ready" /\ task[r].kind = "assign" => <<dest'[r], task[r].who>> \in member,
         pc'[r] \in {"inserted", "joined", "ready"} =>
           dest'[r] = dest[r] /\ \A m \in Posted : MsgKey(m) # MsgKey(r),
         pc'[r] = "refetch" =>
           dest'[r] = dest[r] /\ \E m \in Posted : MsgKey(m) = MsgKey(r)
  PROVE  InPlace(r)'
<1>1. Posted' = Posted /\ \A m \in Posted : MsgKey(m)' = MsgKey(m)
  BY MoveFrame
<1>2. dest'[r] = dest[r] => MsgKey(r)' = MsgKey(r)
  BY MoveFrame
<1>3. HoldsKey(r)' => \A m \in Posted' : MsgKey(m)' # MsgKey(r)'
  BY <1>1, <1>2 DEF HoldsKey
<1>4. pc'[r] = "refetch" => \E m \in Posted' : MsgKey(m)' = MsgKey(r)'
  BY <1>1, <1>2
<1>5. r \notin Posted' \cup DOMAIN conv'
  BY <1>1 DEF StoreInvariant, InPlace, Moves, Ended
<1>6. task' = task /\ conv' = conv /\ member' = member
  BY DEF Moves
<1>7. IsPost(r)' = IsPost(r)
  BY <1>6 DEF IsPost
<1> QED
  BY <1>3, <1>4, <1>5, <1>6, <1>7 DEF InPlace

LEMMA InitInvariant == Init => StoreInvariant
<1> SUFFICES ASSUME Init
             PROVE  StoreInvariant
  OBVIOUS
<1>1. Posted = {}
  BY DEF Init, Posted
<1>2. TypeOK
  <2>1. \A c \in Existing : c[1] \in Topics /\ c[2] \in Users /\ <<c, c[2]>> \in Conversations \X Principals
    BY StoreAssumption DEF Conversations, Principals
  <2>2. \A c \in Existing : NewConversation(c[1], 0) \in Conversation
    BY <2>1 DEF NewConversation, Conversation
  <2>3. conv \in [DOMAIN conv -> Conversation] /\ DOMAIN conv \subseteq Conversations
    BY <2>2 DEF Init, Conversations
  <2> QED
    BY <2>1, <2>3 DEF Init, TypeOK, Places
<1>3. LocksExclusive
  BY DEF Init, LocksExclusive, HoldsRow, HoldsKey
<1>4. \A r \in Requests : InPlace(r)
  BY <1>1, StoreAssumption DEF Init, InPlace, HoldsKey, Ended
<1>5. ExactlyOnce
  BY <1>1 DEF Init, ExactlyOnce
<1> QED
  BY <1>2, <1>3, <1>4, <1>5 DEF StoreInvariant

-----------------------------------------------------------------------------
LEMMA TimeTypes ==
  ASSUME TypeOK, NEW r \in Requests, Now(r) \/ UNCHANGED <<clock, at>>
  PROVE  clock' \in Nat /\ at' \in [Requests -> 0..clock']
<1>1. CASE Now(r)
  BY <1>1 DEF Now, TypeOK
<1>2. CASE UNCHANGED <<clock, at>>
  BY <1>2 DEF TypeOK
<1> QED
  BY <1>1, <1>2

(* One lemma per action: its place, its types and the lock it takes.        *)
LEMMA RefuseKeeps ==
  ASSUME StoreInvariant, NEW r \in Requests, Refuse(r), pc[r] = "new"
  PROVE  StoreInvariant'
<1> USE DEF StoreInvariant
<1>1. Moves(r) /\ pc'[r] = "refused"
  BY DEF Refuse, Goto, tables, Moves, TypeOK, Ended
<1>2. TypeOK'
  BY DEF Refuse, Goto, tables, TypeOK, Places, Ended
<1>3. InPlace(r)'
  BY <1>1, MoveInPlace DEF Ended
<1>4. ~HoldsRow(r)' /\ ~HoldsKey(r)'
  BY <1>1 DEF HoldsRow, HoldsKey
<1> QED
  BY <1>1, <1>2, <1>3, <1>4, MoveKeeps

LEMMA AuthorizeKeeps ==
  ASSUME StoreInvariant, NEW r \in Requests, NEW c \in DOMAIN conv, Authorize(r, c),
         pc[r] = "new", IsPost(r)
  PROVE  StoreInvariant'
<1> USE DEF StoreInvariant
<1>1. Moves(r) /\ pc'[r] = "stamped" /\ dest'[r] = c
  BY DEF Authorize, Goto, tables, Moves, TypeOK, Ended
<1>2. TypeOK'
  <2>1. at' \in [Requests -> 0..clock']
    BY DEF Authorize, Now, TypeOK
  <2>2. pc' \in [Requests -> Places] /\ dest' \in [Requests -> Conversations \cup {None}]
    BY DEF Authorize, Goto, TypeOK, Places
  <2> QED
    BY <2>1, <2>2 DEF Authorize, Now, tables, TypeOK
<1>3. InPlace(r)'
  BY <1>1, MoveInPlace
<1>4. ~HoldsRow(r)' /\ ~HoldsKey(r)'
  BY <1>1 DEF HoldsRow, HoldsKey
<1> QED
  BY <1>1, <1>2, <1>3, <1>4, MoveKeeps

LEMMA InsertKeeps ==
  ASSUME StoreInvariant, NEW r \in Requests, Insert(r)
  PROVE  StoreInvariant'
<1> USE DEF StoreInvariant
<1>1. /\ Moves(r) /\ dest' = dest /\ pc[r] = "stamped"
      /\ pc'[r] = IF \E m \in Posted : MsgKey(m) = MsgKey(r) THEN "refetch" ELSE "inserted"
  BY DEF Insert, Goto, tables, Moves, TypeOK, Ended
<1>2. TypeOK'
  BY DEF Insert, Goto, tables, TypeOK, Places
<1>3. MsgKey(r)' = MsgKey(r) /\ \A m \in Posted : MsgKey(m)' = MsgKey(m)
  BY <1>1, MoveFrame
<1>4. InPlace(r)'
  <2>1. IsPost(r) /\ dest[r] \in DOMAIN conv
    BY <1>1 DEF InPlace, Ended
  <2> QED
    BY <1>1, <2>1, MoveInPlace DEF IsPost
<1>5. ASSUME NEW q \in Requests \ {r}, HoldsKey(q)
      PROVE  MsgKey(q) # MsgKey(r)'
  <2>1. q \notin Blockers(r)
    BY DEF Insert
  <2> QED
    BY <1>1, <1>3, <1>5, <2>1 DEF Blockers, MsgKey
<1>6. ~HoldsRow(r)'
  BY <1>1 DEF HoldsRow
<1> QED
  BY <1>1, <1>2, <1>4, <1>5, <1>6, MoveKeeps

LEMMA RefetchKeeps ==
  ASSUME StoreInvariant, NEW r \in Requests, Refetch(r)
  PROVE  StoreInvariant'
<1> USE DEF StoreInvariant
<1>1. PICK m \in Posted : MsgKey(m) = MsgKey(r) /\ Answer(r, m)
  BY DEF Refetch, InPlace
<1>2. UNCHANGED <<tables, clock, task, dest, at>> /\ pc[r] = "refetch"
  BY DEF Refetch, InPlace
<1>3. Moves(r) /\ dest' = dest /\ pc'[r] = "done" /\ reply'[r] = m
  BY <1>1, <1>2 DEF Answer, Goto, tables, Moves, TypeOK, Ended
<1>4. TypeOK'
  <2>1. m \in Requests
    BY DEF Posted, TypeOK
  <2> QED
    BY <1>1, <1>2, <2>1 DEF Answer, Goto, tables, TypeOK, Places, Ended, Conversations
<1>5. MsgKey(r)' = MsgKey(r) /\ MsgKey(m)' = MsgKey(m)
  BY <1>3, MoveFrame
<1>6. InPlace(r)'
  <2>1. r \notin Posted' \/ pc'[r] = "done"
    BY <1>3
  <2>2. m \in Posted' /\ (MsgKey(reply[r]) = MsgKey(r))'
    BY <1>1, <1>3, <1>5, MoveFrame DEF MsgKey
  <2> QED
    BY <1>3, <2>1, <2>2 DEF InPlace, HoldsKey, Ended
<1>7. ~HoldsRow(r)' /\ ~HoldsKey(r)'
  BY <1>3 DEF HoldsRow, HoldsKey
<1> QED
  BY <1>3, <1>4, <1>6, <1>7, MoveKeeps

LEMMA TouchKeeps ==
  ASSUME StoreInvariant, NEW r \in Requests, Touch(r)
  PROVE  StoreInvariant'
<1> USE DEF StoreInvariant
<1>1. Moves(r) /\ dest' = dest /\ pc[r] = "inserted" /\ pc'[r] = "ready"
  BY DEF Touch, Goto, tables, Moves, TypeOK, Ended
<1>2. TypeOK'
  BY DEF Touch, Goto, tables, TypeOK, Places
<1>3. MsgKey(r)' = MsgKey(r) /\ \A m \in Posted : MsgKey(m)' = MsgKey(m)
  BY <1>1, MoveFrame
<1>4. InPlace(r)'
  <2>1. IsPost(r) /\ dest[r] \in DOMAIN conv
    BY <1>1 DEF InPlace, Ended
  <2>2. \A m \in Posted : MsgKey(m) # MsgKey(r)
    BY <1>1 DEF InPlace, HoldsKey
  <2> QED
    BY <1>1, <2>1, <2>2, MoveInPlace DEF IsPost
<1>5. ASSUME NEW q \in Requests \ {r}
      PROVE  /\ HoldsRow(q) => dest[q] # dest'[r]
             /\ HoldsKey(q) => MsgKey(q) # MsgKey(r)'
  <2>1. q \notin Blockers(r)
    BY DEF Touch
  <2>2. HoldsRow(q) => dest[q] # dest[r]
    BY <1>1, <2>1 DEF Blockers
  <2>3. HoldsKey(q) => MsgKey(q) # MsgKey(r)
    BY <1>1 DEF LocksExclusive, HoldsKey
  <2> QED
    BY <1>1, <1>3, <2>2, <2>3
<1> QED
  BY <1>1, <1>2, <1>4, <1>5, MoveKeeps

LEMMA LoadKeeps ==
  ASSUME StoreInvariant, NEW r \in Requests, Load(r)
  PROVE  StoreInvariant'
<1> USE DEF StoreInvariant
<1>1. CASE task[r].on \in DOMAIN conv
  <2>1. /\ dest' = [dest EXCEPT ![r] = task[r].on] /\ Goto(r, "loaded")
        /\ UNCHANGED <<tables, clock, task, at, reply>>
        /\ pc[r] = "new" /\ task[r].kind \in Admin
    BY <1>1 DEF Load
  <2>2. Moves(r) /\ pc'[r] = "loaded" /\ dest'[r] = task[r].on
    BY <2>1 DEF Goto, tables, Moves, TypeOK, Ended
  <2>3. TypeOK'
    BY <1>1, <2>1 DEF Goto, tables, TypeOK, Places
  <2>4. InPlace(r)'
    BY <1>1, <2>1, <2>2, MoveInPlace
  <2>5. ~HoldsRow(r)' /\ ~HoldsKey(r)'
    BY <2>2 DEF HoldsRow, HoldsKey
  <2> QED
    BY <2>2, <2>3, <2>4, <2>5, MoveKeeps
<1>2. CASE task[r].on \notin DOMAIN conv
  BY <1>2, RefuseKeeps DEF Load
<1> QED
  BY <1>1, <1>2

(* The key of a service's own message is nobody else's. *)
LEMMA FreshKey ==
  ASSUME StoreInvariant, NEW r \in Requests, task[r].key = Fresh,
         NEW q \in Requests, q # r
  PROVE  MsgKey(q) # MsgKey(r)
<1>1. task[q].key \in Keys \cup {Fresh}
  BY StoreAssumption DEF StoreInvariant, TypeOK, Task
<1> QED
  BY <1>1, StoreAssumption DEF MsgKey

LEMMA OwnKey ==
  ASSUME StoreInvariant, NEW r \in Requests, task[r].key = Fresh, pc[r] # "done"
  PROVE  \A m \in Posted : MsgKey(m) # MsgKey(r)
<1> SUFFICES ASSUME NEW m \in Posted
             PROVE  MsgKey(m) # MsgKey(r)
  OBVIOUS
<1>1. m \in Requests
  BY DEF StoreInvariant, TypeOK, Posted
<1>2. r \notin Posted
  BY DEF StoreInvariant, InPlace
<1> QED
  BY <1>1, <1>2, FreshKey

(* What the tasks may ask for. *)
LEMMA TaskFacts ==
  ASSUME StoreInvariant, NEW r \in Requests
  PROVE  /\ task[r] \in Task
         /\ task[r].kind # "send" => task[r].key = Fresh
         /\ task[r].kind = "open" => task[r].who \in Users /\ task[r].on \in Topics
         /\ task[r].kind = "assign" => task[r].who \in Admins
BY StoreAssumption DEF StoreInvariant, TypeOK

LEMMA LockKeeps ==
  ASSUME StoreInvariant, NEW r \in Requests, Lock(r)
  PROVE  StoreInvariant'
<1> USE DEF StoreInvariant
<1>1. /\ Moves(r) /\ dest' = dest /\ pc[r] = "loaded"
      /\ \/ task[r].kind = "assign" /\ pc'[r] = "locked"
         \/ task[r].kind = "close" /\ pc'[r] = "ready"
  BY DEF Lock, Goto, tables, Moves, TypeOK, Ended
<1>2. TypeOK'
  <2>1. pc' \in [Requests -> Places]
    BY DEF Lock, Goto, TypeOK, Places
  <2>2. clock' \in Nat /\ at' \in [Requests -> 0..clock']
    BY TimeTypes DEF Lock
  <2> QED
    BY <2>1, <2>2 DEF Lock, tables, TypeOK
<1>3. task[r].key = Fresh
  BY <1>1, TaskFacts
<1>4. MsgKey(r)' = MsgKey(r)
  BY <1>1, MoveFrame
<1>5. InPlace(r)'
  <2>1. dest[r] \in DOMAIN conv
    BY <1>1 DEF InPlace, Ended
  <2>2. \A m \in Posted : MsgKey(m) # MsgKey(r)
    BY <1>1, <1>3, OwnKey
  <2> QED
    BY <1>1, <2>1, <2>2, MoveInPlace
<1>6. ASSUME NEW q \in Requests \ {r}
      PROVE  /\ HoldsRow(q) => dest[q] # dest'[r]
             /\ HoldsKey(q) => MsgKey(q) # MsgKey(r)'
  <2>1. q \notin Blockers(r)
    BY DEF Lock
  <2>2. HoldsRow(q) => dest[q] # dest[r]
    BY <1>1, <2>1 DEF Blockers
  <2> QED
    BY <1>1, <1>3, <1>4, <2>2, FreshKey
<1> QED
  BY <1>1, <1>2, <1>5, <1>6, MoveKeeps

(* A step under the row lock that its request already holds. *)
LEMMA LockedMoveKeeps ==
  ASSUME StoreInvariant, TypeOK', NEW r \in Requests, Moves(r), dest'[r] = dest[r],
         pc[r] \in {"locked", "toJoin"}, pc'[r] \in {"toJoin", "joined", "ready"},
         pc'[r] = "toJoin" => <<dest[r], task[r].who>> \notin member,
         pc'[r] = "ready" => <<dest[r], task[r].who>> \in member
  PROVE  StoreInvariant'
<1> USE DEF StoreInvariant
<1>1. task[r].kind = "assign" /\ dest[r] \in DOMAIN conv
  BY DEF InPlace, Ended
<1>2. task[r].key = Fresh
  BY <1>1, TaskFacts
<1>3. MsgKey(r)' = MsgKey(r)
  BY MoveFrame
<1>4. InPlace(r)'
  <2>1. \A m \in Posted : MsgKey(m) # MsgKey(r)
    BY <1>2, OwnKey
  <2> QED
    BY <1>1, <2>1, MoveInPlace
<1>5. ASSUME NEW q \in Requests \ {r}
      PROVE  /\ HoldsRow(q) => dest[q] # dest'[r]
             /\ HoldsKey(q) => MsgKey(q) # MsgKey(r)'
  BY <1>2, <1>3, FreshKey DEF LocksExclusive, HoldsRow
<1> QED
  BY <1>4, <1>5, MoveKeeps

LEMMA CheckMemberKeeps ==
  ASSUME StoreInvariant, NEW r \in Requests, CheckMember(r)
  PROVE  StoreInvariant'
<1>1. /\ Moves(r) /\ dest' = dest /\ pc[r] = "locked" /\ pc'[r] \in {"ready", "toJoin"}
      /\ pc'[r] = "toJoin" => <<dest[r], task[r].who>> \notin member
      /\ pc'[r] = "ready" => <<dest[r], task[r].who>> \in member
  BY DEF CheckMember, Goto, tables, Moves, StoreInvariant, TypeOK, Ended
<1>2. TypeOK'
  <2>1. pc' \in [Requests -> Places]
    BY DEF CheckMember, Goto, StoreInvariant, TypeOK, Places
  <2>2. clock' \in Nat /\ at' \in [Requests -> 0..clock']
    BY TimeTypes DEF CheckMember, StoreInvariant
  <2> QED
    BY <2>1, <2>2 DEF CheckMember, tables, StoreInvariant, TypeOK
<1> QED
  BY <1>1, <1>2, LockedMoveKeeps

LEMMA JoinKeeps ==
  ASSUME StoreInvariant, NEW r \in Requests, Join(r)
  PROVE  StoreInvariant'
<1>1. pc[r] = "toJoin" /\ <<dest[r], task[r].who>> \notin member
  BY DEF Join, StoreInvariant, InPlace
<1>2. Goto(r, "joined") /\ Now(r) /\ UNCHANGED <<tables, task, dest, reply>>
  BY <1>1 DEF Join
<1>3. Moves(r) /\ dest' = dest /\ pc'[r] = "joined"
  BY <1>1, <1>2 DEF Goto, tables, Moves, StoreInvariant, TypeOK, Ended
<1>4. TypeOK'
  <2>1. pc' \in [Requests -> Places]
    BY <1>2 DEF Goto, StoreInvariant, TypeOK, Places
  <2>2. clock' \in Nat /\ at' \in [Requests -> 0..clock']
    BY <1>2, TimeTypes DEF StoreInvariant
  <2> QED
    BY <1>2, <2>1, <2>2 DEF tables, StoreInvariant, TypeOK
<1> QED
  BY <1>1, <1>3, <1>4, LockedMoveKeeps

LEMMA LookupKeeps ==
  ASSUME StoreInvariant, NEW r \in Requests, Lookup(r)
  PROVE  StoreInvariant'
<1> USE DEF StoreInvariant
<1>1. CASE /\ \E c \in Latest(Matching(r)) : Answer(r, c)
           /\ UNCHANGED <<tables, clock, task, dest, at>>
  <2>1. PICK c \in DOMAIN conv : Answer(r, c)
    BY <1>1 DEF Latest, Matching
  <2>2. Moves(r) /\ pc'[r] = "done" /\ ~IsPost(r)
    BY <1>1, <2>1 DEF Lookup, Answer, Goto, tables, Moves, TypeOK, Ended, IsPost
  <2>3. TypeOK'
    BY <1>1, <2>1 DEF Answer, Goto, tables, TypeOK, Places, Ended
  <2>4. InPlace(r)'
    <3>1. ~IsPost(r)'
      BY <2>2 DEF Moves, IsPost
    <3> QED
      BY <2>2, <3>1 DEF InPlace, HoldsKey, Ended
  <2>5. ~HoldsRow(r)' /\ ~HoldsKey(r)'
    BY <2>2 DEF HoldsRow, HoldsKey
  <2> QED
    BY <2>2, <2>3, <2>4, <2>5, MoveKeeps
<1>2. CASE Goto(r, "creating") /\ Now(r) /\ UNCHANGED <<tables, task, dest, reply>>
  <2>1. Moves(r) /\ pc'[r] = "creating" /\ task[r].kind = "open"
    BY <1>2 DEF Lookup, Goto, tables, Moves, TypeOK, Ended
  <2>2. TypeOK'
    <3>1. pc' \in [Requests -> Places]
      BY <1>2 DEF Goto, TypeOK, Places
    <3>2. clock' \in Nat /\ at' \in [Requests -> 0..clock']
      BY <1>2, TimeTypes
    <3> QED
      BY <1>2, <3>1, <3>2 DEF tables, TypeOK
  <2>3. InPlace(r)'
    BY <2>1, MoveInPlace
  <2>4. ~HoldsRow(r)' /\ ~HoldsKey(r)'
    BY <2>1 DEF HoldsRow, HoldsKey
  <2> QED
    BY <2>1, <2>2, <2>3, <2>4, MoveKeeps
<1> QED
  BY <1>1, <1>2 DEF Lookup

LEMMA AbortKeeps ==
  ASSUME StoreInvariant, NEW r \in Requests, Abort(r)
  PROVE  StoreInvariant'
<1> USE DEF StoreInvariant
<1>1. Moves(r) /\ pc'[r] = "aborted"
  BY DEF Abort, Goto, tables, Moves, TypeOK, Ended
<1>2. TypeOK'
  BY DEF Abort, Goto, tables, TypeOK, Places, Ended
<1>3. InPlace(r)'
  BY <1>1, MoveInPlace DEF Ended
<1>4. ~HoldsRow(r)' /\ ~HoldsKey(r)'
  BY <1>1 DEF HoldsRow, HoldsKey
<1> QED
  BY <1>1, <1>2, <1>3, <1>4, MoveKeeps

-----------------------------------------------------------------------------
(* The two steps that write: nobody else relies on what they change.        *)
LEMMA AppendedPost ==
  ASSUME NEW r \in Requests, log \in Seq(Requests), log' = Append(log, r)
  PROVE  /\ log' \in Seq(Requests) /\ Posted' = Posted \cup {r}
         /\ Len(log') = Len(log) + 1 /\ log'[Len(log')] = r
         /\ \A i \in 1..Len(log) : log'[i] = log[i]
<1>1. /\ log' \in Seq(Requests) /\ Len(log') = Len(log) + 1 /\ log'[Len(log')] = r
      /\ \A i \in 1..Len(log) : log'[i] = log[i]
  OBVIOUS
<1>2. Len(log) \in Nat /\ 1..Len(log') = 1..Len(log) \cup {Len(log')}
  BY <1>1
<1> QED
  BY <1>1, <1>2 DEF Posted

LEMMA CommitFacts ==
  ASSUME StoreInvariant, NEW r \in Requests, Commit(r)
  PROVE  /\ HoldsRow(r) /\ HoldsKey(r) /\ task[r].kind # "open" /\ r \notin Posted
         /\ dest[r] \in DOMAIN conv /\ DOMAIN conv' = DOMAIN conv
         /\ Posted' = Posted \cup {r}
         /\ \A q \in Requests : MsgKey(q)' = MsgKey(q) /\ IsPost(q)' = IsPost(q)
         /\ pc' = [pc EXCEPT ![r] = "done"] /\ reply' = [reply EXCEPT ![r] = r]
<1> USE DEF StoreInvariant
<1>1. HoldsRow(r) /\ HoldsKey(r) /\ task[r].kind # "open" /\ r \notin Posted
  BY DEF Commit, HoldsRow, HoldsKey, InPlace
<1>2. dest[r] \in DOMAIN conv /\ DOMAIN conv' = DOMAIN conv
  BY DEF Commit, InPlace, Ended
<1>3. Posted' = Posted \cup {r}
  BY AppendedPost DEF Commit, TypeOK
<1>4. \A q \in Requests : MsgKey(q)' = MsgKey(q) /\ IsPost(q)' = IsPost(q)
  BY DEF Commit, MsgKey, IsPost
<1>5. pc' = [pc EXCEPT ![r] = "done"] /\ reply' = [reply EXCEPT ![r] = r]
  BY DEF Commit, Answer, Goto
<1> QED
  BY <1>1, <1>2, <1>3, <1>4, <1>5

LEMMA CommitTypes ==
  ASSUME StoreInvariant, NEW r \in Requests, Commit(r)
  PROVE  TypeOK'
<1> USE DEF StoreInvariant
<1>0. /\ HoldsRow(r) /\ HoldsKey(r) /\ task[r].kind # "open" /\ r \notin Posted
      /\ dest[r] \in DOMAIN conv /\ DOMAIN conv' = DOMAIN conv
      /\ Posted' = Posted \cup {r}
      /\ \A q \in Requests : MsgKey(q)' = MsgKey(q) /\ IsPost(q)' = IsPost(q)
      /\ pc' = [pc EXCEPT ![r] = "done"] /\ reply' = [reply EXCEPT ![r] = r]
  BY CommitFacts
<1>1. conv' \in [DOMAIN conv' -> Conversation] /\ DOMAIN conv' \subseteq Conversations
  <2>1. dest[r] \in DOMAIN conv /\ conv[dest[r]] \in Conversation
    BY <1>0 DEF TypeOK
  <2>2. at[r] \in Nat /\ (task[r].kind = "assign" => task[r].who \in Admins)
    BY TaskFacts DEF TypeOK
  <2>3. Written(r) \in Conversation
    BY <2>1, <2>2 DEF Written, Conversation
  <2> QED
    BY <2>1, <2>3, <1>0 DEF Commit, TypeOK
<1>2. member' \subseteq Conversations \X Principals
  <2>1. dest[r] \in Conversations /\ member \subseteq Conversations \X Principals
    BY <1>0 DEF TypeOK
  <2>2. task[r].who \in Principals
    BY TaskFacts DEF Task
  <2> QED
    BY <2>1, <2>2 DEF Commit, Members
<1>3. log' \in Seq(Requests)
  BY DEF Commit, TypeOK
<1>4. events' \subseteq {"chat.message_created", "chat.conversation_updated",
                       "chat.conversation_created"} \X Requests
  <2>1. EventType(r) \in {"chat.message_created", "chat.conversation_updated"}
    BY <1>0, TaskFacts DEF EventType, Task, Kinds, Admin
  <2> QED
    BY <2>1 DEF Commit, TypeOK
<1>5. pc' \in [Requests -> Places] /\ reply' \in [Requests -> Conversations \cup {None}]
  BY <1>0 DEF TypeOK, Places, Ended, Conversations
<1> QED
  BY <1>1, <1>2, <1>3, <1>4, <1>5 DEF Commit, TypeOK

LEMMA CommitKeeps ==
  ASSUME StoreInvariant, NEW r \in Requests, Commit(r)
  PROVE  StoreInvariant'
<1> USE DEF StoreInvariant
<1>0. /\ HoldsRow(r) /\ HoldsKey(r) /\ task[r].kind # "open" /\ r \notin Posted
      /\ dest[r] \in DOMAIN conv /\ DOMAIN conv' = DOMAIN conv
      /\ Posted' = Posted \cup {r}
      /\ \A q \in Requests : MsgKey(q)' = MsgKey(q) /\ IsPost(q)' = IsPost(q)
      /\ pc' = [pc EXCEPT ![r] = "done"] /\ reply' = [reply EXCEPT ![r] = r]
  BY CommitFacts
<1>1. TypeOK'
  BY CommitTypes
<1>2. /\ dest' = dest /\ task' = task /\ pc'[r] = "done" /\ reply'[r] = r
      /\ \A q \in Requests \ {r} : pc'[q] = pc[q] /\ reply'[q] = reply[q]
  BY <1>0 DEF Commit, TypeOK
<1>3. ~HoldsRow(r)' /\ ~HoldsKey(r)'
  BY <1>2 DEF HoldsRow, HoldsKey
<1>4. \A q \in Requests \ {r} : HoldsRow(q)' = HoldsRow(q) /\ HoldsKey(q)' = HoldsKey(q)
  BY <1>2 DEF HoldsRow, HoldsKey
<1>5. LocksExclusive'
  BY <1>2, <1>3, <1>4, <1>0 DEF LocksExclusive
<1>6. ASSUME NEW q \in Requests \ {r}
      PROVE  InPlace(q)'
  <2>1. pc[q] = "toJoin" => <<dest[q], task[q].who>> \notin member'
    <3> SUFFICES ASSUME pc[q] = "toJoin"
                 PROVE  <<dest[q], task[q].who>> \notin member'
      OBVIOUS
    <3>1. dest[q] # dest[r]
      BY <1>0 DEF LocksExclusive, HoldsRow
    <3>2. <<dest[q], task[q].who>> \notin member
      BY DEF InPlace
    <3> QED
      BY <3>1, <3>2 DEF Commit, Members
  <2>2. HoldsKey(q) => \A m \in Posted' : MsgKey(m)' # MsgKey(q)'
    <3> SUFFICES ASSUME HoldsKey(q), NEW m \in Posted'
                 PROVE  MsgKey(m)' # MsgKey(q)'
      OBVIOUS
    <3>1. CASE m = r
      <4>1. MsgKey(r) # MsgKey(q)
        BY <1>0 DEF LocksExclusive
      <4> HIDE DEF StoreInvariant
      <4> QED
        BY <3>1, <4>1, <1>0
    <3>2. CASE m \in Posted
      <4>0. InPlace(q)
        OBVIOUS
      <4>1. m \in Requests
        BY <3>2 DEF Posted, TypeOK
      <4> HIDE DEF StoreInvariant
      <4>2. MsgKey(m) # MsgKey(q)
        BY <3>2, <4>0 DEF InPlace
      <4> QED
        BY <4>1, <4>2, <1>0
    <3> HIDE DEF StoreInvariant
    <3> QED
      BY <3>1, <3>2, <1>0
  <2>3. pc[q] = "refetch" => \E m \in Posted' : MsgKey(m)' = MsgKey(q)'
    <3> SUFFICES ASSUME pc[q] = "refetch"
                 PROVE  \E m \in Posted' : MsgKey(m)' = MsgKey(q)'
      OBVIOUS
    <3>1. PICK m \in Posted : MsgKey(m) = MsgKey(q)
      BY DEF InPlace
    <3>2. m \in Requests
      BY DEF Posted, TypeOK
    <3> QED
      BY <3>1, <3>2, <1>0
  <2>4. pc[q] = "done" /\ IsPost(q) => (reply[q] \in Posted /\ MsgKey(reply[q]) = MsgKey(q))'
    <3> SUFFICES ASSUME pc[q] = "done", IsPost(q)
                 PROVE  (reply[q] \in Posted /\ MsgKey(reply[q]) = MsgKey(q))'
      OBVIOUS
    <3>1. PICK m \in Posted : m = reply[q] /\ MsgKey(m) = MsgKey(q)
      BY DEF InPlace
    <3>2. m \in Requests
      BY DEF Posted, TypeOK
    <3>3. m \in Posted' /\ MsgKey(m)' = MsgKey(q)' /\ reply'[q] = m
      BY <1>2, <3>1, <3>2, <1>0
    <3> QED
      BY <3>3
  <2>5. q \in Posted' \cup DOMAIN conv' => pc[q] = "done"
    <3>1. q \in Posted \cup DOMAIN conv => pc[q] = "done"
      BY DEF InPlace
    <3> QED
      BY <1>0, <3>1
  <2>6. pc'[q] = pc[q] /\ HoldsKey(q)' = HoldsKey(q) /\ IsPost(q)' = IsPost(q)
    BY <1>2, <1>4, <1>0
  <2>7. pc[q] = "ready" /\ task[q].kind = "assign" => <<dest[q], task[q].who>> \in member'
    BY DEF InPlace, Commit, Members
  <2> QED
    BY <1>2, <2>1, <2>2, <2>3, <2>4, <2>5, <2>6, <2>7, <1>0 DEF InPlace
<1>7. InPlace(r)'
  <2>1. (r \in Posted /\ MsgKey(reply[r]) = MsgKey(r))'
    BY <1>2, <1>0
  <2> QED
    BY <1>2, <1>3, <2>1 DEF InPlace, Ended
<1>8. ExactlyOnce'
  <2>1. Posted \subseteq Requests /\ \A m \in Posted : MsgKey(m) # MsgKey(r)
    <3>1. Posted \subseteq Requests
      BY DEF Posted, TypeOK
    <3>2. \A m \in Posted : MsgKey(m) # MsgKey(r)
      BY <1>0 DEF InPlace
    <3> QED
      BY <3>1, <3>2
  <2>2. ASSUME NEW m \in Posted', NEW n \in Posted', MsgKey(m)' = MsgKey(n)'
        PROVE  m = n
    BY <2>1, <2>2, <1>0 DEF ExactlyOnce
  <2>3. ASSUME NEW i \in 1..Len(log'), NEW j \in 1..Len(log'), log'[i] = log'[j]
        PROVE  i = j
    <3>1. Len(log) \in Nat /\ Len(log') = Len(log) + 1 /\ log'[Len(log')] = r
      BY AppendedPost DEF Commit, TypeOK
    <3>2. \A k \in 1..Len(log) : log'[k] = log[k]
      BY AppendedPost DEF Commit, TypeOK
    <3>3. \A k \in 1..Len(log) : log[k] # r
      BY <1>0 DEF Posted
    <3> QED
      BY <2>3, <3>1, <3>2, <3>3 DEF ExactlyOnce
  <2>4. EventType(r) = "chat.message_created" <=> IsPost(r)
    BY <1>0, TaskFacts DEF EventType, Task, Kinds, Admin, IsPost
  <2>5. {q \in Requests : <<"chat.message_created", q>> \in events'}
          = {m \in Posted' : IsPost(m)'}
    <3>1. \A q \in Requests : <<"chat.message_created", q>> \in events' <=>
            \/ <<"chat.message_created", q>> \in events
            \/ q = r /\ IsPost(r)
      BY <2>4 DEF Commit
    <3> QED
      BY <2>1, <3>1, <1>0 DEF ExactlyOnce
  <2> QED
    BY <2>2, <2>3, <2>5 DEF ExactlyOnce
<1> QED
  BY <1>1, <1>5, <1>6, <1>7, <1>8

LEMMA CreateFacts ==
  ASSUME StoreInvariant, NEW r \in Requests, Create(r)
  PROVE  /\ pc[r] = "creating" /\ task[r].kind = "open" /\ r \notin DOMAIN conv
         /\ DOMAIN conv' = DOMAIN conv \cup {r} /\ Posted' = Posted /\ Posted \subseteq Requests
         /\ \A q \in Requests : MsgKey(q)' = MsgKey(q) /\ IsPost(q)' = IsPost(q)
         /\ pc' = [pc EXCEPT ![r] = "done"] /\ reply' = [reply EXCEPT ![r] = r]
<1> USE DEF StoreInvariant
<1>1. pc[r] = "creating" /\ task[r].kind = "open" /\ r \notin DOMAIN conv
  BY DEF Create, InPlace
<1>2. DOMAIN conv' = DOMAIN conv \cup {r} /\ Posted' = Posted
  BY DEF Create, Posted
<1>3. Posted \subseteq Requests
  BY DEF Posted, TypeOK
<1>4. \A q \in Requests : MsgKey(q)' = MsgKey(q) /\ IsPost(q)' = IsPost(q)
  BY DEF Create, MsgKey, IsPost
<1>5. pc' = [pc EXCEPT ![r] = "done"] /\ reply' = [reply EXCEPT ![r] = r]
  BY DEF Create, Answer, Goto
<1> QED
  BY <1>1, <1>2, <1>3, <1>4, <1>5

LEMMA CreateTypes ==
  ASSUME StoreInvariant, NEW r \in Requests, Create(r)
  PROVE  TypeOK'
<1> USE DEF StoreInvariant
<1>0. /\ pc[r] = "creating" /\ task[r].kind = "open" /\ r \notin DOMAIN conv
      /\ DOMAIN conv' = DOMAIN conv \cup {r} /\ Posted' = Posted /\ Posted \subseteq Requests
      /\ \A q \in Requests : MsgKey(q)' = MsgKey(q) /\ IsPost(q)' = IsPost(q)
      /\ pc' = [pc EXCEPT ![r] = "done"] /\ reply' = [reply EXCEPT ![r] = r]
  BY CreateFacts
<1>1. conv' \in [DOMAIN conv' -> Conversation] /\ DOMAIN conv' \subseteq Conversations
  <2>1. at[r] \in Nat /\ task[r].on \in Topics
    BY <1>0, TaskFacts DEF TypeOK
  <2>2. NewConversation(task[r].on, at[r]) \in Conversation
    BY <2>1 DEF NewConversation, Conversation
  <2>3. \A c \in DOMAIN conv : conv[c] \in Conversation
    BY DEF TypeOK
  <2> QED
    BY <2>2, <2>3, <1>0 DEF Create, TypeOK, Conversations
<1>2. member' \subseteq Conversations \X Principals
  <2>1. task[r].who \in Principals
    BY TaskFacts DEF Task
  <2> QED
    BY <2>1 DEF Create, TypeOK, Conversations
<1>3. events' \subseteq {"chat.message_created", "chat.conversation_updated",
                       "chat.conversation_created"} \X Requests
  <2>1. EventType(r) = "chat.conversation_created"
    BY <1>0 DEF EventType, Admin
  <2> QED
    BY <2>1 DEF Create, TypeOK
<1>4. pc' \in [Requests -> Places] /\ reply' \in [Requests -> Conversations \cup {None}]
  BY <1>0 DEF TypeOK, Places, Ended, Conversations
<1> QED
  BY <1>1, <1>2, <1>3, <1>4 DEF Create, TypeOK

LEMMA CreateKeeps ==
  ASSUME StoreInvariant, NEW r \in Requests, Create(r)
  PROVE  StoreInvariant'
<1> USE DEF StoreInvariant
<1>0. /\ pc[r] = "creating" /\ task[r].kind = "open" /\ r \notin DOMAIN conv
      /\ DOMAIN conv' = DOMAIN conv \cup {r} /\ Posted' = Posted /\ Posted \subseteq Requests
      /\ \A q \in Requests : MsgKey(q)' = MsgKey(q) /\ IsPost(q)' = IsPost(q)
      /\ pc' = [pc EXCEPT ![r] = "done"] /\ reply' = [reply EXCEPT ![r] = r]
  BY CreateFacts
<1>1. TypeOK'
  BY CreateTypes
<1>2. /\ dest' = dest /\ task' = task /\ pc'[r] = "done" /\ reply'[r] = r
      /\ \A q \in Requests \ {r} : pc'[q] = pc[q] /\ reply'[q] = reply[q]
  BY <1>0 DEF Create, TypeOK
<1>3. ~HoldsRow(r)' /\ ~HoldsKey(r)'
  BY <1>2 DEF HoldsRow, HoldsKey
<1>4. \A q \in Requests \ {r} : HoldsRow(q)' = HoldsRow(q) /\ HoldsKey(q)' = HoldsKey(q)
  BY <1>2 DEF HoldsRow, HoldsKey
<1>5. LocksExclusive'
  BY <1>2, <1>3, <1>4, <1>0 DEF LocksExclusive
<1>6. \A m \in Posted : MsgKey(m)' = MsgKey(m) /\ IsPost(m)' = IsPost(m)
  BY <1>0
<1>7. ASSUME NEW q \in Requests \ {r}
      PROVE  InPlace(q)'
  <2>1. pc[q] = "toJoin" => <<dest[q], task[q].who>> \notin member'
    <3> SUFFICES ASSUME pc[q] = "toJoin"
                 PROVE  <<dest[q], task[q].who>> \notin member'
      OBVIOUS
    <3>1. dest[q] \in DOMAIN conv /\ <<dest[q], task[q].who>> \notin member
      BY DEF InPlace, Ended
    <3> QED
      BY <3>1, <1>0 DEF Create
  <2>2. pc[q] = "done" /\ IsPost(q) => (reply[q] \in Posted /\ MsgKey(reply[q]) = MsgKey(q))'
    <3> SUFFICES ASSUME pc[q] = "done", IsPost(q)
                 PROVE  (reply[q] \in Posted /\ MsgKey(reply[q]) = MsgKey(q))'
      OBVIOUS
    <3>1. PICK m \in Posted : m = reply[q] /\ MsgKey(m) = MsgKey(q)
      BY DEF InPlace
    <3>2. m \in Posted' /\ MsgKey(m)' = MsgKey(q)' /\ reply'[q] = m
      BY <1>2, <1>6, <3>1, <1>0
    <3> QED
      BY <3>2
  <2>3. HoldsKey(q)' => \A m \in Posted' : MsgKey(m)' # MsgKey(q)'
    <3>1. HoldsKey(q) => \A m \in Posted : MsgKey(m) # MsgKey(q)
      BY DEF InPlace
    <3> QED
      BY <1>0, <1>4, <1>6, <3>1
  <2>4. pc[q] = "refetch" => \E m \in Posted' : MsgKey(m)' = MsgKey(q)'
    <3>1. pc[q] = "refetch" => \E m \in Posted : MsgKey(m) = MsgKey(q)
      BY DEF InPlace
    <3> QED
      BY <1>0, <1>6, <3>1
  <2>5. q \in Posted' \cup DOMAIN conv' => pc[q] = "done"
    <3>1. q \in Posted \cup DOMAIN conv => pc[q] = "done"
      BY DEF InPlace
    <3> QED
      BY <1>0, <3>1
  <2>6. pc'[q] = pc[q] /\ IsPost(q)' = IsPost(q)
    BY <1>2, <1>0
  <2>7. pc[q] = "ready" /\ task[q].kind = "assign" => <<dest[q], task[q].who>> \in member'
    BY DEF InPlace, Create
  <2> QED
    BY <1>2, <2>1, <2>2, <2>3, <2>4, <2>5, <2>6, <2>7, <1>0 DEF InPlace
<1>8. InPlace(r)'
  <2>1. ~IsPost(r)'
    BY <1>2, <1>0 DEF IsPost
  <2> QED
    BY <1>2, <1>3, <2>1 DEF InPlace, Ended
<1>9. ExactlyOnce'
  <2>1. {q \in Requests : <<"chat.message_created", q>> \in events'}
          = {q \in Requests : <<"chat.message_created", q>> \in events}
    BY <1>0 DEF Create, EventType, Admin
  <2>2. {m \in Posted' : IsPost(m)'} = {m \in Posted : IsPost(m)}
    BY <1>6, <1>0
  <2>3. log' = log
    BY DEF Create
  <2> QED
    BY <1>6, <2>1, <2>2, <2>3, <1>0 DEF ExactlyOnce
<1> QED
  BY <1>1, <1>5, <1>7, <1>8, <1>9

LEMMA NextKeeps == StoreInvariant /\ [Next]_vars => StoreInvariant'
<1> SUFFICES ASSUME StoreInvariant, [Next]_vars
             PROVE  StoreInvariant'
  OBVIOUS
<1>1. CASE UNCHANGED vars
  <2>1. TypeOK'
    BY <1>1 DEF vars, tables, StoreInvariant, TypeOK
  <2>2. LocksExclusive'
    BY <1>1 DEF vars, tables, StoreInvariant, LocksExclusive, HoldsRow, HoldsKey, MsgKey
  <2>3. \A r \in Requests : InPlace(r)'
    BY <1>1 DEF vars, tables, StoreInvariant, InPlace, HoldsKey, MsgKey, Posted, IsPost
  <2>4. ExactlyOnce'
    BY <1>1 DEF vars, tables, StoreInvariant, ExactlyOnce, MsgKey, Posted, IsPost
  <2> QED
    BY <2>1, <2>2, <2>3, <2>4 DEF StoreInvariant
<1>2. CASE Next
  <2>1. PICK r \in Requests : Step(r) \/ Abort(r)
    BY <1>2 DEF Next
  <2>2. CASE Send(r)
    <3>1. CASE task[r].on \in DOMAIN conv /\ Allowed(r) /\ Authorize(r, task[r].on)
      BY <2>2, <3>1, AuthorizeKeeps DEF Send, IsPost
    <3>2. CASE Refuse(r)
      BY <2>2, <3>2, RefuseKeeps DEF Send
    <3> QED
      BY <2>2, <3>1, <3>2 DEF Send
  <2>3. CASE Notify(r)
    <3>1. CASE \E c \in Latest(OfTopic(r)) : Authorize(r, c)
      <4>1. PICK c \in DOMAIN conv : Authorize(r, c)
        BY <3>1 DEF Latest, OfTopic
      <4> QED
        BY <2>3, <4>1, AuthorizeKeeps DEF Notify, IsPost
    <3>2. CASE Refuse(r)
      BY <2>3, <3>2, RefuseKeeps DEF Notify
    <3> QED
      BY <2>3, <3>1, <3>2 DEF Notify
  <2> QED
    BY <2>1, <2>2, <2>3, InsertKeeps, RefetchKeeps, TouchKeeps, LoadKeeps, LockKeeps,
       CheckMemberKeeps, JoinKeeps, CommitKeeps, LookupKeeps, CreateKeeps, AbortKeeps
       DEF Step
<1> QED
  BY <1>1, <1>2

-----------------------------------------------------------------------------
(* The invariant of the services holds of every run: the locks of the       *)
(* transactions are exclusive and protect what each place relies on.       *)
THEOREM StoreInductive == Spec => []StoreInvariant
BY InitInvariant, NextKeeps, PTL DEF Spec

(* No interleaving takes a variable out of its type. *)
THEOREM StoreTyping == Spec => []TypeOK
<1>1. StoreInvariant => TypeOK
  BY DEF StoreInvariant
<1> QED
  BY <1>1, StoreInductive, PTL

(* send_message is idempotent: one message to a key and one event to a      *)
(* message, for any number of racing retries.                              *)
THEOREM SendOnce == Spec => []ExactlyOnce
<1>1. StoreInvariant => ExactlyOnce
  BY DEF StoreInvariant
<1> QED
  BY <1>1, StoreInductive, PTL

(* All answers to one client_msg_id name the same committed message. *)
THEOREM SameAnswer == Spec => []AnswersAgree
<1>1. StoreInvariant => AnswersAgree
  <2> SUFFICES ASSUME StoreInvariant, NEW q \in Requests, NEW r \in Requests,
                      pc[q] = "done", pc[r] = "done", IsPost(q), IsPost(r),
                      MsgKey(q) = MsgKey(r)
               PROVE  reply[q] = reply[r] /\ reply[q] \in Posted
    BY DEF AnswersAgree
  <2>1. /\ reply[q] \in Posted /\ MsgKey(reply[q]) = MsgKey(q)
        /\ reply[r] \in Posted /\ MsgKey(reply[r]) = MsgKey(r)
    BY DEF StoreInvariant, InPlace
  <2> QED
    BY <2>1 DEF StoreInvariant, ExactlyOnce
<1> QED
  BY <1>1, StoreInductive, PTL

(* No request fails on a constraint or an assertion. *)
THEOREM NoneFails == Spec => []NeverFails
<1>1. StoreInvariant => NeverFails
  BY DEF StoreInvariant, InPlace, NeverFails
<1> QED
  BY <1>1, StoreInductive, PTL

(* No set of transactions waits for itself, however many there are: only    *)
(* holders of a row lock or of a key block others, the first wait for      *)
(* nobody and the others only for the first.                               *)
THEOREM WaitsEnd == Spec => []NoWaitCycle
<1>1. StoreInvariant => NoWaitCycle
  <2> SUFFICES ASSUME StoreInvariant, NEW S \in SUBSET Requests, S # {}
               PROVE  \E r \in S : Blockers(r) \cap S = {}
    BY DEF NoWaitCycle
  <2>1. CASE \E r \in S : pc[r] \notin {"stamped", "inserted", "loaded"}
    <3>1. PICK r \in S : pc[r] \notin {"stamped", "inserted", "loaded"}
      BY <2>1
    <3>2. \A q \in Requests \ {r} :
            pc[r] = "toJoin" /\ pc[q] = "joined" => dest[q] # dest[r]
      BY DEF StoreInvariant, LocksExclusive, HoldsRow
    <3> QED
      BY <3>1, <3>2 DEF Blockers
  <2>2. CASE /\ \A r \in S : pc[r] \in {"stamped", "inserted", "loaded"}
             /\ \E r \in S : pc[r] \in {"inserted", "loaded"}
    BY <2>2 DEF Blockers, HoldsRow
  <2>3. CASE \A r \in S : pc[r] = "stamped"
    BY <2>3 DEF Blockers, HoldsKey
  <2> QED
    BY <2>1, <2>2, <2>3
<1> QED
  BY <1>1, StoreInductive, PTL

(* A transaction waits for the holder of a message key, which may wait for  *)
(* the holder of a row, which waits for nobody: a lock is passed on after  *)
(* two commits at most, however many transactions there are.               *)
WaitsAreShort ==
  \A r \in Requests : \A q \in Blockers(r) : \A p \in Blockers(q) : Blockers(p) = {}

LEMMA RowHoldersRun ==
  ASSUME StoreInvariant, NEW r \in Requests, HoldsRow(r)
  PROVE  Blockers(r) = {}
BY DEF HoldsRow, Blockers, StoreInvariant, LocksExclusive

(* The waits of statements are never longer than two in a row. *)
THEOREM WaitsStayShort == Spec => []WaitsAreShort
<1>1. StoreInvariant => WaitsAreShort
  <2> SUFFICES ASSUME StoreInvariant, NEW r \in Requests, NEW q \in Blockers(r),
                      NEW p \in Blockers(q)
               PROVE  Blockers(p) = {}
    BY DEF WaitsAreShort
  <2>1. p \in Requests /\ q \in Requests /\ (HoldsKey(q) \/ HoldsRow(q))
    BY DEF Blockers, HoldsRow
  <2>2. ~HoldsRow(q)
    BY <2>1, RowHoldersRun
  <2>3. pc[q] = "inserted"
    BY <2>1, <2>2 DEF HoldsKey, HoldsRow
  <2>4. HoldsRow(p)
    BY <2>3 DEF Blockers
  <2> QED
    BY <2>1, <2>4, RowHoldersRun
<1> QED
  BY <1>1, StoreInductive, PTL

(* How far a request has come, counted in statements. *)
Progress(place) ==
  CASE place = "new" -> 0
    [] place \in {"stamped", "loaded", "creating"} -> 1
    [] place \in {"inserted", "refetch", "locked"} -> 2
    [] place = "toJoin" -> 3
    [] place \in {"joined", "ready"} -> 4
    [] place \in Ended -> 5

StatementsAdvance ==
  \A r \in Requests : pc'[r] = pc[r] \/ Progress(pc'[r]) > Progress(pc[r])

(* A request executes five statements at most: none is repeated and none of *)
(* another request sets it back.                                           *)
THEOREM RequestsAdvance == Spec => [][StatementsAdvance]_vars
<1>1. ASSUME StoreInvariant, NEW r \in Requests, Step(r) \/ Abort(r)
      PROVE  StatementsAdvance
  <2>1. \E p \in Places : pc' = [pc EXCEPT ![r] = p] /\ Progress(p) > Progress(pc[r])
    <3>1. CASE Send(r) \/ Notify(r) \/ Load(r) \/ Lookup(r)
      BY <3>1 DEF Send, Notify, Load, Lookup, Authorize, Refuse, Answer, Goto, Progress, Places,
                  Ended
    <3>2. CASE Insert(r) \/ Refetch(r) \/ Touch(r)
      BY <3>2 DEF Insert, Refetch, Touch, Answer, Fail, Goto, Progress, Places, Ended
    <3>3. CASE Lock(r) \/ CheckMember(r) \/ Join(r)
      BY <3>3 DEF Lock, CheckMember, Join, Fail, Goto, Progress, Places, Ended
    <3>4. CASE Commit(r) \/ Create(r)
      BY <3>4 DEF Commit, Create, Answer, Goto, Progress, Places, Ended
    <3>5. CASE Abort(r)
      <4>1. pc[r] \in Places \ Ended
        BY <1>1, <3>5 DEF Abort, StoreInvariant, TypeOK
      <4> QED
        BY <3>5, <4>1 DEF Abort, Goto, Progress, Places, Ended
    <3> QED
      BY <1>1, <3>1, <3>2, <3>3, <3>4, <3>5 DEF Step
  <2>2. pc \in [Requests -> Places]
    BY <1>1 DEF StoreInvariant, TypeOK
  <2> QED
    BY <2>1, <2>2 DEF StatementsAdvance
<1>2. StoreInvariant /\ [Next]_vars => [StatementsAdvance]_vars
  BY <1>1 DEF Next
<1> QED
  BY <1>2, StoreInductive, PTL DEF Spec

(* A closed conversation is closed for ever and stays in the table. *)
THEOREM ClosedForever == Spec => ClosedIsFinal
<1>1. StoreInvariant /\ [Next]_vars => [ClosedKept]_vars
  <2> SUFFICES ASSUME StoreInvariant, Next, NEW c \in DOMAIN conv,
                      conv[c].status = "closed"
               PROVE  conv'[c].status = "closed"
    BY DEF ClosedKept
  <2>1. PICK r \in Requests : Step(r) \/ Abort(r)
    BY DEF Next
  <2>2. CASE conv' = conv
    BY <2>2
  <2>3. CASE Commit(r)
    <3>1. conv[c] \in Conversation
      BY DEF StoreInvariant, TypeOK
    <3>2. c = dest[r] => Written(r).status = "closed"
      BY <3>1 DEF Written, Conversation
    <3> QED
      BY <2>3, <3>2 DEF Commit
  <2>4. CASE Create(r)
    BY <2>4, CreateFacts DEF Create
  <2> QED
    BY <2>1, <2>2, <2>3, <2>4
       DEF Step, Send, Notify, Insert, Refetch, Touch, Load, Lock, CheckMember, Join,
           Lookup, Abort, Authorize, Refuse, Fail, Answer, tables
<1> QED
  BY <1>1, StoreInductive, PTL DEF Spec, ClosedIsFinal

-----------------------------------------------------------------------------
(* What the row lock orders. The facts about the posted messages of a       *)
(* conversation are a second layer over StoreInvariant: a transaction that *)
(* holds the row and is about to announce an assignment or a closing has   *)
(* read its clock after every message that the conversation has.           *)
Housed ==
  /\ \A m \in Posted : dest[m] \in DOMAIN conv
  /\ \A x \in member : x[1] \in DOMAIN conv

ReadLate(r) == pc[r] \in {"joined", "ready"} /\ task[r].kind \in Admin

LateUnderLock ==
  \A r \in Requests : ReadLate(r) => \A m \in Posted : dest[m] = dest[r] => at[m] < at[r]

OrderInvariant ==
  Housed /\ LateUnderLock /\ LastFollowsCommits /\ AdminMessagesAreNewest /\ RightMembers

(* RightMembers of one conversation. *)
RightIn(c) ==
  /\ {a \in Admins : <<c, a>> \in member} = {task[log[i]].who : i \in Assignments(c)}
  /\ Assignments(c) = {} => conv[c].assignee = None
  /\ \A i \in Assignments(c) :
       (\A j \in Assignments(c) : j <= i) => conv[c].assignee = task[log[i]].who

(* A move, and the time it may have read. *)
MovesInOrder(r) ==
  /\ Moves(r)
  /\ \A q \in Requests \ {r} : at'[q] = at[q]
  /\ ReadLate(r)' => at'[r] > clock

LEMMA OrderInit == StoreAssumption /\ Init => OrderInvariant
<1> SUFFICES ASSUME StoreAssumption, Init
             PROVE  OrderInvariant
  OBVIOUS
<1>1. Posted = {} /\ Len(log) = 0
  BY DEF Init, Posted
<1>2. \A c \in DOMAIN conv : conv[c].last = 0 /\ conv[c].assignee = None
  BY DEF Init, NewConversation
<1>3. Housed /\ LateUnderLock /\ AdminMessagesAreNewest
  BY <1>1 DEF Housed, LateUnderLock, AdminMessagesAreNewest, Init
<1>4. LastFollowsCommits
  BY <1>1, <1>2 DEF LastFollowsCommits
<1>5. RightMembers
  <2>1. \A c \in DOMAIN conv : Assignments(c) = {}
    BY <1>1 DEF Assignments
  <2>2. \A x \in member : x[2] \notin Admins
    BY StoreAssumption DEF Init, StoreAssumption
  <2> QED
    BY <1>2, <2>1, <2>2 DEF RightMembers
<1> QED
  BY <1>3, <1>4, <1>5 DEF OrderInvariant

LEMMA QuietStep ==
  ASSUME StoreInvariant, NEW r \in Requests, Step(r) \/ Abort(r), ~Commit(r), ~Create(r)
  PROVE  MovesInOrder(r)
<1>0. TypeOK
  BY DEF StoreInvariant
<1>1. CASE Send(r)
  BY <1>0, <1>1 DEF Send, Authorize, Refuse, Now, Goto, tables, TypeOK, Moves, MovesInOrder,
                    ReadLate, Ended
<1>2. CASE Notify(r)
  BY <1>0, <1>2 DEF Notify, Authorize, Refuse, Now, Goto, tables, TypeOK, Moves, MovesInOrder,
                    ReadLate, Ended
<1>3. CASE Insert(r)
  BY <1>0, <1>3 DEF Insert, Goto, tables, TypeOK, Moves, MovesInOrder, ReadLate, Ended
<1>4. CASE Refetch(r)
  <2>1. IsPost(r)
    BY <1>4 DEF Refetch, StoreInvariant, InPlace
  <2>2. \E m \in Posted : Answer(r, m)
    BY <1>4 DEF Refetch, StoreInvariant, InPlace
  <2>3. UNCHANGED <<tables, clock, task, dest, at>> /\ pc[r] = "refetch"
    BY <1>4 DEF Refetch, StoreInvariant, InPlace
  <2> QED
    BY <1>0, <2>1, <2>2, <2>3 DEF Answer, Goto, tables, TypeOK, Moves, MovesInOrder, ReadLate,
                                  Ended, IsPost
<1>5. CASE Touch(r)
  <2>1. IsPost(r)
    BY <1>5 DEF Touch, StoreInvariant, InPlace
  <2> QED
    BY <1>0, <1>5, <2>1 DEF Touch, Goto, tables, TypeOK, Moves, MovesInOrder, ReadLate, Ended,
                            IsPost, Admin
<1>6. CASE Load(r)
  BY <1>0, <1>6 DEF Load, Refuse, Goto, tables, TypeOK, Moves, MovesInOrder, ReadLate, Ended
<1>7. CASE Lock(r)
  BY <1>0, <1>7 DEF Lock, Now, Goto, tables, TypeOK, Moves, MovesInOrder, ReadLate, Ended
<1>8. CASE CheckMember(r)
  BY <1>0, <1>8 DEF CheckMember, Now, Goto, tables, TypeOK, Moves, MovesInOrder, ReadLate, Ended
<1>9. CASE Join(r)
  BY <1>0, <1>9 DEF Join, Fail, Now, Goto, tables, TypeOK, Moves, MovesInOrder, ReadLate, Ended
<1>10. CASE Lookup(r)
  BY <1>0, <1>10 DEF Lookup, Answer, Now, Goto, tables, TypeOK, Moves, MovesInOrder,
                     ReadLate, Ended
<1>11. CASE Abort(r)
  BY <1>0, <1>11 DEF Abort, Goto, tables, TypeOK, Moves, MovesInOrder, ReadLate, Ended
<1> QED
  BY <1>1, <1>2, <1>3, <1>4, <1>5, <1>6, <1>7, <1>8, <1>9, <1>10, <1>11 DEF Step

LEMMA MovesKeepOrder ==
  ASSUME StoreInvariant, TypeOK', OrderInvariant, NEW r \in Requests, MovesInOrder(r)
  PROVE  OrderInvariant'
<1>1. Posted' = Posted /\ Posted \subseteq Requests \ {r}
  BY MoveFrame DEF MovesInOrder
<1>2. \A m \in Posted : dest'[m] = dest[m] /\ at'[m] = at[m] /\ at[m] <= clock
  BY <1>1 DEF MovesInOrder, Moves, StoreInvariant, TypeOK
<1>3. \A m \in Posted : at[m] \in Nat
  BY <1>1 DEF StoreInvariant, TypeOK
<1>4. \A i \in 1..Len(log) : log[i] \in Posted
  BY DEF Posted
<1>5. conv' = conv /\ log' = log /\ member' = member /\ task' = task
  BY DEF MovesInOrder, Moves
<1>6. Housed'
  BY <1>1, <1>2, <1>5 DEF OrderInvariant, Housed
<1>7. LateUnderLock'
  <2> SUFFICES ASSUME NEW q \in Requests, ReadLate(q)', NEW m \in Posted, dest[m] = dest'[q]
               PROVE  at[m] < at'[q]
    BY <1>1, <1>2 DEF LateUnderLock
  <2>1. CASE q = r
    <3>1. at'[r] > clock /\ clock \in Nat /\ at'[r] \in Nat
      BY <2>1 DEF MovesInOrder, StoreInvariant, TypeOK
    <3> QED
      BY <2>1, <3>1, <1>2, <1>3
  <2>2. CASE q # r
    <3>1. ReadLate(q) /\ dest'[q] = dest[q] /\ at'[q] = at[q]
      BY <2>2 DEF MovesInOrder, Moves, ReadLate
    <3> QED
      BY <3>1 DEF OrderInvariant, LateUnderLock
  <2> QED
    BY <2>1, <2>2
<1>8. LastFollowsCommits'
  BY <1>2, <1>4, <1>5 DEF OrderInvariant, LastFollowsCommits
<1>9. AdminMessagesAreNewest'
  BY <1>2, <1>4, <1>5 DEF OrderInvariant, AdminMessagesAreNewest
<1>10. RightMembers'
  <2>1. \A c \in DOMAIN conv : Assignments(c)' = Assignments(c)
    BY <1>2, <1>4, <1>5 DEF Assignments
  <2> QED
    BY <1>5, <2>1 DEF OrderInvariant, RightMembers
<1> QED
  BY <1>6, <1>7, <1>8, <1>9, <1>10 DEF OrderInvariant

LEMMA CommitKeepsOrder ==
  ASSUME StoreInvariant, OrderInvariant, NEW r \in Requests, Commit(r)
  PROVE  OrderInvariant'
<1>0. TypeOK
  BY DEF StoreInvariant
<1>1. /\ HoldsRow(r) /\ task[r].kind # "open" /\ r \notin Posted
      /\ dest[r] \in DOMAIN conv /\ DOMAIN conv' = DOMAIN conv /\ Posted' = Posted \cup {r}
      /\ pc' = [pc EXCEPT ![r] = "done"] /\ reply' = [reply EXCEPT ![r] = r]
  BY CommitFacts
<1>2. /\ UNCHANGED <<task, dest, at>> /\ member' = Members(r) /\ log' = Append(log, r)
      /\ conv' = [conv EXCEPT ![dest[r]] = Written(r)]
      /\ pc[r] \in {"joined", "ready"}
  BY DEF Commit
<1>3. pc'[r] = "done" /\ \A q \in Requests \ {r} : pc'[q] = pc[q] /\ reply'[q] = reply[q]
  BY <1>0, <1>1 DEF TypeOK
<1>4. /\ Len(log) \in Nat /\ Len(log') = Len(log) + 1 /\ log'[Len(log')] = r
      /\ \A i \in 1..Len(log) : log'[i] = log[i] /\ log[i] \in Posted
  BY <1>0, <1>2, AppendedPost DEF TypeOK, Posted
<1>5. Housed'
  BY <1>1, <1>2 DEF OrderInvariant, Housed, Members
<1>6. LateUnderLock'
  <2> SUFFICES ASSUME NEW q \in Requests, ReadLate(q)', NEW m \in Posted',
                      dest[m] = dest[q]
               PROVE  at[m] < at[q]
    BY <1>2 DEF LateUnderLock
  <2>1. q # r /\ ReadLate(q)
    BY <1>2, <1>3 DEF ReadLate
  <2>2. m # r
    <3>1. HoldsRow(q) /\ LocksExclusive
      BY <2>1 DEF StoreInvariant, HoldsRow, ReadLate
    <3>2. dest[q] # dest[r]
      BY <1>1, <2>1, <3>1 DEF LocksExclusive
    <3> QED
      BY <3>2
  <2> QED
    BY <1>1, <2>1, <2>2 DEF OrderInvariant, LateUnderLock
<1>7. LastFollowsCommits'
  <2> SUFFICES ASSUME NEW c \in DOMAIN conv
               PROVE  LET mine == {i \in 1..Len(log') : dest[log'[i]] = c}
                      IN  /\ mine = {} => conv'[c].last = 0
                          /\ \A i \in mine : (\A j \in mine : j <= i) =>
                               conv'[c].last = at[log'[i]]
    BY <1>1, <1>2 DEF LastFollowsCommits
  <2> DEFINE mine == {i \in 1..Len(log) : dest[log[i]] = c}
             others == {i \in 1..Len(log') : dest[log'[i]] = c}
  <2>1. CASE c = dest[r]
    <3>1. Len(log') \in others
      BY <1>4, <2>1
    <3>2. conv'[c].last = at[r]
      <4>1. conv[c] \in Conversation
        BY <1>0 DEF TypeOK
      <4> QED
        BY <1>2, <2>1, <4>1 DEF Written, Conversation
    <3>3. \A i \in others : (\A j \in others : j <= i) => i = Len(log')
      BY <1>4, <3>1
    <3> QED
      BY <1>4, <3>1, <3>2, <3>3
  <2>2. CASE c # dest[r]
    <3>1. others = mine
      BY <1>4, <2>2
    <3>2. conv'[c] = conv[c]
      BY <1>2, <2>2
    <3>3. /\ mine = {} => conv[c].last = 0
          /\ \A i \in mine : (\A j \in mine : j <= i) => conv[c].last = at[log[i]]
      BY DEF OrderInvariant, LastFollowsCommits
    <3> QED
      BY <1>4, <3>1, <3>2, <3>3
  <2> QED
    BY <2>1, <2>2
<1>8. AdminMessagesAreNewest'
  <2> SUFFICES ASSUME NEW i \in 1..Len(log'), NEW j \in 1..Len(log'), i < j,
                      task[log'[j]].kind \in Admin, dest[log'[i]] = dest[log'[j]]
               PROVE  at[log'[i]] < at[log'[j]]
    BY <1>2 DEF AdminMessagesAreNewest
  <2>1. i \in 1..Len(log)
    BY <1>4
  <2>2. CASE j = Len(log')
    <3>1. log'[j] = r /\ log'[i] \in Posted /\ ReadLate(r)
      BY <1>2, <1>4, <2>1, <2>2 DEF ReadLate
    <3> QED
      BY <3>1 DEF OrderInvariant, LateUnderLock
  <2>3. CASE j # Len(log')
    <3>1. j \in 1..Len(log)
      BY <1>4, <2>3
    <3> QED
      BY <1>4, <2>1, <3>1 DEF OrderInvariant, AdminMessagesAreNewest
  <2> QED
    BY <2>2, <2>3
<1>9. RightMembers'
  <2> SUFFICES ASSUME NEW c \in DOMAIN conv
               PROVE  RightIn(c)'
    BY <1>1 DEF RightMembers, RightIn
  <2>0. RightIn(c) /\ conv[c] \in Conversation
    BY <1>0 DEF OrderInvariant, RightMembers, RightIn, TypeOK
  <2>1. CASE c = dest[r] /\ task[r].kind = "assign"
    <3>1. Assignments(c)' = Assignments(c) \cup {Len(log')}
      BY <1>2, <1>4, <2>1 DEF Assignments
    <3>2. \A i \in Assignments(c) : i \in 1..Len(log) /\ log'[i] = log[i]
      BY <1>4 DEF Assignments
    <3>3. member' = member \cup {<<c, task[r].who>>} /\ task[r].who \in Admins
      <4>1. pc[r] = "ready" => <<dest[r], task[r].who>> \in member
        BY <2>1 DEF StoreInvariant, InPlace
      <4> QED
        BY <1>2, <2>1, <4>1, TaskFacts DEF Members
    <3>4. conv'[c].assignee = task[r].who
      BY <1>2, <2>0, <2>1 DEF Written, Conversation
    <3>5. {a \in Admins : <<c, a>> \in member'} = {task[log'[i]].who : i \in Assignments(c)'}
      <4>1. {task[log'[i]].who : i \in Assignments(c)'}
              = {task[log[i]].who : i \in Assignments(c)} \cup {task[r].who}
        BY <1>4, <3>1, <3>2
      <4>2. {a \in Admins : <<c, a>> \in member'}
              = {a \in Admins : <<c, a>> \in member} \cup {task[r].who}
        BY <3>3
      <4> QED
        BY <2>0, <4>1, <4>2 DEF RightIn
    <3>6. \A i \in Assignments(c)' :
            (\A j \in Assignments(c)' : j <= i) => conv'[c].assignee = task[log'[i]].who
      <4>1. \A i \in Assignments(c) : i < Len(log')
        BY <1>4, <3>2
      <4>2. \A i \in Assignments(c)' : (\A j \in Assignments(c)' : j <= i) => i = Len(log')
        BY <1>4, <3>1, <3>2, <4>1
      <4> QED
        BY <1>4, <3>4, <4>2
    <3> QED
      BY <1>2, <3>1, <3>5, <3>6 DEF RightIn
  <2>2. CASE ~(c = dest[r] /\ task[r].kind = "assign")
    <3>1. Assignments(c)' = Assignments(c)
      BY <1>2, <1>4, <2>2 DEF Assignments
    <3>2. \A i \in Assignments(c) : log'[i] = log[i]
      BY <1>4 DEF Assignments
    <3>3. \A a \in Admins : <<c, a>> \in member' <=> <<c, a>> \in member
      <4>1. pc[r] = "joined" => task[r].kind = "assign"
        BY DEF StoreInvariant, InPlace
      <4> QED
        BY <1>2, <2>2, <4>1 DEF Members
    <3>4. conv'[c].assignee = conv[c].assignee
      BY <1>2, <2>0, <2>2 DEF Written, Conversation
    <3>5. {a \in Admins : <<c, a>> \in member'} = {task[log'[i]].who : i \in Assignments(c)'}
      <4>1. {a \in Admins : <<c, a>> \in member'} = {a \in Admins : <<c, a>> \in member}
        BY <3>3
      <4>2. {task[log'[i]].who : i \in Assignments(c)'}
              = {task[log[i]].who : i \in Assignments(c)}
        BY <3>1, <3>2
      <4> QED
        BY <2>0, <4>1, <4>2 DEF RightIn
    <3> QED
      BY <1>2, <2>0, <3>1, <3>2, <3>4, <3>5 DEF RightIn
  <2> QED
    BY <2>1, <2>2
<1> QED
  BY <1>5, <1>6, <1>7, <1>8, <1>9 DEF OrderInvariant

LEMMA CreateKeepsOrder ==
  ASSUME StoreInvariant, OrderInvariant, NEW r \in Requests, Create(r)
  PROVE  OrderInvariant'
<1>0. TypeOK
  BY DEF StoreInvariant
<1>1. /\ pc[r] = "creating" /\ task[r].kind = "open" /\ r \notin DOMAIN conv
      /\ DOMAIN conv' = DOMAIN conv \cup {r} /\ Posted' = Posted /\ Posted \subseteq Requests
      /\ pc' = [pc EXCEPT ![r] = "done"] /\ reply' = [reply EXCEPT ![r] = r]
  BY CreateFacts
<1>2. /\ UNCHANGED <<log, task, dest, at>> /\ member' = member \cup {<<r, task[r].who>>}
      /\ \A c \in DOMAIN conv : conv'[c] = conv[c]
      /\ conv'[r] = NewConversation(task[r].on, at[r])
  BY <1>1 DEF Create
<1>3. pc'[r] = "done" /\ reply'[r] = r /\ \A q \in Requests \ {r} : pc'[q] = pc[q] /\ reply'[q] = reply[q]
  BY <1>0, <1>1 DEF TypeOK
<1>4. \A i \in 1..Len(log) : log[i] \in Posted /\ dest[log[i]] # r
  BY <1>1 DEF Posted, OrderInvariant, Housed
<1>5. Housed'
  BY <1>1, <1>2 DEF OrderInvariant, Housed
<1>6. LateUnderLock'
  <2>1. \A q \in Requests : ReadLate(q)' => ReadLate(q)
    BY <1>2, <1>3 DEF ReadLate
  <2> QED
    BY <1>1, <1>2, <2>1 DEF OrderInvariant, LateUnderLock
<1>7. LastFollowsCommits'
  <2>1. conv'[r].last = 0
    BY <1>2 DEF NewConversation
  <2> QED
    BY <1>1, <1>2, <1>4, <2>1 DEF OrderInvariant, LastFollowsCommits
<1>8. AdminMessagesAreNewest'
  BY <1>2 DEF OrderInvariant, AdminMessagesAreNewest
<1>9. RightMembers'
  <2>1. conv'[r].assignee = None
    BY <1>2 DEF NewConversation
  <2>2. \A c \in DOMAIN conv' : Assignments(c)' = Assignments(c)
    BY <1>2 DEF Assignments
  <2>3. Assignments(r) = {}
    BY <1>4 DEF Assignments
  <2>4. \A c \in DOMAIN conv', a \in Admins : <<c, a>> \in member' <=> <<c, a>> \in member
    <3>1. task[r].who \notin Admins
      BY <1>1, TaskFacts, StoreAssumption DEF StoreAssumption
    <3> QED
      BY <1>2, <3>1
  <2>5. \A a \in Admins : <<r, a>> \notin member
    BY <1>1 DEF OrderInvariant, Housed
  <2> SUFFICES ASSUME NEW c \in DOMAIN conv'
               PROVE  RightIn(c)'
    BY DEF RightMembers, RightIn
  <2>6. CASE c = r
    BY <1>2, <2>1, <2>2, <2>3, <2>4, <2>5, <2>6 DEF RightIn
  <2>7. CASE c \in DOMAIN conv
    <3>1. RightIn(c)
      BY <2>7 DEF OrderInvariant, RightMembers, RightIn
    <3> QED
      BY <1>2, <2>2, <2>4, <2>7, <3>1 DEF RightIn
  <2> QED
    BY <1>1, <2>6, <2>7
<1> QED
  BY <1>5, <1>6, <1>7, <1>8, <1>9 DEF OrderInvariant

LEMMA OrderKeeps == StoreInvariant /\ OrderInvariant /\ [Next]_vars => OrderInvariant'
<1> SUFFICES ASSUME StoreInvariant, OrderInvariant, [Next]_vars
             PROVE  OrderInvariant'
  OBVIOUS
<1>1. CASE UNCHANGED vars
  <2>1. Housed' /\ LateUnderLock'
    BY <1>1 DEF vars, tables, OrderInvariant, Housed, LateUnderLock, ReadLate, Posted
  <2>2. LastFollowsCommits' /\ AdminMessagesAreNewest' /\ RightMembers'
    BY <1>1 DEF vars, tables, OrderInvariant, LastFollowsCommits, AdminMessagesAreNewest,
                RightMembers, Assignments
  <2> QED
    BY <2>1, <2>2 DEF OrderInvariant
<1>2. CASE Next
  <2>1. PICK r \in Requests : Step(r) \/ Abort(r)
    BY <1>2 DEF Next
  <2>2. TypeOK'
    BY NextKeeps DEF StoreInvariant
  <2> QED
    BY <2>1, <2>2, QuietStep, MovesKeepOrder, CommitKeepsOrder, CreateKeepsOrder
<1> QED
  BY <1>1, <1>2

LEMMA OrderInductive == Spec => []OrderInvariant
BY OrderInit, OrderKeeps, StoreInductive, StoreAssumption, PTL DEF Spec

(* A conversation's last_message_at is that of the message committed last,  *)
(* however many transactions touch it.                                     *)
THEOREM LastMessage == Spec => []LastFollowsCommits
<1>1. OrderInvariant => LastFollowsCommits
  BY DEF OrderInvariant
<1> QED
  BY <1>1, OrderInductive, PTL

(* The system message of an assignment or a closing is later than all that  *)
(* its conversation had.                                                   *)
THEOREM AdminNewest == Spec => []AdminMessagesAreNewest
<1>1. OrderInvariant => AdminMessagesAreNewest
  BY DEF OrderInvariant
<1> QED
  BY <1>1, OrderInductive, PTL

(* The participants, the messages of assignments and the assignee of each   *)
(* conversation agree, for any number of racing assignments.               *)
THEOREM Membership == Spec => []RightMembers
<1>1. OrderInvariant => RightMembers
  BY DEF OrderInvariant
<1> QED
  BY <1>1, OrderInductive, PTL
=============================================================================
