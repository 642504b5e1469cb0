---------------------------- MODULE WsHubProofs ----------------------------
(***************************************************************************)
(* Proofs about WsHub, for any number of sockets, principals and           *)
(* conversations: the registry outlives no handler, broadcasts miss nobody *)
(* unless they were disturbed, and events are received in order.           *)
(***************************************************************************)
EXTENDS WsHub, FiniteSetTheorems, SequenceTheorems, TLAPS

(* The part of the types that the argument needs. *)
RegistryTyped ==
  /\ conns \in [Principals -> SUBSET Sockets]
  /\ subs \in [Conversations -> SUBSET Principals]
  /\ place \in [Sockets -> {"new", "open", "over"}]

Owned == RegistryTyped /\ RegistryOwned

(* Sockets that are unregistered take their principal's subscriptions along, *)
(* so their handlers may end in the same step or go on.                     *)
LEMMA WithoutKeeps ==
  ASSUME Owned, NEW D,
         conns' = ConnsWithout(D), subs' = SubsWithout(D),
         place' \in [Sockets -> {"new", "open", "over"}],
         \A w \in Sockets \ D : place'[w] = place[w]
  PROVE  Owned'
<1> USE HubAssumption DEF HubAssumption
<1>1. RegistryTyped'
  BY DEF Owned, RegistryTyped, ConnsWithout, SubsWithout
<1>2. ASSUME NEW p \in Principals, NEW w \in conns'[p]
      PROVE  Owner[w] = p /\ place'[w] = "open"
  <2>1. w \in conns[p] /\ w \in Sockets \ D
    BY <1>2 DEF Owned, RegistryTyped, ConnsWithout
  <2> QED
    BY <2>1 DEF Owned, RegistryOwned
<1>3. ASSUME NEW c \in Conversations, NEW p \in subs'[c]
      PROVE  \E w \in Sockets : Owner[w] = p /\ place'[w] = "open"
  <2>1. p \in subs[c] /\ \A w \in D : Owner[w] # p
    BY <1>3 DEF Owned, RegistryTyped, SubsWithout
  <2>2. p \in Principals
    BY <2>1 DEF Owned, RegistryTyped
  <2>3. PICK w \in Sockets : Owner[w] = p /\ place[w] = "open"
    BY <2>1 DEF Owned, RegistryOwned
  <2> QED
    BY <2>1, <2>3
<1> QED
  BY <1>1, <1>2, <1>3 DEF Owned, RegistryOwned

LEMMA SameKeeps ==
  ASSUME Owned, conns' = conns, subs' = subs, place' = place
  PROVE  Owned'
BY DEF Owned, RegistryTyped, RegistryOwned

(* The two ends of a broadcast, and its way to the next socket. *)
LEMMA FinishKeeps ==
  ASSUME Owned, NEW a, NEW j, Finish(a, j)
  PROVE  Owned'
<1>1. /\ conns' = ConnsWithout(j.dead) /\ subs' = SubsWithout(j.dead) /\ place' = place
  BY DEF Finish, Register
<1> QED
  BY <1>1, WithoutKeeps DEF Owned, RegistryTyped

LEMMA BreakKeeps ==
  ASSUME Owned, NEW a \in Actors, NEW j, Break(a, j)
  PROVE  Owned'
<1>1. CASE a = Listener
  BY <1>1, SameKeeps DEF Break, Register
<1>2. CASE a # Listener
  <2>1. /\ a \in Sockets /\ conns' = ConnsWithout({a}) /\ subs' = SubsWithout({a})
        /\ place' = [place EXCEPT ![a] = "over"]
    BY <1>2 DEF Break, Register, Actors
  <2>2. /\ place' \in [Sockets -> {"new", "open", "over"}]
        /\ \A w \in Sockets \ {a} : place'[w] = place[w]
    BY <2>1 DEF Owned, RegistryTyped
  <2> QED
    BY <2>1, <2>2, WithoutKeeps
<1> QED
  BY <1>1, <1>2

LEMMA EnterKeeps ==
  ASSUME Owned, NEW a, NEW j, NEW M, Enter(a, j, M)
  PROVE  Owned'
<1>1. CASE Finish(a, j)
  BY <1>1, FinishKeeps
<1>2. CASE UNCHANGED <<registry, place, alive, missed>>
  BY <1>2, SameKeeps DEF registry
<1> QED
  BY <1>1, <1>2 DEF Enter

LEMMA BeginKeeps ==
  ASSUME Owned, NEW a, NEW c, NEW e, Begin(a, c, e)
  PROVE  Owned'
BY EnterKeeps DEF Begin

LEMMA DeliverKeeps ==
  ASSUME Owned, NEW a \in Actors, Deliver(a)
  PROVE  Owned'
<1> DEFINE j == Tried(job[a])
<1> HIDE DEF j
<1>1. Proceed(a, j)
  BY DEF Deliver, j
<1>2. CASE Break(a, j)
  BY <1>2, BreakKeeps
<1>3. CASE UNCHANGED <<registry, place, alive, missed>>
  BY <1>3, SameKeeps DEF registry
<1>4. CASE \E M \in Ahead(j.outer, subs[j.conv]) : Enter(a, j, M)
  BY <1>4, EnterKeeps
<1> QED
  BY <1>1, <1>2, <1>3, <1>4 DEF Proceed

LEMMA ConnectKeeps ==
  ASSUME Owned, NEW w \in Sockets, Connect(w)
  PROVE  Owned'
<1> USE HubAssumption DEF HubAssumption
<1>1. /\ conns' = [conns EXCEPT ![Owner[w]] = @ \cup {w}] /\ subs' = subs
      /\ place' = [place EXCEPT ![w] = "open"]
  BY DEF Connect, Register
<1>2. RegistryTyped'
  BY <1>1 DEF Owned, RegistryTyped
<1>3. \A v \in Sockets : place[v] = "open" => place'[v] = "open"
  BY <1>1 DEF Owned, RegistryTyped
<1>4. ASSUME NEW p \in Principals, NEW v \in conns'[p]
      PROVE  Owner[v] = p /\ place'[v] = "open"
  <2>1. v \in conns[p] \/ (v = w /\ p = Owner[w])
    BY <1>1, <1>4 DEF Owned, RegistryTyped
  <2>2. v \in Sockets /\ place'[w] = "open"
    BY <1>1, <1>2 DEF Owned, RegistryTyped
  <2> QED
    BY <1>3, <2>1, <2>2 DEF Owned, RegistryOwned
<1>5. ASSUME NEW c \in Conversations, NEW p \in subs'[c]
      PROVE  \E v \in Sockets : Owner[v] = p /\ place'[v] = "open"
  BY <1>1, <1>3 DEF Owned, RegistryOwned
<1> QED
  BY <1>2, <1>4, <1>5 DEF Owned, RegistryOwned

LEMMA SubscribeKeeps ==
  ASSUME Owned, NEW w \in Sockets, NEW c \in Conversations, Subscribe(w, c)
  PROVE  Owned'
<1> USE HubAssumption DEF HubAssumption
<1>1. /\ conns' = conns /\ place' = place /\ place[w] = "open"
      /\ subs' = [subs EXCEPT ![c] = @ \cup {Owner[w]}]
  BY DEF Subscribe, Register, Reading
<1>2. RegistryTyped'
  BY <1>1 DEF Owned, RegistryTyped
<1>3. ASSUME NEW d \in Conversations, NEW p \in subs'[d]
      PROVE  \E v \in Sockets : Owner[v] = p /\ place'[v] = "open"
  <2>1. p \in subs[d] \/ p = Owner[w]
    BY <1>1, <1>3 DEF Owned, RegistryTyped
  <2> QED
    BY <1>1, <2>1 DEF Owned, RegistryOwned
<1> QED
  BY <1>1, <1>2, <1>3 DEF Owned, RegistryOwned

LEMMA OverKeeps ==
  ASSUME Owned, NEW w \in Sockets, Over(w)
  PROVE  Owned'
<1>1. /\ conns' = ConnsWithout({w}) /\ subs' = SubsWithout({w})
      /\ place' = [place EXCEPT ![w] = "over"]
  BY DEF Over, Register
<1>2. /\ place' \in [Sockets -> {"new", "open", "over"}]
      /\ \A v \in Sockets \ {w} : place'[v] = place[v]
  BY <1>1 DEF Owned, RegistryTyped
<1> QED
  BY <1>1, <1>2, WithoutKeeps

(* Every registered socket and every subscribed principal has a handler     *)
(* that will unregister it, in every reachable state.                       *)
THEOREM RegistryClean == Spec => []RegistryOwned
<1>1. Init => Owned
  BY HubAssumption DEF Init, Owned, RegistryTyped, RegistryOwned
<1>2. Owned /\ [Next]_vars => Owned'
  <2> SUFFICES ASSUME Owned, [Next]_vars
               PROVE  Owned'
    OBVIOUS
  <2>1. CASE UNCHANGED vars
    BY <2>1, SameKeeps DEF vars
  <2>2. CASE \E w \in Sockets : Connect(w) \/ Over(w)
    BY <2>2, ConnectKeeps, OverKeeps
  <2>3. CASE \E w \in Sockets : Leave(w)
    BY <2>3, SameKeeps DEF Leave, registry
  <2>4. CASE \E w \in Sockets, c \in Conversations : Subscribe(w, c)
    BY <2>4, SubscribeKeeps
  <2>5. CASE \E w \in Sockets, c \in Conversations : Broadcast(w, c)
    BY <2>5, BeginKeeps DEF Broadcast
  <2>6. CASE \E a \in Actors : Deliver(a)
    BY <2>6, DeliverKeeps
  <2>7. CASE Dispatch
    BY <2>7, BeginKeeps DEF Dispatch
  <2>8. CASE (\E c \in Conversations : Publish(c)) \/ StopListening
    BY <2>8, SameKeeps DEF Publish, StopListening, registry
  <2> QED
    BY <2>1, <2>2, <2>3, <2>4, <2>5, <2>6, <2>7, <2>8 DEF Next
<1>3. Owned => RegistryOwned
  BY DEF Owned
<1> QED
  BY <1>1, <1>2, <1>3, PTL DEF Spec

-----------------------------------------------------------------------------
(* Broadcasts. *)

LEMMA JobFields ==
  ASSUME NEW j \in Job
  PROVE  /\ j.conv \in Conversations /\ j.event \in 0..MaxEvents /\ j.who \in Principals
         /\ j.to \in Sockets /\ j.dead \subseteq Sockets /\ j.owed \subseteq Sockets
         /\ j.calm \in BOOLEAN
         /\ j.inner.size \in Nat /\ j.inner.left \subseteq Sockets
         /\ j.outer.size \in Nat /\ j.outer.left \subseteq Principals
         /\ j.inner \in Iterator(Sockets) /\ j.outer \in Iterator(Principals)
  BY DEF Job, Iterator

LEMMA DisturbedFields ==
  ASSUME NEW j \in Job, NEW C, NEW S
  PROVE  LET d == Disturbed(j, C, S)
         IN  /\ d \in Job
             /\ d.conv = j.conv /\ d.event = j.event /\ d.who = j.who /\ d.to = j.to
             /\ d.dead = j.dead /\ d.inner.left = j.inner.left /\ d.outer.left = j.outer.left
             /\ d.owed = j.owed \cap Reachable(j.conv, C, S)
             /\ d.calm => j.calm /\ d.inner.state = j.inner.state /\ d.outer.state = j.outer.state
<1> DEFINE d == Disturbed(j, C, S)
<1>1. d \in Job
  <2>1. /\ j = [conv |-> j.conv, event |-> j.event, who |-> j.who, to |-> j.to,
               outer |-> j.outer, inner |-> j.inner, dead |-> j.dead,
               owed |-> j.owed, calm |-> j.calm]
        /\ j.outer \in Iterator(Principals) /\ j.inner \in Iterator(Sockets)
    BY DEF Job
  <2> DEFINE outerChanges == S[j.conv] # subs[j.conv]
             innerChanges == C[j.who] # conns[j.who]
             o == IF outerChanges THEN "changed" ELSE j.outer.state
             i == IF j.inner.state = "gone" \/ (innerChanges /\ C[j.who] = {}) THEN "gone"
                  ELSE IF innerChanges THEN "changed" ELSE j.inner.state
             w == j.owed \cap Reachable(j.conv, C, S)
             x == j.calm /\ ~outerChanges /\ ~innerChanges
  <2>2. /\ o \in {"changed", j.outer.state} /\ i \in {"gone", "changed", j.inner.state}
        /\ w \subseteq j.owed /\ x \in BOOLEAN
    OBVIOUS
  <2>5. d = [j EXCEPT !.outer.state = o, !.inner.state = i, !.owed = w, !.calm = x]
    BY DEF Disturbed
  <2> HIDE DEF d, o, i, w, x
  <2>6. d = [conv |-> j.conv, event |-> j.event, who |-> j.who, to |-> j.to,
             outer |-> [j.outer EXCEPT !.state = o], inner |-> [j.inner EXCEPT !.state = i],
             dead |-> j.dead, owed |-> w, calm |-> x]
    BY <2>1, <2>5
  <2>3. [j.outer EXCEPT !.state = o] \in Iterator(Principals)
    BY <2>1, <2>2 DEF Iterator
  <2>4. [j.inner EXCEPT !.state = i] \in Iterator(Sockets)
    BY <2>1, <2>2 DEF Iterator
  <2> QED
    BY <2>2, <2>3, <2>4, <2>6, JobFields DEF Job
<1>2. d.conv = j.conv /\ d.event = j.event /\ d.who = j.who /\ d.to = j.to /\ d.dead = j.dead
  BY DEF Job, Disturbed
<1>3. d.inner.left = j.inner.left /\ d.outer.left = j.outer.left
  BY DEF Job, Iterator, Disturbed
<1>4. d.owed = j.owed \cap Reachable(j.conv, C, S)
  BY DEF Job, Disturbed
<1>5. d.calm => j.calm /\ d.inner.state = j.inner.state /\ d.outer.state = j.outer.state
  BY DEF Job, Iterator, Disturbed
<1> HIDE DEF d
<1> QED
  BY <1>1, <1>2, <1>3, <1>4, <1>5 DEF d

(* What handlers and peers may do below a broadcast: sockets do not become  *)
(* new, and who is gone stays gone.                                        *)
Onward ==
  \A w \in Sockets : place[w] # "new" =>
    place'[w] # "new" /\ (~alive[w] => ~alive'[w])

RestTyped ==
  /\ alive \in [Sockets -> BOOLEAN]
  /\ job \in [Actors -> Job \cup {Idle}]
  /\ asked \in [Sockets -> SUBSET Conversations]
  /\ missed \subseteq Sockets \X BOOLEAN

HubPart ==
  /\ Owned /\ RestTyped /\ NewAreQuiet /\ JobsOnCourse
  /\ OnlyTabsUnsubscribe /\ CalmReachesAll

LEMMA DisturbedOnCourse ==
  ASSUME Onward, NEW C, NEW S, NEW j, OnCourse(j, conns, subs, place, alive)
  PROVE  OnCourse(Disturbed(j, C, S), C, S, place', alive')
<1> DEFINE d == Disturbed(j, C, S)
<1>1. j \in Job
  BY DEF OnCourse
<1>2. /\ d \in Job
      /\ d.conv = j.conv /\ d.to = j.to
      /\ d.dead = j.dead /\ d.inner.left = j.inner.left /\ d.outer.left = j.outer.left
      /\ d.owed = j.owed \cap Reachable(j.conv, C, S)
      /\ d.calm => j.calm /\ d.inner.state = j.inner.state /\ d.outer.state = j.outer.state
  BY <1>1, DisturbedFields
<1> HIDE DEF d
<1>3. j.dead \subseteq Sockets /\ j.inner.left \subseteq Sockets /\ j.to \in Sockets
  BY <1>1, JobFields
<1>4. \A w \in d.dead : place'[w] # "new" /\ ~alive'[w]
  BY <1>2, <1>3 DEF OnCourse, Onward
<1>5. \A w \in d.inner.left \cup {d.to} : place'[w] # "new"
  BY <1>2, <1>3 DEF OnCourse, Onward
<1>6. d.calm => /\ d.inner.state = "exact" /\ d.outer.state = "exact"
                /\ \A w \in d.owed : w = d.to \/ w \in d.inner.left \/ Owner[w] \in d.outer.left
  BY <1>2 DEF OnCourse
<1> QED
  BY <1>2, <1>4, <1>5, <1>6 DEF OnCourse, d

LEMMA RegisterJobs ==
  ASSUME RestTyped, JobsOnCourse, Onward, NEW C, NEW S, NEW a \in Actors,
         Register(C, S, a, Idle)
  PROVE  job' \in [Actors -> Job \cup {Idle}] /\ JobsOnCourse'
<1>1. /\ conns' = C /\ subs' = S
      /\ job' = [b \in Actors |-> IF b = a THEN Idle
                                  ELSE IF job[b] = Idle THEN Idle
                                  ELSE Disturbed(job[b], C, S)]
  BY DEF Register
<1>2. ASSUME NEW b \in Actors, job'[b] # Idle
      PROVE  job'[b] \in Job /\ OnCourse(job'[b], conns', subs', place', alive')
  <2>1. job[b] # Idle /\ job'[b] = Disturbed(job[b], C, S)
    BY <1>1, <1>2
  <2>2. OnCourse(job[b], conns, subs, place, alive)
    BY <2>1 DEF JobsOnCourse
  <2>3. OnCourse(Disturbed(job[b], C, S), C, S, place', alive')
    BY <2>2, DisturbedOnCourse
  <2>4. OnCourse(job'[b], conns', subs', place', alive')
    BY <1>1, <2>1, <2>3
  <2> QED
    BY <2>4 DEF OnCourse
<1>3. \A b \in Actors : job'[b] \in Job \cup {Idle}
  BY <1>2
<1>4. job' \in [Actors -> Job \cup {Idle}]
  BY <1>1, <1>3
<1> QED
  BY <1>2, <1>4 DEF JobsOnCourse

LEMMA SameJobs ==
  ASSUME JobsOnCourse, Onward, conns' = conns, subs' = subs, job' = job
  PROVE  JobsOnCourse'
<1>1. SUFFICES ASSUME NEW a \in Actors, job[a] # Idle
               PROVE  OnCourse(job[a], conns, subs, place', alive')
  BY DEF JobsOnCourse
<1>2. OnCourse(job[a], conns, subs, place, alive)
  BY <1>1 DEF JobsOnCourse
<1>3. /\ job[a].dead \subseteq Sockets /\ job[a].inner.left \subseteq Sockets
      /\ job[a].to \in Sockets
  BY <1>2, JobFields DEF OnCourse
<1> QED
  BY <1>2, <1>3 DEF OnCourse, Onward

(* disconnect of D, all of whom are gone by then. *)
LEMMA WithoutTabs ==
  ASSUME Owned, OnlyTabsUnsubscribe, Onward, NEW D \in SUBSET Sockets,
         conns' = ConnsWithout(D), subs' = SubsWithout(D), asked' = asked,
         \A w \in Sockets : place'[w] = "open" /\ alive'[w] => place[w] = "open" /\ alive[w],
         \A w \in D : place'[w] # "new" /\ ~alive'[w],
         asked \in [Sockets -> SUBSET Conversations]
  PROVE  OnlyTabsUnsubscribe'
<1> USE HubAssumption DEF HubAssumption
<1>1. SUFFICES ASSUME NEW w \in Sockets, place'[w] = "open", alive'[w]
               PROVE  /\ w \in conns'[Owner[w]]
                      /\ \A c \in asked[w] :
                           \/ Owner[w] \in subs'[c]
                           \/ \E v \in Sockets \ {w} :
                                Owner[v] = Owner[w] /\ place'[v] # "new" /\ ~alive'[v]
  BY DEF OnlyTabsUnsubscribe
<1>2. w \notin D /\ place[w] = "open" /\ alive[w] /\ Owner[w] \in Principals
  BY <1>1
<1>3. w \in conns'[Owner[w]]
  BY <1>2 DEF OnlyTabsUnsubscribe, ConnsWithout
<1>4. ASSUME NEW c \in asked[w]
      PROVE  \/ Owner[w] \in subs'[c]
             \/ \E v \in Sockets \ {w} :
                  Owner[v] = Owner[w] /\ place'[v] # "new" /\ ~alive'[v]
  <2>1. c \in Conversations
    BY <1>4
  <2>2. CASE \E v \in D : Owner[v] = Owner[w]
    BY <1>2, <2>2
  <2>3. CASE \A v \in D : Owner[v] # Owner[w]
    <3>1. CASE Owner[w] \in subs[c]
      BY <2>1, <2>3, <3>1 DEF SubsWithout
    <3>2. CASE \E v \in Sockets \ {w} : Owner[v] = Owner[w] /\ place[v] # "new" /\ ~alive[v]
      BY <3>2 DEF Onward
    <3> QED
      BY <1>2, <3>1, <3>2 DEF OnlyTabsUnsubscribe
  <2> QED
    BY <2>2, <2>3
<1> QED
  BY <1>3, <1>4


(* A broadcast that is about to go on with the principals M ahead. *)
Ready(j, M) ==
  /\ j \in Job /\ M \subseteq Principals
  /\ \A w \in j.dead : place[w] # "new" /\ ~alive[w]
  /\ j.owed \subseteq Reachable(j.conv, conns, subs)
  /\ j.calm => \A w \in j.owed : Owner[w] \in M

LEMMA NoteKeeps ==
  ASSUME RestTyped, CalmReachesAll, NEW j \in Job, j.calm => j.owed = {}, Note(j)
  PROVE  missed' \subseteq Sockets \X BOOLEAN /\ CalmReachesAll'
<1>1. j.owed \subseteq Sockets /\ j.calm \in BOOLEAN
  BY JobFields
<1>2. missed' = missed \cup {<<w, j.calm>> : w \in j.owed}
  BY DEF Note
<1>3. missed' \subseteq Sockets \X BOOLEAN
  BY <1>1, <1>2 DEF RestTyped
<1>4. \A m \in missed' : ~m[2]
  BY <1>1, <1>2 DEF CalmReachesAll
<1> QED
  BY <1>3, <1>4 DEF CalmReachesAll

LEMMA HubFinish ==
  ASSUME HubPart, NEW a \in Actors, NEW j, NEW M, Ready(j, M), Finish(a, j), asked' = asked,
         \A p \in M : conns[p] = {}
  PROVE  HubPart'
<1> USE HubAssumption DEF HubAssumption
<1>1. /\ Owned /\ RestTyped /\ NewAreQuiet /\ JobsOnCourse
      /\ OnlyTabsUnsubscribe /\ CalmReachesAll
  BY DEF HubPart
<1>2. /\ Register(ConnsWithout(j.dead), SubsWithout(j.dead), a, Idle) /\ Note(j)
      /\ place' = place /\ alive' = alive
  BY DEF Finish
<1>3. j \in Job /\ j.dead \subseteq Sockets
  BY JobFields DEF Ready
<1>4. conns' = ConnsWithout(j.dead) /\ subs' = SubsWithout(j.dead)
  BY <1>2 DEF Register
<1>5. Onward
  BY <1>2 DEF Onward
<1>6. j.calm => j.owed = {}
  <2>1. SUFFICES ASSUME j.calm, NEW w \in j.owed
                 PROVE  FALSE
    OBVIOUS
  <2>2. Owner[w] \in M /\ w \in conns[Owner[w]]
    BY <2>1 DEF Ready, Reachable
  <2> QED
    BY <2>2
<1>7. Owned'
  BY <1>1, FinishKeeps
<1>8. job' \in [Actors -> Job \cup {Idle}] /\ JobsOnCourse'
  BY <1>1, <1>2, <1>5, RegisterJobs
<1>9. missed' \subseteq Sockets \X BOOLEAN /\ CalmReachesAll'
  BY <1>1, <1>2, <1>3, <1>6, NoteKeeps
<1>10. OnlyTabsUnsubscribe'
  <2>1. \A w \in j.dead : place'[w] # "new" /\ ~alive'[w]
    BY <1>2 DEF Ready
  <2>2. asked \in [Sockets -> SUBSET Conversations]
    BY <1>1 DEF RestTyped
  <2> QED
    BY <1>1, <1>2, <1>3, <1>4, <1>5, <2>1, <2>2, WithoutTabs
<1>11. RestTyped' /\ NewAreQuiet'
  BY <1>1, <1>2, <1>8, <1>9 DEF RestTyped, NewAreQuiet
<1> QED
  BY <1>7, <1>8, <1>9, <1>10, <1>11 DEF HubPart

(* The handler of w ends: by Over, or because its broadcast breaks. *)
LEMMA HubEnd ==
  ASSUME HubPart, NEW w \in Sockets,
         Register(ConnsWithout({w}), SubsWithout({w}), w, Idle),
         place' = [place EXCEPT ![w] = "over"], alive' = [alive EXCEPT ![w] = FALSE],
         asked' = asked, missed' \subseteq Sockets \X BOOLEAN, CalmReachesAll'
  PROVE  HubPart'
<1>1. Owned /\ RestTyped /\ NewAreQuiet /\ JobsOnCourse /\ OnlyTabsUnsubscribe
  BY DEF HubPart
<1>2. /\ place \in [Sockets -> {"new", "open", "over"}] /\ alive \in [Sockets -> BOOLEAN]
      /\ asked \in [Sockets -> SUBSET Conversations]
  BY <1>1 DEF Owned, RegistryTyped, RestTyped
<1>3. /\ place' \in [Sockets -> {"new", "open", "over"}] /\ alive' \in [Sockets -> BOOLEAN]
      /\ place'[w] = "over" /\ ~alive'[w]
      /\ \A v \in Sockets \ {w} : place'[v] = place[v] /\ alive'[v] = alive[v]
  BY <1>2
<1>4. Onward
  BY <1>3 DEF Onward
<1>5. conns' = ConnsWithout({w}) /\ subs' = SubsWithout({w}) /\ w \in Actors
  BY DEF Register, Actors
<1>6. Owned'
  BY <1>1, <1>3, <1>5, WithoutKeeps
<1>7. job' \in [Actors -> Job \cup {Idle}] /\ JobsOnCourse'
  BY <1>1, <1>4, <1>5, RegisterJobs
<1>8. OnlyTabsUnsubscribe'
  <2>1. /\ {w} \in SUBSET Sockets
        /\ \A v \in {w} : place'[v] # "new" /\ ~alive'[v]
        /\ \A v \in Sockets : place'[v] = "open" /\ alive'[v] => place[v] = "open" /\ alive[v]
    BY <1>3
  <2> QED
    BY <1>1, <1>2, <1>4, <1>5, <2>1, WithoutTabs
<1>9. RestTyped'
  BY <1>1, <1>3, <1>7 DEF RestTyped
<1>10. NewAreQuiet'
  BY <1>1, <1>3 DEF NewAreQuiet
<1> QED
  BY <1>6, <1>7, <1>8, <1>9, <1>10 DEF HubPart

LEMMA HubSame ==
  ASSUME HubPart, conns' = conns, subs' = subs, place' = place, alive' = alive, job' = job,
         asked' = asked, missed' = missed
  PROVE  HubPart'
<1>1. Owned'
  BY SameKeeps DEF HubPart
<1>2. RestTyped' /\ NewAreQuiet' /\ CalmReachesAll'
  BY DEF HubPart, RestTyped, NewAreQuiet, CalmReachesAll
<1>3. JobsOnCourse'
  BY SameJobs DEF HubPart, Onward
<1>4. OnlyTabsUnsubscribe'
  BY DEF HubPart, OnlyTabsUnsubscribe
<1> QED
  BY <1>1, <1>2, <1>3, <1>4 DEF HubPart

LEMMA HubBreak ==
  ASSUME HubPart, NEW a \in Actors, NEW j \in Job, ~j.calm, Break(a, j), asked' = asked
  PROVE  HubPart'
<1>1. missed' \subseteq Sockets \X BOOLEAN /\ CalmReachesAll'
  BY NoteKeeps DEF HubPart, Break
<1>2. CASE a = Listener
  <2>1. Register(conns, subs, a, Idle) /\ place' = place /\ alive' = alive
    BY <1>2 DEF Break
  <2>2. conns' = conns /\ subs' = subs
    BY <2>1 DEF Register
  <2>3. Owned'
    BY <2>1, <2>2, SameKeeps DEF HubPart
  <2>4. job' \in [Actors -> Job \cup {Idle}] /\ JobsOnCourse'
    BY <2>1, RegisterJobs DEF HubPart, Onward
  <2>5. RestTyped' /\ NewAreQuiet' /\ OnlyTabsUnsubscribe'
    BY <1>1, <2>1, <2>2, <2>4 DEF HubPart, RestTyped, NewAreQuiet, OnlyTabsUnsubscribe
  <2> QED
    BY <1>1, <2>3, <2>4, <2>5 DEF HubPart
<1>3. CASE a # Listener
  <2>1. a \in Sockets
    BY <1>3 DEF Actors
  <2>2. /\ Register(ConnsWithout({a}), SubsWithout({a}), a, Idle)
        /\ place' = [place EXCEPT ![a] = "over"] /\ alive' = [alive EXCEPT ![a] = FALSE]
    BY <1>3 DEF Break
  <2> QED
    BY <1>1, <2>1, <2>2, HubEnd
<1> QED
  BY <1>2, <1>3

(* The broadcast of a goes on to its next socket. *)
LEMMA HubMove ==
  ASSUME HubPart, NEW a \in Actors, NEW k, OnCourse(k, conns, subs, place, alive),
         job' = [job EXCEPT ![a] = k], conns' = conns, subs' = subs, place' = place,
         alive' = alive, missed' = missed, asked' = asked
  PROVE  HubPart'
<1>1. Owned'
  BY SameKeeps DEF HubPart
<1>2. job' \in [Actors -> Job \cup {Idle}]
  BY DEF HubPart, RestTyped, OnCourse
<1>3. RestTyped' /\ NewAreQuiet' /\ CalmReachesAll'
  BY <1>2 DEF HubPart, RestTyped, NewAreQuiet, CalmReachesAll
<1>4. JobsOnCourse'
  <2>1. SUFFICES ASSUME NEW b \in Actors, job'[b] # Idle
                 PROVE  OnCourse(job'[b], conns, subs, place, alive)
    BY DEF JobsOnCourse
  <2>2. CASE b = a
    BY <2>2 DEF HubPart, RestTyped
  <2>3. CASE b # a
    BY <2>1, <2>3 DEF HubPart, RestTyped, JobsOnCourse
  <2> QED
    BY <2>2, <2>3
<1>5. OnlyTabsUnsubscribe'
  BY DEF HubPart, OnlyTabsUnsubscribe
<1> QED
  BY <1>1, <1>3, <1>4, <1>5 DEF HubPart

LEMMA HubEnter ==
  ASSUME HubPart, NEW a \in Actors, NEW j, NEW M, Ready(j, M), Enter(a, j, M), asked' = asked
  PROVE  HubPart'
<1> USE HubAssumption DEF HubAssumption
<1>1. CASE {p \in M : conns[p] # {}} = {} /\ Finish(a, j)
  <2>1. \A p \in M : conns[p] = {}
    BY <1>1
  <2> QED
    BY <1>1, <2>1, HubFinish
<1>2. CASE ~({p \in M : conns[p] # {}} = {} /\ Finish(a, j))
  <2>0. PICK p \in M, K \in SUBSET (M \ {q \in M : conns[q] # {}}) :
          /\ conns[p] # {}
          /\ \E w \in conns[p] : job' = [job EXCEPT ![a] =
               [j EXCEPT !.outer = At(j.outer.size, M \ ({p} \cup K)),
                         !.inner = At(Cardinality(conns[p]), conns[p] \ {w}),
                         !.who = p, !.to = w]]
    BY <1>2 DEF Enter
  <2>1. PICK w \in conns[p] :
          job' = [job EXCEPT ![a] =
            [j EXCEPT !.outer = At(j.outer.size, M \ ({p} \cup K)),
                      !.inner = At(Cardinality(conns[p]), conns[p] \ {w}),
                      !.who = p, !.to = w]]
    BY <2>0
  <2>2. conns' = conns /\ subs' = subs /\ place' = place /\ alive' = alive /\ missed' = missed
    BY <1>2 DEF Enter, registry
  <2> DEFINE k == [j EXCEPT !.outer = At(j.outer.size, M \ ({p} \cup K)),
                            !.inner = At(Cardinality(conns[p]), conns[p] \ {w}),
                            !.who = p, !.to = w]
  <2>3. j \in Job /\ M \subseteq Principals /\ p \in Principals
    BY DEF Ready
  <2>4. conns[p] \subseteq Sockets
    BY <2>3 DEF HubPart, Owned, RegistryTyped
  <2>5. Cardinality(conns[p]) \in Nat
    BY <2>4, FS_Subset, FS_CardinalityType
  <2>6. /\ At(j.outer.size, M \ ({p} \cup K)) \in Iterator(Principals)
        /\ At(Cardinality(conns[p]), conns[p] \ {w}) \in Iterator(Sockets)
    BY <2>3, <2>4, <2>5, JobFields DEF At, Iterator
  <2>7. /\ k \in Job /\ k.dead = j.dead /\ k.owed = j.owed /\ k.conv = j.conv /\ k.calm = j.calm
        /\ k.to = w /\ k.inner = At(Cardinality(conns[p]), conns[p] \ {w})
        /\ k.outer = At(j.outer.size, M \ ({p} \cup K))
    BY <2>1, <2>3, <2>4, <2>6 DEF Job
  <2> HIDE DEF k
  <2>8. /\ k.inner.left = conns[p] \ {w} /\ k.inner.state = "exact"
        /\ k.outer.left = M \ ({p} \cup K) /\ k.outer.state = "exact"
    BY <2>7 DEF At
  <2>9. \A v \in k.inner.left \cup {k.to} : place[v] # "new"
    BY <2>1, <2>3, <2>7, <2>8 DEF HubPart, Owned, RegistryOwned
  <2>10. ASSUME k.calm, NEW v \in k.owed
         PROVE  v = k.to \/ v \in k.inner.left \/ Owner[v] \in k.outer.left
    <3>1. Owner[v] \in M /\ v \in conns[Owner[v]]
      BY <2>7, <2>10 DEF Ready, Reachable
    <3>2. CASE Owner[v] = p
      BY <2>7, <2>8, <3>1, <3>2
    <3>3. CASE Owner[v] # p
      BY <2>8, <3>1, <3>3
    <3> QED
      BY <3>2, <3>3
  <2>11. OnCourse(k, conns, subs, place, alive)
    BY <2>7, <2>8, <2>9, <2>10 DEF OnCourse, Ready
  <2>12. job' = [job EXCEPT ![a] = k]
    BY <2>1 DEF k
  <2> QED
    BY <2>2, <2>11, <2>12, HubMove
<1> QED
  BY <1>1, <1>2

LEMMA HubBegin ==
  ASSUME HubPart, NEW a \in Actors, NEW c \in Conversations, NEW e \in 0..MaxEvents,
         Begin(a, c, e), asked' = asked
  PROVE  HubPart'
<1> USE HubAssumption DEF HubAssumption
<1>1. PICK p \in Principals, w \in Sockets :
        Enter(a, [conv |-> c, event |-> e, who |-> p, to |-> w,
                  outer |-> At(Cardinality(subs[c]), subs[c]), inner |-> At(0, {}),
                  dead |-> {}, owed |-> Reachable(c, conns, subs), calm |-> TRUE], subs[c])
  BY DEF Begin
<1> DEFINE j == [conv |-> c, event |-> e, who |-> p, to |-> w,
                 outer |-> At(Cardinality(subs[c]), subs[c]), inner |-> At(0, {}),
                 dead |-> {}, owed |-> Reachable(c, conns, subs), calm |-> TRUE]
<1>2. subs[c] \subseteq Principals
  BY DEF HubPart, Owned, RegistryTyped
<1>3. Cardinality(subs[c]) \in Nat
  BY <1>2, FS_Subset, FS_CardinalityType
<1>4. /\ At(Cardinality(subs[c]), subs[c]) \in Iterator(Principals)
      /\ At(0, {}) \in Iterator(Sockets)
  BY <1>2, <1>3 DEF At, Iterator
<1>5. Reachable(c, conns, subs) \subseteq Sockets
  BY DEF Reachable
<1>6. j \in Job
  BY <1>4, <1>5 DEF Job
<1>7. \A v \in Reachable(c, conns, subs) : Owner[v] \in subs[c]
  BY DEF Reachable
<1>8. Ready(j, subs[c])
  BY <1>2, <1>6, <1>7 DEF Ready
<1>9. Enter(a, j, subs[c])
  BY <1>1
<1> HIDE DEF j
<1> QED
  BY <1>8, <1>9, HubEnter

(* One send of a broadcast, and what comes after it. *)
LEMMA HubDeliver ==
  ASSUME HubPart, NEW a \in Actors, Deliver(a)
  PROVE  HubPart'
<1> DEFINE i == job[a]
           j == Tried(i)
<1>1. i # Idle /\ Proceed(a, j) /\ asked' = asked
  BY DEF Deliver
<1>2. OnCourse(i, conns, subs, place, alive) /\ i \in Job
  BY <1>1 DEF HubPart, JobsOnCourse, OnCourse
<1>3. /\ i.to \in Sockets /\ i.dead \subseteq Sockets /\ i.owed \subseteq Sockets
      /\ i.calm \in BOOLEAN
  BY <1>2, JobFields
<1>4. /\ j \in Job /\ j.conv = i.conv /\ j.who = i.who /\ j.to = i.to
      /\ j.inner = i.inner /\ j.outer = i.outer /\ j.calm = i.calm
      /\ j.owed = i.owed \ {i.to}
      /\ j.dead \subseteq i.dead \cup {i.to} /\ (alive[i.to] => j.dead = i.dead)
  BY <1>2, <1>3 DEF Tried, Job
<1> HIDE DEF i, j
<1>5. \A w \in j.dead : place[w] # "new" /\ ~alive[w]
  BY <1>2, <1>4 DEF OnCourse
<1>6. j.owed \subseteq Reachable(j.conv, conns, subs)
  BY <1>2, <1>4 DEF OnCourse
<1>7. j.calm => /\ j.inner.state = "exact" /\ j.outer.state = "exact"
                /\ \A w \in j.owed : w \in j.inner.left \/ Owner[w] \in j.outer.left
  BY <1>2, <1>4 DEF OnCourse
<1>8. /\ j.inner \in Iterator(Sockets) /\ j.inner.left \subseteq Sockets
      /\ j.inner.size \in Nat /\ j.outer.left \subseteq Principals
      /\ j.who \in Principals /\ j.conv \in Conversations
  BY <1>4, JobFields
<1>9. /\ conns[j.who] \subseteq Sockets /\ subs[j.conv] \subseteq Principals
      /\ \A w \in conns[j.who] : place[w] # "new"
  BY <1>8 DEF HubPart, Owned, RegistryTyped, RegistryOwned
<1>10. CASE Break(a, j) /\ (Breaks(j.inner, conns[j.who]) \/ Breaks(j.outer, subs[j.conv]))
  <2>1. ~j.calm
    BY <1>7, <1>10 DEF Breaks
  <2> QED
    BY <1>1, <1>4, <1>10, <2>1, HubBreak
<1>11. ASSUME NEW L \in Ahead(j.inner, conns[j.who]), NEW w \in L,
              job' = [job EXCEPT ![a] = [j EXCEPT !.inner = At(@.size, L \ {w}), !.to = w]],
              UNCHANGED <<registry, place, alive, missed>>
       PROVE  HubPart'
  <2> DEFINE k == [j EXCEPT !.inner = At(@.size, L \ {w}), !.to = w]
  <2>1. /\ L \subseteq Sockets /\ \A v \in L : place[v] # "new"
        /\ j.calm => L = j.inner.left
    <3>1. CASE j.inner.state = "exact"
      <4>1. L = j.inner.left
        BY <3>1, <1>11 DEF Ahead
      <4>2. \A v \in j.inner.left : place[v] # "new"
        BY <1>2, <1>4 DEF OnCourse
      <4> QED
        BY <1>8, <4>1, <4>2
    <3>2. CASE j.inner.state # "exact"
      BY <1>7, <1>9, <3>2 DEF Ahead
    <3> QED
      BY <3>1, <3>2
  <2>2. At(j.inner.size, L \ {w}) \in Iterator(Sockets)
    BY <1>8, <2>1 DEF At, Iterator
  <2>3. /\ k \in Job /\ k.dead = j.dead /\ k.owed = j.owed /\ k.conv = j.conv
        /\ k.calm = j.calm /\ k.to = w /\ k.outer = j.outer
        /\ k.inner = At(j.inner.size, L \ {w})
    BY <1>4, <2>1, <2>2 DEF Job
  <2> HIDE DEF k
  <2>4. k.inner.left = L \ {w} /\ k.inner.state = "exact"
    BY <2>3 DEF At
  <2>5. \A v \in k.inner.left \cup {k.to} : place[v] # "new"
    BY <2>1, <2>3, <2>4
  <2>6. k.calm => /\ k.inner.state = "exact" /\ k.outer.state = "exact"
                  /\ \A v \in k.owed : v = k.to \/ v \in k.inner.left \/ Owner[v] \in k.outer.left
    BY <1>7, <2>1, <2>3, <2>4
  <2>7. OnCourse(k, conns, subs, place, alive)
    BY <1>5, <1>6, <2>3, <2>5, <2>6 DEF OnCourse
  <2>8. job' = [job EXCEPT ![a] = k]
    BY <1>11 DEF k
  <2> QED
    BY <1>1, <1>11, <2>7, <2>8, HubMove DEF registry
<1>12. ASSUME ~Breaks(j.inner, conns[j.who]), {} \in Ahead(j.inner, conns[j.who]),
              NEW M \in Ahead(j.outer, subs[j.conv]), Enter(a, j, M)
       PROVE  HubPart'
  <2>1. M \subseteq Principals /\ (j.calm => M = j.outer.left)
    BY <1>7, <1>8, <1>9 DEF Ahead
  <2>2. j.calm => \A w \in j.owed : Owner[w] \in M
    <3>1. j.calm => j.inner.left = {}
      BY <1>7, <1>12 DEF Ahead
    <3> QED
      BY <1>7, <2>1, <3>1
  <2>3. Ready(j, M)
    BY <1>4, <1>5, <1>6, <2>1, <2>2 DEF Ready
  <2> QED
    BY <1>1, <1>12, <2>3, HubEnter
<1> QED
  BY <1>1, <1>10, <1>11, <1>12 DEF Proceed

LEMMA HubConnect ==
  ASSUME HubPart, NEW w \in Sockets, Connect(w)
  PROVE  HubPart'
<1> USE HubAssumption DEF HubAssumption
<1>1. /\ Owned /\ RestTyped /\ NewAreQuiet /\ JobsOnCourse
      /\ OnlyTabsUnsubscribe /\ CalmReachesAll
  BY DEF HubPart
<1>2. /\ place[w] = "new" /\ place' = [place EXCEPT ![w] = "open"]
      /\ alive' = [alive EXCEPT ![w] = TRUE]
      /\ Register([conns EXCEPT ![Owner[w]] = @ \cup {w}], subs, w, Idle)
      /\ asked' = asked /\ missed' = missed
  BY DEF Connect
<1>3. conns' = [conns EXCEPT ![Owner[w]] = @ \cup {w}] /\ subs' = subs /\ w \in Actors
  BY <1>2 DEF Register, Actors
<1>4. /\ place'[w] = "open" /\ alive'[w] /\ alive' \in [Sockets -> BOOLEAN]
      /\ \A v \in Sockets \ {w} : place'[v] = place[v] /\ alive'[v] = alive[v]
  BY <1>1, <1>2 DEF Owned, RegistryTyped, RestTyped
<1>5. Onward
  BY <1>2, <1>4 DEF Onward
<1>6. Owned'
  BY <1>1, ConnectKeeps
<1>7. job' \in [Actors -> Job \cup {Idle}] /\ JobsOnCourse'
  BY <1>1, <1>2, <1>3, <1>5, RegisterJobs
<1>8. RestTyped' /\ CalmReachesAll'
  BY <1>1, <1>2, <1>4, <1>7 DEF RestTyped, CalmReachesAll
<1>9. NewAreQuiet'
  BY <1>1, <1>2, <1>4 DEF NewAreQuiet
<1>10. OnlyTabsUnsubscribe'
  <2>1. SUFFICES ASSUME NEW v \in Sockets, place'[v] = "open", alive'[v]
                 PROVE  /\ v \in conns'[Owner[v]]
                        /\ \A c \in asked[v] :
                             \/ Owner[v] \in subs[c]
                             \/ \E u \in Sockets \ {v} :
                                  Owner[u] = Owner[v] /\ place'[u] # "new" /\ ~alive'[u]
    BY <1>2, <1>3 DEF OnlyTabsUnsubscribe
  <2>2. conns \in [Principals -> SUBSET Sockets] /\ Owner[v] \in Principals
    BY <1>1 DEF Owned, RegistryTyped
  <2>3. CASE v = w
    <3>1. w \in conns'[Owner[w]]
      BY <1>3, <2>2, <2>3
    <3>2. asked[w] = {}
      BY <1>1, <1>2 DEF NewAreQuiet
    <3> QED
      BY <2>3, <3>1, <3>2
  <2>4. CASE v # w
    <3>1. place[v] = "open" /\ alive[v]
      BY <1>4, <2>1, <2>4
    <3>2. v \in conns[Owner[v]]
      BY <1>1, <3>1 DEF OnlyTabsUnsubscribe
    <3>3. v \in conns'[Owner[v]]
      BY <1>3, <2>2, <3>2
    <3>4. ASSUME NEW c \in asked[v]
          PROVE  \/ Owner[v] \in subs[c]
                 \/ \E u \in Sockets \ {v} :
                      Owner[u] = Owner[v] /\ place'[u] # "new" /\ ~alive'[u]
      BY <1>1, <1>5, <3>1, <3>4 DEF OnlyTabsUnsubscribe, Onward
    <3> QED
      BY <3>3, <3>4
  <2> QED
    BY <2>3, <2>4
<1> QED
  BY <1>6, <1>7, <1>8, <1>9, <1>10 DEF HubPart

LEMMA HubSubscribe ==
  ASSUME HubPart, NEW w \in Sockets, NEW c \in Conversations, Subscribe(w, c)
  PROVE  HubPart'
<1> USE HubAssumption DEF HubAssumption
<1>1. /\ Owned /\ RestTyped /\ NewAreQuiet /\ JobsOnCourse
      /\ OnlyTabsUnsubscribe /\ CalmReachesAll
  BY DEF HubPart
<1>2. /\ place[w] = "open" /\ asked' = [asked EXCEPT ![w] = @ \cup {c}]
      /\ Register(conns, [subs EXCEPT ![c] = @ \cup {Owner[w]}], w, Idle)
      /\ place' = place /\ alive' = alive /\ missed' = missed
  BY DEF Subscribe, Reading
<1>3. /\ conns' = conns /\ subs' = [subs EXCEPT ![c] = @ \cup {Owner[w]}] /\ w \in Actors
  BY <1>2 DEF Register, Actors
<1>4. Onward
  BY <1>2 DEF Onward
<1>5. Owned'
  BY <1>1, SubscribeKeeps
<1>6. job' \in [Actors -> Job \cup {Idle}] /\ JobsOnCourse'
  BY <1>1, <1>2, <1>3, <1>4, RegisterJobs
<1>7. /\ asked' \in [Sockets -> SUBSET Conversations]
      /\ asked'[w] = asked[w] \cup {c}
      /\ \A v \in Sockets \ {w} : asked'[v] = asked[v]
  BY <1>1, <1>2 DEF RestTyped
<1>8. RestTyped' /\ NewAreQuiet' /\ CalmReachesAll'
  BY <1>1, <1>2, <1>6, <1>7 DEF RestTyped, NewAreQuiet, CalmReachesAll
<1>9. /\ \A d \in Conversations : subs[d] \subseteq subs'[d]
      /\ Owner[w] \in subs'[c]
  BY <1>1, <1>3 DEF Owned, RegistryTyped
<1>10. OnlyTabsUnsubscribe'
  <2>1. SUFFICES ASSUME NEW v \in Sockets, place[v] = "open", alive[v]
                 PROVE  /\ v \in conns[Owner[v]]
                        /\ \A d \in asked'[v] :
                             \/ Owner[v] \in subs'[d]
                             \/ \E u \in Sockets \ {v} :
                                  Owner[u] = Owner[v] /\ place[u] # "new" /\ ~alive[u]
    BY <1>2, <1>3 DEF OnlyTabsUnsubscribe
  <2>2. v \in conns[Owner[v]]
    BY <1>1, <2>1 DEF OnlyTabsUnsubscribe
  <2>3. ASSUME NEW d \in asked'[v]
        PROVE  \/ Owner[v] \in subs'[d]
               \/ \E u \in Sockets \ {v} :
                    Owner[u] = Owner[v] /\ place[u] # "new" /\ ~alive[u]
    <3>1. CASE v = w /\ d = c
      BY <1>9, <3>1
    <3>2. CASE ~(v = w /\ d = c)
      <4>1. d \in asked[v] /\ d \in Conversations
        BY <1>7, <2>3, <3>2
      <4> QED
        BY <1>1, <1>9, <2>1, <4>1 DEF OnlyTabsUnsubscribe
    <3> QED
      BY <3>1, <3>2
  <2> QED
    BY <2>2, <2>3
<1> QED
  BY <1>5, <1>6, <1>8, <1>10 DEF HubPart

LEMMA HubLeave ==
  ASSUME HubPart, NEW w \in Sockets, Leave(w)
  PROVE  HubPart'
<1>1. /\ Owned /\ RestTyped /\ NewAreQuiet /\ JobsOnCourse
      /\ OnlyTabsUnsubscribe /\ CalmReachesAll
  BY DEF HubPart
<1>2. /\ alive' = [alive EXCEPT ![w] = FALSE] /\ place' = place /\ conns' = conns
      /\ subs' = subs /\ job' = job /\ asked' = asked /\ missed' = missed
  BY DEF Leave, registry
<1>3. /\ alive' \in [Sockets -> BOOLEAN] /\ ~alive'[w]
      /\ \A v \in Sockets : alive'[v] => alive[v]
  BY <1>1, <1>2 DEF RestTyped
<1>4. Onward
  BY <1>2, <1>3 DEF Onward
<1>5. Owned'
  BY <1>1, <1>2, SameKeeps
<1>6. JobsOnCourse'
  BY <1>1, <1>2, <1>4, SameJobs
<1>7. RestTyped' /\ NewAreQuiet' /\ CalmReachesAll'
  BY <1>1, <1>2, <1>3 DEF RestTyped, NewAreQuiet, CalmReachesAll
<1>8. OnlyTabsUnsubscribe'
  BY <1>1, <1>2, <1>3 DEF OnlyTabsUnsubscribe
<1> QED
  BY <1>5, <1>6, <1>7, <1>8 DEF HubPart

LEMMA HubInit ==
  ASSUME Init
  PROVE  HubPart
<1>1. Owned
  BY HubAssumption DEF Init, Owned, RegistryTyped, RegistryOwned
<1>2. RestTyped /\ NewAreQuiet /\ JobsOnCourse /\ OnlyTabsUnsubscribe /\ CalmReachesAll
  BY DEF Init, RestTyped, NewAreQuiet, JobsOnCourse, OnlyTabsUnsubscribe, CalmReachesAll
<1> QED
  BY <1>1, <1>2 DEF HubPart

-----------------------------------------------------------------------------
(* Events. *)

EventTyped ==
  /\ channel \in Seq([event : 1..MaxEvents, conv : Conversations])
  /\ listening \in BOOLEAN
  /\ published \in 0..MaxEvents
  /\ sends \in 0..MaxSends
  /\ received \in [Sockets -> Seq(1..MaxEvents)]

EventPart == EventTyped /\ EventsAhead /\ FanoutInOrder

(* The listening task goes on with its event, or is done with it. *)
ListenerKept ==
  job'[Listener] # Idle =>
    job[Listener] # Idle /\ job'[Listener].event = job[Listener].event

LEMMA RegisterEvent ==
  ASSUME JobsOnCourse, NEW C, NEW S, NEW a, Register(C, S, a, Idle)
  PROVE  ListenerKept
<1>1. SUFFICES ASSUME job'[Listener] # Idle
               PROVE  /\ job[Listener] # Idle
                      /\ job'[Listener].event = job[Listener].event
  BY DEF ListenerKept
<1>2. job[Listener] # Idle /\ job'[Listener] = Disturbed(job[Listener], C, S)
  BY <1>1 DEF Register, Actors
<1>3. job[Listener] \in Job
  BY <1>2 DEF JobsOnCourse, OnCourse, Actors
<1> QED
  BY <1>2, <1>3, DisturbedFields

LEMMA BreakEvent ==
  ASSUME HubPart, NEW a, NEW j, Break(a, j)
  PROVE  ListenerKept
  BY RegisterEvent DEF Break, HubPart

LEMMA EnterEvent ==
  ASSUME HubPart, NEW a \in Actors, NEW j \in Job, NEW M, Enter(a, j, M)
  PROVE  \/ ListenerKept
         \/ a = Listener /\ job'[Listener].event = j.event
<1>1. CASE Finish(a, j)
  BY <1>1, RegisterEvent DEF Finish, HubPart
<1>2. ASSUME NEW p, NEW K, NEW w,
             job' = [job EXCEPT ![a] =
               [j EXCEPT !.outer = At(j.outer.size, M \ ({p} \cup K)),
                         !.inner = At(Cardinality(conns[p]), conns[p] \ {w}),
                         !.who = p, !.to = w]]
      PROVE  \/ ListenerKept
             \/ a = Listener /\ job'[Listener].event = j.event
  <2> DEFINE k == [j EXCEPT !.outer = At(j.outer.size, M \ ({p} \cup K)),
                            !.inner = At(Cardinality(conns[p]), conns[p] \ {w}),
                            !.who = p, !.to = w]
  <2>1. k.event = j.event
    BY DEF Job
  <2> HIDE DEF k
  <2>2. job \in [Actors -> Job \cup {Idle}] /\ Listener \in Actors
    BY DEF HubPart, RestTyped, Actors
  <2>3. job' = [job EXCEPT ![a] = k]
    BY <1>2 DEF k
  <2>4. CASE a = Listener
    BY <2>1, <2>2, <2>3, <2>4
  <2>5. CASE a # Listener
    BY <2>2, <2>3, <2>5 DEF ListenerKept
  <2> QED
    BY <2>4, <2>5
<1> QED
  BY <1>1, <1>2 DEF Enter

(* A broadcast of any actor carries the event it began with. *)
LEMMA BeginEvent ==
  ASSUME HubPart, NEW a \in Actors, NEW c \in Conversations, NEW e \in 0..MaxEvents,
         Begin(a, c, e)
  PROVE  \/ ListenerKept
         \/ a = Listener /\ job'[Listener].event = e
<1> USE HubAssumption DEF HubAssumption
<1>1. PICK p \in Principals, w \in Sockets :
        Enter(a, [conv |-> c, event |-> e, who |-> p, to |-> w,
                  outer |-> At(Cardinality(subs[c]), subs[c]), inner |-> At(0, {}),
                  dead |-> {}, owed |-> Reachable(c, conns, subs), calm |-> TRUE], subs[c])
  BY DEF Begin
<1> DEFINE j == [conv |-> c, event |-> e, who |-> p, to |-> w,
                 outer |-> At(Cardinality(subs[c]), subs[c]), inner |-> At(0, {}),
                 dead |-> {}, owed |-> Reachable(c, conns, subs), calm |-> TRUE]
<1>2. subs[c] \subseteq Principals
  BY DEF HubPart, Owned, RegistryTyped
<1>3. Cardinality(subs[c]) \in Nat
  BY <1>2, FS_Subset, FS_CardinalityType
<1>4. /\ At(Cardinality(subs[c]), subs[c]) \in Iterator(Principals)
      /\ At(0, {}) \in Iterator(Sockets)
  BY <1>2, <1>3 DEF At, Iterator
<1>5. Reachable(c, conns, subs) \subseteq Sockets
  BY DEF Reachable
<1>6. j \in Job /\ j.event = e
  BY <1>4, <1>5 DEF Job
<1>7. Enter(a, j, subs[c])
  BY <1>1
<1> HIDE DEF j
<1> QED
  BY <1>6, <1>7, EnterEvent

LEMMA DeliverEvent ==
  ASSUME HubPart, NEW a \in Actors, Deliver(a)
  PROVE  ListenerKept /\ channel' = channel
<1> DEFINE i == job[a]
           j == Tried(i)
<1>1. i # Idle /\ Proceed(a, j)
  BY DEF Deliver
<1>2. i \in Job
  BY <1>1 DEF HubPart, JobsOnCourse, OnCourse
<1>3. i.to \in Sockets /\ i.dead \subseteq Sockets /\ i.owed \subseteq Sockets
  BY <1>2, JobFields
<1>4. j \in Job /\ j.event = i.event
  BY <1>2, <1>3 DEF Tried, Job
<1>5. job \in [Actors -> Job \cup {Idle}] /\ Listener \in Actors
  BY DEF HubPart, RestTyped, Actors
<1>6. a = Listener => job[Listener] = i
  OBVIOUS
<1> HIDE DEF i, j
<1>7. CASE Break(a, j)
  BY <1>7, BreakEvent DEF Break
<1>8. ASSUME NEW L, NEW w, UNCHANGED channel,
             job' = [job EXCEPT ![a] = [j EXCEPT !.inner = At(@.size, L \ {w}), !.to = w]]
      PROVE  ListenerKept /\ channel' = channel
  <2> DEFINE k == [j EXCEPT !.inner = At(@.size, L \ {w}), !.to = w]
  <2>1. k.event = i.event
    BY <1>4 DEF Job
  <2>2. job' = [job EXCEPT ![a] = k]
    BY <1>8
  <2> HIDE DEF k
  <2>3. CASE a = Listener
    BY <1>1, <1>5, <1>6, <1>8, <2>1, <2>2, <2>3 DEF ListenerKept
  <2>4. CASE a # Listener
    BY <1>5, <1>8, <2>2, <2>4 DEF ListenerKept
  <2> QED
    BY <1>8, <2>3, <2>4
<1>9. ASSUME NEW M, Enter(a, j, M), UNCHANGED channel
      PROVE  ListenerKept /\ channel' = channel
  BY <1>1, <1>4, <1>6, <1>9, EnterEvent DEF ListenerKept
<1> QED
  BY <1>1, <1>7, <1>8, <1>9 DEF Proceed

LEMMA EventSame ==
  ASSUME EventPart, ListenerKept, channel' = channel, listening' \in BOOLEAN,
         published' = published, sends' \in 0..MaxSends, received' = received
  PROVE  EventPart'
<1>1. EventTyped'
  BY DEF EventPart, EventTyped
<1>2. EventsAhead'
  BY DEF EventPart, EventsAhead, ListenerKept
<1>3. FanoutInOrder'
  BY DEF EventPart, FanoutInOrder
<1> QED
  BY <1>1, <1>2, <1>3 DEF EventPart

(* A peer hears the event that the listening task is broadcasting. *)
LEMMA EventHear ==
  ASSUME HubPart, EventPart, NEW a \in Actors, Deliver(a)
  PROVE  EventPart'
<1>1. ListenerKept /\ channel' = channel
  BY DeliverEvent
<1>2. job[a] # Idle /\ Hear(a) /\ UNCHANGED <<listening, published, sends, asked>>
  BY DEF Deliver
<1>3. CASE received' = received
  BY <1>1, <1>2, <1>3, EventSame DEF EventPart, EventTyped
<1>4. CASE received' # received
  <2> DEFINE e == job[Listener].event
             t == job[Listener].to
  <2>1. /\ job[Listener] # Idle /\ received' = [received EXCEPT ![t] = Append(@, e)]
    BY <1>2, <1>4 DEF Hear
  <2>2. t \in Sockets
    BY <2>1, JobFields DEF HubPart, JobsOnCourse, OnCourse, Actors
  <2>3. e \in 1..published /\ published \in 0..MaxEvents
    BY <2>1 DEF EventPart, EventsAhead, EventTyped
  <2> HIDE DEF e, t
  <2>4. e \in 1..MaxEvents /\ e \in Nat
    BY <2>3, HubAssumption DEF HubAssumption
  <2>5. received \in [Sockets -> Seq(1..MaxEvents)]
    BY DEF EventPart, EventTyped
  <2>6. received' \in [Sockets -> Seq(1..MaxEvents)]
    BY <2>1, <2>2, <2>4, <2>5
  <2>7. /\ received'[t] = Append(received[t], e)
        /\ \A w \in Sockets : w # t => received'[w] = received[w]
    BY <2>1, <2>2, <2>5
  <2>8. EventTyped'
    BY <1>1, <1>2, <2>6 DEF EventPart, EventTyped
  <2>9. /\ \A w \in Sockets : \A k \in 1..Len(received[w]) :
             received[w][k] \in 1..MaxEvents /\ received[w][k] <= e
        /\ \A k \in 1..Len(channel) : e < channel[k].event
        /\ job'[Listener] # Idle => job'[Listener].event = e
    <3>1. \A w \in Sockets : \A k \in 1..Len(received[w]) : received[w][k] \in 1..MaxEvents
      BY <2>5, ElementOfSeq
    <3>2. /\ \A w \in Sockets : \A k \in 1..Len(received[w]) : received[w][k] <= e
          /\ \A k \in 1..Len(channel) : e < channel[k].event
      BY <2>1 DEF e, EventPart, EventsAhead
    <3>3. job'[Listener] # Idle => job'[Listener].event = e
      BY <1>1 DEF e, ListenerKept
    <3> QED
      BY <3>1, <3>2, <3>3
  <2>10. ASSUME NEW w \in Sockets, NEW k \in 1..Len(received'[w])
         PROVE  received'[w][k] <= e /\ received'[w][k] \in Nat
    <3>1. CASE w # t
      <4>1. k \in 1..Len(received[w]) /\ received'[w][k] = received[w][k]
        BY <2>7, <2>10, <3>1
      <4> QED
        BY <2>9, <4>1
    <3>2. CASE w = t /\ k \in 1..Len(received[t])
      <4>1. received'[w][k] = received[t][k]
        BY <2>2, <2>5, <2>7, <3>2
      <4> QED
        BY <2>2, <2>9, <3>2, <4>1
    <3>3. CASE w = t /\ k \notin 1..Len(received[t])
      <4>1. Len(received[t]) \in Nat /\ Len(received'[t]) = Len(received[t]) + 1
        BY <2>2, <2>5, <2>7
      <4>2. k = Len(received[t]) + 1
        BY <2>10, <3>3, <4>1
      <4>3. received'[w][k] = e
        BY <2>2, <2>5, <2>7, <3>3, <4>2
      <4> QED
        BY <2>4, <4>3
    <3> QED
      BY <3>1, <3>2, <3>3
  <2>11. EventsAhead'
    <3>1. job'[Listener] # Idle => job'[Listener].event \in 1..published'
      BY <1>2, <2>3, <2>9
    <3>2. \A k \in 1..Len(channel) :
            /\ channel[k].event \in 1..published
            /\ \A i \in 1..Len(channel) : i < k => channel[i].event < channel[k].event
      BY DEF EventPart, EventsAhead
    <3>3. \A w \in Sockets : \A i \in 1..Len(received'[w]) :
            /\ received'[w][i] <= published
            /\ job'[Listener] # Idle => received'[w][i] <= job'[Listener].event
            /\ \A k \in 1..Len(channel) : received'[w][i] < channel[k].event
      <4>1. SUFFICES ASSUME NEW w \in Sockets, NEW i \in 1..Len(received'[w])
                     PROVE  /\ received'[w][i] <= published
                            /\ job'[Listener] # Idle => received'[w][i] <= job'[Listener].event
                            /\ \A k \in 1..Len(channel) : received'[w][i] < channel[k].event
        OBVIOUS
      <4>2. received'[w][i] <= e /\ received'[w][i] \in Nat
        BY <2>10
      <4>3. ASSUME NEW k \in 1..Len(channel)
            PROVE  received'[w][i] < channel[k].event
        <5>1. e < channel[k].event /\ channel[k].event \in Nat
          BY <2>3, <2>9, <3>2
        <5> QED
          BY <2>4, <4>2, <5>1
      <4>4. received'[w][i] <= published
        BY <2>3, <2>4, <4>2
      <4> QED
        BY <2>9, <4>2, <4>3, <4>4
    <3> QED
      BY <1>1, <1>2, <2>9, <3>1, <3>2, <3>3 DEF EventsAhead
  <2>12. FanoutInOrder'
    <3>1. SUFFICES ASSUME NEW w \in Sockets, NEW i \in 1..Len(received'[w]),
                          NEW k \in 1..Len(received'[w]), i < k
                   PROVE  received'[w][i] <= received'[w][k]
      BY DEF FanoutInOrder
    <3>2. CASE w # t
      BY <2>7, <3>1, <3>2 DEF EventPart, FanoutInOrder
    <3>3. CASE w = t
      <4>1. Len(received[t]) \in Nat /\ Len(received'[t]) = Len(received[t]) + 1
        BY <2>2, <2>5, <2>7
      <4>2. CASE k = Len(received[t]) + 1
        <5>1. received'[w][k] = e
          BY <2>2, <2>5, <2>7, <3>3, <4>2
        <5> QED
          BY <2>10, <5>1
      <4>3. CASE k # Len(received[t]) + 1
        <5>1. i \in 1..Len(received[t]) /\ k \in 1..Len(received[t])
          BY <3>1, <3>3, <4>1, <4>3
        <5>2. received'[w][i] = received[t][i] /\ received'[w][k] = received[t][k]
          BY <2>2, <2>5, <2>7, <3>3, <5>1
        <5> QED
          BY <2>2, <3>1, <5>1, <5>2 DEF EventPart, FanoutInOrder
      <4> QED
        BY <4>2, <4>3
    <3> QED
      BY <3>2, <3>3
  <2> QED
    BY <2>8, <2>11, <2>12 DEF EventPart
<1> QED
  BY <1>3, <1>4

LEMMA EventDispatch ==
  ASSUME HubPart, EventPart, Dispatch
  PROVE  EventPart'
<1> DEFINE e == Head(channel).event
<1>1. /\ channel # <<>> /\ channel' = Tail(channel)
      /\ job[Listener] = Idle
      /\ Begin(Listener, Head(channel).conv, Head(channel).event)
      /\ UNCHANGED <<listening, published, sends, received, asked>>
  BY DEF Dispatch
<1>2. channel \in Seq([event : 1..MaxEvents, conv : Conversations])
  BY DEF EventPart, EventTyped
<1>3. /\ Tail(channel) \in Seq([event : 1..MaxEvents, conv : Conversations])
      /\ Len(channel) \in Nat \ {0} /\ Len(Tail(channel)) = Len(channel) - 1
      /\ Head(channel) = channel[1]
      /\ \A k \in 1..Len(channel) - 1 : Tail(channel)[k] = channel[k + 1]
  BY <1>1, <1>2
<1>4. Head(channel).conv \in Conversations /\ e \in 1..MaxEvents
  <2>1. 1 \in 1..Len(channel)
    BY <1>3
  <2>2. channel[1] \in [event : 1..MaxEvents, conv : Conversations]
    BY <1>2, <2>1, ElementOfSeq
  <2> QED
    BY <1>3, <2>2
<1>5. job'[Listener] # Idle => job'[Listener].event = e
  <2>1. e \in 0..MaxEvents /\ Listener \in Actors
    BY <1>4 DEF Actors
  <2>2. ListenerKept \/ job'[Listener].event = e
    BY <1>1, <1>4, <2>1, BeginEvent
  <2> QED
    BY <1>1, <2>2 DEF ListenerKept
<1>6. /\ e \in 1..published
      /\ \A k \in 1..Len(channel) : 1 < k => e < channel[k].event
      /\ \A w \in Sockets : \A i \in 1..Len(received[w]) : received[w][i] < e
  <2>1. 1 \in 1..Len(channel)
    BY <1>3
  <2> QED
    BY <1>3, <2>1 DEF EventPart, EventsAhead
<1> HIDE DEF e
<1>7. ASSUME NEW k \in 1..Len(channel')
      PROVE  /\ k + 1 \in 1..Len(channel) /\ 1 < k + 1 /\ channel'[k] = channel[k + 1]
             /\ channel'[k].event \in 1..published
             /\ e < channel'[k].event
  <2>1. k + 1 \in 1..Len(channel) /\ 1 < k + 1 /\ k \in 1..Len(channel) - 1
    BY <1>1, <1>3, <1>7
  <2>2. channel'[k] = channel[k + 1]
    BY <1>1, <1>3, <2>1
  <2>3. channel[k + 1].event \in 1..published
    BY <2>1 DEF EventPart, EventsAhead
  <2> QED
    BY <1>6, <2>1, <2>2, <2>3
<1>8. EventTyped'
  BY <1>1, <1>3 DEF EventPart, EventTyped
<1>9. EventsAhead'
  <2>1. ASSUME NEW k \in 1..Len(channel'), NEW i \in 1..Len(channel'), i < k
        PROVE  channel'[i].event < channel'[k].event
    <3>1. i + 1 \in 1..Len(channel) /\ k + 1 \in 1..Len(channel) /\ i + 1 < k + 1
      BY <1>7, <2>1
    <3>2. channel[i + 1].event < channel[k + 1].event
      BY <3>1 DEF EventPart, EventsAhead
    <3> QED
      BY <1>7, <3>2
  <2>2. ASSUME NEW w \in Sockets, NEW i \in 1..Len(received[w])
        PROVE  /\ received[w][i] <= published /\ received[w][i] <= e
               /\ \A k \in 1..Len(channel') : received[w][i] < channel'[k].event
    <3>1. received[w][i] <= published /\ received[w][i] < e
      BY <1>6, <2>2 DEF EventPart, EventsAhead
    <3>2. received[w][i] \in Nat
      <4>1. received[w] \in Seq(1..MaxEvents)
        BY DEF EventPart, EventTyped
      <4>2. received[w][i] \in 1..MaxEvents
        BY <2>2, <4>1, ElementOfSeq
      <4> QED
        BY <4>2
    <3>3. received[w][i] <= e
      BY <1>6, <3>1, <3>2
    <3>4. ASSUME NEW k \in 1..Len(channel')
          PROVE  received[w][i] < channel'[k].event
      <4>1. k + 1 \in 1..Len(channel) /\ channel'[k] = channel[k + 1]
        BY <1>7
      <4> QED
        BY <2>2, <4>1 DEF EventPart, EventsAhead
    <3> QED
      BY <3>1, <3>3, <3>4
  <2> QED
    BY <1>1, <1>5, <1>6, <1>7, <2>1, <2>2 DEF EventsAhead
<1>10. FanoutInOrder'
  BY <1>1 DEF EventPart, FanoutInOrder
<1> QED
  BY <1>8, <1>9, <1>10 DEF EventPart

LEMMA EventPublish ==
  ASSUME HubPart, EventPart, NEW c \in Conversations, Publish(c)
  PROVE  EventPart'
<1> USE HubAssumption DEF HubAssumption
<1>1. /\ published < MaxEvents /\ published' = published + 1
      /\ UNCHANGED <<registry, place, alive, job, listening, sends, received, asked, missed>>
  BY DEF Publish
<1>2. /\ published \in 0..MaxEvents /\ received \in [Sockets -> Seq(1..MaxEvents)]
      /\ channel \in Seq([event : 1..MaxEvents, conv : Conversations])
  BY DEF EventPart, EventTyped
<1>3. published' \in 0..MaxEvents /\ published \in Nat
  BY <1>1, <1>2
<1>4. FanoutInOrder'
  BY <1>1 DEF EventPart, FanoutInOrder
<1>5. CASE ~listening
  <2>1. channel' = channel
    BY <1>5 DEF Publish
  <2>2. EventTyped'
    BY <1>1, <1>3, <2>1 DEF EventPart, EventTyped
  <2>3. EventsAhead'
    <3>1. job[Listener] # Idle => job[Listener].event \in 1..published + 1
      BY <1>3 DEF EventPart, EventsAhead
    <3>2. \A k \in 1..Len(channel) : channel[k].event \in 1..published + 1
      BY <1>3 DEF EventPart, EventsAhead
    <3>3. \A w \in Sockets : \A i \in 1..Len(received[w]) : received[w][i] <= published + 1
      <4>1. SUFFICES ASSUME NEW w \in Sockets, NEW i \in 1..Len(received[w])
                     PROVE  received[w][i] <= published + 1
        OBVIOUS
      <4>2. received[w][i] \in Nat /\ received[w][i] <= published
        BY <1>2 DEF EventPart, EventsAhead
      <4> QED
        BY <1>3, <4>2
    <3> QED
      BY <1>1, <2>1, <3>1, <3>2, <3>3 DEF EventPart, EventsAhead
  <2> QED
    BY <1>4, <2>2, <2>3 DEF EventPart
<1>6. CASE listening
  <2> DEFINE new == [event |-> published + 1, conv |-> c]
  <2>1. channel' = Append(channel, new)
    BY <1>6 DEF Publish
  <2>2. new \in [event : 1..MaxEvents, conv : Conversations] /\ new.event = published + 1
    BY <1>1, <1>2
  <2> HIDE DEF new
  <2>3. /\ channel' \in Seq([event : 1..MaxEvents, conv : Conversations])
        /\ Len(channel) \in Nat /\ Len(channel') = Len(channel) + 1
        /\ \A k \in 1..Len(channel) : channel'[k] = channel[k]
        /\ channel'[Len(channel) + 1] = new
    BY <1>2, <2>1, <2>2
  <2>4. EventTyped'
    BY <1>1, <1>3, <2>3 DEF EventPart, EventTyped
  <2>5. \A k \in 1..Len(channel) : channel[k].event \in 1..published
    BY DEF EventPart, EventsAhead
  <2>6. job[Listener] # Idle => job[Listener].event \in 1..published
    BY DEF EventPart, EventsAhead
  <2>7. \A w \in Sockets : \A i \in 1..Len(received[w]) :
          received[w][i] \in Nat /\ received[w][i] <= published
    BY <1>2 DEF EventPart, EventsAhead
  <2>8. ASSUME NEW k \in 1..Len(channel')
        PROVE  /\ channel'[k].event \in 1..published + 1
               /\ \A i \in 1..Len(channel') : i < k => channel'[i].event < channel'[k].event
               /\ job[Listener] # Idle => job[Listener].event < channel'[k].event
               /\ \A w \in Sockets : \A i \in 1..Len(received[w]) :
                    received[w][i] < channel'[k].event
    <3>1. CASE k \in 1..Len(channel)
      <4>1. channel'[k] = channel[k]
        BY <2>3, <3>1
      <4>2. channel[k].event \in 1..published + 1
        BY <1>3, <2>5, <3>1
      <4>3. ASSUME NEW i \in 1..Len(channel'), i < k
            PROVE  channel'[i].event < channel'[k].event
        <5>1. i \in 1..Len(channel)
          BY <2>3, <3>1, <4>3
        <5> QED
          BY <2>3, <3>1, <4>3, <5>1 DEF EventPart, EventsAhead
      <4> QED
        BY <3>1, <4>1, <4>2, <4>3 DEF EventPart, EventsAhead
    <3>2. CASE k \notin 1..Len(channel)
      <4>1. k = Len(channel) + 1 /\ channel'[k].event = published + 1
        BY <2>2, <2>3, <2>8, <3>2
      <4>2. ASSUME NEW i \in 1..Len(channel'), i < k
            PROVE  channel'[i].event < published + 1
        <5>1. i \in 1..Len(channel)
          BY <2>3, <4>1, <4>2
        <5>2. channel'[i].event \in 1..published
          BY <2>3, <2>5, <5>1
        <5> QED
          BY <1>3, <5>2
      <4>3. job[Listener] # Idle => job[Listener].event < published + 1
        BY <1>3, <2>6
      <4>4. \A w \in Sockets : \A i \in 1..Len(received[w]) : received[w][i] < published + 1
        BY <1>3, <2>7
      <4>5. published + 1 \in 1..published + 1
        BY <1>3
      <4> QED
        BY <4>1, <4>2, <4>3, <4>4, <4>5
    <3> QED
      BY <3>1, <3>2
  <2>9. EventsAhead'
    <3>1. job[Listener] # Idle => job[Listener].event \in 1..published + 1
      BY <1>3, <2>6
    <3>2. \A w \in Sockets : \A i \in 1..Len(received[w]) :
            /\ received[w][i] <= published + 1
            /\ job[Listener] # Idle => received[w][i] <= job[Listener].event
      <4>1. SUFFICES ASSUME NEW w \in Sockets, NEW i \in 1..Len(received[w])
                     PROVE  /\ received[w][i] <= published + 1
                            /\ job[Listener] # Idle => received[w][i] <= job[Listener].event
        OBVIOUS
      <4>2. received[w][i] <= published + 1
        BY <1>3, <2>7
      <4> QED
        BY <4>2 DEF EventPart, EventsAhead
    <3> QED
      BY <1>1, <2>8, <3>1, <3>2 DEF EventsAhead
  <2> QED
    BY <1>4, <2>4, <2>9 DEF EventPart
<1> QED
  BY <1>5, <1>6

LEMMA EventStopListening ==
  ASSUME EventPart, StopListening
  PROVE  EventPart'
<1>1. /\ channel' = <<>> /\ listening' = FALSE
      /\ UNCHANGED <<registry, place, alive, job, published, sends, received, asked, missed>>
  BY DEF StopListening
<1>2. channel' \in Seq([event : 1..MaxEvents, conv : Conversations]) /\ Len(channel') = 0
  BY <1>1
<1>3. EventTyped'
  BY <1>1, <1>2 DEF EventPart, EventTyped
<1>4. 1..Len(channel') = {}
  BY <1>2
<1>5. EventsAhead'
  BY <1>1, <1>4 DEF EventPart, EventsAhead
<1>6. FanoutInOrder'
  BY <1>1 DEF EventPart, FanoutInOrder
<1> QED
  BY <1>3, <1>5, <1>6 DEF EventPart

-----------------------------------------------------------------------------
(* Both parts are inductive together. *)

LEMMA ConnectBoth ==
  ASSUME HubPart, EventPart, NEW w \in Sockets, Connect(w)
  PROVE  HubPart' /\ EventPart'
<1>1. ListenerKept
  BY RegisterEvent DEF HubPart, Connect
<1>2. EventPart'
  BY <1>1, EventSame DEF Connect, EventPart, EventTyped
<1> QED
  BY <1>2, HubConnect

LEMMA SubscribeBoth ==
  ASSUME HubPart, EventPart, NEW w \in Sockets, NEW c \in Conversations, Subscribe(w, c)
  PROVE  HubPart' /\ EventPart'
<1>1. ListenerKept
  BY RegisterEvent DEF HubPart, Subscribe
<1>2. EventPart'
  BY <1>1, EventSame DEF Subscribe, EventPart, EventTyped
<1> QED
  BY <1>2, HubSubscribe

LEMMA LeaveBoth ==
  ASSUME HubPart, EventPart, NEW w \in Sockets, Leave(w)
  PROVE  HubPart' /\ EventPart'
<1>1. ListenerKept
  BY DEF Leave, ListenerKept
<1>2. EventPart'
  BY <1>1, EventSame DEF Leave, EventPart, EventTyped
<1> QED
  BY <1>2, HubLeave

LEMMA OverBoth ==
  ASSUME HubPart, EventPart, NEW w \in Sockets, Over(w)
  PROVE  HubPart' /\ EventPart'
<1>1. ListenerKept
  BY RegisterEvent DEF HubPart, Over
<1>2. EventPart'
  BY <1>1, EventSame DEF Over, EventPart, EventTyped
<1>3. missed' \subseteq Sockets \X BOOLEAN /\ CalmReachesAll'
  BY DEF Over, HubPart, RestTyped, CalmReachesAll
<1>4. HubPart'
  BY <1>3, HubEnd DEF Over
<1> QED
  BY <1>2, <1>4

LEMMA BroadcastBoth ==
  ASSUME HubPart, EventPart, NEW w \in Sockets, NEW c \in Conversations, Broadcast(w, c)
  PROVE  HubPart' /\ EventPart'
<1>1. /\ w \in Actors /\ w # Listener /\ 0 \in 0..MaxEvents
  BY HubAssumption DEF HubAssumption, Actors
<1>2. /\ Begin(w, c, 0) /\ sends' = sends + 1 /\ sends < MaxSends /\ asked' = asked
      /\ channel' = channel /\ listening' = listening /\ published' = published
      /\ received' = received
  BY DEF Broadcast
<1>3. ListenerKept
  BY <1>1, <1>2, BeginEvent
<1>4. listening \in BOOLEAN /\ sends' \in 0..MaxSends
  BY <1>2, HubAssumption DEF HubAssumption, EventPart, EventTyped
<1>5. EventPart'
  BY <1>2, <1>3, <1>4, EventSame
<1> QED
  BY <1>1, <1>2, <1>5, HubBegin

LEMMA DispatchBoth ==
  ASSUME HubPart, EventPart, Dispatch
  PROVE  HubPart' /\ EventPart'
<1>1. /\ channel # <<>> /\ asked' = asked
      /\ Begin(Listener, Head(channel).conv, Head(channel).event)
  BY DEF Dispatch
<1>2. channel \in Seq([event : 1..MaxEvents, conv : Conversations])
  BY DEF EventPart, EventTyped
<1>3. Head(channel) \in [event : 1..MaxEvents, conv : Conversations]
  BY <1>1, <1>2, HeadTailProperties
<1>4. /\ Head(channel).conv \in Conversations /\ Head(channel).event \in 0..MaxEvents
      /\ Listener \in Actors
  BY <1>3 DEF Actors
<1>5. HubPart'
  BY <1>1, <1>4, HubBegin
<1> QED
  BY <1>5, EventDispatch

LEMMA HubStep ==
  ASSUME HubPart, EventPart, [Next]_vars
  PROVE  HubPart' /\ EventPart'
<1>1. CASE UNCHANGED vars
  <2>1. ListenerKept
    BY <1>1 DEF vars, ListenerKept
  <2>2. EventPart'
    BY <1>1, <2>1, EventSame DEF vars, EventPart, EventTyped
  <2> QED
    BY <1>1, <2>2, HubSame DEF vars
<1>2. ASSUME NEW w \in Sockets, Connect(w) \/ Leave(w) \/ Over(w)
      PROVE  HubPart' /\ EventPart'
  BY <1>2, ConnectBoth, LeaveBoth, OverBoth
<1>3. ASSUME NEW w \in Sockets, NEW c \in Conversations, Subscribe(w, c) \/ Broadcast(w, c)
      PROVE  HubPart' /\ EventPart'
  BY <1>3, SubscribeBoth, BroadcastBoth
<1>4. ASSUME NEW a \in Actors, Deliver(a)
      PROVE  HubPart' /\ EventPart'
  BY <1>4, HubDeliver, EventHear
<1>5. ASSUME NEW c \in Conversations, Publish(c)
      PROVE  HubPart' /\ EventPart'
  <2>1. HubPart'
    BY <1>5, HubSame DEF Publish, registry
  <2> QED
    BY <1>5, <2>1, EventPublish
<1>6. CASE Dispatch
  BY <1>6, DispatchBoth
<1>7. CASE StopListening
  <2>1. HubPart'
    BY <1>7, HubSame DEF StopListening, registry
  <2> QED
    BY <1>7, <2>1, EventStopListening
<1> QED
  BY <1>1, <1>2, <1>3, <1>4, <1>5, <1>6, <1>7 DEF Next

LEMMA EventInit ==
  ASSUME Init
  PROVE  EventPart
<1>1. EventTyped
  BY HubAssumption DEF HubAssumption, Init, EventTyped
<1>2. /\ job[Listener] = Idle /\ Len(channel) = 0
      /\ \A w \in Sockets : Len(received[w]) = 0
  BY DEF Init, Actors
<1>3. EventsAhead /\ FanoutInOrder
  BY <1>2 DEF EventsAhead, FanoutInOrder
<1> QED
  BY <1>1, <1>3 DEF EventPart

LEMMA PartsMakeInvariant ==
  ASSUME HubPart, EventPart
  PROVE  HubInvariant
<1>1. TypeOK
  BY DEF HubPart, Owned, RegistryTyped, RestTyped, EventPart, EventTyped, TypeOK
<1> QED
  BY <1>1 DEF HubPart, Owned, EventPart, HubInvariant

(* HubInvariant, all that the properties of the instance rest on, holds     *)
(* throughout: for any numbers of sockets, events and frames, however      *)
(* broadcasts, connects and disconnects interleave.                        *)
THEOREM HubInductive == Spec => []HubInvariant
<1>1. Init => HubPart /\ EventPart
  BY HubInit, EventInit
<1>2. HubPart /\ EventPart /\ [Next]_vars => (HubPart /\ EventPart)'
  BY HubStep
<1>3. HubPart /\ EventPart => HubInvariant
  BY PartsMakeInvariant
<1> QED
  BY <1>1, <1>2, <1>3, PTL DEF Spec

(* Every variable of the hub keeps its type. *)
THEOREM HubTyping == Spec => []TypeOK
<1>1. HubInvariant => TypeOK
  BY DEF HubInvariant
<1> QED
  BY <1>1, HubInductive, PTL

(* A broadcast of manager.py:45 that was not disturbed leaves out no socket *)
(* that was registered and subscribed all the time.                        *)
THEOREM CalmBroadcasts == Spec => []CalmReachesAll
<1>1. HubInvariant => CalmReachesAll
  BY DEF HubInvariant
<1> QED
  BY <1>1, HubInductive, PTL

(* Broadcasts that find sockets dead disconnect nobody who is there, and    *)
(* only a tab that is gone costs its principal a subscription.             *)
THEOREM OnlyTabs == Spec => []OnlyTabsUnsubscribe
<1>1. HubInvariant => OnlyTabsUnsubscribe
  BY DEF HubInvariant
<1> QED
  BY <1>1, HubInductive, PTL

(* The listening task hands the events of the channel to each client in the *)
(* channel's order.                                                        *)
THEOREM InOrder == Spec => []FanoutInOrder
<1>1. HubInvariant => FanoutInOrder
  BY DEF HubInvariant
<1> QED
  BY <1>1, HubInductive, PTL
=============================================================================
