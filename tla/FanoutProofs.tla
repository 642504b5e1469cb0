---------------------------- MODULE FanoutProofs ----------------------------
(***************************************************************************)
(* Proofs about Fanout, for any number of messages, instances, sockets and *)
(* principals and any length of the queues.                                *)
(***************************************************************************)
EXTENDS Fanout, SequenceTheorems, TLAPS

Elements(q) == {q[k] : k \in 1..Len(q)}

LEMMA AppendElements ==
  ASSUME NEW S, NEW q \in Seq(S), NEW m \in S
  PROVE  /\ Append(q, m) \in Seq(S)
         /\ Elements(Append(q, m)) = Elements(q) \cup {m}
<1>1. /\ Append(q, m) \in Seq(S) /\ Len(Append(q, m)) = Len(q) + 1 /\ Len(q) \in Nat
      /\ \A k \in 1..Len(q) : Append(q, m)[k] = q[k]
      /\ Append(q, m)[Len(q) + 1] = m
  OBVIOUS
<1>2. Elements(Append(q, m)) \subseteq Elements(q) \cup {m}
  <2>1. SUFFICES ASSUME NEW k \in 1..(Len(q) + 1)
                 PROVE  Append(q, m)[k] \in Elements(q) \cup {m}
    BY <1>1 DEF Elements
  <2>2. CASE k \in 1..Len(q)
    BY <1>1, <2>2 DEF Elements
  <2>3. CASE k = Len(q) + 1
    BY <1>1, <2>3
  <2> QED
    BY <1>1, <2>2, <2>3
<1>3. Elements(q) \subseteq Elements(Append(q, m))
  <2>1. SUFFICES ASSUME NEW k \in 1..Len(q)
                 PROVE  q[k] \in Elements(Append(q, m))
    BY DEF Elements
  <2>2. k \in 1..(Len(q) + 1) /\ Append(q, m)[k] = q[k]
    BY <1>1
  <2> QED
    BY <1>1, <2>2 DEF Elements
<1>4. m \in Elements(Append(q, m))
  <2>1. Len(q) + 1 \in 1..(Len(q) + 1)
    BY <1>1
  <2> QED
    BY <1>1, <2>1 DEF Elements
<1> QED
  BY <1>1, <1>2, <1>3, <1>4

LEMMA TailElements ==
  ASSUME NEW S, NEW q \in Seq(S), q # <<>>
  PROVE  /\ Tail(q) \in Seq(S) /\ Head(q) \in S
         /\ Elements(q) = Elements(Tail(q)) \cup {Head(q)}
<1>1. /\ Tail(q) \in Seq(S) /\ Head(q) \in S /\ Len(q) \in Nat \ {0}
      /\ Len(Tail(q)) = Len(q) - 1 /\ Head(q) = q[1]
      /\ \A k \in 1..Len(q) - 1 : Tail(q)[k] = q[k + 1]
  OBVIOUS
<1>2. Elements(q) \subseteq Elements(Tail(q)) \cup {Head(q)}
  <2>1. SUFFICES ASSUME NEW k \in 1..Len(q)
                 PROVE  q[k] \in Elements(Tail(q)) \cup {Head(q)}
    BY DEF Elements
  <2>2. CASE k = 1
    BY <1>1, <2>2
  <2>3. CASE k # 1
    <3>1. k - 1 \in 1..Len(Tail(q)) /\ (k - 1) + 1 = k /\ k - 1 \in 1..Len(q) - 1
      BY <1>1, <2>3
    <3>2. Tail(q)[k - 1] = q[k]
      BY <1>1, <3>1
    <3> QED
      BY <3>1, <3>2 DEF Elements
  <2> QED
    BY <2>2, <2>3
<1>3. Elements(Tail(q)) \subseteq Elements(q)
  <2>1. SUFFICES ASSUME NEW k \in 1..Len(q) - 1
                 PROVE  Tail(q)[k] \in Elements(q)
    BY <1>1 DEF Elements
  <2>2. k + 1 \in 1..Len(q) /\ Tail(q)[k] = q[k + 1]
    BY <1>1
  <2> QED
    BY <2>2 DEF Elements
<1>4. Head(q) \in Elements(q)
  <2>1. 1 \in 1..Len(q)
    BY <1>1
  <2> QED
    BY <1>1, <2>1 DEF Elements
<1> QED
  BY <1>1, <1>2, <1>3, <1>4

LEMMA QueuedIsElements ==
  \A i : Queued(i) = Elements(queue[i]) /\ Queued(i)' = Elements(queue'[i])
  BY DEF Queued, Elements

LEMMA NoElements ==
  Elements(<<>>) = {}
  BY DEF Elements

(* NothingPhantom, told with sets. *)
LEMMA PhantomElements ==
  /\ NothingPhantom <=> /\ \A w \in Sockets : has[w] \subseteq Committed
                        /\ \A i \in Instances : Elements(queue[i]) \subseteq Committed
  /\ NothingPhantom' <=> /\ \A w \in Sockets : has'[w] \subseteq Committed'
                         /\ \A i \in Instances : Elements(queue'[i]) \subseteq Committed'
  BY QueuedIsElements DEF NothingPhantom

(* The relay's steps. *)
LEMMA Accepting ==
  ASSUME TypeOK, NEW m \in Messages, Relay!Accept(m)
  PROVE  /\ Relay!TypeOK' /\ delivered' = delivered /\ m \notin Committed
         /\ Committed' = Committed \cup {m}
         /\ \A k \in Messages : stage'[k] = "settled" => stage[k] = "settled"
  BY DEF TypeOK, Relay!TypeOK, Relay!Accept, Relay!Stages, Committed

LEMMA Delivering ==
  ASSUME TypeOK, NEW m \in Messages, Relay!Deliver(m)
  PROVE  /\ Relay!TypeOK' /\ stage' = stage /\ Committed' = Committed /\ m \in Committed
         /\ delivered' = [delivered EXCEPT ![m] = TRUE]
  BY DEF TypeOK, Relay!TypeOK, Relay!Deliver, Relay!Stages, Committed

LEMMA Finishing ==
  ASSUME TypeOK, NEW sent \in SUBSET Messages, NEW given \in SUBSET Messages,
         Relay!Finish(sent, given)
  PROVE  /\ Relay!TypeOK' /\ delivered' = delivered /\ Committed' = Committed
         /\ \A k \in Messages : stage'[k] = "settled" => stage[k] = "settled" \/ delivered[k]
  BY DEF TypeOK, Relay!TypeOK, Relay!Finish, Relay!Stages, Committed

LEMMA Standing ==
  ASSUME UNCHANGED relay
  PROVE  /\ stage' = stage /\ delivered' = delivered /\ Committed' = Committed
         /\ TypeOK => Relay!TypeOK'
  BY DEF relay, Committed, TypeOK, Relay!TypeOK

(* A page in step with the history is in the audience of its instance. *)
LEMMA WholeHere ==
  ASSUME FanoutInvariant, NEW w \in Sockets, view[w] = "whole"
  PROVE  at[w] \in Instances /\ w \in Audience(at[w])
<1>1. peer[w] = "here" /\ at[w] # None /\ Owner[w] \in subs[at[w]]
  BY DEF FanoutInvariant, HubAgrees, WholeReachable
<1>2. at[w] \in Instances
  BY <1>1 DEF FanoutInvariant, TypeOK
<1> QED
  BY <1>1, <1>2 DEF Audience, Reachable

(* A step of the relay alone that carries and forgets nothing. *)
LEMMA RelayAlone ==
  ASSUME FanoutInvariant, Relay!TypeOK', delivered' = delivered, Committed \subseteq Committed',
         \A k \in Messages : stage'[k] = "settled" => stage[k] = "settled" \/ delivered[k],
         direct' \in [Sockets -> Messages \cup {None}],
         \A w \in Sockets :
           direct'[w] # None => direct'[w] \in Committed' /\ at[w] # None /\ found[w] = {},
         UNCHANGED <<channel, subs, found, at, peer, pages>>
  PROVE  FanoutInvariant'
<1>1. UNCHANGED <<listener, queue, subs, found, at, peer, has, view, lost>>
  BY DEF channel, pages
<1>2. TypeOK'
  BY <1>1 DEF FanoutInvariant, TypeOK
<1>3. NothingPhantom'
  BY <1>1, PhantomElements DEF FanoutInvariant
<1>4. StagesAgree'
  BY <1>1 DEF FanoutInvariant, StagesAgree
<1>5. HubAgrees'
  BY <1>1 DEF FanoutInvariant, HubAgrees
<1>6. WholeReachable'
  BY <1>1 DEF FanoutInvariant, WholeReachable
<1>7. CarriedArrives'
  BY <1>1 DEF FanoutInvariant, CarriedArrives, Queued
<1> QED
  BY <1>2, <1>3, <1>4, <1>5, <1>6, <1>7 DEF FanoutInvariant

(* What accidents have cost a whole page is kept. *)
LEMMA AccidentsKept ==
  ASSUME lost' \in {lost, Accidents(view')}
  PROVE  /\ lost' \subseteq lost
         /\ \A w, k : view'[w] = "whole" /\ <<w, k>> \in lost => <<w, k>> \in lost'
  BY DEF Accidents

(* A step of a hub, from which no page gets in step with the history. *)
LEMMA HubFrame ==
  ASSUME FanoutInvariant, TypeOK', HubAgrees', UNCHANGED <<relay, channel>>,
         lost' \in {lost, Accidents(view')},
         \A w \in Sockets : direct'[w] = None \/ direct'[w] = direct[w],
         \A w \in Sockets : has'[w] \subseteq Committed,
         \A w \in Sockets : view'[w] = "whole" =>
           /\ view[w] = "whole" /\ at'[w] = at[w] /\ has[w] \subseteq has'[w]
           /\ Owner[w] \in subs'[at[w]]
  PROVE  FanoutInvariant'
<1>1. /\ stage' = stage /\ delivered' = delivered /\ Committed' = Committed
      /\ queue' = queue
  BY Standing DEF channel
<1>2. NothingPhantom'
  BY <1>1, PhantomElements DEF FanoutInvariant
<1>3. StagesAgree'
  BY <1>1 DEF FanoutInvariant, StagesAgree
<1>4. WholeReachable'
  BY DEF WholeReachable
<1>5. CarriedArrives'
  <2>1. SUFFICES ASSUME NEW w \in Sockets, view'[w] = "whole", NEW k \in Messages, delivered[k]
                 PROVE  k \in has'[w] \/ <<w, k>> \in lost' \/ k \in Elements(queue[at'[w]])
    BY <1>1, QueuedIsElements DEF CarriedArrives
  <2>2. k \in has[w] \/ <<w, k>> \in lost \/ k \in Elements(queue[at[w]])
    BY <2>1, QueuedIsElements DEF FanoutInvariant, CarriedArrives
  <2>3. <<w, k>> \in lost => <<w, k>> \in lost'
    BY <2>1, AccidentsKept
  <2> QED
    BY <2>1, <2>2, <2>3
<1> QED
  BY <1>2, <1>3, <1>4, <1>5 DEF FanoutInvariant

LEMMA InitInvariant ==
  ASSUME FanoutAssumption, Init
  PROVE  FanoutInvariant
<1>1. TypeOK
  BY DEF Init, TypeOK, Relay!Init, Relay!TypeOK, Relay!Stages, Peers, Views
<1>2. NothingPhantom
  <2>1. \A i \in Instances : queue[i] = <<>>
    BY DEF Init
  <2> QED
    BY <2>1, PhantomElements, NoElements DEF Init
<1>3. StagesAgree
  BY DEF Init, StagesAgree, Relay!Init
<1>4. HubAgrees
  BY DEF Init, HubAgrees, Actors
<1>5. WholeReachable /\ CarriedArrives
  BY DEF Init, WholeReachable, CarriedArrives
<1> QED
  BY <1>1, <1>2, <1>3, <1>4, <1>5 DEF FanoutInvariant

-----------------------------------------------------------------------------
LEMMA PostStep ==
  ASSUME FanoutInvariant, NEW m \in Messages, Post(m)
  PROVE  FanoutInvariant'
<1>1. TypeOK /\ StagesAgree /\ HubAgrees
  BY DEF FanoutInvariant
<1>2. Relay!Accept(m) /\ UNCHANGED <<channel, subs, direct, found, at, peer, pages>>
  BY DEF Post, hub
<1>3. direct' \in [Sockets -> Messages \cup {None}]
  BY <1>1, <1>2 DEF TypeOK
<1>4. \A w \in Sockets :
        direct'[w] # None => direct'[w] \in Committed' /\ at[w] # None /\ found[w] = {}
  BY <1>1, <1>2, Accepting DEF StagesAgree, HubAgrees
<1> QED
  BY <1>1, <1>2, <1>3, <1>4, Accepting, RelayAlone

LEMMA SendStep ==
  ASSUME FanoutInvariant, NEW w \in Sockets, NEW m \in Messages, Send(w, m)
  PROVE  FanoutInvariant'
<1>1. TypeOK /\ StagesAgree /\ HubAgrees
  BY DEF FanoutInvariant
<1>2. /\ Relay!Accept(m) \/ (m \in Committed /\ UNCHANGED relay)
      /\ UNCHANGED <<channel, subs, found, at, peer, pages>>
      /\ at[w] # None /\ found[w] = {} /\ direct' = [direct EXCEPT ![w] = m]
  BY DEF Send, Reading
<1>3. direct' \in [Sockets -> Messages \cup {None}]
  BY <1>1, <1>2 DEF TypeOK
<1>4. /\ Relay!TypeOK' /\ delivered' = delivered /\ Committed \subseteq Committed'
      /\ \A k \in Messages : stage'[k] = "settled" => stage[k] = "settled" \/ delivered[k]
      /\ m \in Committed'
  <2>1. CASE Relay!Accept(m)
    BY <1>1, <2>1, Accepting
  <2>2. CASE m \in Committed /\ UNCHANGED relay
    BY <1>1, <2>2, Standing
  <2> QED
    BY <1>2, <2>1, <2>2
<1>5. \A v \in Sockets :
        direct'[v] # None => direct'[v] \in Committed' /\ at[v] # None /\ found[v] = {}
  BY <1>1, <1>2, <1>4 DEF StagesAgree, HubAgrees, TypeOK
<1> QED
  BY <1>2, <1>3, <1>4, <1>5, RelayAlone

LEMMA SettleStep ==
  ASSUME FanoutInvariant, NEW sent \in SUBSET Messages, NEW given \in SUBSET Messages,
         Settle(sent, given)
  PROVE  FanoutInvariant'
<1>1. TypeOK /\ StagesAgree /\ HubAgrees
  BY DEF FanoutInvariant
<1>2. /\ Relay!Finish(sent, given)
      /\ UNCHANGED <<channel, subs, direct, found, at, peer, pages>>
  BY DEF Settle, hub
<1>3. direct' \in [Sockets -> Messages \cup {None}]
  BY <1>1, <1>2 DEF TypeOK
<1>4. /\ Relay!TypeOK' /\ delivered' = delivered /\ Committed' = Committed
      /\ \A k \in Messages : stage'[k] = "settled" => stage[k] = "settled" \/ delivered[k]
  BY <1>1, <1>2, Finishing
<1>5. \A w \in Sockets :
        direct'[w] # None => direct'[w] \in Committed' /\ at[w] # None /\ found[w] = {}
  BY <1>1, <1>2, <1>4 DEF StagesAgree, HubAgrees
<1> QED
  BY <1>2, <1>3, <1>4, <1>5, RelayAlone

-----------------------------------------------------------------------------
(* What the sends of a broadcast do. *)
LEMMA Telling ==
  ASSUME FanoutInvariant, NEW i, NEW S \in SUBSET Reachable(i), NEW m \in Committed
  PROVE  /\ Told(S, m) \in [Sockets -> SUBSET Messages]
         /\ \A w \in Sockets : has[w] \subseteq Told(S, m)[w] /\ Told(S, m)[w] \subseteq Committed
         /\ \A w \in S : peer[w] = "here" => m \in Told(S, m)[w]
         /\ Dead(S) \subseteq Sockets /\ \A w \in Dead(S) : peer[w] # "here"
<1>1. m \in Messages /\ S \subseteq Sockets
  BY DEF Committed, Reachable
<1>2. \A w \in Sockets : has[w] \subseteq Committed
  BY DEF FanoutInvariant, NothingPhantom
<1>3. Told(S, m) \in [Sockets -> SUBSET Messages]
  BY <1>1 DEF Told, FanoutInvariant, TypeOK
<1>4. \A w \in Sockets : has[w] \subseteq Told(S, m)[w] /\ Told(S, m)[w] \subseteq Committed
  BY <1>2 DEF Told
<1>5. \A w \in S : peer[w] = "here" => m \in Told(S, m)[w]
  BY <1>1 DEF Told
<1>6. Dead(S) \subseteq Sockets /\ \A w \in Dead(S) : peer[w] # "here"
  BY <1>1 DEF Dead
<1> QED
  BY <1>3, <1>4, <1>5, <1>6

LEMMA AnswerStep ==
  ASSUME FanoutInvariant, NEW w \in Sockets, Answer(w)
  PROVE  FanoutInvariant'
<1>1. TypeOK /\ StagesAgree /\ HubAgrees /\ WholeReachable
  BY DEF FanoutInvariant
<1>2. /\ direct[w] # None /\ direct' = [direct EXCEPT ![w] = None]
      /\ UNCHANGED <<relay, channel>> /\ UNCHANGED <<subs, at, peer, view, lost>>
  BY DEF Answer
<1>3. PICK S \in SUBSET Reachable(at[w]) :
        has' = Told(S, direct[w]) /\ found' = [found EXCEPT ![w] = Dead(S)]
  BY DEF Answer
<1>4. direct[w] \in Committed
  BY <1>1, <1>2 DEF StagesAgree
<1>5. /\ has' \in [Sockets -> SUBSET Messages]
      /\ \A v \in Sockets : has[v] \subseteq has'[v] /\ has'[v] \subseteq Committed
      /\ Dead(S) \subseteq Sockets /\ \A v \in Dead(S) : peer[v] # "here"
  BY <1>3, <1>4, Telling
<1>6. TypeOK'
  <2>1. Relay!TypeOK' /\ UNCHANGED <<listener, queue, lost>>
    BY <1>1, <1>2, Standing DEF channel
  <2>2. found' \in [Actors -> SUBSET Sockets] /\ direct' \in [Sockets -> Messages \cup {None}]
    BY <1>1, <1>2, <1>3, <1>5 DEF TypeOK
  <2> QED
    BY <1>1, <1>2, <1>5, <2>1, <2>2 DEF TypeOK
<1>7. HubAgrees'
  <2>1. at[w] # None
    BY <1>1, <1>2 DEF HubAgrees
  <2>2. \A v \in Sockets : /\ at[v] = None => direct'[v] = None /\ found'[v] = {}
                           /\ direct'[v] = None \/ found'[v] = {}
    BY <1>1, <1>2, <1>3, <2>1 DEF HubAgrees, TypeOK, Actors
  <2>3. \A a \in Actors : \A v \in found'[a] : peer[v] # "here"
    BY <1>1, <1>3, <1>5 DEF HubAgrees, TypeOK
  <2> QED
    BY <1>1, <1>2, <2>2, <2>3 DEF HubAgrees
<1>8. \A v \in Sockets : direct'[v] = None \/ direct'[v] = direct[v]
  BY <1>1, <1>2 DEF TypeOK
<1>9. \A v \in Sockets : view'[v] = "whole" => Owner[v] \in subs'[at[v]]
  BY <1>1, <1>2 DEF WholeReachable
<1> QED
  BY <1>2, <1>5, <1>6, <1>7, <1>8, <1>9, HubFrame

(* The end of a handler, whatever the pages of other sockets were told. *)
LEMMA EndStep ==
  ASSUME FanoutAssumption, FanoutInvariant, NEW w \in Sockets, End(w), at[w] # None, found[w] = {},
         direct' = [direct EXCEPT ![w] = None], UNCHANGED <<relay, channel, found>>,
         has' \in [Sockets -> SUBSET Messages],
         \A v \in Sockets : /\ v # w => has[v] \subseteq has'[v]
                            /\ has'[v] \subseteq Committed
  PROVE  FanoutInvariant'
<1>1. TypeOK /\ HubAgrees /\ WholeReachable
  BY DEF FanoutInvariant
<1>2. /\ subs' = [subs EXCEPT ![at[w]] = @ \ {Owner[w]}]
      /\ at' = [at EXCEPT ![w] = None]
      /\ peer' = [peer EXCEPT ![w] = "none"]
      /\ view' = [ViewsWithout(at[w], {Owner[w]}) EXCEPT ![w] = "none"]
      /\ lost' = Accidents(view')
  BY DEF End
<1>3. \A v \in Sockets :
        view'[v] = IF v = w THEN "none"
                   ELSE IF at[v] = at[w] /\ Owner[v] = Owner[w] /\ view[v] = "whole" THEN "cut"
                   ELSE view[v]
  BY <1>2 DEF ViewsWithout
<1>4. \A v \in Sockets : /\ at'[v] = IF v = w THEN None ELSE at[v]
                         /\ peer'[v] = IF v = w THEN "none" ELSE peer[v]
                         /\ direct'[v] = IF v = w THEN None ELSE direct[v]
  BY <1>1, <1>2 DEF TypeOK
<1>5. TypeOK'
  <2>1. Relay!TypeOK' /\ UNCHANGED <<listener, queue>> /\ lost' \subseteq lost
    BY <1>1, <1>2, Standing, AccidentsKept DEF channel
  <2>2. subs' \in [Instances -> SUBSET Principals] /\ at' \in [Sockets -> Instances \cup {None}]
    BY <1>1, <1>2 DEF TypeOK
  <2>3. peer' \in [Sockets -> Peers] /\ direct' \in [Sockets -> Messages \cup {None}]
    BY <1>1, <1>2 DEF TypeOK, Peers
  <2>4. view' \in [Sockets -> Views]
    <3>1. ViewsWithout(at[w], {Owner[w]}) \in [Sockets -> Views]
      BY <1>1 DEF TypeOK, Views, ViewsWithout
    <3> QED
      BY <1>2, <3>1 DEF Views
  <2> QED
    BY <1>1, <2>1, <2>2, <2>3, <2>4 DEF TypeOK
<1>6. HubAgrees'
  <2>1. \A v \in Sockets : /\ at'[v] = None <=> peer'[v] = "none"
                           /\ at'[v] = None => direct'[v] = None /\ found'[v] = {}
                           /\ direct'[v] = None \/ found'[v] = {}
    BY <1>1, <1>4 DEF HubAgrees
  <2>2. \A v \in Sockets : view'[v] # "none" => peer'[v] = "here"
    BY <1>1, <1>3, <1>4 DEF HubAgrees
  <2>3. \A a \in Actors : \A v \in found'[a] : peer'[v] # "here"
    BY <1>1, <1>4 DEF HubAgrees, TypeOK
  <2> QED
    BY <2>1, <2>2, <2>3 DEF HubAgrees
<1>7. ASSUME NEW v \in Sockets, view'[v] = "whole"
      PROVE  /\ view[v] = "whole" /\ at'[v] = at[v] /\ has[v] \subseteq has'[v]
             /\ Owner[v] \in subs'[at[v]]
  <2>1. v # w /\ view[v] = "whole" /\ ~(at[v] = at[w] /\ Owner[v] = Owner[w])
    BY <1>3, <1>7
  <2>2. at[v] \in Instances /\ at[w] \in Instances /\ Owner[v] \in subs[at[v]]
    BY <1>1, <2>1, WholeHere DEF TypeOK, WholeReachable
  <2>3. Owner[v] \in subs'[at[v]]
    BY <1>1, <1>2, <2>1, <2>2 DEF TypeOK
  <2> QED
    BY <1>4, <2>1, <2>3
<1>8. \A v \in Sockets : direct'[v] = None \/ direct'[v] = direct[v]
  BY <1>4
<1> QED
  BY <1>2, <1>5, <1>6, <1>7, <1>8, HubFrame

LEMMA OverStep ==
  ASSUME FanoutAssumption, FanoutInvariant, NEW w \in Sockets, Over(w)
  PROVE  FanoutInvariant'
<1>1. /\ End(w) /\ at[w] # None /\ direct[w] = None /\ found[w] = {}
      /\ UNCHANGED <<relay, channel, found>> /\ direct' = direct /\ has' = [has EXCEPT ![w] = {}]
  BY DEF Over, Reading
<1>2. TypeOK /\ NothingPhantom
  BY DEF FanoutInvariant
<1>3. direct' = [direct EXCEPT ![w] = None] /\ has' \in [Sockets -> SUBSET Messages]
  BY <1>1, <1>2 DEF TypeOK
<1>4. \A v \in Sockets : (v # w => has[v] \subseteq has'[v]) /\ has'[v] \subseteq Committed
  BY <1>1, <1>2 DEF NothingPhantom, TypeOK
<1> QED
  BY <1>1, <1>3, <1>4, EndStep

LEMMA AnswerBreaksStep ==
  ASSUME FanoutAssumption, FanoutInvariant, NEW w \in Sockets, AnswerBreaks(w)
  PROVE  FanoutInvariant'
<1>1. /\ End(w) /\ direct[w] # None /\ direct' = [direct EXCEPT ![w] = None]
      /\ UNCHANGED <<relay, channel, found>>
  BY DEF AnswerBreaks
<1>2. direct[w] \in Committed /\ at[w] # None /\ found[w] = {}
  BY <1>1 DEF FanoutInvariant, StagesAgree, HubAgrees
<1>3. PICK S \in SUBSET Reachable(at[w]) : has' = [Told(S, direct[w]) EXCEPT ![w] = {}]
  BY DEF AnswerBreaks
<1> DEFINE told == Told(S, direct[w])
<1>4. /\ told \in [Sockets -> SUBSET Messages] /\ has' = [told EXCEPT ![w] = {}]
      /\ \A v \in Sockets : has[v] \subseteq told[v] /\ told[v] \subseteq Committed
  BY <1>2, <1>3, Telling
<1> HIDE DEF told
<1>5. /\ has' \in [Sockets -> SUBSET Messages]
      /\ \A v \in Sockets : (v # w => has[v] \subseteq has'[v]) /\ has'[v] \subseteq Committed
  BY <1>4
<1> QED
  BY <1>1, <1>2, <1>5, EndStep

(* The dead are disconnected, with whoever shares their principal. *)
LEMMA CleanUpStep ==
  ASSUME FanoutAssumption, FanoutInvariant, NEW a \in Actors, CleanUp(a)
  PROVE  FanoutInvariant'
<1> DEFINE P == {Owner[w] : w \in found[a]}
<1>1. TypeOK /\ HubAgrees /\ WholeReachable /\ NothingPhantom
  BY DEF FanoutInvariant
<1>2. /\ found[a] # {} /\ found' = [found EXCEPT ![a] = {}]
      /\ peer' = [w \in Sockets |-> IF w \in Dead(found[a]) THEN "dropped" ELSE peer[w]]
      /\ subs' = [subs EXCEPT ![Home(a)] = @ \ P]
      /\ view' = ViewsWithout(Home(a), P)
      /\ lost' = Accidents(view') /\ UNCHANGED <<relay, channel>> /\ UNCHANGED <<direct, at, has>>
  BY DEF CleanUp
<1>3. Home(a) \in Instances
  BY <1>1, <1>2 DEF HubAgrees, TypeOK, Home, Actors
<1> HIDE DEF P
<1>4. \A v \in Sockets :
        view'[v] = IF at[v] = Home(a) /\ Owner[v] \in P /\ view[v] = "whole" THEN "cut" ELSE view[v]
  BY <1>2 DEF ViewsWithout
<1>5. \A v \in Sockets : /\ peer'[v] = "here" <=> peer[v] = "here"
                         /\ peer'[v] = "none" <=> peer[v] = "none"
  BY <1>2 DEF Dead
<1>6. TypeOK'
  <2>1. Relay!TypeOK' /\ UNCHANGED <<listener, queue>> /\ lost' \subseteq lost
    BY <1>1, <1>2, Standing, AccidentsKept DEF channel
  <2>2. subs' \in [Instances -> SUBSET Principals] /\ found' \in [Actors -> SUBSET Sockets]
    BY <1>1, <1>2 DEF TypeOK
  <2>3. peer' \in [Sockets -> Peers] /\ view' \in [Sockets -> Views]
    BY <1>1, <1>2 DEF TypeOK, Peers, Views, ViewsWithout
  <2> QED
    BY <1>1, <1>2, <2>1, <2>2, <2>3 DEF TypeOK
<1>7. HubAgrees'
  <2>1. \A b \in Actors : found'[b] \subseteq found[b]
    BY <1>1, <1>2 DEF TypeOK
  <2>2. \A v \in Sockets : /\ at'[v] = None <=> peer'[v] = "none"
                           /\ at'[v] = None => direct'[v] = None /\ found'[v] = {}
                           /\ direct'[v] = None \/ found'[v] = {}
    BY <1>1, <1>2, <1>5, <2>1 DEF HubAgrees, Actors
  <2>3. \A v \in Sockets : view'[v] # "none" => peer'[v] = "here"
    BY <1>1, <1>4, <1>5 DEF HubAgrees
  <2>4. \A b \in Actors : \A v \in found'[b] : peer'[v] # "here"
    BY <1>1, <1>5, <2>1 DEF HubAgrees, TypeOK
  <2> QED
    BY <2>2, <2>3, <2>4 DEF HubAgrees
<1>8. ASSUME NEW v \in Sockets, view'[v] = "whole"
      PROVE  view[v] = "whole" /\ Owner[v] \in subs'[at[v]]
  <2>1. view[v] = "whole" /\ ~(at[v] = Home(a) /\ Owner[v] \in P)
    BY <1>4, <1>8
  <2>2. at[v] \in Instances /\ Owner[v] \in subs[at[v]]
    BY <1>1, <2>1, WholeHere DEF WholeReachable
  <2> QED
    BY <1>1, <1>2, <1>3, <2>1, <2>2 DEF TypeOK
<1>9. \A v \in Sockets : has'[v] \subseteq Committed
  BY <1>1, <1>2 DEF NothingPhantom
<1> QED
  BY <1>2, <1>6, <1>7, <1>8, <1>9, HubFrame

-----------------------------------------------------------------------------
LEMMA PublishStep ==
  ASSUME FanoutInvariant, NEW m \in Messages, Publish(m)
  PROVE  FanoutInvariant'
<1>1. TypeOK /\ NothingPhantom /\ StagesAgree /\ HubAgrees /\ WholeReachable /\ CarriedArrives
  BY DEF FanoutInvariant
<1>2. /\ Relay!Deliver(m)
      /\ queue' = [i \in Instances |-> IF Deaf(i) THEN queue[i] ELSE Append(queue[i], m)]
      /\ lost' = lost \cup PassedBy(m)
      /\ UNCHANGED <<listener, subs, direct, found, at, peer, has, view>>
  BY DEF Publish, hub
<1>3. /\ Relay!TypeOK' /\ stage' = stage /\ Committed' = Committed /\ m \in Committed
      /\ delivered' = [delivered EXCEPT ![m] = TRUE]
  BY <1>1, <1>2, Delivering
<1>4. \A i \in Instances : queue[i] \in Seq(Messages)
  BY <1>1 DEF TypeOK
<1>5. \A i \in Instances :
        /\ queue'[i] \in Seq(Messages)
        /\ Elements(queue[i]) \subseteq Elements(queue'[i])
        /\ Elements(queue'[i]) \subseteq Elements(queue[i]) \cup {m}
        /\ ~Deaf(i) => m \in Elements(queue'[i])
  BY <1>2, <1>4, AppendElements
<1>6. /\ PassedBy(m) \subseteq Sockets \X Messages
      /\ \A i \in Instances : \A w \in Audience(i) : Deaf(i) => <<w, m>> \in PassedBy(m)
  BY DEF PassedBy, Audience, Reachable
<1>7. TypeOK'
  <2>1. queue' \in [Instances -> Seq(Messages)] /\ lost' \subseteq Sockets \X Messages
    BY <1>1, <1>2, <1>5, <1>6 DEF TypeOK
  <2> QED
    BY <1>1, <1>2, <1>3, <2>1 DEF TypeOK
<1>8. NothingPhantom'
  <2>1. \A i \in Instances : Elements(queue'[i]) \subseteq Committed
    BY <1>1, <1>3, <1>5, PhantomElements
  <2> QED
    BY <1>1, <1>2, <1>3, <2>1, PhantomElements
<1>9. StagesAgree'
  BY <1>1, <1>2, <1>3 DEF StagesAgree, TypeOK, Relay!TypeOK
<1>10. HubAgrees' /\ WholeReachable'
  BY <1>1, <1>2 DEF HubAgrees, WholeReachable
<1>11. CarriedArrives'
  <2>1. SUFFICES ASSUME NEW w \in Sockets, view[w] = "whole", NEW k \in Messages, delivered'[k]
                 PROVE  k \in has[w] \/ <<w, k>> \in lost' \/ k \in Elements(queue'[at[w]])
    BY <1>2, QueuedIsElements DEF CarriedArrives
  <2>2. at[w] \in Instances /\ w \in Audience(at[w])
    BY <2>1, WholeHere
  <2>3. CASE k = m
    BY <1>2, <1>5, <1>6, <2>2, <2>3
  <2>4. CASE k # m
    <3>1. delivered[k]
      BY <1>3, <2>1, <2>4
    <3>2. k \in has[w] \/ <<w, k>> \in lost \/ k \in Elements(queue[at[w]])
      BY <1>1, <2>1, <3>1, QueuedIsElements DEF CarriedArrives
    <3> QED
      BY <1>2, <1>5, <2>2, <3>2
  <2> QED
    BY <2>3, <2>4
<1> QED
  BY <1>7, <1>8, <1>9, <1>10, <1>11 DEF FanoutInvariant

LEMMA DispatchStep ==
  ASSUME FanoutInvariant, NEW i \in Instances, Dispatch(i)
  PROVE  FanoutInvariant'
<1>1. TypeOK /\ NothingPhantom /\ StagesAgree /\ HubAgrees /\ WholeReachable /\ CarriedArrives
  BY DEF FanoutInvariant
<1> DEFINE m == Head(queue[i])
<1>2. /\ queue[i] # <<>> /\ queue' = [queue EXCEPT ![i] = Tail(@)]
      /\ UNCHANGED <<relay, listener, subs, direct, at, peer, view>>
  BY DEF Dispatch
<1>3. PICK S \in SUBSET Reachable(i) :
        /\ has' = Told(S, m)
        /\ \E D \in {{}, Dead(S)} : found' = [found EXCEPT ![i] = D]
        /\ lost' = lost \cup {<<w, m>> : w \in Audience(i) \ S}
  BY DEF Dispatch
<1>4. queue \in [Instances -> Seq(Messages)]
  BY <1>1 DEF TypeOK
<1>5. /\ Tail(queue[i]) \in Seq(Messages) /\ m \in Messages
      /\ Elements(queue[i]) = Elements(Tail(queue[i])) \cup {m}
  BY <1>2, <1>4, TailElements
<1> HIDE DEF m
<1>6. stage' = stage /\ delivered' = delivered /\ Committed' = Committed /\ Relay!TypeOK'
  BY <1>1, <1>2, Standing
<1>7. /\ queue'[i] = Tail(queue[i])
      /\ \A k \in Instances : k # i => queue'[k] = queue[k]
  BY <1>2, <1>4
<1>8. m \in Committed
  BY <1>1, <1>5, PhantomElements
<1>9. /\ has' \in [Sockets -> SUBSET Messages]
      /\ \A w \in Sockets : has[w] \subseteq has'[w] /\ has'[w] \subseteq Committed
      /\ \A w \in S : peer[w] = "here" => m \in has'[w]
      /\ Dead(S) \subseteq Sockets /\ \A w \in Dead(S) : peer[w] # "here"
  BY <1>3, <1>8, Telling
<1>10. Audience(i) \subseteq Sockets /\ \A w \in Audience(i) : peer[w] = "here"
  BY <1>1 DEF Audience, Reachable, HubAgrees
<1>11. \A a \in Actors : found'[a] \subseteq Sockets /\ \A w \in found'[a] : peer[w] # "here"
  BY <1>1, <1>3, <1>9 DEF HubAgrees, TypeOK
<1>12. TypeOK'
  <2>1. queue' \in [Instances -> Seq(Messages)]
    BY <1>2, <1>4, <1>5
  <2>2. found' \in [Actors -> SUBSET Sockets]
    BY <1>1, <1>3, <1>11 DEF TypeOK
  <2>3. lost' \subseteq Sockets \X Messages
    BY <1>1, <1>3, <1>5, <1>10 DEF TypeOK
  <2> QED
    BY <1>1, <1>2, <1>6, <1>9, <2>1, <2>2, <2>3 DEF TypeOK
<1>13. NothingPhantom'
  <2>1. \A k \in Instances : Elements(queue'[k]) \subseteq Committed'
    BY <1>1, <1>5, <1>6, <1>7, PhantomElements
  <2> QED
    BY <1>6, <1>9, <2>1, PhantomElements
<1>14. StagesAgree'
  BY <1>1, <1>2, <1>6 DEF StagesAgree
<1>15. HubAgrees'
  <2>1. \A w \in Sockets : w # i => found'[w] = found[w]
    BY <1>1, <1>3 DEF TypeOK, Actors
  <2>2. \A w \in Sockets : w # i
    BY FanoutAssumption DEF FanoutAssumption
  <2> QED
    BY <1>1, <1>2, <1>11, <2>1, <2>2 DEF HubAgrees
<1>16. WholeReachable'
  BY <1>1, <1>2 DEF WholeReachable
<1>17. CarriedArrives'
  <2>1. SUFFICES ASSUME NEW w \in Sockets, view[w] = "whole", NEW k \in Messages, delivered[k]
                 PROVE  k \in has'[w] \/ <<w, k>> \in lost' \/ k \in Elements(queue'[at[w]])
    BY <1>2, <1>6, QueuedIsElements DEF CarriedArrives
  <2>2. at[w] \in Instances /\ w \in Audience(at[w])
    BY <2>1, WholeHere
  <2>3. k \in has[w] \/ <<w, k>> \in lost \/ k \in Elements(queue[at[w]])
    BY <1>1, <2>1, QueuedIsElements DEF CarriedArrives
  <2>4. CASE at[w] = i /\ k = m
    BY <1>3, <1>9, <1>10, <2>2, <2>4
  <2>5. CASE ~(at[w] = i /\ k = m)
    <3>1. k \in Elements(queue[at[w]]) => k \in Elements(queue'[at[w]])
      BY <1>5, <1>7, <2>2, <2>5
    <3> QED
      BY <1>3, <1>9, <2>3, <3>1
  <2> QED
    BY <2>4, <2>5
<1> QED
  BY <1>12, <1>13, <1>14, <1>15, <1>16, <1>17 DEF FanoutInvariant

-----------------------------------------------------------------------------
(* Start and Listen. *)
LEMMA TaskStep ==
  ASSUME FanoutInvariant, NEW i \in Instances, Start(i) \/ Listen(i)
  PROVE  FanoutInvariant'
<1>1. TypeOK /\ NothingPhantom /\ StagesAgree /\ HubAgrees /\ WholeReachable /\ CarriedArrives
  BY DEF FanoutInvariant
<1>2. /\ listener' \in {[listener EXCEPT ![i] = "starting"], [listener EXCEPT ![i] = "on"]}
      /\ UNCHANGED <<relay, queue, subs, direct, found, at, peer, has, view, lost>>
  BY DEF Start, Listen, hub, pages
<1>3. stage' = stage /\ delivered' = delivered /\ Committed' = Committed /\ Relay!TypeOK'
  BY <1>1, <1>2, Standing
<1>4. TypeOK'
  BY <1>1, <1>2, <1>3 DEF TypeOK
<1>5. NothingPhantom'
  BY <1>1, <1>2, <1>3, PhantomElements
<1>6. StagesAgree' /\ HubAgrees' /\ WholeReachable'
  BY <1>1, <1>2, <1>3 DEF StagesAgree, HubAgrees, WholeReachable
<1>7. CarriedArrives'
  BY <1>1, <1>2, <1>3 DEF CarriedArrives, Queued
<1> QED
  BY <1>4, <1>5, <1>6, <1>7 DEF FanoutInvariant

LEMMA StopListeningStep ==
  ASSUME FanoutInvariant, NEW i \in Instances, StopListening(i)
  PROVE  FanoutInvariant'
<1>1. TypeOK /\ NothingPhantom /\ StagesAgree /\ HubAgrees /\ WholeReachable /\ CarriedArrives
  BY DEF FanoutInvariant
<1>2. /\ listener' = [listener EXCEPT ![i] = "off"] /\ queue' = [queue EXCEPT ![i] = <<>>]
      /\ lost' = lost \cup (Audience(i) \X Queued(i))
      /\ UNCHANGED <<relay, subs, direct, found, at, peer, has, view>>
  BY DEF StopListening, hub
<1>3. stage' = stage /\ delivered' = delivered /\ Committed' = Committed /\ Relay!TypeOK'
  BY <1>1, <1>2, Standing
<1>4. queue \in [Instances -> Seq(Messages)]
  BY <1>1 DEF TypeOK
<1>5. /\ queue'[i] = <<>>
      /\ \A k \in Instances : k # i => queue'[k] = queue[k]
  BY <1>2, <1>4
<1>6. TypeOK'
  <2>1. queue' \in [Instances -> Seq(Messages)]
    BY <1>2, <1>4
  <2>2. Queued(i) \subseteq Messages /\ Audience(i) \subseteq Sockets
    BY <1>4 DEF Queued, Audience, Reachable
  <2>3. lost' \subseteq Sockets \X Messages
    BY <1>1, <1>2, <2>2 DEF TypeOK
  <2> QED
    BY <1>1, <1>2, <1>3, <2>1, <2>3 DEF TypeOK
<1>7. NothingPhantom'
  <2>1. \A k \in Instances : Elements(queue'[k]) \subseteq Committed'
    BY <1>1, <1>3, <1>5, PhantomElements, NoElements
  <2> QED
    BY <1>1, <1>2, <1>3, <2>1, PhantomElements
<1>8. StagesAgree' /\ HubAgrees' /\ WholeReachable'
  BY <1>1, <1>2, <1>3 DEF StagesAgree, HubAgrees, WholeReachable
<1>9. CarriedArrives'
  <2>1. SUFFICES ASSUME NEW w \in Sockets, view[w] = "whole", NEW k \in Messages, delivered[k]
                 PROVE  k \in has[w] \/ <<w, k>> \in lost' \/ k \in Elements(queue'[at[w]])
    BY <1>2, <1>3, QueuedIsElements DEF CarriedArrives
  <2>2. at[w] \in Instances /\ w \in Audience(at[w])
    BY <2>1, WholeHere
  <2>3. k \in has[w] \/ <<w, k>> \in lost \/ k \in Queued(at[w])
    BY <1>1, <2>1 DEF CarriedArrives
  <2>4. CASE at[w] = i
    BY <1>2, <2>2, <2>3, <2>4
  <2>5. CASE at[w] # i
    BY <1>2, <1>5, <2>2, <2>3, <2>5, QueuedIsElements
  <2> QED
    BY <2>4, <2>5
<1> QED
  BY <1>6, <1>7, <1>8, <1>9 DEF FanoutInvariant

(* The pages of the instance are out of step from then on. *)
LEMMA StopStep ==
  ASSUME FanoutAssumption, FanoutInvariant, NEW i \in Instances, Stop(i)
  PROVE  FanoutInvariant'
<1>1. TypeOK /\ NothingPhantom /\ StagesAgree /\ HubAgrees /\ WholeReachable /\ CarriedArrives
  BY DEF FanoutInvariant
<1>2. /\ listener' = [listener EXCEPT ![i] = "down"] /\ queue' = [queue EXCEPT ![i] = <<>>]
      /\ subs' = [subs EXCEPT ![i] = {}]
      /\ direct' = [w \in Sockets |-> IF at[w] = i THEN None ELSE direct[w]]
      /\ found' = [a \in Actors |-> IF Home(a) = i THEN {} ELSE found[a]]
      /\ at' = [w \in Sockets |-> IF at[w] = i THEN None ELSE at[w]]
      /\ peer' = [w \in Sockets |-> IF at[w] = i THEN "none" ELSE peer[w]]
      /\ view' = [w \in Sockets |-> IF at[w] = i THEN "none" ELSE view[w]]
      /\ has' = [w \in Sockets |-> IF at[w] = i THEN {} ELSE has[w]]
      /\ lost' = Accidents(view') /\ UNCHANGED relay
  BY DEF Stop
<1>3. stage' = stage /\ delivered' = delivered /\ Committed' = Committed /\ Relay!TypeOK'
  BY <1>1, <1>2, Standing
<1>4. queue \in [Instances -> Seq(Messages)]
  BY <1>1 DEF TypeOK
<1>5. /\ queue'[i] = <<>>
      /\ \A k \in Instances : k # i => queue'[k] = queue[k] /\ subs'[k] = subs[k]
  BY <1>1, <1>2, <1>4 DEF TypeOK
<1>6. ASSUME NEW w \in Sockets, view'[w] = "whole"
      PROVE  view[w] = "whole" /\ at[w] # i /\ at'[w] = at[w] /\ at[w] \in Instances /\ has'[w] = has[w]
  <2>1. view[w] = "whole" /\ at[w] # i /\ at'[w] = at[w] /\ has'[w] = has[w]
    BY <1>2, <1>6
  <2> QED
    BY <2>1, WholeHere
<1>7. TypeOK'
  <2>1. /\ queue' \in [Instances -> Seq(Messages)]
        /\ listener' \in [Instances -> {"down", "starting", "on", "off"}]
    BY <1>1, <1>2, <1>4 DEF TypeOK
  <2>2. subs' \in [Instances -> SUBSET Principals] /\ found' \in [Actors -> SUBSET Sockets]
    BY <1>1, <1>2 DEF TypeOK
  <2>3. /\ direct' \in [Sockets -> Messages \cup {None}]
        /\ at' \in [Sockets -> Instances \cup {None}]
    BY <1>1, <1>2 DEF TypeOK
  <2>4. peer' \in [Sockets -> Peers] /\ view' \in [Sockets -> Views]
    BY <1>1, <1>2 DEF TypeOK, Peers, Views
  <2>5. has' \in [Sockets -> SUBSET Messages] /\ lost' \subseteq Sockets \X Messages
    BY <1>1, <1>2, AccidentsKept DEF TypeOK
  <2> QED
    BY <1>3, <2>1, <2>2, <2>3, <2>4, <2>5 DEF TypeOK
<1>8. NothingPhantom'
  <2>1. \A k \in Instances : Elements(queue'[k]) \subseteq Committed'
    BY <1>1, <1>3, <1>5, PhantomElements, NoElements
  <2>2. \A w \in Sockets : has'[w] \subseteq Committed'
    BY <1>1, <1>2, <1>3 DEF NothingPhantom
  <2> QED
    BY <2>1, <2>2, PhantomElements
<1>9. StagesAgree'
  BY <1>1, <1>2, <1>3 DEF StagesAgree
<1>10. HubAgrees'
  <2>1. i # None /\ \A w \in Sockets : w \notin Instances
    BY FanoutAssumption DEF FanoutAssumption
  <2>2. \A w \in Sockets : found'[w] = IF at[w] = i THEN {} ELSE found[w]
    BY <1>2, <2>1 DEF Actors, Home
  <2>3. \A w \in Sockets : /\ at'[w] = None <=> peer'[w] = "none"
                           /\ at'[w] = None => direct'[w] = None /\ found'[w] = {}
                           /\ direct'[w] = None \/ found'[w] = {}
    BY <1>1, <1>2, <2>1, <2>2 DEF HubAgrees
  <2>4. \A w \in Sockets : view'[w] # "none" => peer'[w] = "here"
    BY <1>1, <1>2 DEF HubAgrees
  <2>5. \A a \in Actors : \A w \in found'[a] : peer'[w] # "here"
    BY <1>1, <1>2 DEF HubAgrees, TypeOK
  <2> QED
    BY <2>3, <2>4, <2>5 DEF HubAgrees
<1>11. WholeReachable'
  BY <1>1, <1>5, <1>6 DEF WholeReachable
<1>12. CarriedArrives'
  <2>1. SUFFICES ASSUME NEW w \in Sockets, view'[w] = "whole", NEW k \in Messages, delivered[k]
                 PROVE  k \in has'[w] \/ <<w, k>> \in lost' \/ k \in Elements(queue'[at'[w]])
    BY <1>2, <1>3, QueuedIsElements DEF CarriedArrives
  <2>2. view[w] = "whole" /\ at[w] # i /\ at'[w] = at[w] /\ at[w] \in Instances /\ has'[w] = has[w]
    BY <1>6, <2>1
  <2>3. k \in has[w] \/ <<w, k>> \in lost \/ k \in Elements(queue[at[w]])
    BY <1>1, <2>1, <2>2, QueuedIsElements DEF CarriedArrives
  <2>4. <<w, k>> \in lost => <<w, k>> \in lost'
    BY <1>2, <2>1, AccidentsKept
  <2> QED
    BY <1>5, <2>2, <2>3, <2>4
<1> QED
  BY <1>7, <1>8, <1>9, <1>10, <1>11, <1>12 DEF FanoutInvariant

-----------------------------------------------------------------------------
LEMMA ConnectStep ==
  ASSUME FanoutAssumption, FanoutInvariant, NEW w \in Sockets, NEW i \in Instances, Connect(w, i)
  PROVE  FanoutInvariant'
<1>1. TypeOK /\ NothingPhantom /\ HubAgrees /\ WholeReachable
  BY DEF FanoutInvariant
<1>2. /\ at[w] = None /\ \A a \in Actors : w \notin found[a]
      /\ at' = [at EXCEPT ![w] = i] /\ peer' = [peer EXCEPT ![w] = "here"]
      /\ UNCHANGED <<relay, channel>> /\ UNCHANGED <<subs, direct, found, has, view, lost>>
  BY DEF Connect
<1>3. view[w] = "none" /\ i # None
  BY <1>1, <1>2, FanoutAssumption DEF HubAgrees, FanoutAssumption
<1>4. \A v \in Sockets : v # w => at'[v] = at[v] /\ peer'[v] = peer[v]
  BY <1>1, <1>2 DEF TypeOK
<1>5. at'[w] = i /\ peer'[w] = "here"
  BY <1>1, <1>2 DEF TypeOK
<1>6. TypeOK'
  <2>1. Relay!TypeOK' /\ UNCHANGED <<listener, queue, lost>>
    BY <1>1, <1>2, Standing DEF channel
  <2> QED
    BY <1>1, <1>2, <2>1 DEF TypeOK, Peers
<1>7. HubAgrees'
  <2>1. \A v \in Sockets : /\ at'[v] = None <=> peer'[v] = "none"
                           /\ at'[v] = None => direct'[v] = None /\ found'[v] = {}
                           /\ direct'[v] = None \/ found'[v] = {}
    BY <1>1, <1>2, <1>3, <1>4, <1>5 DEF HubAgrees
  <2>2. \A v \in Sockets : view'[v] # "none" => peer'[v] = "here"
    BY <1>1, <1>2, <1>4, <1>5 DEF HubAgrees
  <2>3. \A a \in Actors : \A v \in found'[a] : peer'[v] # "here"
    BY <1>1, <1>2, <1>4 DEF HubAgrees, TypeOK
  <2> QED
    BY <2>1, <2>2, <2>3 DEF HubAgrees
<1>8. \A v \in Sockets : has'[v] \subseteq Committed
  BY <1>1, <1>2 DEF NothingPhantom
<1>9. \A v \in Sockets : view'[v] = "whole" =>
        /\ view[v] = "whole" /\ at'[v] = at[v] /\ has[v] \subseteq has'[v]
        /\ Owner[v] \in subs'[at[v]]
  BY <1>1, <1>2, <1>3, <1>4 DEF WholeReachable
<1> QED
  BY <1>2, <1>6, <1>7, <1>8, <1>9, HubFrame

LEMMA SubscribeStep ==
  ASSUME FanoutAssumption, FanoutInvariant, NEW w \in Sockets, Subscribe(w)
  PROVE  FanoutInvariant'
<1>1. TypeOK /\ NothingPhantom /\ HubAgrees /\ WholeReachable
  BY DEF FanoutInvariant
<1>2. /\ at[w] # None /\ subs' = [subs EXCEPT ![at[w]] = @ \cup {Owner[w]}]
      /\ UNCHANGED <<relay, channel>> /\ UNCHANGED <<direct, found, at, peer, has, view, lost>>
  BY DEF Subscribe, Reading, pages
<1>3. /\ subs' \in [Instances -> SUBSET Principals]
      /\ \A i \in Instances : subs[i] \subseteq subs'[i]
  BY <1>1, <1>2, FanoutAssumption DEF TypeOK, FanoutAssumption
<1>4. TypeOK'
  <2>1. Relay!TypeOK' /\ UNCHANGED <<listener, queue, lost>>
    BY <1>1, <1>2, Standing DEF channel
  <2> QED
    BY <1>1, <1>2, <1>3, <2>1 DEF TypeOK
<1>5. HubAgrees'
  BY <1>1, <1>2 DEF HubAgrees
<1>6. \A v \in Sockets : view'[v] = "whole" => view[v] = "whole" /\ Owner[v] \in subs'[at[v]]
  BY <1>1, <1>2, <1>3, WholeHere DEF WholeReachable
<1>7. \A v \in Sockets : has'[v] \subseteq Committed
  BY <1>1, <1>2 DEF NothingPhantom
<1> QED
  BY <1>2, <1>4, <1>5, <1>6, <1>7, HubFrame

LEMMA LeaveStep ==
  ASSUME FanoutInvariant, NEW w \in Sockets, Leave(w)
  PROVE  FanoutInvariant'
<1>1. TypeOK /\ NothingPhantom /\ HubAgrees /\ WholeReachable
  BY DEF FanoutInvariant
<1>2. /\ peer[w] = "here" /\ peer' = [peer EXCEPT ![w] = "gone"]
      /\ view' = [view EXCEPT ![w] = "none"]
      /\ has' = [has EXCEPT ![w] = {}] /\ lost' = Accidents(view')
      /\ UNCHANGED <<relay, channel>> /\ UNCHANGED <<subs, direct, found, at>>
  BY DEF Leave
<1>3. \A v \in Sockets : /\ peer'[v] = IF v = w THEN "gone" ELSE peer[v]
                         /\ view'[v] = IF v = w THEN "none" ELSE view[v]
                         /\ has'[v] = IF v = w THEN {} ELSE has[v]
  BY <1>1, <1>2 DEF TypeOK
<1>4. TypeOK'
  <2>1. Relay!TypeOK' /\ UNCHANGED <<listener, queue>> /\ lost' \subseteq lost
    BY <1>1, <1>2, Standing, AccidentsKept DEF channel
  <2> QED
    BY <1>1, <1>2, <2>1 DEF TypeOK, Peers, Views
<1>5. HubAgrees'
  <2>1. \A a \in Actors : \A v \in found'[a] : peer'[v] # "here"
    BY <1>1, <1>2, <1>3 DEF HubAgrees, TypeOK
  <2> QED
    BY <1>1, <1>2, <1>3, <2>1 DEF HubAgrees
<1>6. \A v \in Sockets : view'[v] = "whole" =>
        view[v] = "whole" /\ has'[v] = has[v] /\ Owner[v] \in subs'[at[v]]
  BY <1>1, <1>2, <1>3 DEF WholeReachable
<1>7. \A v \in Sockets : has'[v] \subseteq Committed
  BY <1>1, <1>3 DEF NothingPhantom
<1> QED
  BY <1>2, <1>4, <1>5, <1>6, <1>7, HubFrame

LEMMA LoadStep ==
  ASSUME FanoutInvariant, NEW w \in Sockets, Load(w)
  PROVE  FanoutInvariant'
<1>1. TypeOK /\ NothingPhantom /\ StagesAgree /\ HubAgrees /\ WholeReachable /\ CarriedArrives
  BY DEF FanoutInvariant
<1>2. /\ peer[w] = "here" /\ has' = [has EXCEPT ![w] = Committed]
      /\ view' = [view EXCEPT ![w] = IF Owner[w] \in subs[at[w]] THEN "whole" ELSE "blind"]
      /\ lost' = {x \in lost : x[1] # w}
      /\ UNCHANGED <<relay, listener, queue, subs, direct, found, at, peer>>
  BY DEF Load, channel, hub
<1>3. stage' = stage /\ delivered' = delivered /\ Committed' = Committed /\ Relay!TypeOK'
  BY <1>1, <1>2, Standing
<1>4. /\ has'[w] = Committed
      /\ view'[w] = "whole" => Owner[w] \in subs[at[w]]
      /\ \A v \in Sockets : v # w => /\ has'[v] = has[v] /\ view'[v] = view[v]
                                     /\ \A k \in Messages : <<v, k>> \in lost => <<v, k>> \in lost'
  BY <1>1, <1>2 DEF TypeOK
<1>5. TypeOK'
  <2>1. Committed \subseteq Messages
    BY DEF Committed
  <2>2. has' \in [Sockets -> SUBSET Messages] /\ view' \in [Sockets -> Views]
    BY <1>1, <1>2, <2>1 DEF TypeOK, Views
  <2> QED
    BY <1>1, <1>2, <1>3, <2>2 DEF TypeOK
<1>6. NothingPhantom'
  BY <1>1, <1>2, <1>3, <1>4, PhantomElements
<1>7. StagesAgree'
  BY <1>1, <1>2, <1>3 DEF StagesAgree
<1>8. HubAgrees' /\ WholeReachable'
  BY <1>1, <1>2, <1>4 DEF HubAgrees, WholeReachable
<1>9. CarriedArrives'
  <2>1. SUFFICES ASSUME NEW v \in Sockets, view'[v] = "whole", NEW k \in Messages, delivered[k]
                 PROVE  k \in has'[v] \/ <<v, k>> \in lost' \/ k \in Queued(at[v])
    BY <1>2, <1>3 DEF CarriedArrives, Queued
  <2>2. CASE v = w
    BY <1>1, <1>4, <2>1, <2>2 DEF StagesAgree
  <2>3. CASE v # w
    <3>1. /\ view[v] = "whole" /\ has'[v] = has[v]
          /\ <<v, k>> \in lost => <<v, k>> \in lost'
      BY <1>4, <2>1, <2>3
    <3>2. k \in has[v] \/ <<v, k>> \in lost \/ k \in Queued(at[v])
      BY <1>1, <2>1, <3>1 DEF CarriedArrives
    <3> QED
      BY <3>1, <3>2
  <2> QED
    BY <2>2, <2>3
<1> QED
  BY <1>5, <1>6, <1>7, <1>8, <1>9 DEF FanoutInvariant

LEMMA StutterStep ==
  ASSUME FanoutInvariant, UNCHANGED vars
  PROVE  FanoutInvariant'
<1>1. UNCHANGED <<relay, channel>> /\ UNCHANGED <<subs, direct, found, at, peer, has, view, lost>>
  BY DEF vars, relay, channel
<1>2. TypeOK /\ HubAgrees /\ WholeReachable /\ NothingPhantom
  BY DEF FanoutInvariant
<1>3. TypeOK'
  <2>1. Relay!TypeOK' /\ UNCHANGED <<listener, queue, lost>>
    BY <1>1, <1>2, Standing DEF channel
  <2> QED
    BY <1>1, <1>2, <2>1 DEF TypeOK
<1>4. HubAgrees'
  BY <1>1, <1>2 DEF HubAgrees
<1>5. \A w \in Sockets : has'[w] \subseteq Committed /\ (view'[w] = "whole" => Owner[w] \in subs'[at[w]])
  BY <1>1, <1>2 DEF NothingPhantom, WholeReachable
<1> QED
  BY <1>1, <1>3, <1>4, <1>5, HubFrame

LEMMA InvariantStep ==
  ASSUME FanoutAssumption, FanoutInvariant, [Next]_vars
  PROVE  FanoutInvariant'
<1>1. ASSUME NEW m \in Messages, Post(m) \/ Publish(m)
      PROVE  FanoutInvariant'
  BY <1>1, PostStep, PublishStep
<1>2. ASSUME NEW m \in Messages, NEW w \in Sockets, Send(w, m)
      PROVE  FanoutInvariant'
  BY <1>2, SendStep
<1>3. ASSUME NEW sent \in SUBSET Messages, NEW given \in SUBSET Messages, Settle(sent, given)
      PROVE  FanoutInvariant'
  BY <1>3, SettleStep
<1>4. ASSUME NEW i \in Instances,
             Dispatch(i) \/ Start(i) \/ Listen(i) \/ StopListening(i) \/ Stop(i)
      PROVE  FanoutInvariant'
  BY <1>4, DispatchStep, TaskStep, StopListeningStep, StopStep
<1>5. ASSUME NEW a \in Actors, CleanUp(a)
      PROVE  FanoutInvariant'
  BY <1>5, CleanUpStep
<1>6. ASSUME NEW w \in Sockets,
             Answer(w) \/ AnswerBreaks(w) \/ Subscribe(w) \/ Load(w) \/ Leave(w) \/ Over(w)
      PROVE  FanoutInvariant'
  BY <1>6, AnswerStep, AnswerBreaksStep, SubscribeStep, LoadStep, LeaveStep, OverStep
<1>7. ASSUME NEW w \in Sockets, NEW i \in Instances, Connect(w, i)
      PROVE  FanoutInvariant'
  BY <1>7, ConnectStep
<1>8. CASE UNCHANGED vars
  BY <1>8, StutterStep
<1> QED
  BY <1>1, <1>2, <1>3, <1>4, <1>5, <1>6, <1>7, <1>8 DEF Next

-----------------------------------------------------------------------------
(* The inductive invariant of the whole way: what the channel carried is    *)
(* known to each page in step with the history, or is on its way to it, or *)
(* is lost for a reason; and such a page is a subscriber of its hub,       *)
(* however often the dead sockets of its principal are disconnected.       *)
THEOREM Carried == Spec => []FanoutInvariant
<1>1. Init => FanoutInvariant
  BY FanoutAssumption, InitInvariant
<1>2. FanoutInvariant /\ [Next]_vars => FanoutInvariant'
  BY FanoutAssumption, InvariantStep
<1> QED
  BY <1>1, <1>2, PTL DEF Spec

(* The state is well typed. *)
THEOREM FanoutTyping == Spec => []TypeOK
<1>1. FanoutInvariant => TypeOK
  BY DEF FanoutInvariant
<1> QED
  BY <1>1, Carried, PTL

(* _handle_send, _on_pubsub_event and the history tell a page only of       *)
(* messages that are committed.                                            *)
THEOREM OnlyStoredIsTold == Spec => []NothingPhantom
<1>1. FanoutInvariant => NothingPhantom
  BY DEF FanoutInvariant
<1> QED
  BY <1>1, Carried, PTL

(* A page that loads the history as a subscriber, and is not unsubscribed   *)
(* by the disconnect of another socket since, misses a message only for a  *)
(* reason that NoGap names, at any number of instances.                    *)
THEOREM GapsHaveCause == Spec => []NoGap
<1>1. FanoutInvariant => NoGap
  <2>1. SUFFICES ASSUME FanoutInvariant, NEW w \in Sockets, view[w] = "whole", NEW m \in Committed,
                        stage[m] \notin {"queued", "dropped"}
                 PROVE  m \in has[w] \/ <<w, m>> \in lost \/ m \in Queued(at[w])
    BY DEF NoGap
  <2>2. m \in Messages /\ stage[m] = "settled"
    BY <2>1 DEF FanoutInvariant, TypeOK, Relay!TypeOK, Relay!Stages, Committed
  <2>3. delivered[m]
    BY <2>1, <2>2 DEF FanoutInvariant, StagesAgree
  <2> QED
    BY <2>1, <2>2, <2>3 DEF FanoutInvariant, CarriedArrives
<1> QED
  BY <1>1, Carried, PTL

-----------------------------------------------------------------------------
LEMMA RelayMoves == Next => Relay!Next \/ UNCHANGED relay
<1> SUFFICES ASSUME Next
             PROVE  Relay!Next \/ UNCHANGED relay
  OBVIOUS
<1>1. ASSUME NEW m \in Messages, Post(m) \/ Publish(m) \/ \E w \in Sockets : Send(w, m)
      PROVE  Relay!Accept(m) \/ Relay!Deliver(m) \/ UNCHANGED relay
  BY <1>1 DEF Post, Publish, Send
<1>2. ASSUME NEW sent \in SUBSET Messages, NEW given \in SUBSET Messages, Settle(sent, given)
      PROVE  Relay!Finish(sent, given)
  BY <1>2 DEF Settle
<1>3. ASSUME NEW i \in Instances,
             Dispatch(i) \/ Start(i) \/ Listen(i) \/ StopListening(i) \/ Stop(i)
      PROVE  UNCHANGED relay
  BY <1>3 DEF Dispatch, Start, Listen, StopListening, Stop
<1>4. ASSUME NEW a \in Actors, CleanUp(a)
      PROVE  UNCHANGED relay
  BY <1>4 DEF CleanUp
<1>5. ASSUME NEW w \in Sockets,
             \/ Answer(w) \/ AnswerBreaks(w) \/ Subscribe(w) \/ Load(w) \/ Leave(w) \/ Over(w)
             \/ \E i \in Instances : Connect(w, i)
      PROVE  UNCHANGED relay
  BY <1>5 DEF Answer, AnswerBreaks, Subscribe, Load, Leave, Over, Connect
<1> QED
  BY <1>1, <1>2, <1>3, <1>4, <1>5 DEF Next, Relay!Next

(* The fan-out uses the outbox as EventRelay promises it and in no other     *)
(* way: with OutboxRelayProofs!Implements, nothing is assumed of the outbox *)
(* that its workers do not keep.                                           *)
THEOREM UsesRelay == Spec => Relay!Spec
<1>1. Init => Relay!Init
  BY DEF Init
<1>2. [Next]_vars => [Relay!Next]_(Relay!vars)
  BY RelayMoves DEF vars, relay, Relay!vars
<1> QED
  BY <1>1, <1>2, PTL DEF Spec, Relay!Spec
=============================================================================
