------------------------------- MODULE WsHub -------------------------------
(***************************************************************************)
(* The WebSocket side of one API instance: the ConnectionManager, the      *)
(* handlers of its sockets (api/v1/routers/ws.py) and the task that        *)
(* listens to the Redis channel (app.py, redis_pubsub.py).                 *)
(*                                                                         *)
(* All of it runs on one event loop, so a step lasts from one await to the *)
(* next. The only awaits with the registry in use are the send_text of     *)
(* broadcast_to_conversation, which waits inside two loops over live       *)
(* Python sets. An iterator over a set raises RuntimeError at its next     *)
(* step when the size of the set is not the one it started with; when the  *)
(* set was changed and has that size again, it goes on somewhere in the    *)
(* changed table. send_to_principal and unsubscribe have no caller.        *)
(***************************************************************************)
EXTENDS Integers, Sequences, FiniteSets

CONSTANTS
  Sockets,        \* WebSockets, each connects at most once
  Principals,
  Owner,          \* the principal that a socket's token names
  Conversations,
  Listener,       \* the Pub/Sub task
  Idle,           \* stands for no broadcast
  MaxEvents,      \* bound: events published on the channel
  MaxSends        \* bound: message.send frames of all clients

ASSUME HubAssumption ==
  /\ Owner \in [Sockets -> Principals]
  /\ Listener \notin Sockets
  /\ MaxEvents \in Nat /\ MaxSends \in Nat
  /\ IsFiniteSet(Sockets) /\ IsFiniteSet(Principals)

Actors == Sockets \cup {Listener}

VARIABLES
  conns,      \* _connections: the registered sockets of each principal
  subs,       \* _subscriptions: the principals of each conversation
  place,      \* where the handler of each socket is
  alive,      \* whether the peer of a socket is there: send_text works
  job,        \* the broadcast that each actor is in
  channel,    \* events that Redis has delivered and nobody has dispatched
  listening,  \* the Pub/Sub task runs
  published,  \* history: how many events the channel carried
  sends,      \* history: how many frames asked for a broadcast
  received,   \* history: numbers of the channel events each peer received
  asked,      \* history: conversations each client has subscribed to
  missed      \* history: <<socket, calm>>, owed a broadcast that ended without it

registry == <<conns, subs>>
vars == <<conns, subs, place, alive, job, channel, listening, published, sends,
          received, asked, missed>>

(* A Python set iterator: the size at its start, what is ahead of it, and   *)
(* whether the set was changed or is no longer in the dict.                *)
Iterator(S) == [size : Nat, left : SUBSET S, state : {"exact", "changed", "gone"}]

(* event is 0 for a direct broadcast of a handler. to is the socket whose   *)
(* send_text is awaited. owed: sockets registered and subscribed since the *)
(* start that no send has been tried on. calm: no set changed while it was *)
(* iterated over.                                                          *)
Job == [conv : Conversations, event : 0..MaxEvents, who : Principals, to : Sockets,
        outer : Iterator(Principals), inner : Iterator(Sockets),
        dead : SUBSET Sockets, owed : SUBSET Sockets, calm : BOOLEAN]

Init ==
  /\ conns = [p \in Principals |-> {}]
  /\ subs = [c \in Conversations |-> {}]
  /\ place = [w \in Sockets |-> "new"]
  /\ alive = [w \in Sockets |-> FALSE]
  /\ job = [a \in Actors |-> Idle]
  /\ channel = <<>>
  /\ listening = TRUE
  /\ published = 0
  /\ sends = 0
  /\ received = [w \in Sockets |-> <<>>]
  /\ asked = [w \in Sockets |-> {}]
  /\ missed = {}

-----------------------------------------------------------------------------
(* The registry. *)

ConnsWithout(D) == [p \in Principals |-> conns[p] \ D]

\* A slip: disconnect forgets the subscriptions.
SubsUntouched(D) == subs
(* disconnect of each socket of D; a principal loses all its subscriptions. *)
SubsWithout(D) == [c \in Conversations |-> subs[c] \ {Owner[w] : w \in D}]

Reachable(c, C, S) == {w \in Sockets : w \in C[Owner[w]] /\ Owner[w] \in S[c]}

(* What a change of the registry to C and S does to a broadcast j.          *)
(* disconnect deletes the empty set of a principal from the dict, and a    *)
(* later connect makes another one.                                        *)
Disturbed(j, C, S) ==
  LET outerChanges == S[j.conv] # subs[j.conv]
      innerChanges == C[j.who] # conns[j.who]
  IN  [j EXCEPT
         !.outer.state = IF outerChanges THEN "changed" ELSE @,
         !.inner.state = IF @ = "gone" \/ (innerChanges /\ C[j.who] = {}) THEN "gone"
                         ELSE IF innerChanges THEN "changed" ELSE @,
         !.owed = @ \cap Reachable(j.conv, C, S),
         !.calm = @ /\ ~outerChanges /\ ~innerChanges]

(* The registry becomes C, S, and a goes on with what, a job or Idle. *)
Register(C, S, a, what) ==
  /\ conns' = C
  /\ subs' = S
  /\ job' = [b \in Actors |-> IF b = a THEN what
                              ELSE IF job[b] = Idle THEN Idle
                              ELSE Disturbed(job[b], C, S)]

(* connect, once the handshake is accepted. *)
Connect(w) ==
  /\ place[w] = "new"
  /\ place' = [place EXCEPT ![w] = "open"]
  /\ alive' = [alive EXCEPT ![w] = TRUE]
  /\ Register([conns EXCEPT ![Owner[w]] = @ \cup {w}], subs, w, Idle)
  /\ UNCHANGED <<channel, listening, published, sends, received, asked, missed>>

Reading(w) == place[w] = "open" /\ job[w] = Idle

\* A slip: the socket is subscribed in place of its principal.
SubscribeSocket(w, c) ==
  /\ Reading(w) /\ c \notin asked[w]
  /\ Register(conns, [subs EXCEPT ![c] = @ \cup {w}], w, Idle)
  /\ asked' = [asked EXCEPT ![w] = @ \cup {c}]
  /\ UNCHANGED <<place, alive, channel, listening, published, sends, received, missed>>

(* The frame may have been sent before the peer went away. *)
Subscribe(w, c) ==
  /\ Reading(w) /\ c \notin asked[w]
  /\ Register(conns, [subs EXCEPT ![c] = @ \cup {Owner[w]}], w, Idle)
  /\ asked' = [asked EXCEPT ![w] = @ \cup {c}]
  /\ UNCHANGED <<place, alive, channel, listening, published, sends, received, missed>>

(* The peer goes away; its handler and the senders will notice. *)
Leave(w) ==
  /\ alive[w]
  /\ alive' = [alive EXCEPT ![w] = FALSE]
  /\ UNCHANGED <<registry, place, job, channel, listening, published, sends, received,
                 asked, missed>>

(* The handler ends, by WebSocketDisconnect or by an error of a frame. *)
Over(w) ==
  /\ Reading(w)
  /\ place' = [place EXCEPT ![w] = "over"]
  /\ alive' = [alive EXCEPT ![w] = FALSE]
  /\ Register(ConnsWithout({w}), SubsWithout({w}), w, Idle)
  /\ UNCHANGED <<channel, listening, published, sends, received, asked, missed>>

-----------------------------------------------------------------------------
(* broadcast_to_conversation *)

(* Where an iterator over what is now S may be: what is ahead of it. *)
Ahead(it, S) == IF it.state = "exact" THEN {it.left} ELSE SUBSET S

Breaks(it, S) ==
  \/ it.state = "gone"
  \/ it.state = "changed" /\ Cardinality(S) # it.size

At(size, left) == [size |-> size, left |-> left, state |-> "exact"]

Note(j) == missed' = missed \cup {<<w, j.calm>> : w \in j.owed}

(* Both loops are done: the sockets found dead are disconnected. *)
Finish(a, j) ==
  /\ Register(ConnsWithout(j.dead), SubsWithout(j.dead), a, Idle)
  /\ Note(j)
  /\ UNCHANGED <<place, alive>>

\* A slip: the listening task puts an event back that it could not broadcast.
BreakRequeued(a, j) ==
  /\ IF a = Listener
     THEN Register(conns, subs, a, Idle) /\ UNCHANGED <<place, alive>>
          /\ channel' = Append(channel, [event |-> j.event, conv |-> j.conv])
     ELSE /\ Register(ConnsWithout({a}), SubsWithout({a}), a, Idle)
          /\ place' = [place EXCEPT ![a] = "over"]
          /\ alive' = [alive EXCEPT ![a] = FALSE]
          /\ UNCHANGED channel
  /\ Note(j)

(* RuntimeError out of the loops: the dead sockets stay. The listening task *)
(* logs it, a handler ends and its socket is closed.                       *)
Break(a, j) ==
  /\ IF a = Listener
     THEN Register(conns, subs, a, Idle) /\ UNCHANGED <<place, alive>>
     ELSE /\ Register(ConnsWithout({a}), SubsWithout({a}), a, Idle)
          /\ place' = [place EXCEPT ![a] = "over"]
          /\ alive' = [alive EXCEPT ![a] = FALSE]
  /\ Note(j)
  /\ UNCHANGED channel

(* The outer loop of j goes on with the principals M ahead, up to the first *)
(* that has a socket; skipped principals have none.                        *)
Enter(a, j, M) ==
  LET connected == {p \in M : conns[p] # {}}
  IN  \/ connected = {} /\ Finish(a, j)
      \/ /\ \E p \in connected, K \in SUBSET (M \ connected) :
              \E w \in conns[p] :
                job' = [job EXCEPT ![a] =
                  [j EXCEPT !.outer = At(j.outer.size, M \ ({p} \cup K)),
                            !.inner = At(Cardinality(conns[p]), conns[p] \ {w}),
                            !.who = p, !.to = w]]
         /\ UNCHANGED <<registry, place, alive, missed>>

Begin(a, c, e) ==
  \E p \in Principals, w \in Sockets :
    Enter(a, [conv |-> c, event |-> e, who |-> p, to |-> w,
              outer |-> At(Cardinality(subs[c]), subs[c]), inner |-> At(0, {}),
              dead |-> {}, owed |-> Reachable(c, conns, subs), calm |-> TRUE],
          subs[c])

(* message.send: once send_message has answered, the sender's handler       *)
(* broadcasts.                                                             *)
Broadcast(w, c) ==
  /\ Reading(w) /\ sends < MaxSends
  /\ sends' = sends + 1
  /\ Begin(w, c, 0)
  /\ UNCHANGED <<channel, listening, published, received, asked>>

(* What is ahead of j once its send is done. *)
Proceed(a, j) ==
  \/ Breaks(j.inner, conns[j.who]) /\ Break(a, j)
  \/ /\ ~Breaks(j.inner, conns[j.who])
     /\ UNCHANGED channel
     /\ \E L \in Ahead(j.inner, conns[j.who]) : \E w \in L :
          job' = [job EXCEPT ![a] = [j EXCEPT !.inner = At(@.size, L \ {w}), !.to = w]]
     /\ UNCHANGED <<registry, place, alive, missed>>
  \/ /\ ~Breaks(j.inner, conns[j.who]) /\ {} \in Ahead(j.inner, conns[j.who])
     /\ \/ Breaks(j.outer, subs[j.conv]) /\ Break(a, j)
        \/ /\ ~Breaks(j.outer, subs[j.conv])
           /\ UNCHANGED channel
           /\ \E M \in Ahead(j.outer, subs[j.conv]) : Enter(a, j, M)

\* A slip: a socket that fails ends the loop over its principal's sockets.
TriedLast(j) ==
  [j EXCEPT !.owed = @ \ {j.to}, !.dead = IF alive[j.to] THEN @ ELSE @ \cup {j.to},
            !.inner.left = IF alive[j.to] THEN @ ELSE {}]

\* A slip: a socket that fails takes all sockets of its principal along.
TriedTogether(j) ==
  [j EXCEPT !.owed = @ \ {j.to}, !.dead = IF alive[j.to] THEN @ ELSE @ \cup conns[j.who]]

Tried(j) ==
  [j EXCEPT !.owed = @ \ {j.to}, !.dead = IF alive[j.to] THEN @ ELSE @ \cup {j.to}]

Hear(a) ==
  received' = IF a = Listener /\ alive[job[a].to]
              THEN [received EXCEPT ![job[a].to] = Append(@, job[a].event)]
              ELSE received

\* A slip: a send that fails is repeated.
DeliverAgain(a) ==
  /\ job[a] # Idle /\ alive[job[a].to]
  /\ Hear(a)
  /\ Proceed(a, Tried(job[a]))
  /\ UNCHANGED <<listening, published, sends, asked>>

(* send_text returns, or raises because the peer is gone. *)
Deliver(a) ==
  /\ job[a] # Idle
  /\ Hear(a)
  /\ Proceed(a, Tried(job[a]))
  /\ UNCHANGED <<listening, published, sends, asked>>

-----------------------------------------------------------------------------
(* The listening task. *)

(* The outbox worker publishes; Redis keeps nothing for who does not listen. *)
Publish(c) ==
  /\ published < MaxEvents
  /\ published' = published + 1
  /\ channel' = IF listening THEN Append(channel, [event |-> published + 1, conv |-> c])
                ELSE channel
  /\ UNCHANGED <<registry, place, alive, job, listening, sends, received, asked, missed>>

\* A slip: an event is dispatched only while somebody is connected.
DispatchToSomebody ==
  /\ listening /\ job[Listener] = Idle /\ channel # <<>> /\ \E p \in Principals : conns[p] # {}
  /\ channel' = Tail(channel)
  /\ Begin(Listener, Head(channel).conv, Head(channel).event)
  /\ UNCHANGED <<listening, published, sends, received, asked>>

(* The next event is dispatched when the callback of the last has returned. *)
Dispatch ==
  /\ listening /\ job[Listener] = Idle /\ channel # <<>>
  /\ channel' = Tail(channel)
  /\ Begin(Listener, Head(channel).conv, Head(channel).event)
  /\ UNCHANGED <<listening, published, sends, received, asked>>

(* A lost Redis connection ends the task, and nothing starts it again. *)
StopListening ==
  /\ listening /\ job[Listener] = Idle
  /\ listening' = FALSE
  /\ channel' = <<>>
  /\ UNCHANGED <<registry, place, alive, job, published, sends, received, asked, missed>>

Next ==
  \/ \E w \in Sockets :
       \/ Connect(w) \/ Leave(w) \/ Over(w)
       \/ \E c \in Conversations : Subscribe(w, c) \/ Broadcast(w, c)
  \/ \E a \in Actors : Deliver(a)
  \/ \E c \in Conversations : Publish(c)
  \/ Dispatch \/ StopListening

Spec == Init /\ [][Next]_vars

(* A send returns or raises, and the event loop runs what is ready. *)
Fairness ==
  /\ \A a \in Actors : WF_vars(Deliver(a))
  /\ WF_vars(Dispatch)

FairSpec == Spec /\ Fairness

-----------------------------------------------------------------------------
TypeOK ==
  /\ conns \in [Principals -> SUBSET Sockets]
  /\ subs \in [Conversations -> SUBSET Principals]
  /\ place \in [Sockets -> {"new", "open", "over"}]
  /\ alive \in [Sockets -> BOOLEAN]
  /\ job \in [Actors -> Job \cup {Idle}]
  /\ channel \in Seq([event : 1..MaxEvents, conv : Conversations])
  /\ listening \in BOOLEAN
  /\ published \in 0..MaxEvents
  /\ sends \in 0..MaxSends
  /\ received \in [Sockets -> Seq(1..MaxEvents)]
  /\ asked \in [Sockets -> SUBSET Conversations]
  /\ missed \subseteq Sockets \X BOOLEAN

(* Nothing outlives its handler: a registered socket and a subscribed       *)
(* principal have a handler that will unregister them, whatever broadcasts *)
(* disconnect in between and whatever frames of a dead socket still come.  *)
RegistryOwned ==
  /\ \A p \in Principals : \A w \in conns[p] : Owner[w] = p /\ place[w] = "open"
  /\ \A c \in Conversations : \A p \in subs[c] :
       \E w \in Sockets : Owner[w] = p /\ place[w] = "open"

(* A client that is there stays registered, and stays subscribed until      *)
(* another socket of its principal has gone: broadcasts disconnect nobody  *)
(* but the dead, however they overlap.                                     *)
OnlyTabsUnsubscribe ==
  \A w \in Sockets : place[w] = "open" /\ alive[w] =>
    /\ w \in conns[Owner[w]]
    /\ \A c \in asked[w] :
         \/ Owner[w] \in subs[c]
         \/ \E v \in Sockets \ {w} : Owner[v] = Owner[w] /\ place[v] # "new" /\ ~alive[v]

(* A broadcast that no change of a set it was iterating over has disturbed  *)
(* has tried every socket that was registered and subscribed all the time, *)
(* whichever others were dead.                                             *)
CalmReachesAll == \A m \in missed : ~m[2]

(* A client never sees the channel's events of its instance in another      *)
(* order than the channel carried them.                                    *)
FanoutInOrder ==
  \A w \in Sockets : \A i, k \in 1..Len(received[w]) :
    i < k => received[w][i] <= received[w][k]

(* A broadcast ends, by its loops or by an error, however many sockets die  *)
(* and however often the sets change below it.                             *)
BroadcastsEnd == \A a \in Actors : job[a] # Idle ~> job[a] = Idle

(* The events that have reached the instance are dispatched, or its         *)
(* listening task is gone.                                                 *)
ChannelDrains == channel # <<>> ~> (channel = <<>> \/ ~listening)

-----------------------------------------------------------------------------
(* What the properties rest on. *)

(* A broadcast j with the registry C, S while the handlers are at P and the *)
(* peers are as A says. What it has found dead is gone for good. Whom it   *)
(* owes its event is registered and subscribed, and lies ahead of its      *)
(* iterators as long as it is calm.                                        *)
OnCourse(j, C, S, P, A) ==
  /\ j \in Job
  /\ \A w \in j.dead : P[w] # "new" /\ ~A[w]
  /\ \A w \in j.inner.left \cup {j.to} : P[w] # "new"
  /\ j.owed \subseteq Reachable(j.conv, C, S)
  /\ j.calm =>
       /\ j.inner.state = "exact" /\ j.outer.state = "exact"
       /\ \A w \in j.owed : w = j.to \/ w \in j.inner.left \/ Owner[w] \in j.outer.left

JobsOnCourse ==
  \A a \in Actors : job[a] # Idle => OnCourse(job[a], conns, subs, place, alive)

(* A socket that has no handler yet is silent. *)
NewAreQuiet ==
  \A w \in Sockets : place[w] = "new" => asked[w] = {} /\ ~alive[w]

(* The event in broadcast is ahead of what was received, and those waiting  *)
(* are ahead of it and of each other.                                      *)
EventsAhead ==
  /\ job[Listener] # Idle => job[Listener].event \in 1..published
  /\ \A k \in 1..Len(channel) :
       /\ channel[k].event \in 1..published
       /\ \A i \in 1..Len(channel) : i < k => channel[i].event < channel[k].event
       /\ job[Listener] # Idle => job[Listener].event < channel[k].event
  /\ \A w \in Sockets : \A i \in 1..Len(received[w]) :
       /\ received[w][i] <= published
       /\ job[Listener] # Idle => received[w][i] <= job[Listener].event
       /\ \A k \in 1..Len(channel) : received[w][i] < channel[k].event

HubInvariant ==
  /\ TypeOK /\ RegistryOwned /\ NewAreQuiet /\ JobsOnCourse /\ EventsAhead
  /\ OnlyTabsUnsubscribe /\ CalmReachesAll /\ FanoutInOrder

-----------------------------------------------------------------------------
(* A statement of the documentation. *)

(* manager.py:51 "Send a WS message to all principals subscribed to a       *)
(* conversation."                                                          *)
SubscribersReached == missed = {}
=============================================================================
