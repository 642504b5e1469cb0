------------------------------- MODULE Fanout -------------------------------
(***************************************************************************)
(* The way of a message from its commit to the clients of all API          *)
(* instances: the outbox (EventRelay, which OutboxRelay implements), the   *)
(* Redis channel, the listening task of each instance (redis_pubsub.py,    *)
(* app.py), the subscriptions of its hub (WsHub) and the histories that    *)
(* clients load over REST.                                                 *)
(*                                                                         *)
(* There is one conversation, and each message has one event               *)
(* (ChatStore!ExactlyOnce). A broadcast is two steps: its sends, which     *)
(* reach all subscribers of the instance if undisturbed                    *)
(* (WsHub!CalmReachesAll) and any of them otherwise, and, if some socket   *)
(* was dead, the disconnect of those that were. The handler of a dead      *)
(* socket disconnects it again, whenever it ends. A history is one page    *)
(* (CursorPaging has more).                                                *)
(***************************************************************************)
EXTENDS Integers, Sequences

CONSTANTS
  Messages,
  Instances,   \* API processes
  Sockets,     \* WebSockets, each with the page that opened it
  Principals,
  Owner,       \* the principal that a socket's token names
  None,        \* no instance, no message
  MaxQueue     \* bound: events on their way to one instance

ASSUME FanoutAssumption ==
  /\ Owner \in [Sockets -> Principals]
  /\ None \notin Instances \cup Messages
  /\ Instances \cap Sockets = {}
  /\ MaxQueue \in Nat \ {0}

Actors == Instances \cup Sockets   \* listening tasks and handlers

VARIABLES
  stage,      \* where the event of each message is in its life
  delivered,  \* whether the channel ever carried it
  listener,   \* the Pub/Sub task of each instance; "down": no process
  queue,      \* events that Redis has sent to the instance
  subs,       \* the principals that its hub has as subscribers
  direct,     \* the message that each handler is about to broadcast
  found,      \* sockets that the broadcast of each actor has found dead
  at,         \* the instance that runs the handler of each socket
  peer,       \* what became of the page of each socket
  has,        \* messages each page there is was told of or has loaded
  view,       \* how the page came by its history
  lost        \* history: <<socket, message>> that an accident has cost a whole page

relay == <<stage, delivered>>
channel == <<listener, queue>>
hub == <<subs, direct, found, at, peer>>
pages == <<has, view, lost>>
vars == <<stage, delivered, listener, queue, subs, direct, found, at, peer, has, view, lost>>

Relay == INSTANCE EventRelay WITH Events <- Messages

(* gone: the peer is not there and the hub does not know, it has the socket *)
(* among its connections; dropped: a broadcast has disconnected it, and its *)
(* handler is still to end.                                                *)
Peers == {"none", "here", "gone", "dropped"}

(* blind: loaded before the hub had the principal as a subscriber; whole:   *)
(* loaded after; cut: whole until another socket's end unsubscribed it.    *)
Views == {"none", "blind", "whole", "cut"}

Init ==
  /\ Relay!Init
  /\ listener = [i \in Instances |-> "down"]
  /\ queue = [i \in Instances |-> <<>>]
  /\ subs = [i \in Instances |-> {}]
  /\ direct = [w \in Sockets |-> None]
  /\ found = [a \in Actors |-> {}]
  /\ at = [w \in Sockets |-> None]
  /\ peer = [w \in Sockets |-> "none"]
  /\ has = [w \in Sockets |-> {}]
  /\ view = [w \in Sockets |-> "none"]
  /\ lost = {}

Committed == {m \in Messages : stage[m] # "absent"}

(* Whom a broadcast of i sends to, and who of them relies on it. *)
Reachable(i) == {w \in Sockets : at[w] = i /\ peer[w] \in {"here", "gone"} /\ Owner[w] \in subs[i]}

Audience(i) == {w \in Reachable(i) : view[w] = "whole"}

(* The sends of a broadcast to the sockets S. *)
Told(S, m) ==
  [w \in Sockets |-> IF w \in S /\ peer[w] = "here" THEN has[w] \cup {m} ELSE has[w]]

Dead(S) == {w \in S : peer[w] = "gone"}

-----------------------------------------------------------------------------
(* The registry of an instance. *)

(* Accidents are of no account any more for a page that is not whole. *)
Accidents(views) == {x \in lost : views[x[1]] = "whole"}

(* How views change when i's hub loses the principals P. *)
ViewsWithout(i, P) ==
  [w \in Sockets |-> IF at[w] = i /\ Owner[w] \in P /\ view[w] = "whole" THEN "cut" ELSE view[w]]

(* The handler of w ends and disconnects it: its principal is no subscriber *)
(* any more, whatever other sockets it has.                                *)
End(w) ==
  /\ subs' = [subs EXCEPT ![at[w]] = @ \ {Owner[w]}]
  /\ at' = [at EXCEPT ![w] = None]
  /\ peer' = [peer EXCEPT ![w] = "none"]
  /\ view' = [ViewsWithout(at[w], {Owner[w]}) EXCEPT ![w] = "none"]
  /\ lost' = Accidents(view')

Home(a) == IF a \in Instances THEN a ELSE at[a]

(* The end of a broadcast disconnects what it has found dead, although the  *)
(* handler or another broadcast may have done so before and the principal  *)
(* may have subscribed again since.                                        *)
CleanUp(a) ==
  LET P == {Owner[w] : w \in found[a]}
  IN  /\ found[a] # {}
      /\ found' = [found EXCEPT ![a] = {}]
      /\ peer' = [w \in Sockets |-> IF w \in Dead(found[a]) THEN "dropped" ELSE peer[w]]
      /\ subs' = [subs EXCEPT ![Home(a)] = @ \ P]
      /\ view' = ViewsWithout(Home(a), P)
      /\ lost' = Accidents(view')
      /\ UNCHANGED <<relay, channel, direct, at, has>>

-----------------------------------------------------------------------------
(* Services and senders. *)

(* A message is committed over REST, by an admin action or by an event of   *)
(* LeafFlow: only its outbox row announces it.                             *)
Post(m) ==
  /\ Relay!Accept(m)
  /\ UNCHANGED <<channel, hub, pages>>

(* The handler of w waits for the next frame. Frames of a page that has     *)
(* gone may still be waiting.                                              *)
Reading(w) == at[w] # None /\ direct[w] = None /\ found[w] = {}

\* A slip: the broadcast does not wait for the commit.
SendUncommitted(w, m) ==
  /\ Reading(w)
  /\ Relay!Accept(m) \/ UNCHANGED relay
  /\ direct' = [direct EXCEPT ![w] = m]
  /\ UNCHANGED <<channel, subs, found, at, peer, pages>>

(* message.send, for the first time or repeated: once the message is        *)
(* stored, the handler will broadcast it itself.                           *)
Send(w, m) ==
  /\ Reading(w)
  /\ Relay!Accept(m) \/ (m \in Committed /\ UNCHANGED relay)
  /\ direct' = [direct EXCEPT ![w] = m]
  /\ UNCHANGED <<channel, subs, found, at, peer, pages>>

(* That broadcast. Who is missed will be told by the event. *)
Answer(w) ==
  /\ direct[w] # None
  /\ \E S \in SUBSET Reachable(at[w]) :
       /\ has' = Told(S, direct[w])
       /\ found' = [found EXCEPT ![w] = Dead(S)]
  /\ direct' = [direct EXCEPT ![w] = None]
  /\ UNCHANGED <<relay, channel, subs, at, peer, view, lost>>

(* A changed set ends it with an error, and the handler with it. *)
AnswerBreaks(w) ==
  /\ direct[w] # None
  /\ \E S \in SUBSET Reachable(at[w]) : has' = [Told(S, direct[w]) EXCEPT ![w] = {}]
  /\ direct' = [direct EXCEPT ![w] = None]
  /\ End(w)
  /\ UNCHANGED <<relay, channel, found>>

-----------------------------------------------------------------------------
(* The channel. *)

Queued(i) == {queue[i][k] : k \in 1..Len(queue[i])}

Full == \E i \in Instances : Len(queue[i]) >= MaxQueue

Deaf(i) == listener[i] # "on"

(* Redis keeps nothing for an instance that is not listening. *)
PassedBy(m) == {<<w, m>> : w \in UNION {Audience(i) : i \in {j \in Instances : Deaf(j)}}}

\* A slip: the worker publishes to one of the instances.
PublishToOne(m) ==
  /\ ~Full
  /\ Relay!Deliver(m)
  /\ \E k \in Instances :
       queue' = [i \in Instances |-> IF i = k /\ ~Deaf(i) THEN Append(queue[i], m) ELSE queue[i]]
  /\ lost' = lost \cup PassedBy(m)
  /\ UNCHANGED <<listener, hub, has, view>>

(* The outbox worker publishes. *)
Publish(m) ==
  /\ ~Full
  /\ Relay!Deliver(m)
  /\ queue' = [i \in Instances |-> IF Deaf(i) THEN queue[i] ELSE Append(queue[i], m)]
  /\ lost' = lost \cup PassedBy(m)
  /\ UNCHANGED <<listener, hub, has, view>>

\* A slip: the worker tries an event that fails for ever.
SettleSent(sent, given) ==
  /\ sent # {} /\ given = {}
  /\ Relay!Finish(sent, given)
  /\ UNCHANGED <<channel, hub, pages>>

(* It commits a batch: some events are sent, others given up. *)
Settle(sent, given) ==
  /\ sent \cup given # {}
  /\ Relay!Finish(sent, given)
  /\ UNCHANGED <<channel, hub, pages>>

(* The instance's task broadcasts the next event, once the last broadcast   *)
(* has ended. One that a changed set breaks is logged: the event is not    *)
(* kept, and the dead sockets stay.                                        *)
Dispatch(i) ==
  /\ listener[i] = "on" /\ queue[i] # <<>> /\ found[i] = {}
  /\ queue' = [queue EXCEPT ![i] = Tail(@)]
  /\ \E S \in SUBSET Reachable(i) :
       /\ has' = Told(S, Head(queue[i]))
       /\ \E D \in {{}, Dead(S)} : found' = [found EXCEPT ![i] = D]
       /\ lost' = lost \cup {<<w, Head(queue[i])>> : w \in Audience(i) \ S}
  /\ UNCHANGED <<relay, listener, subs, direct, at, peer, view>>

-----------------------------------------------------------------------------
(* Instances. *)

(* lifespan starts the task and serves without waiting for it. *)
Start(i) ==
  /\ listener[i] = "down"
  /\ listener' = [listener EXCEPT ![i] = "starting"]
  /\ UNCHANGED <<relay, queue, hub, pages>>

Listen(i) ==
  /\ listener[i] = "starting"
  /\ listener' = [listener EXCEPT ![i] = "on"]
  /\ UNCHANGED <<relay, queue, hub, pages>>

(* An error of the connection to Redis ends the task for good, with the     *)
(* events that were on their way.                                          *)
StopListening(i) ==
  /\ listener[i] \in {"starting", "on"} /\ found[i] = {}
  /\ listener' = [listener EXCEPT ![i] = "off"]
  /\ queue' = [queue EXCEPT ![i] = <<>>]
  /\ lost' = lost \cup (Audience(i) \X Queued(i))
  /\ UNCHANGED <<relay, hub, has, view>>

(* The process ends; what it had in memory is gone. *)
Stop(i) ==
  /\ listener[i] # "down"
  /\ listener' = [listener EXCEPT ![i] = "down"]
  /\ queue' = [queue EXCEPT ![i] = <<>>]
  /\ subs' = [subs EXCEPT ![i] = {}]
  /\ direct' = [w \in Sockets |-> IF at[w] = i THEN None ELSE direct[w]]
  /\ found' = [a \in Actors |-> IF Home(a) = i THEN {} ELSE found[a]]
  /\ at' = [w \in Sockets |-> IF at[w] = i THEN None ELSE at[w]]
  /\ peer' = [w \in Sockets |-> IF at[w] = i THEN "none" ELSE peer[w]]
  /\ view' = [w \in Sockets |-> IF at[w] = i THEN "none" ELSE view[w]]
  /\ has' = [w \in Sockets |-> IF at[w] = i THEN {} ELSE has[w]]
  /\ lost' = Accidents(view')
  /\ UNCHANGED relay

-----------------------------------------------------------------------------
(* Sockets. *)

(* A page that comes back has another socket, while the hub may still know  *)
(* its old one. A socket is used again once nobody knows it any more.      *)
Connect(w, i) ==
  /\ at[w] = None /\ listener[i] # "down"
  /\ \A a \in Actors : w \notin found[a]
  /\ at' = [at EXCEPT ![w] = i]
  /\ peer' = [peer EXCEPT ![w] = "here"]
  /\ UNCHANGED <<relay, channel, subs, direct, found, has, view, lost>>

(* The frame is not acknowledged, and may be repeated. *)
Subscribe(w) ==
  /\ Reading(w) /\ Owner[w] \notin subs[at[w]]
  /\ subs' = [subs EXCEPT ![at[w]] = @ \cup {Owner[w]}]
  /\ UNCHANGED <<relay, channel, direct, found, at, peer, pages>>

(* The page loads the history from any instance, be its subscribe frame     *)
(* handled or not.                                                         *)
Load(w) ==
  /\ peer[w] = "here"
  /\ has' = [has EXCEPT ![w] = Committed]
  /\ view' = [view EXCEPT ![w] = IF Owner[w] \in subs[at[w]] THEN "whole" ELSE "blind"]
  /\ lost' = {x \in lost : x[1] # w}
  /\ UNCHANGED <<relay, channel, hub>>

(* The page goes away; the hub will notice. *)
Leave(w) ==
  /\ peer[w] = "here"
  /\ peer' = [peer EXCEPT ![w] = "gone"]
  /\ view' = [view EXCEPT ![w] = "none"]
  /\ has' = [has EXCEPT ![w] = {}]
  /\ lost' = Accidents(view')
  /\ UNCHANGED <<relay, channel, subs, direct, found, at>>

(* The read loop ends, by WebSocketDisconnect or by an error of a frame. *)
Over(w) ==
  /\ Reading(w)
  /\ End(w)
  /\ has' = [has EXCEPT ![w] = {}]
  /\ UNCHANGED <<relay, channel, direct, found>>

Next ==
  \/ \E m \in Messages : Post(m) \/ Publish(m) \/ \E w \in Sockets : Send(w, m)
  \/ \E sent, given \in SUBSET Messages : Settle(sent, given)
  \/ \E i \in Instances : Dispatch(i) \/ Start(i) \/ Listen(i) \/ StopListening(i) \/ Stop(i)
  \/ \E a \in Actors : CleanUp(a)
  \/ \E w \in Sockets :
       \/ Answer(w) \/ AnswerBreaks(w) \/ Subscribe(w) \/ Load(w) \/ Leave(w) \/ Over(w)
       \/ \E i \in Instances : Connect(w, i)

Spec == Init /\ [][Next]_vars

(* The outbox settles or gives up what it was given (the workers' fairness  *)
(* and OutboxRelay!EventuallyFinal), and the event loops run what is ready. *)
Fairness ==
  /\ \A m \in Messages :
       WF_vars(\E sent, given \in SUBSET Messages : m \in sent \cup given /\ Settle(sent, given))
  /\ \A i \in Instances : WF_vars(Dispatch(i)) /\ WF_vars(CleanUp(i))

FairSpec == Spec /\ Fairness

-----------------------------------------------------------------------------
TypeOK ==
  /\ Relay!TypeOK
  /\ listener \in [Instances -> {"down", "starting", "on", "off"}]
  /\ queue \in [Instances -> Seq(Messages)]
  /\ subs \in [Instances -> SUBSET Principals]
  /\ direct \in [Sockets -> Messages \cup {None}]
  /\ found \in [Actors -> SUBSET Sockets]
  /\ at \in [Sockets -> Instances \cup {None}]
  /\ peer \in [Sockets -> Peers]
  /\ has \in [Sockets -> SUBSET Messages]
  /\ view \in [Sockets -> Views]
  /\ lost \subseteq Sockets \X Messages

(* No page is told of a message that is not stored. *)
NothingPhantom ==
  /\ \A w \in Sockets : has[w] \subseteq Committed
  /\ \A i \in Instances : Queued(i) \subseteq Committed

(* A page that loads the history after subscribing has no gap: each stored  *)
(* message is known to it or on its way, or the outbox gave it up, or an   *)
(* accident is to blame that can be named: the instance was not listening, *)
(* a broadcast was disturbed. The other two reasons for a gap are views: a *)
(* page that loads before its frame is handled is blind, and one whose     *)
(* principal is disconnected with a dead socket, for the first time or     *)
(* once more, is cut.                                                      *)
NoGap ==
  \A w \in Sockets : view[w] = "whole" =>
    \A m \in Committed :
      \/ m \in has[w] \/ <<w, m>> \in lost
      \/ stage[m] \in {"queued", "dropped"}
      \/ m \in Queued(at[w])

(* And what is on its way arrives. *)
EventuallyTold ==
  \A w \in Sockets, m \in Messages :
    view[w] = "whole" /\ m \in Committed
      ~> (m \in has[w] \/ view[w] # "whole" \/ <<w, m>> \in lost \/ stage[m] = "dropped")

-----------------------------------------------------------------------------
(* What the properties rest on. *)

(* Only what is stored was carried, is broadcast or is settled, and only    *)
(* what was carried is settled.                                            *)
StagesAgree ==
  /\ \A m \in Messages :
       /\ delivered[m] => m \in Committed
       /\ stage[m] = "settled" => delivered[m]
  /\ \A w \in Sockets : direct[w] # None => direct[w] \in Committed

(* Who has a handler, what works in it, and whom a broadcast found dead. *)
HubAgrees ==
  /\ \A w \in Sockets :
       /\ at[w] = None <=> peer[w] = "none"
       /\ at[w] = None => direct[w] = None /\ found[w] = {}
       /\ direct[w] = None \/ found[w] = {}
       /\ view[w] # "none" => peer[w] = "here"
  /\ \A a \in Actors : \A w \in found[a] : peer[w] # "here"

(* A page in step with the history is a subscriber until it is cut off. *)
WholeReachable ==
  \A w \in Sockets : view[w] = "whole" => Owner[w] \in subs[at[w]]

(* NoGap, for whatever the channel carried, before it is settled as well. *)
CarriedArrives ==
  \A w \in Sockets : view[w] = "whole" =>
    \A m \in Messages : delivered[m] => m \in has[w] \/ <<w, m>> \in lost \/ m \in Queued(at[w])

FanoutInvariant ==
  TypeOK /\ NothingPhantom /\ StagesAgree /\ HubAgrees /\ WholeReachable /\ CarriedArrives
=============================================================================
