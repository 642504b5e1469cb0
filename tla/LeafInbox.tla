----------------------------- MODULE LeafInbox -----------------------------
(***************************************************************************)
(* What the consumer of LeafFlow's events promises, without a group, names *)
(* of consumers, batches or errors: an entry that was added since the      *)
(* inbox is open takes effect at most once, in one step that does what its *)
(* type says, and is acknowledged only afterwards. Nothing says that it    *)
(* takes effect, nor in which order.                                       *)
(* LeafConsumer is shown to implement this specification.                  *)
(***************************************************************************)
EXTENDS Integers, Sequences

CONSTANTS
  Orders,
  NoGroup    \* the inbox is not open

VARIABLES
  stream,    \* the entries, in the order in which they were added
  start,     \* how many there were when the inbox was opened, or NoGroup
  effects,   \* entries that took effect
  chats,     \* orders that have a conversation
  notes,     \* entries announced in a conversation, in that order
  acked      \* acknowledged entries

vars == <<stream, start, effects, chats, notes, acked>>

Entry == [type : {"created", "status", "other"}, order : Orders]

Init ==
  /\ stream = <<>> /\ start = NoGroup
  /\ effects = {} /\ chats = {} /\ notes = <<>> /\ acked = {}

Add(e) == stream' = Append(stream, e) /\ UNCHANGED <<start, effects, chats, notes, acked>>

Open ==
  /\ start = NoGroup
  /\ start' = Len(stream)
  /\ UNCHANGED <<stream, effects, chats, notes, acked>>

(* A created order gets its conversation, a change of status is announced   *)
(* where its order has one.                                                *)
TakeEffect(i) ==
  LET e == stream[i]
  IN  /\ start # NoGroup /\ start < i /\ i \notin effects
      /\ effects' = effects \cup {i}
      /\ chats' = IF e.type = "created" THEN chats \cup {e.order} ELSE chats
      /\ notes' = IF e.type = "status" /\ e.order \in chats THEN Append(notes, i) ELSE notes
      /\ UNCHANGED <<stream, start, acked>>

Acknowledge(i) ==
  /\ i \in effects
  /\ acked' = acked \cup {i}
  /\ UNCHANGED <<stream, start, effects, chats, notes>>

Next ==
  \/ \E e \in Entry : Add(e)
  \/ Open
  \/ \E i \in 1..Len(stream) : TakeEffect(i)
  \/ \E i \in effects : Acknowledge(i)

Spec == Init /\ [][Next]_vars
=============================================================================
