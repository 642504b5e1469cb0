------------------------- MODULE LeafConsumerProofs -------------------------
(***************************************************************************)
(* Proofs about LeafConsumer for any number of consumers, any batch size   *)
(* and any stream: what is acknowledged took effect, what the group has    *)
(* delivered is acknowledged or pending, and nothing is handled twice.     *)
(***************************************************************************)
EXTENDS LeafConsumer, TLAPS

(* The types the argument needs. *)
GroupTyped ==
  /\ stream \in Seq(Entry)
  /\ start \in Nat \cup {NoGroup} /\ group \in Nat
  /\ name \in [Consumers -> Nat] /\ names \in Nat
  /\ batch \in [Consumers -> Seq(Nat)]
  /\ stage \in [Consumers -> {"handle", "ack"}]
  /\ notes \in Seq(Nat \X Consumers)

(* What exists only since the group does. *)
Grouped ==
  /\ start = NoGroup => pending = {} /\ acked = {} /\ effects = {}
  /\ start # NoGroup => start <= group
  /\ \A c \in Consumers : Up(c) \/ batch[c] # <<>> => start # NoGroup

(* What a consumer has in hand lies behind the group's position and has not *)
(* taken effect, unless it is about to be acknowledged.                     *)
HandsFull ==
  \A c \in Consumers :
    /\ \A k \in 1..Len(batch[c]) :
         /\ batch[c][k] \in (start + 1)..group
         /\ batch[c][k] \in effects => k = 1 /\ stage[c] = "ack"
    /\ stage[c] = "ack" => batch[c] # <<>> /\ batch[c][1] \in effects

(* The order of the messages is that of effects that happened once. *)
NotesTookEffect ==
  /\ \A k \in 1..Len(notes) : notes[k][1] \in effects
  /\ \A i \in effects : i \in Nat /\ i <= group

GroupInvariant ==
  /\ GroupTyped /\ Grouped /\ HandsFull /\ NotesTookEffect
  /\ AckedTookEffect /\ HandledOnce

LEMMA TailFacts ==
  ASSUME NEW S, NEW s \in Seq(S), s # <<>>
  PROVE  /\ Tail(s) \in Seq(S) /\ Len(Tail(s)) = Len(s) - 1 /\ Len(s) \in Nat /\ Len(s) >= 1
         /\ Head(s) = s[1] /\ Head(s) \in S
         /\ \A k \in 1..Len(Tail(s)) : Tail(s)[k] = s[k + 1] /\ k + 1 \in 1..Len(s)
OBVIOUS

LEMMA NoneAfter ==
  ASSUME NEW m, NEW n \in Nat, m = n
  PROVE  (m + 1)..n = {}
OBVIOUS

LEMMA EntriesFacts ==
  ASSUME NEW m \in Nat, NEW n \in Nat, m <= n
  PROVE  /\ Entries(m, n) \in Seq(Nat) /\ Len(Entries(m, n)) = n - m
         /\ \A k \in 1..(n - m) : Entries(m, n)[k] = m + k
BY DEF Entries

LEMMA InitGrouped == Init => GroupInvariant
<1> SUFFICES ASSUME Init
             PROVE  GroupInvariant
  OBVIOUS
<1>1. GroupTyped
  BY DEF Init, GroupTyped
<1>2. Grouped /\ HandsFull /\ NotesTookEffect
  BY DEF Init, Grouped, HandsFull, NotesTookEffect, Up
<1>3. AckedTookEffect /\ HandledOnce
  BY DEF Init, AckedTookEffect, HandledOnce
<1> QED
  BY <1>1, <1>2, <1>3 DEF GroupInvariant

(* The group is made where the stream ends, and is not moved by who finds it. *)
LEMMA EnsureGroupKeeps ==
  ASSUME GroupInvariant, EnsureGroup,
         UNCHANGED <<stream, batch, stage, chat>>, names' \in Nat,
         name' \in [Consumers -> Nat]
  PROVE  GroupInvariant'
<1> USE DEF GroupInvariant
<1>1. start' # NoGroup /\ (start # NoGroup => start' = start /\ group' = group)
  BY ConsumerAssumption DEF EnsureGroup, GroupTyped, ConsumerAssumption
<1>2. GroupTyped'
  BY <1>1 DEF EnsureGroup, GroupTyped, chat
<1>3. start' <= group'
  BY DEF EnsureGroup, GroupTyped, Grouped
<1>4. Grouped'
  BY <1>1, <1>3 DEF Grouped
<1>5. \A c \in Consumers : start = NoGroup => batch[c] = <<>>
  BY DEF Grouped
<1>6. HandsFull'
  <2> SUFFICES ASSUME NEW c \in Consumers
               PROVE  /\ \A k \in 1..Len(batch[c]) :
                           /\ batch[c][k] \in (start' + 1)..group'
                           /\ batch[c][k] \in effects => k = 1 /\ stage[c] = "ack"
                      /\ stage[c] = "ack" => batch[c] # <<>> /\ batch[c][1] \in effects
    BY DEF HandsFull, chat
  <2>1. CASE start = NoGroup
    BY <1>5, <2>1 DEF HandsFull
  <2>2. CASE start # NoGroup
    BY <1>1, <2>2 DEF HandsFull
  <2> QED
    BY <2>1, <2>2
<1>7. NotesTookEffect'
  BY <1>1 DEF NotesTookEffect, Grouped, chat
<1>8. AckedTookEffect'
  <2>1. CASE start = NoGroup
    <3>1. pending' = {} /\ acked' = {} /\ start' = group' /\ group' \in Nat
      BY <2>1 DEF EnsureGroup, Grouped, GroupTyped
    <3>2. (start' + 1)..group' = {}
      BY <3>1, NoneAfter
    <3> QED
      BY <3>1, <3>2 DEF AckedTookEffect
  <2>2. CASE start # NoGroup
    BY <1>1, <2>2 DEF AckedTookEffect, EnsureGroup, chat
  <2> QED
    BY <2>1, <2>2
<1>9. HandledOnce'
  BY DEF HandledOnce, chat
<1> QED
  BY <1>2, <1>4, <1>6, <1>7, <1>8, <1>9

LEMMA AddKeeps ==
  ASSUME GroupInvariant, NEW e \in Entry, Add(e)
  PROVE  GroupInvariant'
<1> USE DEF GroupInvariant
<1>1. stream' \in Seq(Entry)
  BY DEF Add, GroupTyped
<1>2. GroupTyped' /\ Grouped' /\ HandsFull' /\ NotesTookEffect'
  BY <1>1 DEF Add, redis, chat, GroupTyped, Grouped, HandsFull, NotesTookEffect, Up
<1>3. AckedTookEffect' /\ HandledOnce'
  BY DEF Add, redis, chat, AckedTookEffect, HandledOnce
<1> QED
  BY <1>2, <1>3

LEMMA StartKeeps ==
  ASSUME GroupInvariant, NEW c \in Consumers, Start(c)
  PROVE  GroupInvariant'
<1>1. names' \in Nat /\ name' \in [Consumers -> Nat]
  BY DEF Start, GroupInvariant, GroupTyped
<1> QED
  BY <1>1, EnsureGroupKeeps DEF Start, chat

LEMMA CreateGroupKeeps ==
  ASSUME GroupInvariant, CreateGroup
  PROVE  GroupInvariant'
<1>1. names' \in Nat /\ name' \in [Consumers -> Nat]
  BY DEF CreateGroup, GroupInvariant, GroupTyped
<1> QED
  BY <1>1, EnsureGroupKeeps DEF CreateGroup, chat

LEMMA CrashKeeps ==
  ASSUME GroupInvariant, NEW c \in Consumers, Crash(c)
  PROVE  GroupInvariant'
<1> USE DEF GroupInvariant
<1>1. /\ batch' = [batch EXCEPT ![c] = <<>>] /\ stage' = [stage EXCEPT ![c] = "handle"]
      /\ name' = [name EXCEPT ![c] = 0] /\ UNCHANGED <<stream, redis, names, chat>>
  BY DEF Crash
<1>2. GroupTyped'
  BY <1>1 DEF GroupTyped, redis, chat
<1>3. Grouped'
  BY <1>1 DEF Grouped, GroupTyped, redis, chat, Up
<1>4. HandsFull'
  BY <1>1 DEF HandsFull, GroupTyped, redis, chat
<1>5. NotesTookEffect' /\ AckedTookEffect'
  BY <1>1 DEF NotesTookEffect, AckedTookEffect, redis, chat
<1>6. HandledOnce'
  BY <1>1 DEF HandledOnce, GroupTyped, redis, chat
<1> QED
  BY <1>2, <1>3, <1>4, <1>5, <1>6

(* What is fetched lies beyond everything the group has delivered before.   *)
LEMMA FetchKeeps ==
  ASSUME GroupInvariant, NEW c \in Consumers, Fetch(c)
  PROVE  GroupInvariant'
<1> USE DEF GroupInvariant
<1> DEFINE last == Least(group + BatchSize, Len(stream))
<1>1. last \in Nat /\ group < last /\ group' = last
  BY ConsumerAssumption DEF Fetch, Least, GroupTyped, ConsumerAssumption
<1>2. /\ Up(c) /\ batch[c] = <<>>
      /\ pending' = pending \cup {<<i, name[c]>> : i \in (group + 1)..last}
      /\ batch' = [batch EXCEPT ![c] = Entries(group, last)] \/ batch' = batch
      /\ UNCHANGED <<stream, start, acked, name, names, stage, chat>>
  BY DEF Fetch
<1> HIDE DEF last
<1>3. /\ Entries(group, last) \in Seq(Nat) /\ Len(Entries(group, last)) = last - group
      /\ \A k \in 1..(last - group) : Entries(group, last)[k] = group + k
  <2>1. group \in Nat /\ group <= last
    BY <1>1 DEF GroupTyped
  <2> QED
    BY <1>1, <2>1, EntriesFacts
<1>4. start # NoGroup /\ start \in Nat /\ start <= group /\ stage[c] = "handle"
  BY <1>2 DEF Grouped, GroupTyped, HandsFull
<1>5. GroupTyped'
  BY <1>1, <1>2, <1>3 DEF GroupTyped, chat
<1>6. Grouped'
  BY <1>1, <1>2, <1>4 DEF Grouped, GroupTyped, Up, chat
<1>7. \A i \in effects : i <= group
  BY DEF NotesTookEffect
<1>8. \A b \in Consumers : \A k \in 1..Len(batch'[b]) :
        \/ batch'[b] = batch[b] /\ batch[b][k] \in (start + 1)..group
        \/ b = c /\ k \in 1..(last - group) /\ batch'[b][k] = group + k
  <2> SUFFICES ASSUME NEW b \in Consumers, NEW k \in 1..Len(batch'[b])
               PROVE  \/ batch'[b] = batch[b] /\ batch[b][k] \in (start + 1)..group
                      \/ b = c /\ k \in 1..(last - group) /\ batch'[b][k] = group + k
    OBVIOUS
  <2>1. CASE batch'[b] = batch[b]
    BY <2>1 DEF HandsFull
  <2>2. CASE b = c /\ batch'[b] = Entries(group, last)
    BY <1>3, <2>2
  <2> QED
    BY <1>2, <2>1, <2>2 DEF GroupTyped
<1>9. HandsFull'
  <2> SUFFICES ASSUME NEW b \in Consumers
               PROVE  /\ \A k \in 1..Len(batch'[b]) :
                           /\ batch'[b][k] \in (start + 1)..last
                           /\ batch'[b][k] \in effects => k = 1 /\ stage[b] = "ack"
                      /\ stage[b] = "ack" => batch'[b] # <<>> /\ batch'[b][1] \in effects
    BY <1>1, <1>2 DEF HandsFull, chat
  <2>1. ASSUME NEW k \in 1..Len(batch'[b])
        PROVE  /\ batch'[b][k] \in (start + 1)..last
               /\ batch'[b][k] \in effects => k = 1 /\ stage[b] = "ack"
    <3>1. CASE batch'[b] = batch[b] /\ batch[b][k] \in (start + 1)..group
      BY <1>1, <1>4, <3>1 DEF HandsFull, GroupTyped
    <3>2. CASE b = c /\ k \in 1..(last - group) /\ batch'[b][k] = group + k
      <4>1. group \in Nat /\ start \in Nat /\ start <= group /\ last \in Nat
        BY <1>1, <1>4 DEF GroupTyped
      <4>2. k \in Nat /\ 1 <= k /\ k <= last - group
        BY <3>2, <4>1
      <4>3. group + k \in (start + 1)..last
        BY <4>1, <4>2
      <4>4. ~(group + k <= group)
        BY <4>1, <4>2
      <4>5. group + k \notin effects
        BY <1>7, <4>4
      <4> QED
        BY <3>2, <4>3, <4>5
    <3> QED
      BY <1>8, <3>1, <3>2
  <2>2. stage[b] = "ack" => b # c /\ batch'[b] = batch[b]
    BY <1>2, <1>4 DEF GroupTyped
  <2> QED
    BY <2>1, <2>2 DEF HandsFull
<1>10. NotesTookEffect'
  BY <1>1, <1>2 DEF NotesTookEffect, chat, GroupTyped
<1>11. AckedTookEffect'
  <2>1. {x[1] : x \in pending'} = {x[1] : x \in pending} \cup (group + 1)..last
    <3>1. ASSUME NEW y
          PROVE  y \in {x[1] : x \in pending'}
                   <=> y \in {x[1] : x \in pending} \cup (group + 1)..last
      <4>1. \A i \in (group + 1)..last : <<i, name[c]>> \in pending' /\ <<i, name[c]>>[1] = i
        BY <1>2
      <4>2. \A x \in pending' : x \in pending \/ x[1] \in (group + 1)..last
        BY <1>2
      <4>3. pending \subseteq pending'
        BY <1>2
      <4> QED
        BY <4>1, <4>2, <4>3
    <3> QED
      BY <3>1
  <2>2. (start + 1)..last = (start + 1)..group \cup (group + 1)..last
    BY <1>1, <1>4 DEF GroupTyped
  <2>3. acked \cup {x[1] : x \in pending} = (start + 1)..group /\ acked \subseteq effects
    BY <1>4 DEF AckedTookEffect
  <2>4. ASSUME NEW x \in pending'
        PROVE  x[1] \notin acked
    <3>1. x \in pending \/ x[1] \in (group + 1)..last
      BY <1>2
    <3> QED
      BY <1>1, <1>7, <2>3, <3>1 DEF AckedTookEffect, GroupTyped
  <2> QED
    BY <1>1, <1>2, <2>1, <2>2, <2>3, <2>4 DEF AckedTookEffect, chat
<1>12. HandledOnce'
  <2>1. ASSUME NEW b \in Consumers, NEW d \in Consumers,
               NEW j \in 1..Len(batch'[b]), NEW k \in 1..Len(batch'[d]),
               batch'[b][j] = batch'[d][k]
        PROVE  b = d /\ j = k
    <3>1. CASE batch'[b] = batch[b] /\ batch'[d] = batch[d]
      BY <2>1, <3>1 DEF HandledOnce
    <3>2. CASE /\ b = c /\ j \in 1..(last - group) /\ batch'[b][j] = group + j
               /\ d = c /\ k \in 1..(last - group) /\ batch'[d][k] = group + k
      BY <1>1, <2>1, <3>2 DEF GroupTyped
    <3>3. CASE /\ j \in 1..(last - group) /\ batch'[b][j] = group + j
               /\ batch'[d] = batch[d] /\ batch[d][k] \in (start + 1)..group
      <4>1. group + j = batch[d][k]
        BY <2>1, <3>3
      <4>2. group + j \in (start + 1)..group
        BY <3>3, <4>1
      <4> QED
        BY <1>4, <3>3, <4>2 DEF GroupTyped
    <3>4. CASE /\ batch'[b] = batch[b] /\ batch[b][j] \in (start + 1)..group
               /\ k \in 1..(last - group) /\ batch'[d][k] = group + k
      BY <1>1, <1>4, <2>1, <3>4 DEF GroupTyped
    <3> QED
      BY <1>8, <3>1, <3>2, <3>3, <3>4
  <2> QED
    BY <1>2, <2>1 DEF HandledOnce, chat
<1> QED
  BY <1>5, <1>6, <1>9, <1>10, <1>11, <1>12

(* The head of a consumer's batch is its own and of no other place. *)
LEMMA HeadFacts ==
  ASSUME GroupInvariant, NEW c \in Consumers, Working(c)
  PROVE  /\ Head(batch[c]) = batch[c][1] /\ 1 \in 1..Len(batch[c])
         /\ batch[c][1] \in (start + 1)..group
         /\ start \in Nat /\ start # NoGroup
         /\ \A b \in Consumers : \A k \in 1..Len(batch[b]) :
              batch[b][k] = batch[c][1] => b = c /\ k = 1
<1> USE DEF GroupInvariant
<1>1. batch[c] \in Seq(Nat) /\ batch[c] # <<>>
  BY DEF Working, GroupTyped
<1>2. Head(batch[c]) = batch[c][1] /\ 1 \in 1..Len(batch[c])
  BY <1>1, TailFacts
<1>3. start # NoGroup /\ start \in Nat
  BY <1>1 DEF Grouped, GroupTyped
<1> QED
  BY <1>2, <1>3 DEF HandsFull, HandledOnce

(* A handler's effect, of an entry that had none before. *)
LEMMA EffectFacts ==
  ASSUME GroupInvariant, NEW c \in Consumers,
         NEW i \in Nat, i <= group, i \notin effects, Effect(c, i)
  PROVE  /\ effects' = effects \cup {i}
         /\ notes' \in Seq(Nat \X Consumers)
         /\ \A k \in 1..Len(notes') : notes'[k][1] \in effects'
         /\ \A j, k \in 1..Len(notes') : notes'[j][1] = notes'[k][1] => j = k
<1> USE DEF GroupInvariant
<1>1. effects' = effects \cup {i} /\ (notes' = notes \/ notes' = Append(notes, <<i, c>>))
  BY DEF Effect
<1>2. notes \in Seq(Nat \X Consumers) /\ (\A k \in 1..Len(notes) : notes[k][1] \in effects)
  BY DEF GroupTyped, NotesTookEffect
<1>3. \A j, k \in 1..Len(notes) : notes[j][1] = notes[k][1] => j = k
  BY DEF HandledOnce
<1>4. CASE notes' = notes
  BY <1>1, <1>2, <1>3, <1>4
<1>5. CASE notes' = Append(notes, <<i, c>>)
  <2>1. /\ notes' \in Seq(Nat \X Consumers) /\ Len(notes') = Len(notes) + 1 /\ Len(notes) \in Nat
        /\ notes'[Len(notes) + 1] = <<i, c>>
        /\ \A k \in 1..Len(notes) : notes'[k] = notes[k]
    BY <1>2, <1>5
  <2>2. \A k \in 1..Len(notes') : k \in 1..Len(notes) \/ k = Len(notes) + 1
    BY <2>1
  <2>3. /\ \A k \in 1..Len(notes) : notes'[k][1] = notes[k][1] /\ notes[k][1] # i
        /\ notes'[Len(notes) + 1][1] = i
    BY <1>2, <2>1
  <2>4. \A k \in 1..Len(notes') : notes'[k][1] \in effects'
    BY <1>1, <1>2, <2>2, <2>3
  <2>5. ASSUME NEW j \in 1..Len(notes'), NEW k \in 1..Len(notes'),
               notes'[j][1] = notes'[k][1]
        PROVE  j = k
    <3>1. CASE j \in 1..Len(notes) /\ k \in 1..Len(notes)
      BY <1>3, <2>3, <2>5, <3>1
    <3>2. CASE j = Len(notes) + 1 \/ k = Len(notes) + 1
      BY <2>2, <2>3, <2>5, <3>2
    <3> QED
      BY <2>2, <3>1, <3>2
  <2> QED
    BY <1>1, <2>1, <2>4, <2>5
<1> QED
  BY <1>1, <1>4, <1>5

LEMMA HandleKeeps ==
  ASSUME GroupInvariant, NEW c \in Consumers, Handle(c)
  PROVE  GroupInvariant'
<1> USE DEF GroupInvariant
<1> DEFINE i == batch[c][1]
<1>1. /\ Working(c) /\ stage[c] = "handle" /\ Effect(c, Head(batch[c]))
      /\ stage' = [stage EXCEPT ![c] = "ack"]
      /\ UNCHANGED <<stream, redis, name, names, batch>>
  BY DEF Handle
<1>2. /\ Effect(c, i) /\ 1 \in 1..Len(batch[c]) /\ i \in (start + 1)..group
      /\ start \in Nat /\ start # NoGroup
      /\ \A b \in Consumers : \A k \in 1..Len(batch[b]) : batch[b][k] = i => b = c /\ k = 1
  BY <1>1, HeadFacts
<1>3. i \in Nat /\ i <= group /\ i \notin effects
  BY <1>1, <1>2 DEF HandsFull, GroupTyped
<1> HIDE DEF i
<1>4. /\ effects' = effects \cup {i}
      /\ notes' \in Seq(Nat \X Consumers)
      /\ \A k \in 1..Len(notes') : notes'[k][1] \in effects'
      /\ \A j, k \in 1..Len(notes') : notes'[j][1] = notes'[k][1] => j = k
  BY <1>2, <1>3, EffectFacts
<1>5. GroupTyped' /\ Grouped'
  BY <1>1, <1>2, <1>4 DEF GroupTyped, Grouped, redis, Up
<1>6. HandsFull'
  <2> SUFFICES ASSUME NEW b \in Consumers
               PROVE  /\ \A k \in 1..Len(batch[b]) :
                           /\ batch[b][k] \in (start + 1)..group
                           /\ batch[b][k] \in effects' => k = 1 /\ stage'[b] = "ack"
                      /\ stage'[b] = "ack" => batch[b] # <<>> /\ batch[b][1] \in effects'
    BY <1>1 DEF HandsFull, redis
  <2>1. CASE b = c
    <3>1. stage'[b] = "ack" /\ batch[b] # <<>>
      BY <1>1, <2>1 DEF GroupTyped, Working
    <3> QED
      BY <1>1, <1>2, <1>4, <2>1, <3>1 DEF HandsFull, i
  <2>2. CASE b # c
    <3>1. stage'[b] = stage[b]
      BY <1>1, <2>2 DEF GroupTyped
    <3> QED
      BY <1>2, <1>4, <2>2, <3>1 DEF HandsFull
  <2> QED
    BY <2>1, <2>2
<1>7. NotesTookEffect'
  BY <1>1, <1>3, <1>4 DEF NotesTookEffect, redis
<1>8. AckedTookEffect'
  BY <1>1, <1>4 DEF AckedTookEffect, redis
<1>9. HandledOnce'
  <2>1. \A b, d \in Consumers : \A j \in 1..Len(batch[b]), k \in 1..Len(batch[d]) :
          batch[b][j] = batch[d][k] => b = d /\ j = k
    BY DEF HandledOnce
  <2>2. batch' = batch
    BY <1>1
  <2>3. \A b, d \in Consumers : \A j \in 1..Len(batch'[b]), k \in 1..Len(batch'[d]) :
          batch'[b][j] = batch'[d][k] => b = d /\ j = k
    BY <2>1, <2>2
  <2>4. \A j, k \in 1..Len(notes') : notes'[j][1] = notes'[k][1] => j = k
    BY <1>4
  <2> QED
    BY <2>3, <2>4 DEF HandledOnce
<1> QED
  BY <1>5, <1>6, <1>7, <1>8, <1>9

(* Going on to the next entry leaves nothing of the head in anybody's hands. *)
LEMMA NextEntryFacts ==
  ASSUME GroupInvariant, NEW c \in Consumers, Working(c), NextEntry(c),
         effects' = effects \/ effects' = effects \cup {batch[c][1]},
         UNCHANGED <<start, group>>
  PROVE  /\ batch' \in [Consumers -> Seq(Nat)]
         /\ stage' \in [Consumers -> {"handle", "ack"}]
         /\ \A b \in Consumers : batch'[b] # <<>> => batch[b] # <<>>
         /\ HandsFull'
         /\ \A b, d \in Consumers : \A j \in 1..Len(batch'[b]), k \in 1..Len(batch'[d]) :
              batch'[b][j] = batch'[d][k] => b = d /\ j = k
<1> USE DEF GroupInvariant
<1>1. /\ batch' = [batch EXCEPT ![c] = Tail(@)]
      /\ stage' = [stage EXCEPT ![c] = "handle"]
  BY DEF NextEntry
<1>2. /\ Tail(batch[c]) \in Seq(Nat) /\ batch[c] # <<>>
      /\ \A k \in 1..Len(Tail(batch[c])) :
           Tail(batch[c])[k] = batch[c][k + 1] /\ k + 1 \in 1..Len(batch[c])
  BY TailFacts DEF Working, GroupTyped
<1>3. /\ batch' \in [Consumers -> Seq(Nat)]
      /\ stage' \in [Consumers -> {"handle", "ack"}]
      /\ batch'[c] = Tail(batch[c]) /\ stage'[c] = "handle"
      /\ \A b \in Consumers \ {c} : batch'[b] = batch[b] /\ stage'[b] = stage[b]
  BY <1>1, <1>2 DEF GroupTyped
<1>4. \A b \in Consumers : \A k \in 1..Len(batch[b]) :
        batch[b][k] = batch[c][1] => b = c /\ k = 1
  BY HeadFacts
<1>5. \A b \in Consumers : batch'[b] # <<>> => batch[b] # <<>>
  BY <1>2, <1>3
<1>6. HandsFull'
  <2> SUFFICES ASSUME NEW b \in Consumers
               PROVE  /\ \A k \in 1..Len(batch'[b]) :
                           /\ batch'[b][k] \in (start + 1)..group
                           /\ batch'[b][k] \in effects' => k = 1 /\ stage'[b] = "ack"
                      /\ stage'[b] = "ack" => batch'[b] # <<>> /\ batch'[b][1] \in effects'
    BY DEF HandsFull
  <2>1. CASE b = c
    <3>1. ASSUME NEW k \in 1..Len(batch'[c])
          PROVE  batch'[c][k] \in (start + 1)..group /\ batch'[c][k] \notin effects'
      <4>1. /\ batch'[c][k] = batch[c][k + 1] /\ k + 1 \in 1..Len(batch[c]) /\ k + 1 # 1
        BY <1>2, <1>3, <3>1
      <4>2. /\ batch[c][k + 1] \in (start + 1)..group /\ batch[c][k + 1] \notin effects
            /\ batch[c][k + 1] # batch[c][1]
        BY <1>4, <4>1 DEF HandsFull
      <4> QED
        BY <4>1, <4>2
    <3> QED
      BY <1>3, <2>1, <3>1
  <2>2. CASE b # c
    <3>1. batch'[b] = batch[b] /\ stage'[b] = stage[b]
      BY <1>3, <2>2
    <3> QED
      BY <1>4, <2>2, <3>1 DEF HandsFull
  <2> QED
    BY <2>1, <2>2
<1>7. ASSUME NEW b \in Consumers, NEW d \in Consumers,
             NEW j \in 1..Len(batch'[b]), NEW k \in 1..Len(batch'[d]),
             batch'[b][j] = batch'[d][k]
      PROVE  b = d /\ j = k
  <2> DEFINE Was(e, n) == IF e = c THEN n + 1 ELSE n
  <2>1. Was(b, j) \in 1..Len(batch[b]) /\ batch'[b][j] = batch[b][Was(b, j)]
    BY <1>2, <1>3
  <2>2. Was(d, k) \in 1..Len(batch[d]) /\ batch'[d][k] = batch[d][Was(d, k)]
    BY <1>2, <1>3
  <2>3. b = d /\ Was(b, j) = Was(d, k)
    <3> HIDE DEF Was
    <3>1. batch[b][Was(b, j)] = batch[d][Was(d, k)]
      BY <1>7, <2>1, <2>2
    <3> QED
      BY <2>1, <2>2, <3>1 DEF HandledOnce
  <2>4. j \in Int /\ k \in Int
    OBVIOUS
  <2>5. CASE b = c
    <3>1. j + 1 = k + 1
      BY <2>3, <2>5
    <3> HIDE DEF Was
    <3> QED
      BY <2>3, <2>4, <3>1
  <2>6. CASE b # c
    BY <2>3, <2>6
  <2> QED
    BY <2>5, <2>6
<1> QED
  BY <1>3, <1>5, <1>6, <1>7

LEMMA FailKeeps ==
  ASSUME GroupInvariant, NEW c \in Consumers, Fail(c)
  PROVE  GroupInvariant'
<1> USE DEF GroupInvariant
<1> DEFINE i == batch[c][1]
<1>1. /\ Working(c) /\ NextEntry(c)
      /\ UNCHANGED chat \/ (stage[c] = "handle" /\ Effect(c, i))
      /\ UNCHANGED <<stream, redis, name, names>>
  <2>1. Working(c)
    BY DEF Fail
  <2>2. Head(batch[c]) = i
    BY <2>1, HeadFacts
  <2> HIDE DEF i
  <2> QED
    BY <2>2 DEF Fail
<1>2. i \in (start + 1)..group /\ start \in Nat /\ start # NoGroup
  BY <1>1, HeadFacts
<1>3. i \in Nat /\ i <= group
  BY <1>2 DEF GroupTyped
<1>4. /\ effects' = effects \/ effects' = effects \cup {i}
      /\ notes' \in Seq(Nat \X Consumers)
      /\ \A k \in 1..Len(notes') : notes'[k][1] \in effects'
      /\ \A j, k \in 1..Len(notes') : notes'[j][1] = notes'[k][1] => j = k
  <2>1. CASE UNCHANGED chat
    BY <2>1 DEF chat, GroupTyped, NotesTookEffect, HandledOnce
  <2>2. CASE stage[c] = "handle" /\ Effect(c, i)
    <3>1. i \notin effects
      BY <1>1, <2>2, HeadFacts DEF HandsFull
    <3> HIDE DEF i
    <3> QED
      BY <1>3, <2>2, <3>1, EffectFacts
  <2> QED
    BY <1>1, <2>1, <2>2
<1>5. /\ batch' \in [Consumers -> Seq(Nat)]
      /\ stage' \in [Consumers -> {"handle", "ack"}]
      /\ \A b \in Consumers : batch'[b] # <<>> => batch[b] # <<>>
      /\ HandsFull'
      /\ \A b, d \in Consumers : \A j \in 1..Len(batch'[b]), k \in 1..Len(batch'[d]) :
           batch'[b][j] = batch'[d][k] => b = d /\ j = k
  BY <1>1, <1>4, NextEntryFacts DEF redis
<1> HIDE DEF i
<1>6. GroupTyped' /\ Grouped'
  BY <1>1, <1>2, <1>4, <1>5 DEF GroupTyped, Grouped, redis, Up
<1>7. NotesTookEffect'
  BY <1>1, <1>3, <1>4 DEF NotesTookEffect, redis
<1>8. AckedTookEffect'
  BY <1>1, <1>4 DEF AckedTookEffect, redis
<1>9. HandledOnce'
  BY <1>4, <1>5 DEF HandledOnce
<1> QED
  BY <1>5, <1>6, <1>7, <1>8, <1>9

(* What is acknowledged took effect, for the consumer was about to say so.   *)
LEMMA AckKeeps ==
  ASSUME GroupInvariant, NEW c \in Consumers, Ack(c)
  PROVE  GroupInvariant'
<1> USE DEF GroupInvariant
<1> DEFINE i == batch[c][1]
<1>1. /\ Working(c) /\ stage[c] = "ack" /\ NextEntry(c)
      /\ pending' = {x \in pending : x[1] # i} /\ acked' = acked \cup {i}
      /\ UNCHANGED <<stream, start, group, name, names, chat>>
  BY HeadFacts DEF Ack
<1>2. i \in (start + 1)..group /\ start \in Nat /\ start # NoGroup
  BY <1>1, HeadFacts
<1>3. i \in effects
  BY <1>1 DEF HandsFull
<1>4. /\ batch' \in [Consumers -> Seq(Nat)]
      /\ stage' \in [Consumers -> {"handle", "ack"}]
      /\ \A b \in Consumers : batch'[b] # <<>> => batch[b] # <<>>
      /\ HandsFull'
      /\ \A b, d \in Consumers : \A j \in 1..Len(batch'[b]), k \in 1..Len(batch'[d]) :
           batch'[b][j] = batch'[d][k] => b = d /\ j = k
  BY <1>1, NextEntryFacts DEF chat
<1> HIDE DEF i
<1>5. GroupTyped' /\ Grouped'
  BY <1>1, <1>2, <1>4 DEF GroupTyped, Grouped, chat, Up
<1>6. NotesTookEffect'
  BY <1>1 DEF NotesTookEffect, chat
<1>7. AckedTookEffect'
  <2>1. acked \subseteq effects /\ acked \cup {x[1] : x \in pending} = (start + 1)..group
    BY <1>2 DEF AckedTookEffect
  <2>2. ASSUME NEW y
        PROVE  y \in acked' \cup {x[1] : x \in pending'}
                 <=> y \in acked \cup {x[1] : x \in pending}
    BY <1>1, <1>2, <2>1
  <2>3. \A x \in pending' : x[1] \notin acked'
    BY <1>1 DEF AckedTookEffect
  <2> QED
    BY <1>1, <1>3, <2>1, <2>2, <2>3 DEF AckedTookEffect, chat
<1>8. HandledOnce'
  BY <1>1, <1>4 DEF HandledOnce, chat
<1> QED
  BY <1>4, <1>5, <1>6, <1>7, <1>8

LEMMA NextKeeps == GroupInvariant /\ [Next]_vars => GroupInvariant'
<1> SUFFICES ASSUME GroupInvariant, [Next]_vars
             PROVE  GroupInvariant'
  OBVIOUS
<1>1. ASSUME NEW e \in Entry, Add(e)
      PROVE  GroupInvariant'
  BY <1>1, AddKeeps
<1>2. CASE CreateGroup
  BY <1>2, CreateGroupKeeps
<1>3. ASSUME NEW c \in Consumers, Start(c)
      PROVE  GroupInvariant'
  BY <1>3, StartKeeps
<1>4. ASSUME NEW c \in Consumers, Fetch(c)
      PROVE  GroupInvariant'
  BY <1>4, FetchKeeps
<1>5. ASSUME NEW c \in Consumers, Handle(c)
      PROVE  GroupInvariant'
  BY <1>5, HandleKeeps
<1>6. ASSUME NEW c \in Consumers, Fail(c)
      PROVE  GroupInvariant'
  BY <1>6, FailKeeps
<1>7. ASSUME NEW c \in Consumers, Ack(c)
      PROVE  GroupInvariant'
  BY <1>7, AckKeeps
<1>8. ASSUME NEW c \in Consumers, Crash(c)
      PROVE  GroupInvariant'
  BY <1>8, CrashKeeps
<1>9. CASE UNCHANGED vars
  <2>1. UNCHANGED <<stream, start, group, pending, acked, name, names, batch, stage,
                    chats, notes, effects>>
    BY <1>9 DEF vars, redis, chat
  <2>2. GroupTyped' /\ Grouped' /\ HandsFull' /\ NotesTookEffect'
    BY <2>1 DEF GroupInvariant, GroupTyped, Grouped, HandsFull, NotesTookEffect, Up
  <2>3. AckedTookEffect' /\ HandledOnce'
    BY <2>1 DEF GroupInvariant, AckedTookEffect, HandledOnce
  <2> QED
    BY <2>2, <2>3 DEF GroupInvariant
<1> QED
  BY <1>1, <1>2, <1>3, <1>4, <1>5, <1>6, <1>7, <1>8, <1>9 DEF Next

(* The group's bookkeeping holds however many consumers read, fail and die. *)
THEOREM GroupInductive == Spec => []GroupInvariant
<1>1. GroupInvariant /\ [Next]_vars => GroupInvariant'
  BY NextKeeps
<1> QED
  BY <1>1, InitGrouped, PTL DEF Spec

(* What the group forgets has been handled, and it forgets nothing else:    *)
(* an entry it delivered is acknowledged or pending (redis_streams.py       *)
(* acknowledges after the callback).                                       *)
THEOREM AckedIsDone == Spec => []AckedTookEffect
BY GroupInductive, PTL DEF GroupInvariant

(* No entry is in two places or handled twice, so that the status of an      *)
(* order is announced at most once.                                         *)
THEOREM HandledAtMostOnce == Spec => []HandledOnce
BY GroupInductive, PTL DEF GroupInvariant
=============================================================================
