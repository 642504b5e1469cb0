-------------------------- MODULE LeafOrderProofs --------------------------
(***************************************************************************)
(* Proofs about LeafConsumer, second layer: over the bookkeeping of the    *)
(* group, the order in which a consumer's entries take effect and what     *)
(* becomes of the entries that nobody has in hand any more.                *)
(***************************************************************************)
EXTENDS LeafConsumerProofs, FiniteSetTheorems, SequenceTheorems

(* A batch is read in the order of the stream, and is no longer than asked. *)
ReadInOrder ==
  \A c \in Consumers :
    /\ Len(batch[c]) <= BatchSize
    /\ \A j, k \in 1..Len(batch[c]) : j < k => batch[c][j] < batch[c][k]

(* A consumer has nothing in hand that comes before what it announced. *)
NotesBehind ==
  \A n \in 1..Len(notes) : \A c \in Consumers : \A j \in 1..Len(batch[c]) :
    notes[n][2] = c => notes[n][1] <= batch[c][j]

(* An order whose creation took effect has its conversation. *)
Conversed ==
  \A i \in effects : stream[i].type = "created" => stream[i].order \in chats

StrandedCounted == IsFiniteSet(Stranded) /\ StrandedHasCause

OrderInvariant ==
  TypeOK /\ ReadInOrder /\ NotesBehind /\ Conversed /\ NotesInOrder /\ StrandedCounted

LEMMA SeqOf ==
  ASSUME NEW S, NEW T, NEW s \in Seq(S), \A k \in 1..Len(s) : s[k] \in T
  PROVE  s \in Seq(T)
OBVIOUS

(* Nobody gets an entry into its hands; a consumer may lose its head or all. *)
Shrinks ==
  /\ batch' \in [Consumers -> Seq(Nat)]
  /\ \A b \in Consumers : \E d \in {0, 1} :
       /\ Len(batch'[b]) <= Len(batch[b])
       /\ \A k \in 1..Len(batch'[b]) :
            k + d \in 1..Len(batch[b]) /\ batch'[b][k] = batch[b][k + d]

LEMMA SameShrinks ==
  ASSUME GroupInvariant, batch' = batch
  PROVE  Shrinks
<1>1. batch \in [Consumers -> Seq(Nat)]
  BY DEF GroupInvariant, GroupTyped
<1>2. \A b \in Consumers : \A k \in 1..Len(batch[b]) : k + 0 = k
  OBVIOUS
<1>3. \A b \in Consumers : Len(batch[b]) \in Nat
  BY <1>1
<1> QED
  BY <1>1, <1>2, <1>3 DEF Shrinks

LEMMA NextEntryShrinks ==
  ASSUME GroupInvariant, NEW c \in Consumers, Working(c), NextEntry(c)
  PROVE  /\ Shrinks
         /\ batch'[c] = Tail(batch[c]) /\ \A b \in Consumers \ {c} : batch'[b] = batch[b]
         /\ Len(batch'[c]) = Len(batch[c]) - 1
<1>1. batch \in [Consumers -> Seq(Nat)] /\ batch[c] # <<>>
  BY DEF GroupInvariant, GroupTyped, Working
<1>2. /\ Tail(batch[c]) \in Seq(Nat) /\ Len(batch[c]) \in Nat
      /\ Len(Tail(batch[c])) = Len(batch[c]) - 1
      /\ \A k \in 1..Len(Tail(batch[c])) :
           Tail(batch[c])[k] = batch[c][k + 1] /\ k + 1 \in 1..Len(batch[c])
  BY <1>1, TailFacts
<1>3. /\ batch' \in [Consumers -> Seq(Nat)] /\ batch'[c] = Tail(batch[c])
      /\ \A b \in Consumers \ {c} : batch'[b] = batch[b]
  BY <1>1, <1>2 DEF NextEntry
<1>4. ASSUME NEW b \in Consumers
      PROVE  \E d \in {0, 1} :
               /\ Len(batch'[b]) <= Len(batch[b])
               /\ \A k \in 1..Len(batch'[b]) :
                    k + d \in 1..Len(batch[b]) /\ batch'[b][k] = batch[b][k + d]
  <2>1. CASE b = c
    <3>1. Len(batch'[b]) <= Len(batch[b])
      BY <1>2, <1>3, <2>1
    <3>2. \A k \in 1..Len(batch'[b]) :
            k + 1 \in 1..Len(batch[b]) /\ batch'[b][k] = batch[b][k + 1]
      BY <1>2, <1>3, <2>1
    <3> QED
      BY <3>1, <3>2
  <2>2. CASE b # c
    <3>1. batch'[b] = batch[b] /\ Len(batch[b]) \in Nat
      BY <1>1, <1>3, <2>2
    <3>2. \A k \in 1..Len(batch[b]) : k + 0 = k
      OBVIOUS
    <3> QED
      BY <3>1, <3>2
  <2> QED
    BY <2>1, <2>2
<1> QED
  BY <1>2, <1>3, <1>4 DEF Shrinks

LEMMA CrashShrinks ==
  ASSUME GroupInvariant, NEW c \in Consumers, Crash(c)
  PROVE  Shrinks /\ \A b \in Consumers \ {c} : batch'[b] = batch[b]
<1>1. batch \in [Consumers -> Seq(Nat)]
  BY DEF GroupInvariant, GroupTyped
<1>2. /\ batch' \in [Consumers -> Seq(Nat)] /\ batch'[c] = <<>>
      /\ \A b \in Consumers \ {c} : batch'[b] = batch[b]
  BY <1>1 DEF Crash
<1>3. ASSUME NEW b \in Consumers
      PROVE  /\ Len(batch'[b]) <= Len(batch[b])
             /\ \A k \in 1..Len(batch'[b]) :
                  k + 0 \in 1..Len(batch[b]) /\ batch'[b][k] = batch[b][k + 0]
  <2>1. Len(batch[b]) \in Nat /\ Len(<<>>) = 0
    BY <1>1
  <2>2. CASE b = c
    BY <1>2, <2>1, <2>2
  <2>3. CASE b # c
    <3>1. \A k \in 1..Len(batch[b]) : k + 0 = k
      OBVIOUS
    <3> QED
      BY <1>2, <2>1, <2>3, <3>1
  <2> QED
    BY <2>2, <2>3
<1> QED
  BY <1>2, <1>3 DEF Shrinks

(* What shrinks stays in order. *)
LEMMA ShrinkFacts ==
  ASSUME GroupInvariant, OrderInvariant, Shrinks
  PROVE  /\ ReadInOrder'
         /\ \A b \in Consumers : \A i : Holds(b, i)' => Holds(b, i)
         /\ \A b \in Consumers : \A k \in 1..Len(batch'[b]) :
              \E j \in 1..Len(batch[b]) : batch'[b][k] = batch[b][j]
<1>1. ASSUME NEW b \in Consumers, NEW k \in 1..Len(batch'[b])
      PROVE  \E j \in 1..Len(batch[b]) : batch'[b][k] = batch[b][j]
  BY DEF Shrinks
<1>2. \A b \in Consumers : \A i : Holds(b, i)' => Holds(b, i)
  BY <1>1 DEF Holds
<1>3. ReadInOrder'
  <2> SUFFICES ASSUME NEW b \in Consumers
               PROVE  /\ Len(batch'[b]) <= BatchSize
                      /\ \A j, k \in 1..Len(batch'[b]) : j < k => batch'[b][j] < batch'[b][k]
    BY DEF ReadInOrder
  <2>1. PICK d \in {0, 1} :
          /\ Len(batch'[b]) <= Len(batch[b])
          /\ \A k \in 1..Len(batch'[b]) :
               k + d \in 1..Len(batch[b]) /\ batch'[b][k] = batch[b][k + d]
    BY DEF Shrinks
  <2>2. /\ Len(batch[b]) <= BatchSize
        /\ \A j, k \in 1..Len(batch[b]) : j < k => batch[b][j] < batch[b][k]
    BY DEF OrderInvariant, ReadInOrder
  <2>3. Len(batch[b]) \in Nat /\ Len(batch'[b]) \in Nat /\ BatchSize \in Nat
    BY ConsumerAssumption DEF ConsumerAssumption, GroupInvariant, GroupTyped, Shrinks
  <2>4. Len(batch'[b]) <= BatchSize
    BY <2>1, <2>2, <2>3
  <2>5. ASSUME NEW j \in 1..Len(batch'[b]), NEW k \in 1..Len(batch'[b]), j < k
        PROVE  batch'[b][j] < batch'[b][k]
    <3>1. j + d < k + d
      BY <2>5
    <3> QED
      BY <2>1, <2>2, <3>1
  <2> QED
    BY <2>4, <2>5
<1> QED
  BY <1>1, <1>2, <1>3

(* The positions of the group and of the stream only grow. *)
LEMMA ShrinkTypes ==
  ASSUME OrderInvariant, Shrinks, GroupInvariant, group' \in Nat, group <= group'
  PROVE  batch' \in [Consumers -> Seq(1..group')]
<1>1. ASSUME NEW b \in Consumers
      PROVE  batch'[b] \in Seq(1..group')
  <2>1. \A k \in 1..Len(batch'[b]) : batch'[b][k] \in 1..group'
    <3> SUFFICES ASSUME NEW k \in 1..Len(batch'[b])
                 PROVE  batch'[b][k] \in 1..group'
      OBVIOUS
    <3>1. PICK j \in 1..Len(batch[b]) : batch'[b][k] = batch[b][j]
      BY ShrinkFacts
    <3>2. batch[b] \in Seq(1..group) /\ group \in Nat
      BY DEF OrderInvariant, TypeOK, GroupInvariant, GroupTyped
    <3>3. batch[b][j] \in 1..group
      BY <3>1, <3>2, ElementOfSeq
    <3> QED
      BY <3>1, <3>2, <3>3
  <2>2. batch'[b] \in Seq(Nat)
    BY DEF Shrinks
  <2> QED
    BY <2>1, <2>2
<1> QED
  BY <1>1 DEF Shrinks

-----------------------------------------------------------------------------
(* Counting what is stranded. *)

LEMMA StrandedElements ==
  \A i : i \in Stranded <=> /\ \E y \in pending : y[1] = i
                            /\ \A c \in Consumers : ~Holds(c, i)
BY DEF Stranded

LEMMA StrandedStays ==
  ASSUME OrderInvariant, Stranded' \subseteq Stranded,
         errors \in Nat, losses \in Nat, errors' \in {errors, errors + 1},
         losses' \in {losses, losses + 1}
  PROVE  StrandedCounted'
<1>1. IsFiniteSet(Stranded) /\ Cardinality(Stranded) <= errors + BatchSize * losses
  BY DEF OrderInvariant, StrandedCounted, StrandedHasCause
<1>2. IsFiniteSet(Stranded') /\ Cardinality(Stranded') <= Cardinality(Stranded)
  BY <1>1, FS_Subset
<1>3. Cardinality(Stranded) \in Nat /\ Cardinality(Stranded') \in Nat
  BY <1>1, <1>2, FS_CardinalityType
<1>4. BatchSize \in Nat /\ BatchSize * losses \in Nat
  BY ConsumerAssumption DEF ConsumerAssumption
<1>5. BatchSize * (losses + 1) = BatchSize * losses + BatchSize
  BY <1>4
<1>6. Cardinality(Stranded') <= errors' + BatchSize * losses'
  BY <1>1, <1>2, <1>3, <1>4, <1>5
<1> QED
  BY <1>2, <1>6 DEF StrandedCounted, StrandedHasCause

LEMMA StrandedGrows ==
  ASSUME OrderInvariant, NEW T, IsFiniteSet(T), Stranded' \subseteq Stranded \cup T,
         errors \in Nat, losses \in Nat,
         \/ Cardinality(T) <= 1 /\ errors' = errors + 1 /\ losses' = losses
         \/ Cardinality(T) <= BatchSize /\ errors' = errors /\ losses' = losses + 1
  PROVE  StrandedCounted'
<1>1. IsFiniteSet(Stranded) /\ Cardinality(Stranded) <= errors + BatchSize * losses
  BY DEF OrderInvariant, StrandedCounted, StrandedHasCause
<1>2. /\ IsFiniteSet(Stranded \cup T) /\ IsFiniteSet(Stranded \cap T)
      /\ Cardinality(Stranded \cup T)
           = Cardinality(Stranded) + Cardinality(T) - Cardinality(Stranded \cap T)
  <2>1. IsFiniteSet(Stranded \cap T)
    BY <1>1, FS_Intersection
  <2> QED
    BY <1>1, <2>1, FS_Union
<1>3. IsFiniteSet(Stranded') /\ Cardinality(Stranded') <= Cardinality(Stranded \cup T)
  BY <1>2, FS_Subset
<1>4. /\ Cardinality(Stranded) \in Nat /\ Cardinality(Stranded') \in Nat
      /\ Cardinality(T) \in Nat /\ Cardinality(Stranded \cap T) \in Nat
  BY <1>1, <1>2, <1>3, FS_CardinalityType
<1>5. Cardinality(Stranded') <= Cardinality(Stranded) + Cardinality(T)
  BY <1>2, <1>3, <1>4
<1>6. BatchSize \in Nat /\ BatchSize * losses \in Nat
  BY ConsumerAssumption DEF ConsumerAssumption
<1>7. BatchSize * (losses + 1) = BatchSize * losses + BatchSize
  BY <1>6
<1>8. Cardinality(Stranded') <= errors' + BatchSize * losses'
  BY <1>1, <1>4, <1>5, <1>6, <1>7
<1> QED
  BY <1>3, <1>8 DEF StrandedCounted, StrandedHasCause
-----------------------------------------------------------------------------
(* Steps that move no group, no batch and no effect. *)

LEMMA InitOrder == Init => OrderInvariant
<1> SUFFICES ASSUME Init
             PROVE  OrderInvariant
  OBVIOUS
<1>1. TypeOK
  BY DEF Init, TypeOK
<1>2. ReadInOrder
  BY ConsumerAssumption DEF Init, ReadInOrder, ConsumerAssumption
<1>3. NotesBehind /\ Conversed /\ NotesInOrder
  BY DEF Init, NotesBehind, Conversed, NotesInOrder
<1>4. StrandedCounted
  <2>1. Stranded = {}
    BY StrandedElements DEF Init
  <2>2. IsFiniteSet(Stranded) /\ Cardinality(Stranded) = 0
    BY <2>1, FS_EmptySet
  <2>3. errors + BatchSize * losses = 0
    BY ConsumerAssumption DEF ConsumerAssumption, Init
  <2> QED
    BY <2>2, <2>3 DEF StrandedCounted, StrandedHasCause
<1> QED
  BY <1>1, <1>2, <1>3, <1>4 DEF OrderInvariant

(* The handlers and the hands stay as they are, and so does what is pending. *)
LEMMA QuietKeepsOrder ==
  ASSUME GroupInvariant, OrderInvariant, TypeOK', UNCHANGED <<batch, pending, chat>>,
         errors' = errors, losses' = losses,
         \A i \in 1..Len(stream) : stream'[i] = stream[i]
  PROVE  OrderInvariant'
<1>1. ReadInOrder' /\ NotesBehind' /\ NotesInOrder'
  BY DEF OrderInvariant, ReadInOrder, NotesBehind, NotesInOrder, chat
<1>2. Conversed'
  <2>1. \A i \in effects : i \in 1..Len(stream)
    BY DEF OrderInvariant, TypeOK
  <2> QED
    BY <2>1 DEF OrderInvariant, Conversed, chat
<1>3. StrandedCounted'
  BY DEF OrderInvariant, StrandedCounted, StrandedHasCause, Stranded, Holds
<1> QED
  BY <1>1, <1>2, <1>3 DEF OrderInvariant

LEMMA AddKeepsOrder ==
  ASSUME GroupInvariant, OrderInvariant, NEW e \in Entry, Add(e)
  PROVE  OrderInvariant'
<1>1. /\ stream' = Append(stream, e)
      /\ UNCHANGED <<start, group, pending, acked, name, names, batch, stage, chats, notes,
                     effects, dropped, errors, losses>>
  BY DEF Add, redis, chat
<1>2. /\ stream' \in Seq(Entry) /\ Len(stream') = Len(stream) + 1 /\ Len(stream) \in Nat
      /\ \A i \in 1..Len(stream) : stream'[i] = stream[i]
  BY <1>1 DEF OrderInvariant, TypeOK
<1>3. TypeOK'
  BY <1>1, <1>2 DEF OrderInvariant, TypeOK
<1> QED
  BY <1>1, <1>2, <1>3, QuietKeepsOrder DEF chat

LEMMA EnsureGroupKeepsOrder ==
  ASSUME GroupInvariant, OrderInvariant, EnsureGroup,
         UNCHANGED <<stream, batch, stage, chat, errors, losses>>,
         names' \in Nat, names <= names', name' \in [Consumers -> 0..names']
  PROVE  OrderInvariant'
<1>0. TypeOK /\ group \in Nat /\ Len(stream) \in Nat
  BY DEF OrderInvariant, TypeOK, GroupInvariant, GroupTyped
<1>1. /\ group' \in 0..Len(stream) /\ group <= group' /\ start' \in Nat \cup {NoGroup}
      /\ UNCHANGED <<pending, acked>>
  BY <1>0 DEF EnsureGroup, TypeOK
<1>2. 1..group \subseteq 1..group' /\ 1..names \subseteq 1..names'
  BY <1>0, <1>1 DEF TypeOK
<1>3. batch' \in [Consumers -> Seq(1..group')]
  BY <1>0, <1>1, SameShrinks, ShrinkTypes
<1>4. notes \in Seq((1..group') \X Consumers)
  <2>1. notes \in Seq((1..group) \X Consumers)
    BY <1>0 DEF TypeOK
  <2>2. \A k \in 1..Len(notes) : notes[k] \in (1..group') \X Consumers
    BY <1>2, <2>1, ElementOfSeq
  <2> QED
    BY <2>1, <2>2, SeqOf
<1>5. pending \subseteq (1..group') \X (1..names') /\ acked \subseteq 1..group'
  BY <1>0, <1>2 DEF TypeOK
<1>6. effects \subseteq 1..group'
  BY <1>0, <1>2 DEF TypeOK
<1>7. TypeOK'
  BY <1>0, <1>1, <1>3, <1>4, <1>5, <1>6 DEF TypeOK, chat
<1> QED
  BY <1>1, <1>7, QuietKeepsOrder

LEMMA StartKeepsOrder ==
  ASSUME GroupInvariant, OrderInvariant, NEW c \in Consumers, Start(c)
  PROVE  OrderInvariant'
<1>1. names' \in Nat /\ names <= names' /\ name' \in [Consumers -> 0..names']
  BY DEF Start, OrderInvariant, TypeOK
<1> QED
  BY <1>1, EnsureGroupKeepsOrder DEF Start, chat

LEMMA CreateGroupKeepsOrder ==
  ASSUME GroupInvariant, OrderInvariant, CreateGroup
  PROVE  OrderInvariant'
<1>1. names' \in Nat /\ names <= names' /\ name' \in [Consumers -> 0..names']
  BY DEF CreateGroup, OrderInvariant, TypeOK
<1> QED
  BY <1>1, EnsureGroupKeepsOrder DEF CreateGroup, chat

-----------------------------------------------------------------------------
(* Reading: the entries are new, in order, and in hand or stranded. *)
LEMMA FetchKeepsOrder ==
  ASSUME GroupInvariant, OrderInvariant, NEW c \in Consumers, Fetch(c)
  PROVE  OrderInvariant'
<1> DEFINE last == Least(group + BatchSize, Len(stream))
<1>0. /\ TypeOK /\ group \in Nat /\ Len(stream) \in Nat /\ BatchSize \in Nat \ {0}
      /\ batch \in [Consumers -> Seq(Nat)] /\ errors \in Nat /\ losses \in Nat
  BY ConsumerAssumption DEF OrderInvariant, TypeOK, GroupInvariant, GroupTyped, ConsumerAssumption
<1>1. last \in 0..Len(stream) /\ group < last /\ group' = last /\ last - group <= BatchSize
  BY <1>0 DEF Fetch, Least
<1>2. /\ Up(c) /\ batch[c] = <<>>
      /\ pending' = pending \cup {<<i, name[c]>> : i \in (group + 1)..last}
      /\ \/ batch' = [batch EXCEPT ![c] = Entries(group, last)] /\ losses' = losses
         \/ batch' = batch /\ losses' = losses + 1
      /\ UNCHANGED <<stream, start, acked, name, names, stage, chat, errors>>
  BY DEF Fetch
<1> HIDE DEF last
<1>3. /\ Entries(group, last) \in Seq(Nat) /\ Len(Entries(group, last)) = last - group
      /\ \A k \in 1..(last - group) : Entries(group, last)[k] = group + k
  <2>1. group \in Nat /\ group <= last /\ last \in Nat
    BY <1>0, <1>1
  <2> QED
    BY <2>1, EntriesFacts
<1>4. 1..group \subseteq 1..last /\ (group + 1)..last \subseteq 1..last
  BY <1>0, <1>1
<1>5. TypeOK'
  <2>1. name[c] \in 1..names
    BY <1>0, <1>2 DEF TypeOK, Up
  <2>2. pending' \subseteq (1..last) \X (1..names)
    BY <1>0, <1>2, <1>4, <2>1 DEF TypeOK
  <2>3. batch' \in [Consumers -> Seq(1..last)]
    <3>1. CASE batch' = batch
      BY <1>0, <1>1, <3>1, SameShrinks, ShrinkTypes
    <3>2. CASE batch' = [batch EXCEPT ![c] = Entries(group, last)]
      <4>1. Entries(group, last) \in Seq(1..last)
        <5>1. \A k \in 1..(last - group) : group + k \in 1..last
          BY <1>0, <1>1
        <5>2. \A k \in 1..Len(Entries(group, last)) : Entries(group, last)[k] \in 1..last
          BY <1>3, <5>1
        <5> QED
          BY <1>3, <5>2, SeqOf
      <4>2. batch \in [Consumers -> Seq(1..last)]
        <5>1. \A b \in Consumers : batch[b] \in Seq(1..group)
          BY <1>0 DEF TypeOK
        <5>2. \A b \in Consumers : \A k \in 1..Len(batch[b]) : batch[b][k] \in 1..last
          BY <1>4, <5>1, ElementOfSeq
        <5>3. \A b \in Consumers : batch[b] \in Seq(1..last)
          BY <5>1, <5>2, SeqOf
        <5> QED
          BY <1>0, <5>3
      <4> QED
        BY <3>2, <4>1, <4>2
    <3> QED
      BY <1>2, <3>1, <3>2
  <2>4. notes \in Seq((1..last) \X Consumers)
    <3>1. notes \in Seq((1..group) \X Consumers)
      BY <1>0 DEF TypeOK
    <3>2. \A k \in 1..Len(notes) : notes[k] \in (1..last) \X Consumers
      BY <1>4, <3>1, ElementOfSeq
    <3> QED
      BY <3>1, <3>2, SeqOf
  <2>5. acked \subseteq 1..last /\ effects \subseteq 1..last
    BY <1>0, <1>4 DEF TypeOK
  <2>6. losses' \in Nat
    BY <1>0, <1>2
  <2> QED
    BY <1>0, <1>1, <1>2, <2>2, <2>3, <2>4, <2>5, <2>6 DEF TypeOK, chat
<1>6. \A b \in Consumers : \/ batch'[b] = batch[b]
                           \/ b = c /\ batch'[b] = Entries(group, last)
  BY <1>0, <1>2
<1>7. ReadInOrder'
  <2> SUFFICES ASSUME NEW b \in Consumers
               PROVE  /\ Len(batch'[b]) <= BatchSize
                      /\ \A j, k \in 1..Len(batch'[b]) : j < k => batch'[b][j] < batch'[b][k]
    BY DEF ReadInOrder
  <2>1. CASE batch'[b] = batch[b]
    BY <2>1 DEF OrderInvariant, ReadInOrder
  <2>2. CASE batch'[b] = Entries(group, last)
    <3>1. \A j, k \in 1..(last - group) : j < k => group + j < group + k
      BY <1>0
    <3> QED
      BY <1>1, <1>3, <2>2, <3>1
  <2> QED
    BY <1>6, <2>1, <2>2
<1>8. NotesBehind'
  <2> SUFFICES ASSUME NEW n \in 1..Len(notes), NEW b \in Consumers,
                      NEW j \in 1..Len(batch'[b]), notes[n][2] = b
               PROVE  notes[n][1] <= batch'[b][j]
    BY <1>2 DEF NotesBehind, chat
  <2>1. CASE batch'[b] = batch[b]
    BY <2>1 DEF OrderInvariant, NotesBehind
  <2>2. CASE batch'[b] = Entries(group, last)
    <3>1. notes[n][1] \in effects
      BY DEF GroupInvariant, NotesTookEffect
    <3>2. notes[n][1] \in 1..group
      BY <1>0, <3>1 DEF TypeOK
    <3>3. batch'[b][j] = group + j /\ j \in 1..(last - group)
      BY <1>3, <2>2
    <3> QED
      BY <1>0, <3>2, <3>3
  <2> QED
    BY <1>6, <2>1, <2>2
<1>9. Conversed' /\ NotesInOrder'
  BY <1>2 DEF OrderInvariant, Conversed, NotesInOrder, chat
<1>10. StrandedCounted'
  <2>1. \A y \in pending' : y \in pending \/ y[1] \in (group + 1)..last
    BY <1>2
  <2>2. \A b \in Consumers : \A i : Holds(b, i) => Holds(b, i)'
    <3> SUFFICES ASSUME NEW b \in Consumers, NEW i, Holds(b, i)
                 PROVE  Holds(b, i)'
      OBVIOUS
    <3>1. CASE batch'[b] = batch[b]
      BY <3>1 DEF Holds
    <3>2. CASE b = c
      BY <1>2, <3>2 DEF Holds
    <3> QED
      BY <1>6, <3>1, <3>2
  <2>3. Stranded' \subseteq Stranded \cup (group + 1)..last
    <3> SUFFICES ASSUME NEW i \in Stranded'
                 PROVE  i \in Stranded \cup (group + 1)..last
      OBVIOUS
    <3>1. (\E y \in pending' : y[1] = i) /\ \A b \in Consumers : ~Holds(b, i)'
      BY DEF Stranded
    <3> QED
      BY <2>1, <2>2, <3>1, StrandedElements
  <2>4. CASE batch' = batch /\ losses' = losses + 1
    <3>1. /\ IsFiniteSet((group + 1)..last)
          /\ Cardinality((group + 1)..last) <= BatchSize
      <4>1. /\ IsFiniteSet((group + 1)..last)
            /\ Cardinality((group + 1)..last) = IF group + 1 > last THEN 0 ELSE last - (group + 1) + 1
        <5>1. group + 1 \in Int /\ last \in Int
          BY <1>0, <1>1
        <5> QED
          BY <5>1, FS_Interval
      <4> QED
        BY <1>0, <1>1, <4>1
    <3> QED
      BY <1>0, <1>2, <2>3, <2>4, <3>1, StrandedGrows
  <2>5. CASE batch' = [batch EXCEPT ![c] = Entries(group, last)] /\ losses' = losses
    <3>1. \A i \in (group + 1)..last : Holds(c, i)'
      <4> SUFFICES ASSUME NEW i \in (group + 1)..last
                   PROVE  Holds(c, i)'
        OBVIOUS
      <4>1. batch'[c] = Entries(group, last)
        BY <1>0, <2>5
      <4>2. i - group \in 1..(last - group) /\ group + (i - group) = i
        BY <1>0, <1>1
      <4> QED
        BY <1>3, <4>1, <4>2 DEF Holds
    <3>2. Stranded' \subseteq Stranded
      BY <2>3, <3>1 DEF Stranded
    <3> QED
      BY <1>0, <1>2, <2>5, <3>2, StrandedStays
  <2> QED
    BY <1>2, <2>4, <2>5
<1> QED
  BY <1>5, <1>7, <1>8, <1>9, <1>10 DEF OrderInvariant
-----------------------------------------------------------------------------
(* Handling: a consumer announces its head, which comes before the rest of   *)
(* what it has in hand and after what it announced before.                  *)
NotesBehindNow ==
  \A n \in 1..Len(notes') : \A b \in Consumers : \A j \in 1..Len(batch[b]) :
    notes'[n][2] = b => notes'[n][1] <= batch[b][j]

EffectTyped ==
  /\ chats' \subseteq Orders /\ notes' \in Seq((1..group) \X Consumers)
  /\ effects' \subseteq 1..group /\ dropped' \subseteq effects'

LEMMA SameEffect ==
  ASSUME OrderInvariant, UNCHANGED <<stream, chat>>
  PROVE  EffectTyped /\ NotesBehindNow /\ NotesInOrder' /\ Conversed'
<1>1. UNCHANGED <<stream, chats, notes, effects, dropped>>
  BY DEF chat
<1>2. EffectTyped
  BY <1>1 DEF EffectTyped, OrderInvariant, TypeOK
<1>3. NotesBehindNow
  BY <1>1 DEF NotesBehindNow, NotesBehind, OrderInvariant
<1>4. NotesInOrder' /\ Conversed'
  BY <1>1 DEF NotesInOrder, Conversed, OrderInvariant
<1> QED
  BY <1>2, <1>3, <1>4

LEMMA EffectOrder ==
  ASSUME GroupInvariant, OrderInvariant, NEW c \in Consumers, Working(c),
         stage[c] = "handle", NEW i, i = batch[c][1], Effect(c, i), stream' = stream
  PROVE  EffectTyped /\ NotesBehindNow /\ NotesInOrder' /\ Conversed'
<1>0. TypeOK /\ group \in Nat
  BY DEF OrderInvariant, TypeOK, GroupInvariant, GroupTyped
<1>1. /\ 1 \in 1..Len(batch[c]) /\ i \in (start + 1)..group /\ start \in Nat
      /\ \A b \in Consumers : \A k \in 1..Len(batch[b]) : batch[b][k] = i => b = c /\ k = 1
  BY HeadFacts
<1>2. i \in 1..group /\ i \in 1..Len(stream) /\ i \notin effects
  <2>1. i \notin effects
    BY <1>1 DEF GroupInvariant, HandsFull
  <2> QED
    BY <1>0, <1>1, <2>1 DEF TypeOK
<1>3. stream[i] \in Entry
  <2>1. stream \in Seq(Entry)
    BY <1>0 DEF TypeOK
  <2> QED
    BY <1>2, <2>1, ElementOfSeq
<1>4. \A n \in 1..Len(notes) : notes[n][2] = c => notes[n][1] < i
  <2> SUFFICES ASSUME NEW n \in 1..Len(notes), notes[n][2] = c
               PROVE  notes[n][1] < i
    OBVIOUS
  <2>1. notes[n][1] <= i
    BY <1>1 DEF OrderInvariant, NotesBehind
  <2>2. notes[n][1] \in effects
    BY DEF GroupInvariant, NotesTookEffect
  <2>3. notes[n][1] \in 1..group
    BY <1>0, <2>2 DEF TypeOK
  <2> QED
    BY <1>2, <2>1, <2>2, <2>3
<1>5. \A j \in 1..Len(batch[c]) : i <= batch[c][j]
  <2> SUFFICES ASSUME NEW j \in 1..Len(batch[c])
               PROVE  i <= batch[c][j]
    OBVIOUS
  <2>1. CASE j = 1
    BY <1>2, <2>1
  <2>2. CASE j # 1
    <3>1. 1 < j
      BY <2>2
    <3>2. i < batch[c][j]
      BY <1>1, <3>1 DEF OrderInvariant, ReadInOrder
    <3>3. batch[c][j] \in (start + 1)..group
      BY DEF GroupInvariant, HandsFull
    <3> QED
      BY <1>2, <3>2, <3>3
  <2> QED
    BY <2>1, <2>2
<1>6. /\ chats' = IF stream[i].type = "created" THEN chats \cup {stream[i].order} ELSE chats
      /\ effects' = effects \cup {i}
      /\ dropped' = dropped \/ dropped' = dropped \cup {i}
      /\ notes' = notes \/ notes' = Append(notes, <<i, c>>)
  BY DEF Effect
<1>7. notes \in Seq((1..group) \X Consumers) /\ <<i, c>> \in (1..group) \X Consumers
  BY <1>0, <1>2 DEF TypeOK
<1>8. EffectTyped
  <2>1. chats' \subseteq Orders
    BY <1>0, <1>3, <1>6 DEF TypeOK, Entry
  <2>2. notes' \in Seq((1..group) \X Consumers)
    <3>1. \A S : \A s \in Seq(S) : \A x \in S : Append(s, x) \in Seq(S)
      OBVIOUS
    <3> QED
      BY <1>6, <1>7, <3>1
  <2>3. effects' \subseteq 1..group /\ dropped' \subseteq effects'
    BY <1>0, <1>2, <1>6 DEF TypeOK
  <2> QED
    BY <2>1, <2>2, <2>3 DEF EffectTyped
<1>9. Conversed'
  BY <1>6 DEF OrderInvariant, Conversed
<1>10. /\ Len(notes) \in Nat /\ Len(notes') \in {Len(notes), Len(notes) + 1}
       /\ \A n \in 1..Len(notes) : notes'[n] = notes[n]
       /\ \A n \in 1..Len(notes') : n \in 1..Len(notes) \/ (n > Len(notes) /\ notes'[n] = <<i, c>>)
  <2>1. CASE notes' = notes
    BY <1>7, <2>1
  <2>2. CASE notes' = Append(notes, <<i, c>>)
    BY <1>7, <2>2
  <2> QED
    BY <1>6, <2>1, <2>2
<1>11. NotesBehindNow
  <2> SUFFICES ASSUME NEW n \in 1..Len(notes'), NEW j \in 1..Len(batch[notes'[n][2]]),
                      notes'[n][2] \in Consumers
               PROVE  notes'[n][1] <= batch[notes'[n][2]][j]
    BY DEF NotesBehindNow
  <2>1. CASE n \in 1..Len(notes)
    BY <1>10, <2>1 DEF OrderInvariant, NotesBehind
  <2>2. CASE notes'[n] = <<i, c>>
    BY <1>5, <2>2
  <2> QED
    BY <1>10, <2>1, <2>2
<1>12. NotesInOrder'
  <2> SUFFICES ASSUME NEW j \in 1..Len(notes'), NEW k \in 1..Len(notes'), j < k,
                      notes'[j][2] = notes'[k][2]
               PROVE  notes'[j][1] < notes'[k][1]
    BY DEF NotesInOrder
  <2>1. j \in 1..Len(notes)
    BY <1>10
  <2>2. CASE k \in 1..Len(notes)
    BY <1>10, <2>1, <2>2 DEF OrderInvariant, NotesInOrder
  <2>3. CASE notes'[k] = <<i, c>>
    <3>1. notes[j][2] = c /\ notes'[j] = notes[j]
      BY <1>10, <2>1, <2>3
    <3> QED
      BY <1>4, <2>1, <2>3, <3>1
  <2> QED
    BY <1>10, <2>2, <2>3
<1> QED
  BY <1>8, <1>9, <1>11, <1>12

(* What is announced stays behind what is still in hand. *)
LEMMA ShrinkKeepsOrder ==
  ASSUME GroupInvariant, OrderInvariant, Shrinks, EffectTyped, NotesBehindNow,
         NotesInOrder', Conversed', StrandedCounted',
         UNCHANGED <<stream, start, group, names>>, pending' \subseteq pending,
         acked' \subseteq 1..group, name' \in [Consumers -> 0..names],
         stage' \in [Consumers -> {"handle", "ack"}], errors' \in Nat, losses' \in Nat
  PROVE  OrderInvariant'
<1>1. TypeOK'
  <2>1. group \in Nat /\ group <= group' /\ TypeOK
    BY DEF OrderInvariant, GroupInvariant, GroupTyped
  <2>2. batch' \in [Consumers -> Seq(1..group')]
    BY <2>1, ShrinkTypes
  <2> QED
    BY <2>1, <2>2 DEF TypeOK, EffectTyped
<1>2. ReadInOrder'
  BY ShrinkFacts
<1>3. NotesBehind'
  <2> SUFFICES ASSUME NEW n \in 1..Len(notes'), NEW c \in Consumers,
                      NEW j \in 1..Len(batch'[c]), notes'[n][2] = c
               PROVE  notes'[n][1] <= batch'[c][j]
    BY DEF NotesBehind
  <2>1. PICK k \in 1..Len(batch[c]) : batch'[c][j] = batch[c][k]
    BY ShrinkFacts
  <2> QED
    BY <2>1 DEF NotesBehindNow
<1> QED
  BY <1>1, <1>2, <1>3 DEF OrderInvariant

LEMMA HandleKeepsOrder ==
  ASSUME GroupInvariant, OrderInvariant, NEW c \in Consumers, Handle(c)
  PROVE  OrderInvariant'
<1>0. TypeOK
  BY DEF OrderInvariant
<1>1. /\ Working(c) /\ stage[c] = "handle" /\ stage' = [stage EXCEPT ![c] = "ack"]
      /\ UNCHANGED <<stream, start, group, pending, acked, name, names, batch, errors, losses>>
  BY DEF Handle, redis
<1>2. Effect(c, batch[c][1])
  <2>1. Head(batch[c]) = batch[c][1]
    BY <1>1, HeadFacts
  <2> QED
    BY <2>1 DEF Handle
<1>3. EffectTyped /\ NotesBehindNow /\ NotesInOrder' /\ Conversed'
  BY <1>1, <1>2, EffectOrder
<1>4. StrandedCounted'
  <2>1. Stranded' \subseteq Stranded
    BY <1>1 DEF Stranded, Holds
  <2> QED
    BY <1>0, <1>1, <2>1, StrandedStays DEF TypeOK
<1>5. Shrinks
  BY <1>1, SameShrinks
<1> QED
  BY <1>0, <1>1, <1>3, <1>4, <1>5, ShrinkKeepsOrder DEF TypeOK

(* Leaving the head: nobody else loses anything. *)
LEMMA HeadLeaves ==
  ASSUME GroupInvariant, NEW c \in Consumers, Working(c), NextEntry(c),
         NEW b \in Consumers, NEW i, Holds(b, i), i # batch[c][1]
  PROVE  Holds(b, i)'
<1>1. /\ batch'[c] = Tail(batch[c]) /\ \A d \in Consumers \ {c} : batch'[d] = batch[d]
  BY NextEntryShrinks
<1>2. PICK k \in 1..Len(batch[b]) : batch[b][k] = i
  BY DEF Holds
<1>3. CASE b # c
  BY <1>1, <1>2, <1>3 DEF Holds
<1>4. CASE b = c
  <2>1. batch[c] \in Seq(Nat) /\ batch[c] # <<>>
    BY DEF GroupInvariant, GroupTyped, Working
  <2>2. Len(Tail(batch[c])) = Len(batch[c]) - 1 /\ Len(batch[c]) \in Nat
    BY <2>1, TailFacts
  <2>3. k # 1 /\ k \in 1..Len(batch[c])
    BY <1>2, <1>4
  <2>4. k - 1 \in 1..Len(Tail(batch[c])) /\ (k - 1) + 1 = k
    BY <2>2, <2>3
  <2>5. Tail(batch[c])[k - 1] = batch[c][k]
    BY <2>1, <2>4, TailFacts
  <2> QED
    BY <1>1, <1>2, <1>4, <2>4, <2>5 DEF Holds
<1> QED
  BY <1>3, <1>4

LEMMA FailKeepsOrder ==
  ASSUME GroupInvariant, OrderInvariant, NEW c \in Consumers, Fail(c)
  PROVE  OrderInvariant'
<1>0. TypeOK
  BY DEF OrderInvariant
<1>1. /\ Working(c) /\ NextEntry(c) /\ errors' = errors + 1
      /\ UNCHANGED <<stream, start, group, pending, acked, name, names, losses>>
  BY DEF Fail, redis
<1>2. UNCHANGED chat \/ (stage[c] = "handle" /\ Effect(c, batch[c][1]))
  <2>1. Head(batch[c]) = batch[c][1]
    BY <1>1, HeadFacts
  <2> QED
    BY <2>1 DEF Fail
<1>3. EffectTyped /\ NotesBehindNow /\ NotesInOrder' /\ Conversed'
  BY <1>1, <1>2, EffectOrder, SameEffect
<1>4. Shrinks
  BY <1>1, NextEntryShrinks
<1>5. StrandedCounted'
  <2>1. Stranded' \subseteq Stranded \cup {batch[c][1]}
    <3> SUFFICES ASSUME NEW i \in Stranded', i # batch[c][1]
                 PROVE  i \in Stranded
      OBVIOUS
    <3>1. (\E y \in pending : y[1] = i) /\ \A b \in Consumers : ~Holds(b, i)'
      BY <1>1 DEF Stranded
    <3> QED
      BY <1>1, <3>1, HeadLeaves, StrandedElements
  <2>2. IsFiniteSet({batch[c][1]}) /\ Cardinality({batch[c][1]}) <= 1
    <3>1. IsFiniteSet({batch[c][1]}) /\ Cardinality({batch[c][1]}) = 1
      BY FS_Singleton
    <3> QED
      BY <3>1
  <2> QED
    BY <1>0, <1>1, <2>1, <2>2, StrandedGrows DEF TypeOK
<1>6. stage' \in [Consumers -> {"handle", "ack"}]
  BY <1>0, <1>1 DEF NextEntry, TypeOK
<1> QED
  BY <1>0, <1>1, <1>3, <1>4, <1>5, <1>6, ShrinkKeepsOrder DEF TypeOK

LEMMA AckKeepsOrder ==
  ASSUME GroupInvariant, OrderInvariant, NEW c \in Consumers, Ack(c)
  PROVE  OrderInvariant'
<1>0. TypeOK
  BY DEF OrderInvariant
<1>1. /\ Working(c) /\ NextEntry(c)
      /\ UNCHANGED <<stream, start, group, name, names, errors, losses, chat>>
  BY DEF Ack
<1>2. /\ pending' = {x \in pending : x[1] # batch[c][1]} /\ acked' = acked \cup {batch[c][1]}
      /\ batch[c][1] \in 1..group
  BY <1>1, HeadFacts DEF Ack, GroupInvariant, GroupTyped
<1>3. EffectTyped /\ NotesBehindNow /\ NotesInOrder' /\ Conversed'
  BY <1>1, SameEffect
<1>4. Shrinks
  BY <1>1, NextEntryShrinks
<1>5. StrandedCounted'
  <2>1. Stranded' \subseteq Stranded
    <3> SUFFICES ASSUME NEW i \in Stranded'
                 PROVE  i \in Stranded
      OBVIOUS
    <3>1. (\E y \in pending' : y[1] = i) /\ \A b \in Consumers : ~Holds(b, i)'
      BY DEF Stranded
    <3>2. i # batch[c][1] /\ \E y \in pending : y[1] = i
      BY <1>2, <3>1
    <3> QED
      BY <1>1, <3>1, <3>2, HeadLeaves, StrandedElements
  <2> QED
    BY <1>0, <1>1, <2>1, StrandedStays DEF TypeOK
<1>6. stage' \in [Consumers -> {"handle", "ack"}]
  BY <1>0, <1>1 DEF NextEntry, TypeOK
<1>7. acked' \subseteq 1..group
  BY <1>0, <1>2 DEF TypeOK
<1> QED
  BY <1>0, <1>1, <1>2, <1>3, <1>4, <1>5, <1>6, <1>7, ShrinkKeepsOrder DEF TypeOK

(* A batch is as large as the set of its entries at most. *)
LEMMA BatchCount ==
  ASSUME OrderInvariant, GroupInvariant, NEW c \in Consumers
  PROVE  LET T == {batch[c][k] : k \in 1..Len(batch[c])}
         IN  IsFiniteSet(T) /\ Cardinality(T) <= BatchSize
<1> DEFINE T == {batch[c][k] : k \in 1..Len(batch[c])}
           f == [k \in 1..Len(batch[c]) |-> batch[c][k]]
<1>1. Len(batch[c]) \in Nat /\ Len(batch[c]) <= BatchSize /\ BatchSize \in Nat
  BY ConsumerAssumption DEF OrderInvariant, ReadInOrder, GroupInvariant, GroupTyped,
                            ConsumerAssumption
<1>2. f \in Surjection(1..Len(batch[c]), T)
  BY DEF Surjection
<1>3. IsFiniteSet(1..Len(batch[c])) /\ Cardinality(1..Len(batch[c])) = Len(batch[c])
  <2>1. \A n \in Nat : IsFiniteSet(1..n) /\ Cardinality(1..n) = n
    <3> SUFFICES ASSUME NEW n \in Nat
                 PROVE  IsFiniteSet(1..n) /\ Cardinality(1..n) = n
      OBVIOUS
    <3>1. 1 \in Int /\ n \in Int /\ (IF 1 > n THEN 0 ELSE n - 1 + 1) = n
      OBVIOUS
    <3> QED
      BY <3>1, FS_Interval
  <2> QED
    BY <1>1, <2>1
<1> HIDE DEF T, f
<1>4. IsFiniteSet(T) /\ Cardinality(T) <= Cardinality(1..Len(batch[c]))
  BY <1>2, <1>3, FS_Surjection
<1>5. Cardinality(T) \in Nat
  BY <1>4, FS_CardinalityType
<1>6. IsFiniteSet(T) /\ Cardinality(T) <= BatchSize
  BY <1>1, <1>3, <1>4, <1>5
<1> QED
  BY <1>6 DEF T

LEMMA CrashKeepsOrder ==
  ASSUME GroupInvariant, OrderInvariant, NEW c \in Consumers, Crash(c)
  PROVE  OrderInvariant'
<1>0. TypeOK
  BY DEF OrderInvariant
<1>1. /\ name' = [name EXCEPT ![c] = 0] /\ stage' = [stage EXCEPT ![c] = "handle"]
      /\ losses' = losses + (IF batch[c] = <<>> THEN 0 ELSE 1)
      /\ UNCHANGED <<stream, start, group, pending, acked, names, errors, chat>>
  BY DEF Crash, redis
<1>2. EffectTyped /\ NotesBehindNow /\ NotesInOrder' /\ Conversed'
  BY <1>1, SameEffect
<1>3. Shrinks /\ \A b \in Consumers \ {c} : batch'[b] = batch[b]
  BY CrashShrinks
<1> DEFINE T == {batch[c][k] : k \in 1..Len(batch[c])}
<1>4. Stranded' \subseteq Stranded \cup T
  <2> SUFFICES ASSUME NEW i \in Stranded', i \notin T
               PROVE  i \in Stranded
    OBVIOUS
  <2>1. (\E y \in pending : y[1] = i) /\ \A b \in Consumers : ~Holds(b, i)'
    BY <1>1 DEF Stranded
  <2>2. ~Holds(c, i)
    BY DEF Holds
  <2>3. \A b \in Consumers \ {c} : ~Holds(b, i)
    BY <1>3, <2>1 DEF Holds
  <2> QED
    BY <2>1, <2>2, <2>3, StrandedElements
<1>5. IsFiniteSet(T) /\ Cardinality(T) <= BatchSize
  BY BatchCount
<1>6. StrandedCounted'
  <2>1. CASE batch[c] = <<>>
    <3>1. T = {}
      BY <2>1
    <3>2. Stranded' \subseteq Stranded
      BY <1>4, <3>1
    <3> QED
      BY <1>0, <1>1, <2>1, <3>2, StrandedStays DEF TypeOK
  <2>2. CASE batch[c] # <<>>
    <3> HIDE DEF T
    <3> QED
      BY <1>0, <1>1, <1>4, <1>5, <2>2, StrandedGrows DEF TypeOK
  <2> QED
    BY <2>1, <2>2
<1>7. /\ name' \in [Consumers -> 0..names] /\ stage' \in [Consumers -> {"handle", "ack"}]
      /\ losses' \in Nat
  BY <1>0, <1>1 DEF TypeOK
<1> QED
  BY <1>0, <1>1, <1>2, <1>3, <1>6, <1>7, ShrinkKeepsOrder DEF TypeOK

LEMMA NextKeepsOrder == GroupInvariant /\ OrderInvariant /\ [Next]_vars => OrderInvariant'
<1> SUFFICES ASSUME GroupInvariant, OrderInvariant, [Next]_vars
             PROVE  OrderInvariant'
  OBVIOUS
<1>1. CASE UNCHANGED vars
  <2>1. UNCHANGED <<stream, start, group, pending, acked, name, names, batch, stage, chats,
                    notes, effects, dropped, errors, losses>>
    BY <1>1 DEF vars, redis, chat
  <2>2. TypeOK'
    BY <2>1 DEF OrderInvariant, TypeOK
  <2> QED
    BY <2>1, <2>2, QuietKeepsOrder DEF chat
<1>2. CASE Next
  BY <1>2, AddKeepsOrder, CreateGroupKeepsOrder, StartKeepsOrder, FetchKeepsOrder,
     HandleKeepsOrder, FailKeepsOrder, AckKeepsOrder, CrashKeepsOrder DEF Next
<1> QED
  BY <1>1, <1>2

LEMMA OrderInductive == Spec => []OrderInvariant
BY InitOrder, NextKeepsOrder, GroupInductive, PTL DEF Spec

-----------------------------------------------------------------------------
(* No interleaving of consumers takes a variable out of its type. *)
THEOREM ConsumerTyping == Spec => []TypeOK
BY OrderInductive, PTL DEF OrderInvariant

(* A consumer process announces status changes in the order of their events, *)
(* across failures, crashes and restarts, for it reads forward only and an   *)
(* entry it leaves is read by nobody.                                        *)
THEOREM AnnouncedInOrder == Spec => []NotesInOrder
BY OrderInductive, PTL DEF OrderInvariant

(* The entries that no restart will ever process are at most one for each   *)
(* error and one batch for each crash or lost reply.                        *)
THEOREM FewStranded == Spec => []StrandedHasCause
<1>1. OrderInvariant => StrandedHasCause
  BY DEF OrderInvariant, StrandedCounted
<1> QED
  BY <1>1, OrderInductive, PTL

DropsHaveCause ==
  \A c \in Consumers : \A i \in dropped' \ dropped : \A j \in 1..(i - 1) :
    Holds(c, i) /\ stream[j] = [type |-> "created", order |-> stream[i].order]
      => \/ j <= start \/ j \in Stranded
         \/ \E b \in Consumers \ {c} : Holds(b, j)

LEMMA DropFacts ==
  ASSUME GroupInvariant, OrderInvariant, NEW c \in Consumers, Working(c),
         Effect(c, batch[c][1]), NEW i \in dropped' \ dropped
  PROVE  i = batch[c][1] /\ stream[i].order \notin chats
BY DEF Effect

(* A status change is dropped after its order's creation only if the         *)
(* creation came before the group, is stranded or is in another consumer's  *)
(* hands: a consumer that read both has the conversation by then.           *)
THEOREM DropsExplained == Spec => DroppedHasCause
<1>1. GroupInvariant /\ OrderInvariant /\ [Next]_vars => [DropsHaveCause]_vars
  <2> SUFFICES ASSUME GroupInvariant, OrderInvariant, Next,
                      NEW c \in Consumers, NEW i \in dropped' \ dropped, NEW j \in 1..(i - 1),
                      Holds(c, i),
                      stream[j] = [type |-> "created", order |-> stream[i].order],
                      ~(j <= start), \A b \in Consumers \ {c} : ~Holds(b, j)
               PROVE  j \in Stranded
    BY DEF DropsHaveCause
  <2>1. PICK d \in Consumers : Working(d) /\ Effect(d, batch[d][1])
    <3>1. dropped' # dropped
      OBVIOUS
    <3>2. PICK d \in Consumers : Handle(d) \/ Fail(d)
      BY <3>1 DEF Next, Add, CreateGroup, Start, Fetch, Ack, Crash, chat
    <3>3. Working(d) /\ Effect(d, Head(batch[d]))
      BY <3>1, <3>2 DEF Handle, Fail, chat
    <3> QED
      BY <3>3, HeadFacts
  <2>2. i = batch[d][1] /\ stream[i].order \notin chats
    BY <2>1, DropFacts
  <2>3. /\ i \in (start + 1)..group /\ start \in Nat /\ start # NoGroup /\ 1 \in 1..Len(batch[d])
        /\ \A b \in Consumers : \A k \in 1..Len(batch[b]) : batch[b][k] = i => b = d /\ k = 1
    BY <2>1, <2>2, HeadFacts
  <2>4. c = d
    BY <2>3 DEF Holds
  <2>5. j \in (start + 1)..group /\ j < i
    BY <2>3 DEF GroupInvariant, GroupTyped
  <2>6. j \notin effects
    BY <2>2 DEF OrderInvariant, Conversed
  <2>7. \E x \in pending : x[1] = j
    BY <2>3, <2>5, <2>6 DEF GroupInvariant, AckedTookEffect
  <2>8. ~Holds(c, j)
    <3> SUFFICES ASSUME NEW k \in 1..Len(batch[c]), batch[c][k] = j
                 PROVE  FALSE
      BY DEF Holds
    <3>1. k # 1
      BY <2>2, <2>3, <2>4, <2>5
    <3>2. 1 < k
      BY <3>1
    <3>3. i < j
      BY <2>2, <2>3, <2>4, <3>2 DEF OrderInvariant, ReadInOrder
    <3> QED
      BY <2>3, <2>5, <3>3
  <2> QED
    BY <2>7, <2>8, StrandedElements
<1>2. Spec => [][DropsHaveCause]_vars
  BY <1>1, OrderInductive, GroupInductive, PTL DEF Spec
<1> QED
  BY <1>2 DEF DroppedHasCause, DropsHaveCause

-----------------------------------------------------------------------------
(* The consumers implement LeafInbox: an entry takes effect where a handler *)
(* commits, whether or not the handler raises afterwards.                  *)

Announced == [k \in 1..Len(notes) |-> notes[k][1]]

LEMMA AnnouncedAppend ==
  ASSUME NEW i \in Nat, NEW c \in Consumers, notes \in Seq(Nat \X Consumers),
         notes' = Append(notes, <<i, c>>)
  PROVE  Announced' = Append(Announced, i)
<1>1. /\ notes' \in Seq(Nat \X Consumers) /\ Len(notes') = Len(notes) + 1 /\ Len(notes) \in Nat
      /\ notes'[Len(notes) + 1] = <<i, c>>
      /\ \A k \in 1..Len(notes) : notes'[k] = notes[k]
  BY AppendProperties
<1>2. /\ Announced \in Seq(Nat) /\ Len(Announced) = Len(notes)
      /\ \A k \in 1..Len(notes) : Announced[k] = notes[k][1]
  <2>1. \A k \in 1..Len(notes) : notes[k][1] \in Nat
    BY ElementOfSeq
  <2> QED
    BY <1>1, <2>1 DEF Announced
<1>3. /\ Announced' \in Seq(Nat) /\ Len(Announced') = Len(notes) + 1
      /\ \A k \in 1..Len(notes) : Announced'[k] = notes[k][1]
      /\ Announced'[Len(notes) + 1] = i
  <2>1. \A k \in 1..Len(notes') : notes'[k][1] \in Nat
    BY <1>1, ElementOfSeq
  <2>2. Announced' = [k \in 1..Len(notes') |-> notes'[k][1]]
    BY DEF Announced
  <2> QED
    BY <1>1, <2>1, <2>2
<1>4. /\ Append(Announced, i) \in Seq(Nat) /\ Len(Append(Announced, i)) = Len(notes) + 1
      /\ \A k \in 1..Len(notes) : Append(Announced, i)[k] = notes[k][1]
      /\ Append(Announced, i)[Len(notes) + 1] = i
  BY <1>2, AppendProperties
<1>5. \A k \in 1..Len(notes) + 1 : Announced'[k] = Append(Announced, i)[k]
  BY <1>1, <1>3, <1>4
<1> QED
  BY <1>3, <1>4, <1>5, SeqEqual

LEMMA InboxInit == Init => Inbox!Init
<1> SUFFICES ASSUME Init
             PROVE  Inbox!Init
  OBVIOUS
<1>1. Announced = <<>>
  BY DEF Init, Announced
<1> QED
  BY <1>1 DEF Init, Inbox!Init, Announced

(* A handler takes up an entry that took no effect before. *)
LEMMA EffectTaken ==
  ASSUME GroupInvariant, OrderInvariant, NEW c \in Consumers, Working(c),
         stage[c] = "handle", Effect(c, Head(batch[c])), UNCHANGED <<stream, redis>>
  PROVE  \E i \in 1..Len(stream) : Inbox!TakeEffect(i)
<1>0. PICK i : i = batch[c][1]
  OBVIOUS
<1>1. /\ Head(batch[c]) = i /\ 1 \in 1..Len(batch[c]) /\ i \in (start + 1)..group
      /\ start \in Nat /\ start # NoGroup
  BY <1>0, HeadFacts
<1>2. i \in 1..Len(stream) /\ start < i /\ i \in Nat
  <2>1. group \in 0..Len(stream) /\ Len(stream) \in Nat
    BY DEF OrderInvariant, TypeOK
  <2> QED
    BY <1>1, <2>1
<1>3. i \notin effects
  BY <1>0, <1>1 DEF GroupInvariant, HandsFull
<1>4. Effect(c, i)
  BY <1>1
<1>5. Announced' = IF stream[i].type = "status" /\ stream[i].order \in chats
                   THEN Append(Announced, i)
                   ELSE Announced
  <2>1. CASE stream[i].type = "status" /\ stream[i].order \in chats
    <3>1. notes' = Append(notes, <<i, c>>) /\ notes \in Seq(Nat \X Consumers)
      BY <1>4, <2>1 DEF Effect, GroupInvariant, GroupTyped
    <3> QED
      BY <1>2, <2>1, <3>1, AnnouncedAppend
  <2>2. CASE ~(stream[i].type = "status" /\ stream[i].order \in chats)
    <3>1. notes' = notes
      BY <1>4, <2>2 DEF Effect
    <3> QED
      BY <2>2, <3>1 DEF Announced
  <2> QED
    BY <2>1, <2>2
<1>6. Inbox!TakeEffect(i)
  BY <1>1, <1>2, <1>3, <1>4, <1>5 DEF Effect, Inbox!TakeEffect, redis, Announced
<1> QED
  BY <1>2, <1>6

LEMMA InboxUnseen ==
  ASSUME UNCHANGED <<stream, start, effects, chats, notes, acked>>
  PROVE  UNCHANGED Inbox!vars
BY DEF Inbox!vars

LEMMA InboxStep ==
  GroupInvariant /\ OrderInvariant /\ [Next]_vars => [Inbox!Next]_(Inbox!vars)
<1> SUFFICES ASSUME GroupInvariant, OrderInvariant, [Next]_vars
             PROVE  Inbox!Next \/ UNCHANGED Inbox!vars
  OBVIOUS
<1>1. CASE UNCHANGED vars
  BY <1>1, InboxUnseen DEF vars, redis, chat
<1>2. ASSUME NEW e \in Entry, Add(e)
      PROVE  Inbox!Next
  <2>1. Announced' = Announced
    BY <1>2 DEF Add, chat, Announced
  <2>2. Inbox!Add(e)
    BY <1>2, <2>1 DEF Add, redis, chat, Inbox!Add, Announced
  <2> QED
    BY <2>2 DEF Inbox!Next, Inbox!Entry, Entry
<1>3. ASSUME EnsureGroup, UNCHANGED <<stream, chat>>
      PROVE  Inbox!Next \/ UNCHANGED Inbox!vars
  <2>1. CASE start = NoGroup
    <3>1. Announced' = Announced
      BY <1>3 DEF chat, Announced
    <3>2. Inbox!Open
      BY <1>3, <2>1, <3>1 DEF EnsureGroup, chat, Inbox!Open, Announced
    <3> QED
      BY <3>2 DEF Inbox!Next
  <2>2. CASE start # NoGroup
    BY <1>3, <2>2, InboxUnseen DEF EnsureGroup, chat
  <2> QED
    BY <2>1, <2>2
<1>4. ASSUME NEW c \in Consumers, Fetch(c) \/ Crash(c)
      PROVE  UNCHANGED Inbox!vars
  BY <1>4, InboxUnseen DEF Fetch, Crash, redis, chat
<1>5. ASSUME NEW c \in Consumers, Handle(c)
      PROVE  Inbox!Next
  <2>1. \E i \in 1..Len(stream) : Inbox!TakeEffect(i)
    BY <1>5, EffectTaken DEF Handle
  <2> QED
    BY <2>1 DEF Inbox!Next
<1>6. ASSUME NEW c \in Consumers, Fail(c)
      PROVE  Inbox!Next \/ UNCHANGED Inbox!vars
  <2>1. CASE UNCHANGED chat
    BY <1>6, <2>1, InboxUnseen DEF Fail, redis, chat
  <2>2. CASE stage[c] = "handle" /\ Effect(c, Head(batch[c]))
    <3>1. \E i \in 1..Len(stream) : Inbox!TakeEffect(i)
      BY <1>6, <2>2, EffectTaken DEF Fail
    <3> QED
      BY <3>1 DEF Inbox!Next
  <2> QED
    BY <1>6, <2>1, <2>2 DEF Fail
<1>7. ASSUME NEW c \in Consumers, Ack(c)
      PROVE  Inbox!Next
  <2>1. batch[c][1] \in effects /\ Head(batch[c]) = batch[c][1]
    BY <1>7, HeadFacts DEF Ack, GroupInvariant, HandsFull
  <2>2. Announced' = Announced
    BY <1>7 DEF Ack, chat, Announced
  <2>3. Inbox!Acknowledge(batch[c][1])
    BY <1>7, <2>1, <2>2 DEF Ack, chat, Inbox!Acknowledge, Announced
  <2> QED
    BY <2>1, <2>3 DEF Inbox!Next
<1>8. CASE CreateGroup \/ \E c \in Consumers : Start(c)
  BY <1>3, <1>8 DEF CreateGroup, Start
<1> QED
  BY <1>1, <1>2, <1>4, <1>5, <1>6, <1>7, <1>8 DEF Next

(* Every entry behind the group's start takes effect at most once, as a     *)
(* whole and as its type says, and is acknowledged only afterwards, for any *)
(* number of consumers and whatever fails.                                 *)
THEOREM ImplementsInbox == Spec => InboxSpec
BY InboxInit, InboxStep, GroupInductive, OrderInductive, PTL DEF Spec, InboxSpec, Inbox!Spec
=============================================================================
