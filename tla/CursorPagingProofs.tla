------------------------- MODULE CursorPagingProofs -------------------------
(***************************************************************************)
(* Proofs about CursorPaging, for any number of messages, conversations    *)
(* and readers and any page size.                                          *)
(***************************************************************************)
EXTENDS CursorPaging, FiniteSetTheorems, TLAPS

(* The two orders are transitive. *)
LEMMA PrecedesTransitive ==
  ASSUME NEW r, NEW i \in Key, NEW j \in Key, NEW k \in Key,
         Precedes(r, i, j), Precedes(r, j, k)
  PROVE  Precedes(r, i, k)
  BY DEF Key, Precedes

LEMMA PrecedesIrreflexive ==
  ASSUME NEW r, NEW k \in Key
  PROVE  ~Precedes(r, k, k)
  BY DEF Key, Precedes

(* A row that matches a cursor follows it in the order. *)
LEMMA MatchesFollows ==
  ASSUME NEW r \in Readers, NEW k \in Key, after[r] \in Key
  PROVE  /\ Matches(r, k) => Precedes(r, after[r], k)
         /\ k[1] # 0 /\ Precedes(r, after[r], k) => Matches(r, k)
  BY DEF Key, Matches, Precedes

(* Rows are keys with times that have passed. *)
LEMMA RowFacts ==
  ASSUME PagingAssumption, TypeOK, NEW r \in Readers, NEW k \in Rows(r)
  PROVE  /\ k \in Key /\ k[1] <= clock
         /\ r \in Tabs => k[2] \in stored /\ k = KeyOf(k[2]) /\ k[1] # 0 /\ Home[k[2]] = Book[r]
<1>1. CASE r \in Tabs
  <2>1. PICK m \in stored : k = <<stamp[m], m>> /\ Home[m] = Book[r]
    BY <1>1 DEF Rows
  <2>2. m \in Messages /\ stamp[m] \in 0..clock /\ stamp[m] # 0 /\ m \in Nat /\ clock \in Nat
    BY DEF TypeOK, PagingAssumption
  <2>3. k[1] = stamp[m] /\ k[2] = m
    BY <2>1
  <2> QED
    BY <2>1, <2>2, <2>3 DEF Key, KeyOf
<1>2. CASE r \notin Tabs
  <2>1. PICK c \in listed : k = <<last[c], c>>
    BY <1>2 DEF Rows
  <2>2. c \in Conversations /\ last[c] \in 0..clock /\ c \in Nat /\ clock \in Nat
    BY DEF TypeOK, PagingAssumption
  <2> QED
    BY <1>2, <2>1, <2>2 DEF Key
<1> QED
  BY <1>1, <1>2

LEMMA TabRows ==
  ASSUME NEW t \in Tabs, NEW m \in stored, Home[m] = Book[t]
  PROVE  KeyOf(m) \in Rows(t)
  BY DEF Rows, KeyOf

LEMMA InitInvariant ==
  ASSUME PagingAssumption, Init
  PROVE  PagingInvariant
<1>1. TypeOK
  BY DEF Init, TypeOK, PagingAssumption
<1>2. \A r \in Readers : Shown(r) = {} /\ page[r] = {} /\ owed[r] = {} /\ after[r] = None /\ ~done[r]
  BY DEF Init, Shown
<1>3. \A t \in Tabs : t \in Readers /\ marks[t] = <<>> /\ Book[t] \in Conversations
  BY DEF Init, Readers, PagingAssumption
<1>4. \A t \in Tabs : setter[Book[t]] # t
  BY <1>3 DEF Init, PagingAssumption
<1>5. ShownAreMessages /\ CursorIsLast /\ PagesInOrder /\ OwedIsAhead /\ NothingSkipped /\ SentIsAhead
  BY <1>2, <1>3 DEF ShownAreMessages, CursorIsLast, PagesInOrder, OwedIsAhead, NothingSkipped,
                    SentIsAhead
<1>6. MarksInOrder
  BY <1>3, <1>4 DEF MarksInOrder, FramesInOrder
<1> QED
  BY <1>1, <1>5, <1>6 DEF PagingInvariant
(* Nothing but a frame sent or handled touches what MarksInOrder relates. *)
LEMMA MarksFrame ==
  ASSUME TypeOK, MarksInOrder, UNCHANGED <<marks, pointer, setter>>,
         \A t \in Tabs : Shown(t) \subseteq Shown(t)',
         \A t \in Tabs : \A n \in Messages : KeyOf(n) \in Shown(t) => KeyOf(n)' = KeyOf(n)
  PROVE  MarksInOrder'
<1> SUFFICES ASSUME NEW t \in Tabs
             PROVE  /\ \A i \in 1..Len(marks[t]) : KeyOf(marks[t][i])' \in Shown(t)'
                    /\ \A i, j \in 1..Len(marks[t]) :
                         i < j => Precedes(t, KeyOf(marks[t][i]), KeyOf(marks[t][j]))'
                    /\ setter[Book[t]] = t =>
                         /\ pointer[Book[t]] \in Messages /\ KeyOf(pointer[Book[t]])' \in Shown(t)'
                         /\ \A i \in 1..Len(marks[t]) :
                              Precedes(t, KeyOf(pointer[Book[t]]), KeyOf(marks[t][i]))'
  BY DEF MarksInOrder, FramesInOrder
<1>1. \A i \in 1..Len(marks[t]) :
        /\ marks[t][i] \in Messages /\ KeyOf(marks[t][i]) \in Shown(t)
        /\ KeyOf(marks[t][i])' = KeyOf(marks[t][i])
  BY DEF MarksInOrder, FramesInOrder, TypeOK
<1>2. \A i, j \in 1..Len(marks[t]) :
        i < j => Precedes(t, KeyOf(marks[t][i]), KeyOf(marks[t][j]))'
  BY <1>1 DEF MarksInOrder, FramesInOrder, Precedes
<1>3. ASSUME setter[Book[t]] = t
      PROVE  /\ pointer[Book[t]] \in Messages /\ KeyOf(pointer[Book[t]])' \in Shown(t)'
             /\ \A i \in 1..Len(marks[t]) :
                  Precedes(t, KeyOf(pointer[Book[t]]), KeyOf(marks[t][i]))'
  <2>1. pointer[Book[t]] \in Messages /\ KeyOf(pointer[Book[t]]) \in Shown(t)
    BY <1>3 DEF MarksInOrder, FramesInOrder
  <2>2. KeyOf(pointer[Book[t]])' = KeyOf(pointer[Book[t]])
    BY <2>1
  <2> QED
    BY <1>1, <1>3, <2>1, <2>2 DEF MarksInOrder, FramesInOrder, Precedes
<1> QED
  BY <1>1, <1>2, <1>3

-----------------------------------------------------------------------------
(* Writers change no row that was shown. *)

LEMMA BeginKeeps ==
  ASSUME PagingAssumption, PagingInvariant, NEW m \in Messages, Begin(m)
  PROVE  PagingInvariant'
<1> USE DEF PagingInvariant
<1>1. /\ stamp[m] = 0 /\ clock' \in {clock, clock + 1}
      /\ stamp' = [stamp EXCEPT ![m] = clock']
      /\ UNCHANGED <<stored, last, created, listed>>
  BY DEF Begin
<1>2. UNCHANGED <<after, page, seen, done, overlapped, marks, pointer, setter, owed>>
  BY DEF Begin, reading, marking
<1>3. clock \in Nat /\ clock' \in Nat /\ clock <= clock' /\ clock' # 0
  BY <1>1 DEF TypeOK
<1>4. \A n \in Messages : stamp'[n] = IF n = m THEN clock' ELSE stamp[n]
  BY <1>1 DEF TypeOK
<1>5. m \notin stored /\ stored \subseteq Messages
  BY <1>1 DEF TypeOK
<1>6. \A n \in stored : stamp'[n] = stamp[n] /\ KeyOf(n)' = KeyOf(n)
  BY <1>1, <1>4, <1>5 DEF KeyOf
<1>7. TypeOK'
  <2>1. stamp' \in [Messages -> 0..clock'] /\ last' \in [Conversations -> 0..clock']
    BY <1>1, <1>3 DEF TypeOK
  <2>2. stored' \subseteq {n \in Messages : stamp'[n] # 0}
    BY <1>1, <1>6 DEF TypeOK
  <2> QED
    BY <1>1, <1>2, <1>3, <2>1, <2>2 DEF TypeOK
<1>8. \A r \in Readers : Rows(r) \subseteq Rows(r)' /\ Shown(r)' = Shown(r)
  <2> SUFFICES ASSUME NEW r \in Readers PROVE Rows(r) \subseteq Rows(r)' /\ Shown(r)' = Shown(r)
    OBVIOUS
  <2>1. CASE r \in Tabs
    <3> SUFFICES ASSUME NEW k \in Rows(r) PROVE k \in Rows(r)'
      BY <1>2 DEF Shown
    <3>1. PICK n \in stored : k = <<stamp[n], n>> /\ Home[n] = Book[r]
      BY <2>1 DEF Rows
    <3>2. n \in stored' /\ k = <<stamp'[n], n>>
      BY <1>1, <1>6, <3>1
    <3> QED
      BY <2>1, <3>1, <3>2 DEF Rows
  <2>2. CASE r \notin Tabs
    BY <1>1, <1>2, <2>2 DEF Rows, Shown
  <2> QED
    BY <2>1, <2>2
<1>9. Tabs \subseteq Readers
  BY DEF Readers
<1>10. ShownAreMessages'
  BY <1>1, <1>6, <1>8, <1>9 DEF ShownAreMessages
<1>11. CursorIsLast'
  <2>1. \A r \in Readers : \A k \in Shown(r) : k[1] <= clock'
    <3> SUFFICES ASSUME NEW r \in Readers, NEW k \in Shown(r) PROVE k[1] <= clock'
      OBVIOUS
    <3>1. k \in Key /\ k[1] <= clock
      BY DEF CursorIsLast, TypeOK, Shown
    <3> QED
      BY <1>3, <3>1 DEF Key
  <2> QED
    BY <1>2, <1>8, <2>1 DEF CursorIsLast, Precedes
<1>12. PagesInOrder'
  BY <1>2 DEF PagesInOrder, Precedes
<1>13. OwedIsAhead'
  BY <1>2, <1>8 DEF OwedIsAhead, Precedes
<1>14. NothingSkipped'
  BY <1>2, <1>8 DEF NothingSkipped
<1>15. SentIsAhead'
  <2> SUFFICES ASSUME NEW t \in Tabs, after[t] # None, NEW n \in Messages,
                      stamp'[n] # 0, Home[n] = Book[t]
               PROVE  \/ KeyOf(n)' \in Shown(t)
                      \/ stamp'[n] > after[t][1]
                      \/ n \in overlapped[t]
                      \/ \E k \in Shown(t) : k[1] = stamp'[n]
    BY <1>2, <1>8, <1>9 DEF SentIsAhead
  <2>1. CASE n # m
    <3>1. stamp'[n] = stamp[n]
      BY <1>4, <2>1
    <3>2. KeyOf(n)' = KeyOf(n)
      BY <3>1 DEF KeyOf
    <3>3. SentIsAhead
      OBVIOUS
    <3> HIDE DEF PagingInvariant
    <3>4. \/ KeyOf(n) \in Shown(t) \/ stamp[n] > after[t][1] \/ n \in overlapped[t]
          \/ \E k \in Shown(t) : k[1] = stamp[n]
      BY <3>1, <3>3 DEF SentIsAhead
    <3> QED
      BY <3>1, <3>2, <3>4
  <2>2. CASE n = m
    <3>1. after[t] \in Shown(t) /\ after[t] \in Key /\ after[t][1] <= clock
      BY <1>9 DEF CursorIsLast, TypeOK
    <3>2. stamp'[n] = clock' /\ after[t][1] \in Nat
      BY <1>4, <2>2, <3>1 DEF Key
    <3>3. stamp'[n] > after[t][1] \/ after[t][1] = stamp'[n]
      BY <1>3, <3>1, <3>2
    <3> QED
      BY <3>1, <3>3
  <2> QED
    BY <2>1, <2>2
<1>16. MarksInOrder'
  <2>1. \A t \in Tabs : \A n \in Messages : KeyOf(n) \in Shown(t) => KeyOf(n)' = KeyOf(n)
    BY <1>6 DEF ShownAreMessages, KeyOf
  <2> QED
    BY <1>2, <1>8, <1>9, <2>1, MarksFrame
<1> QED
  BY <1>7, <1>10, <1>11, <1>12, <1>13, <1>14, <1>15, <1>16

LEMMA CommitKeeps ==
  ASSUME PagingAssumption, PagingInvariant, NEW m \in Messages, Commit(m)
  PROVE  PagingInvariant'
<1> USE DEF PagingInvariant
<1>1. /\ stamp[m] # 0 /\ stored' = stored \cup {m}
      /\ last' = [last EXCEPT ![Home[m]] = stamp[m]]
      /\ listed' \in {listed, listed \cup {Home[m]}, listed \ {Home[m]}}
      /\ owed' = [r \in Readers |-> IF r \in Tabs THEN owed[r]
                                    ELSE {k \in owed[r] : k[2] # Home[m]}]
      /\ UNCHANGED <<clock, stamp, created>>
  BY DEF Commit
<1>2. UNCHANGED <<after, page, seen, done, overlapped, marks, pointer, setter>>
  BY DEF Commit, reading, marking
<1>3. Home[m] \in Conversations
  BY DEF PagingAssumption
<1>4. \A r \in Readers : owed'[r] \subseteq owed[r] /\ (r \notin Tabs => \A k \in owed'[r] : k[2] # Home[m])
  BY <1>1
<1>5. TypeOK'
  <2>1. last' \in [Conversations -> 0..clock']
    BY <1>1 DEF TypeOK
  <2>2. owed' \in [Readers -> SUBSET Key]
    BY <1>1 DEF TypeOK
  <2>3. stored' \subseteq {n \in Messages : stamp'[n] # 0} /\ listed' \subseteq Conversations
    BY <1>1, <1>3 DEF TypeOK
  <2> QED
    BY <1>1, <1>2, <2>1, <2>2, <2>3 DEF TypeOK
<1>6. \A r \in Readers : Shown(r)' = Shown(r)
  BY <1>2 DEF Shown
<1>7. \A n : KeyOf(n)' = KeyOf(n)
  BY <1>1 DEF KeyOf
<1>8. Tabs \subseteq Readers
  BY DEF Readers
<1>9. ShownAreMessages'
  BY <1>1, <1>6, <1>7, <1>8 DEF ShownAreMessages
<1>10. CursorIsLast' /\ PagesInOrder'
  BY <1>1, <1>2, <1>6 DEF CursorIsLast, PagesInOrder, Precedes
<1>11. OwedIsAhead'
  <2> SUFFICES ASSUME NEW r \in Readers, NEW k \in owed'[r]
               PROVE  k \in Rows(r)'
    BY <1>2, <1>4, <1>6 DEF OwedIsAhead, Precedes
  <2>1. k \in Rows(r)
    BY <1>4 DEF OwedIsAhead
  <2>2. CASE r \in Tabs
    BY <1>1, <2>1, <2>2 DEF Rows
  <2>3. CASE r \notin Tabs
    <3>1. PICK c \in listed : k = <<last[c], c>>
      BY <2>1, <2>3 DEF Rows
    <3>2. c # Home[m]
      BY <1>4, <2>3, <3>1
    <3>3. c \in listed' /\ last'[c] = last[c]
      BY <1>1, <3>2 DEF TypeOK
    <3> QED
      BY <2>3, <3>1, <3>3 DEF Rows
  <2> QED
    BY <2>2, <2>3
<1>12. NothingSkipped'
  BY <1>2, <1>4, <1>6 DEF NothingSkipped
<1>13. SentIsAhead'
  BY <1>1, <1>2, <1>6, <1>7, <1>8 DEF SentIsAhead
<1>14. MarksInOrder'
  BY <1>2, <1>6, <1>7, <1>8, MarksFrame
<1> QED
  BY <1>5, <1>9, <1>10, <1>11, <1>12, <1>13, <1>14

LEMMA CreateKeeps ==
  ASSUME PagingInvariant, NEW c \in Conversations, Create(c)
  PROVE  PagingInvariant'
<1> USE DEF PagingInvariant
<1>1. /\ created' = created \cup {c} /\ listed' \in {listed, listed \cup {c}}
      /\ UNCHANGED <<clock, stamp, stored, last, after, page, seen, done, overlapped, marks,
                     pointer, setter, owed>>
  BY DEF Create, reading, marking
<1>2. TypeOK'
  BY <1>1 DEF TypeOK
<1>3. \A r \in Readers : Shown(r)' = Shown(r) /\ Rows(r) \subseteq Rows(r)'
  BY <1>1 DEF Shown, Rows
<1>4. \A n : KeyOf(n)' = KeyOf(n)
  BY <1>1 DEF KeyOf
<1>5. Tabs \subseteq Readers
  BY DEF Readers
<1>6. ShownAreMessages' /\ CursorIsLast' /\ PagesInOrder'
  BY <1>1, <1>3, <1>4, <1>5 DEF ShownAreMessages, CursorIsLast, PagesInOrder, Precedes
<1>7. OwedIsAhead' /\ NothingSkipped'
  BY <1>1, <1>3 DEF OwedIsAhead, NothingSkipped, Precedes
<1>8. SentIsAhead'
  BY <1>1, <1>3, <1>4, <1>5 DEF SentIsAhead
<1>9. MarksInOrder'
  BY <1>1, <1>3, <1>4, <1>5, MarksFrame
<1> QED
  BY <1>2, <1>6, <1>7, <1>8, <1>9
-----------------------------------------------------------------------------
(* A page. *)

(* What the query returns: P are the first of the rows S beyond the cursor. *)
LEMMA PageFacts ==
  ASSUME PagingAssumption, PagingInvariant, NEW r \in Readers, NextPage(r)
  PROVE  \E S \in SUBSET Rows(r), P \in SUBSET Key :
           /\ P \subseteq S
           /\ after[r] = None => S = Rows(r)
           /\ after[r] # None => \A k \in Rows(r) : k \in S <=> Matches(r, k)
           /\ \A k \in S \ P : after'[r] \in Key /\ Precedes(r, after'[r], k)
           /\ \A j \in Shown(r), k \in S : Precedes(r, j, k)
           /\ IF P = {} THEN after' = after
              ELSE /\ after'[r] \in P /\ after' = [after EXCEPT ![r] = after'[r]]
                   /\ \A j \in P : j = after'[r] \/ Precedes(r, j, after'[r])
           /\ page' = [page EXCEPT ![r] = P]
           /\ seen' = [seen EXCEPT ![r] = Shown(r)]
           /\ done' \in [Readers -> BOOLEAN]
           /\ \A b \in Readers : b # r => done'[b] = done[b]
           /\ done'[r] => P = S
           /\ owed' = [owed EXCEPT ![r] = IF after[r] = None THEN S ELSE @]
<1> USE DEF PagingInvariant
<1> DEFINE S == IF after[r] = None THEN Rows(r) ELSE {k \in Rows(r) : Matches(r, k)}
<1>1. PICK P \in SUBSET S :
        /\ IsPage(r, P, S) /\ Advance(r, P)
        /\ page' = [page EXCEPT ![r] = P]
        /\ seen' = [seen EXCEPT ![r] = Shown(r)]
        /\ done' = [done EXCEPT ![r] = Cardinality(P) < Limit]
        /\ owed' = [owed EXCEPT ![r] = IF after[r] = None THEN S ELSE @]
  BY DEF NextPage
<1>2. /\ S \subseteq Rows(r)
      /\ after[r] = None => S = Rows(r)
      /\ after[r] # None => \A k \in Rows(r) : k \in S <=> Matches(r, k)
  OBVIOUS
<1>3. \A k \in S : k \in Key
  BY <1>2, RowFacts
<1>4. \A j \in P, k \in S \ P : Precedes(r, j, k)
  BY <1>1 DEF IsPage
<1>5. P = {} => S = {}
  <2>1. Cardinality({}) = 0 /\ Limit \in Nat \ {0}
    BY FS_EmptySet DEF PagingAssumption
  <2> QED
    BY <1>1, <2>1 DEF IsPage
<1>6. \A j \in Shown(r), k \in S : Precedes(r, j, k)
  <2> SUFFICES ASSUME NEW j \in Shown(r), NEW k \in S PROVE Precedes(r, j, k)
    OBVIOUS
  <2>1. after[r] # None /\ (j = after[r] \/ Precedes(r, j, after[r]))
    BY DEF CursorIsLast
  <2>2. after[r] \in Key /\ j \in Key /\ k \in Key
    BY <1>3, <2>1 DEF TypeOK, Shown
  <2>3. Precedes(r, after[r], k)
    BY <1>2, <2>1, <2>2, MatchesFollows
  <2> QED
    BY <2>1, <2>2, <2>3, PrecedesTransitive
<1>7. IF P = {} THEN after' = after
      ELSE /\ after'[r] \in P /\ after' = [after EXCEPT ![r] = after'[r]]
           /\ \A j \in P : j = after'[r] \/ Precedes(r, j, after'[r])
  <2>1. CASE P = {}
    BY <1>1, <2>1 DEF Advance
  <2>2. CASE P # {}
    <3>1. PICK k \in P : (\A j \in P \ {k} : Precedes(r, j, k)) /\ after' = [after EXCEPT ![r] = k]
      BY <1>1, <2>2 DEF Advance
    <3>2. after'[r] = k
      BY <3>1 DEF TypeOK
    <3> QED
      BY <2>2, <3>1, <3>2
  <2> QED
    BY <2>1, <2>2
<1>8. \A k \in S \ P : after'[r] \in Key /\ Precedes(r, after'[r], k)
  BY <1>1, <1>3, <1>4, <1>5, <1>7
<1>9. /\ done' \in [Readers -> BOOLEAN]
      /\ \A b \in Readers : b # r => done'[b] = done[b]
      /\ done'[r] => P = S
  <2>1. Cardinality(P) < Limit => P = S
    BY <1>1 DEF IsPage
  <2>2. (Cardinality(P) < Limit) \in BOOLEAN
    OBVIOUS
  <2>3. done'[r] = (Cardinality(P) < Limit)
    BY <1>1 DEF TypeOK
  <2>4. done' \in [Readers -> BOOLEAN] /\ \A b \in Readers : b # r => done'[b] = done[b]
    BY <1>1, <2>2 DEF TypeOK
  <2> QED
    BY <2>1, <2>3, <2>4
<1>10. P \in SUBSET Key /\ P \subseteq S
  BY <1>3
<1> HIDE DEF S
<1> QED
  BY <1>1, <1>2, <1>6, <1>7, <1>8, <1>9, <1>10
LEMMA PageKeeps ==
  ASSUME PagingAssumption, PagingInvariant, NEW r \in Readers, NextPage(r)
  PROVE  PagingInvariant'
<1> USE DEF PagingInvariant
<1>1. PICK S \in SUBSET Rows(r), P \in SUBSET Key :
        /\ P \subseteq S
        /\ after[r] = None => S = Rows(r)
        /\ after[r] # None => \A k \in Rows(r) : k \in S <=> Matches(r, k)
        /\ \A k \in S \ P : after'[r] \in Key /\ Precedes(r, after'[r], k)
        /\ \A j \in Shown(r), k \in S : Precedes(r, j, k)
        /\ IF P = {} THEN after' = after
           ELSE /\ after'[r] \in P /\ after' = [after EXCEPT ![r] = after'[r]]
                /\ \A j \in P : j = after'[r] \/ Precedes(r, j, after'[r])
        /\ page' = [page EXCEPT ![r] = P]
        /\ seen' = [seen EXCEPT ![r] = Shown(r)]
        /\ done' \in [Readers -> BOOLEAN]
        /\ \A b \in Readers : b # r => done'[b] = done[b]
        /\ done'[r] => P = S
        /\ owed' = [owed EXCEPT ![r] = IF after[r] = None THEN S ELSE @]
  BY PageFacts
<1>2. /\ UNCHANGED <<clock, stamp, stored, last, created, listed, marks, pointer, setter>>
      /\ overlapped' = [overlapped EXCEPT
            ![r] = @ \cup {m \in Messages : stamp[m] # 0 /\ m \notin stored}]
  BY DEF NextPage, database, marking
<1>3. /\ \A b \in Readers : b # r =>
           /\ after'[b] = after[b] /\ page'[b] = page[b] /\ seen'[b] = seen[b]
           /\ owed'[b] = owed[b] /\ Shown(b)' = Shown(b)
      /\ page'[r] = P /\ seen'[r] = Shown(r) /\ Shown(r)' = Shown(r) \cup P
      /\ owed'[r] = IF after[r] = None THEN S ELSE owed[r]
  BY <1>1 DEF TypeOK, Shown
<1>4. \A n : KeyOf(n)' = KeyOf(n)
  BY <1>2 DEF KeyOf
<1>5. \A b \in Readers : Rows(b)' = Rows(b)
  BY <1>2 DEF Rows
<1>6. Tabs \subseteq Readers
  BY DEF Readers
<1>7. \A k \in S : k \in Key
  BY RowFacts
<1>8. \A k \in Shown(r) : k \in Key
  BY DEF TypeOK, Shown
<1>9. None \notin Key
  BY DEF PagingAssumption, Key
<1>10. P # {} => after'[r] \in P /\ after'[r] \in Key /\ after'[r] # None
  BY <1>1, <1>9
<1>11. P = {} => after' = after
  BY <1>1
<1>12. P = {} => S = {} \/ after[r] # None
  <2> SUFFICES ASSUME P = {}, S # {} PROVE after[r] # None
    OBVIOUS
  <2>1. after'[r] \in Key
    BY <1>1
  <2> QED
    BY <1>9, <1>11, <2>1
<1>13. TypeOK'
  <2>1. after' \in [Readers -> Key \cup {None}]
    BY <1>1 DEF TypeOK
  <2>2. page' \in [Readers -> SUBSET Key] /\ seen' \in [Readers -> SUBSET Key]
    BY <1>1, <1>8 DEF TypeOK
  <2>3. owed' \in [Readers -> SUBSET Key]
    BY <1>1, <1>7 DEF TypeOK
  <2>4. overlapped' \in [Readers -> SUBSET Messages]
    BY <1>2 DEF TypeOK
  <2>5. done' \in [Readers -> BOOLEAN]
    BY <1>1
  <2> QED
    BY <1>2, <2>1, <2>2, <2>3, <2>4, <2>5 DEF TypeOK
<1>14. ShownAreMessages'
  <2>1. r \in Tabs => \A k \in P : k[2] \in stored /\ k = KeyOf(k[2])
    BY <1>1, RowFacts
  <2> QED
    BY <1>2, <1>3, <1>4, <1>6, <2>1 DEF ShownAreMessages
<1>15. CursorIsLast'
  <2> SUFFICES ASSUME NEW b \in Readers
               PROVE  /\ after'[b] = None => Shown(b)' = {}
                      /\ after'[b] # None => after'[b] \in Shown(b)'
                      /\ \A k \in Shown(b)' : k = after'[b] \/ Precedes(b, k, after'[b])
                      /\ \A k \in Shown(b)' : k[1] <= clock
    BY <1>2 DEF CursorIsLast, Precedes
  <2>1. CASE b # r
    BY <1>3, <2>1 DEF CursorIsLast
  <2>2. CASE b = r /\ P = {}
    BY <1>3, <1>11, <2>2 DEF CursorIsLast
  <2>3. CASE b = r /\ P # {}
    <3>1. \A k \in P : k[1] <= clock
      BY <1>1, RowFacts
    <3>2. \A k \in Shown(r) : Precedes(r, k, after'[r])
      BY <1>1, <1>10, <2>3
    <3> QED
      BY <1>1, <1>3, <1>10, <2>3, <3>1, <3>2 DEF CursorIsLast
  <2> QED
    BY <2>1, <2>2, <2>3
<1>16. PagesInOrder'
  <2>1. \A j \in seen'[r], k \in page'[r] : Precedes(r, j, k)
    BY <1>1, <1>3
  <2> QED
    BY <1>3, <2>1 DEF PagesInOrder, Precedes
<1>17. OwedIsAhead'
  <2> SUFFICES ASSUME NEW b \in Readers, NEW k \in owed'[b]
               PROVE  /\ k \in Rows(b) /\ after'[b] # None
                      /\ k \in Shown(b)' \/ k[1] = 0 \/ Precedes(b, after'[b], k)
    BY <1>5 DEF OwedIsAhead, Precedes
  <2>1. CASE b # r
    BY <1>3, <2>1 DEF OwedIsAhead
  <2>2. CASE b = r /\ after[r] = None
    <3>1. k \in S
      BY <1>3, <2>2
    <3>2. P # {}
      BY <1>12, <2>2, <3>1
    <3> QED
      BY <1>1, <1>3, <1>10, <2>2, <3>1, <3>2
  <2>3. CASE b = r /\ after[r] # None
    <3>1. k \in Rows(r) /\ (k \in Shown(r) \/ k[1] = 0 \/ Precedes(r, after[r], k))
      BY <1>3, <2>3 DEF OwedIsAhead
    <3>2. after'[r] # None
      BY <1>10, <1>11, <2>3
    <3>3. k \in Key /\ after[r] \in Key
      BY <2>3, <3>1, RowFacts DEF TypeOK
    <3>4. k[1] # 0 /\ Precedes(r, after[r], k) => k \in S
      BY <1>1, <2>3, <3>1, <3>3, MatchesFollows
    <3>5. k \in S => k \in P \/ Precedes(r, after'[r], k)
      BY <1>1
    <3>6. k \in Shown(r) \cup P => k \in Shown(r)'
      BY <1>3
    <3> HIDE DEF PagingInvariant
    <3> QED
      BY <2>3, <3>1, <3>2, <3>4, <3>5, <3>6
  <2> QED
    BY <2>1, <2>2, <2>3
<1>18. NothingSkipped'
  <2> SUFFICES ASSUME NEW b \in Readers, done'[b], NEW k \in owed'[b]
               PROVE  k \in Shown(b)' \/ k[1] = 0
    BY DEF NothingSkipped
  <2>1. CASE b # r
    BY <1>1, <1>3, <2>1 DEF NothingSkipped
  <2>2. CASE b = r /\ after[r] = None
    BY <1>1, <1>3, <2>2
  <2>3. CASE b = r /\ after[r] # None
    <3>1. k \in Rows(r) /\ (k \in Shown(r) \/ k[1] = 0 \/ Precedes(r, after[r], k))
      BY <1>3, <2>3 DEF OwedIsAhead
    <3>2. k \in Key /\ after[r] \in Key
      BY <2>3, <3>1, RowFacts DEF TypeOK
    <3>3. k[1] # 0 /\ Precedes(r, after[r], k) => k \in S
      BY <1>1, <2>3, <3>1, <3>2, MatchesFollows
    <3> QED
      BY <1>1, <1>3, <2>3, <3>1, <3>3
  <2> QED
    BY <2>1, <2>2, <2>3
<1>19. SentIsAhead'
  <2> SUFFICES ASSUME NEW t \in Tabs, after'[t] # None, NEW m \in Messages,
                      stamp[m] # 0, Home[m] = Book[t]
               PROVE  \/ KeyOf(m) \in Shown(t)'
                      \/ stamp[m] > after'[t][1]
                      \/ m \in overlapped'[t]
                      \/ \E k \in Shown(t)' : k[1] = stamp[m]
    BY <1>2, <1>4 DEF SentIsAhead
  <2>1. CASE t # r
    BY <1>2, <1>3, <1>6, <2>1 DEF SentIsAhead, TypeOK
  <2>2. CASE t = r /\ m \notin stored
    BY <1>2, <2>2 DEF TypeOK
  <2>3. CASE t = r /\ m \in stored
    <3>1. overlapped[r] \subseteq overlapped'[r] /\ Shown(r) \subseteq Shown(r)'
      BY <1>2, <1>3 DEF TypeOK
    <3>2. KeyOf(m) \in Rows(r) /\ KeyOf(m) \in Key /\ KeyOf(m)[1] = stamp[m] /\ stamp[m] \in Nat
      <4>1. KeyOf(m) \in Rows(r)
        BY <2>3, TabRows
      <4>2. stamp[m] \in Nat
        BY DEF TypeOK
      <4> QED
        BY <4>1, <4>2, RowFacts DEF KeyOf
    <3>3. CASE KeyOf(m) \in P
      BY <1>3, <2>3, <3>3
    <3>4. CASE KeyOf(m) \in S \ P
      <4>1. after'[r] \in Key /\ Precedes(r, after'[r], KeyOf(m)) /\ r \in Tabs
        BY <1>1, <2>3, <3>4
      <4>2. after'[r][1] < stamp[m] \/ after'[r][1] = stamp[m]
        BY <3>2, <4>1 DEF Precedes
      <4>3. after'[r] \in Shown(r)'
        BY <1>9, <1>15, <4>1 DEF CursorIsLast
      <4>4. after'[r][1] \in Nat
        BY <4>1 DEF Key
      <4> QED
        BY <2>3, <3>2, <4>2, <4>3, <4>4
    <3>5. CASE KeyOf(m) \notin S
      <4>1. after[r] # None
        BY <1>1, <3>2, <3>5
      <4>2. ~Matches(r, KeyOf(m)) /\ after[r] \in Key
        BY <1>1, <3>2, <3>5, <4>1 DEF TypeOK
      <4>3. ~(stamp[m] > after[r][1])
        BY <2>3, <3>2, <4>2 DEF Matches
      <4>4. KeyOf(m) \in Shown(r) \/ m \in overlapped[r] \/ \E k \in Shown(r) : k[1] = stamp[m]
        BY <2>3, <4>1, <4>3 DEF SentIsAhead
      <4> QED
        BY <2>3, <3>1, <4>4
    <3> QED
      BY <3>3, <3>4, <3>5
  <2> QED
    BY <2>1, <2>2, <2>3
<1>20. MarksInOrder'
  <2>1. \A t \in Tabs : Shown(t) \subseteq Shown(t)'
    BY <1>3, <1>6
  <2> QED
    BY <1>2, <1>4, <2>1, MarksFrame
<1> QED
  BY <1>13, <1>14, <1>15, <1>16, <1>17, <1>18, <1>19, <1>20
-----------------------------------------------------------------------------
(* The read pointer. *)

(* What Mark and MarkRead leave alone. *)
LEMMA MarkFrame ==
  ASSUME PagingInvariant, UNCHANGED <<database, reading, owed>>
  PROVE  /\ ShownAreMessages' /\ CursorIsLast' /\ PagesInOrder' /\ OwedIsAhead'
         /\ NothingSkipped' /\ SentIsAhead'
         /\ \A n : KeyOf(n)' = KeyOf(n)
         /\ \A r \in Readers : Shown(r)' = Shown(r)
         /\ UNCHANGED <<clock, stamp, stored, last, created, listed, after, page, seen, done,
                        overlapped>>
<1> USE DEF PagingInvariant
<1>1. UNCHANGED <<clock, stamp, stored, last, created, listed, after, page, seen, done,
                  overlapped, owed>>
  BY DEF database, reading
<1>2. /\ \A r \in Readers : Shown(r)' = Shown(r) /\ Rows(r)' = Rows(r)
      /\ \A n : KeyOf(n)' = KeyOf(n)
      /\ Tabs \subseteq Readers
  BY <1>1 DEF Shown, Rows, KeyOf, Readers
<1>3. ShownAreMessages' /\ CursorIsLast' /\ PagesInOrder'
  BY <1>1, <1>2 DEF ShownAreMessages, CursorIsLast, PagesInOrder, Precedes
<1>4. OwedIsAhead' /\ NothingSkipped'
  BY <1>1, <1>2 DEF OwedIsAhead, NothingSkipped, Precedes
<1>5. SentIsAhead'
  BY <1>1, <1>2 DEF SentIsAhead
<1> QED
  BY <1>1, <1>2, <1>3, <1>4, <1>5

(* The same with keys of the unprimed state. *)
LEMMA FramesFromKeys ==
  ASSUME NEW t \in Tabs, stamp' = stamp, Shown(t)' = Shown(t),
         \A i \in 1..Len(marks'[t]) : KeyOf(marks'[t][i]) \in Shown(t),
         \A i, j \in 1..Len(marks'[t]) :
           i < j => Precedes(t, KeyOf(marks'[t][i]), KeyOf(marks'[t][j])),
         setter'[Book[t]] = t =>
           /\ pointer'[Book[t]] \in Messages /\ KeyOf(pointer'[Book[t]]) \in Shown(t)
           /\ \A i \in 1..Len(marks'[t]) :
                Precedes(t, KeyOf(pointer'[Book[t]]), KeyOf(marks'[t][i]))
  PROVE  FramesInOrder(t)'
  BY DEF FramesInOrder, Precedes, KeyOf

LEMMA MarkKeeps ==
  ASSUME PagingAssumption, PagingInvariant, NEW t \in Tabs, Mark(t)
  PROVE  PagingInvariant'
<1> USE DEF PagingInvariant
<1> DEFINE m == after[t][2]
<1>1. /\ page[t] # {}
      /\ \A i \in 1..Len(marks[t]) : marks[t][i] # m
      /\ setter[Book[t]] = t => pointer[Book[t]] # m
      /\ marks' = [marks EXCEPT ![t] = Append(@, m)]
      /\ UNCHANGED <<pointer, setter>>
  BY DEF Mark
<1>2. UNCHANGED <<database, reading, owed>>
  BY DEF Mark
<1>3. t \in Readers
  BY DEF Readers
<1>4. after[t] # None /\ after[t] \in Shown(t)
  BY <1>1, <1>3 DEF CursorIsLast, Shown
<1>5. m \in Messages /\ KeyOf(m) = after[t]
  BY <1>4 DEF ShownAreMessages, TypeOK
<1>6. \A n \in Messages : KeyOf(n) \in Shown(t) /\ n # m => Precedes(t, KeyOf(n), KeyOf(m))
  <2> SUFFICES ASSUME NEW n \in Messages, KeyOf(n) \in Shown(t), n # m
               PROVE  Precedes(t, KeyOf(n), KeyOf(m))
    OBVIOUS
  <2>1. KeyOf(n) # KeyOf(m)
    BY DEF KeyOf
  <2> QED
    BY <1>3, <1>5, <2>1 DEF CursorIsLast
<1> HIDE DEF m
<1>7. marks[t] \in Seq(Messages)
  BY DEF TypeOK
<1>8. /\ marks'[t] = Append(marks[t], m)
      /\ \A b \in Tabs : b # t => marks'[b] = marks[b]
      /\ marks' \in [Tabs -> Seq(Messages)]
  BY <1>1, <1>5, <1>7 DEF TypeOK
<1>9. /\ Len(marks'[t]) = Len(marks[t]) + 1 /\ Len(marks[t]) \in Nat
      /\ marks'[t][Len(marks[t]) + 1] = m
      /\ \A i \in 1..Len(marks[t]) : marks'[t][i] = marks[t][i] /\ marks[t][i] \in Messages
  BY <1>5, <1>7, <1>8
<1>10. TypeOK'
  BY <1>1, <1>8, <1>2, MarkFrame DEF TypeOK
<1>11. MarksInOrder'
  <2> SUFFICES ASSUME NEW b \in Tabs
               PROVE  /\ \A i \in 1..Len(marks'[b]) : KeyOf(marks'[b][i]) \in Shown(b)
                      /\ \A i, j \in 1..Len(marks'[b]) :
                           i < j => Precedes(b, KeyOf(marks'[b][i]), KeyOf(marks'[b][j]))
                      /\ setter[Book[b]] = b =>
                           /\ pointer[Book[b]] \in Messages
                           /\ KeyOf(pointer[Book[b]]) \in Shown(b)
                           /\ \A i \in 1..Len(marks'[b]) :
                                Precedes(b, KeyOf(pointer[Book[b]]), KeyOf(marks'[b][i]))
    <3> SUFFICES ASSUME NEW b \in Tabs PROVE FramesInOrder(b)'
      BY DEF MarksInOrder
    <3>1. Shown(b)' = Shown(b) /\ stamp' = stamp
      BY <1>2, MarkFrame DEF Readers
    <3> QED
      BY <1>1, <3>1, FramesFromKeys
  <2>1. CASE b # t
    BY <1>8, <2>1 DEF MarksInOrder, FramesInOrder
  <2>2. CASE b = t
    <3>1. \A i \in 1..Len(marks[t]) :
            KeyOf(marks[t][i]) \in Shown(t) /\ Precedes(t, KeyOf(marks[t][i]), KeyOf(m))
      BY <1>1, <1>6, <1>9 DEF MarksInOrder, FramesInOrder
    <3>2. KeyOf(m) \in Shown(t)
      BY <1>4, <1>5
    <3>3. \A i \in 1..Len(marks'[t]) : KeyOf(marks'[t][i]) \in Shown(t)
      BY <1>9, <3>1, <3>2
    <3>4. ASSUME NEW i \in 1..Len(marks'[t]), NEW j \in 1..Len(marks'[t]), i < j
          PROVE  Precedes(t, KeyOf(marks'[t][i]), KeyOf(marks'[t][j]))
      <4>1. i \in 1..Len(marks[t]) /\ (j \in 1..Len(marks[t]) \/ j = Len(marks[t]) + 1)
        BY <1>9, <3>4
      <4>2. CASE j \in 1..Len(marks[t])
        BY <1>9, <3>4, <4>1, <4>2 DEF MarksInOrder, FramesInOrder
      <4>3. CASE j = Len(marks[t]) + 1
        BY <1>9, <3>1, <4>1, <4>3
      <4> QED
        BY <4>1, <4>2, <4>3
    <3>5. ASSUME setter[Book[t]] = t
          PROVE  /\ pointer[Book[t]] \in Messages
                 /\ KeyOf(pointer[Book[t]]) \in Shown(t)
                 /\ \A i \in 1..Len(marks'[t]) :
                      Precedes(t, KeyOf(pointer[Book[t]]), KeyOf(marks'[t][i]))
      <4>1. /\ pointer[Book[t]] \in Messages /\ KeyOf(pointer[Book[t]]) \in Shown(t)
            /\ \A i \in 1..Len(marks[t]) :
                 Precedes(t, KeyOf(pointer[Book[t]]), KeyOf(marks[t][i]))
        BY <3>5 DEF MarksInOrder, FramesInOrder
      <4>2. Precedes(t, KeyOf(pointer[Book[t]]), KeyOf(m))
        BY <1>1, <1>6, <3>5, <4>1
      <4>3. \A i \in 1..Len(marks'[t]) : i \in 1..Len(marks[t]) \/ i = Len(marks[t]) + 1
        BY <1>9
      <4>4. \A i \in 1..Len(marks'[t]) :
              Precedes(t, KeyOf(pointer[Book[t]]), KeyOf(marks'[t][i]))
        BY <1>9, <4>1, <4>2, <4>3
      <4> QED
        BY <4>1, <4>4
    <3> QED
      BY <2>2, <3>3, <3>4, <3>5
  <2> QED
    BY <2>1, <2>2
<1> QED
  BY <1>2, <1>10, <1>11, MarkFrame

LEMMA MarkReadKeeps ==
  ASSUME PagingAssumption, PagingInvariant, NEW t \in Tabs, MarkRead(t)
  PROVE  PagingInvariant'
<1> USE DEF PagingInvariant
<1>1. /\ marks[t] # <<>>
      /\ \/ /\ pointer' = [pointer EXCEPT ![Book[t]] = marks[t][1]]
            /\ setter' = [setter EXCEPT ![Book[t]] = t]
         \/ UNCHANGED <<pointer, setter>>
      /\ marks' = [marks EXCEPT ![t] = Tail(@)]
      /\ UNCHANGED <<database, reading, owed>>
  BY DEF MarkRead, Upsert, TypeOK
<1>2. marks[t] \in Seq(Messages) /\ Book[t] \in Conversations /\ t # None
  BY DEF TypeOK, PagingAssumption
<1>3. /\ marks'[t] = Tail(marks[t]) /\ marks' \in [Tabs -> Seq(Messages)]
      /\ \A b \in Tabs : b # t => marks'[b] = marks[b]
  BY <1>1, <1>2 DEF TypeOK
<1>4. /\ Len(marks[t]) \in Nat /\ 1 \in 1..Len(marks[t]) /\ marks[t][1] \in Messages
      /\ Len(marks'[t]) = Len(marks[t]) - 1
      /\ \A i \in 1..Len(marks'[t]) : i + 1 \in 1..Len(marks[t]) /\ marks'[t][i] = marks[t][i + 1]
  BY <1>1, <1>2, <1>3
<1>5. pointer' \in [Conversations -> Messages \cup {None}] /\ setter' \in [Conversations -> Tabs \cup {None}]
  <2>1. pointer \in [Conversations -> Messages \cup {None}] /\ setter \in [Conversations -> Tabs \cup {None}]
    BY DEF TypeOK
  <2>2. CASE UNCHANGED <<pointer, setter>>
    BY <2>1, <2>2
  <2>3. CASE /\ pointer' = [pointer EXCEPT ![Book[t]] = marks[t][1]]
             /\ setter' = [setter EXCEPT ![Book[t]] = t]
    <3>1. marks[t][1] \in Messages \cup {None} /\ t \in Tabs \cup {None}
      BY <1>4
    <3> QED
      BY <1>2, <2>1, <2>3, <3>1
  <2> QED
    BY <1>1, <2>2, <2>3
<1>6. TypeOK'
  BY <1>1, <1>3, <1>5, MarkFrame DEF TypeOK
<1>7. MarksInOrder'
  <2> SUFFICES ASSUME NEW b \in Tabs
               PROVE  /\ \A i \in 1..Len(marks'[b]) : KeyOf(marks'[b][i]) \in Shown(b)
                      /\ \A i, j \in 1..Len(marks'[b]) :
                           i < j => Precedes(b, KeyOf(marks'[b][i]), KeyOf(marks'[b][j]))
                      /\ setter'[Book[b]] = b =>
                           /\ pointer'[Book[b]] \in Messages
                           /\ KeyOf(pointer'[Book[b]]) \in Shown(b)
                           /\ \A i \in 1..Len(marks'[b]) :
                                Precedes(b, KeyOf(pointer'[Book[b]]), KeyOf(marks'[b][i]))
    <3> SUFFICES ASSUME NEW b \in Tabs PROVE FramesInOrder(b)'
      BY DEF MarksInOrder
    <3>1. Shown(b)' = Shown(b) /\ stamp' = stamp
      BY <1>1, MarkFrame DEF Readers
    <3> QED
      BY <3>1, FramesFromKeys
  <2>1. \A i \in 1..Len(marks'[b]) : KeyOf(marks'[b][i]) \in Shown(b)
    <3>1. CASE b # t
      BY <1>3, <3>1 DEF MarksInOrder, FramesInOrder
    <3>2. CASE b = t
      <4>1. \A k \in 1..Len(marks[t]) : KeyOf(marks[t][k]) \in Shown(t)
        BY DEF MarksInOrder, FramesInOrder
      <4> QED
        BY <1>4, <3>2, <4>1
    <3> QED
      BY <3>1, <3>2
  <2>2. ASSUME NEW i \in 1..Len(marks'[b]), NEW j \in 1..Len(marks'[b]), i < j
        PROVE  Precedes(b, KeyOf(marks'[b][i]), KeyOf(marks'[b][j]))
    <3>1. CASE b # t
      BY <1>3, <2>2, <3>1 DEF MarksInOrder, FramesInOrder
    <3>2. CASE b = t
      <4>1. i + 1 < j + 1 /\ i + 1 \in 1..Len(marks[t]) /\ j + 1 \in 1..Len(marks[t])
        BY <1>4, <2>2, <3>2
      <4>2. Precedes(t, KeyOf(marks[t][i + 1]), KeyOf(marks[t][j + 1]))
        BY <4>1 DEF MarksInOrder, FramesInOrder
      <4> QED
        BY <1>4, <3>2, <4>2
    <3> QED
      BY <3>1, <3>2
  <2>3. ASSUME setter'[Book[b]] = b
        PROVE  /\ pointer'[Book[b]] \in Messages
               /\ KeyOf(pointer'[Book[b]]) \in Shown(b)
               /\ \A i \in 1..Len(marks'[b]) :
                    Precedes(b, KeyOf(pointer'[Book[b]]), KeyOf(marks'[b][i]))
    <3>1. CASE b = t /\ pointer'[Book[t]] = marks[t][1]
      <4>1. \A i \in 1..Len(marks'[t]) : 1 < i + 1
        OBVIOUS
      <4> QED
        BY <1>4, <3>1, <4>1 DEF MarksInOrder, FramesInOrder
    <3>2. CASE setter[Book[b]] = b /\ pointer'[Book[b]] = pointer[Book[b]]
      <4>1. /\ pointer[Book[b]] \in Messages /\ KeyOf(pointer[Book[b]]) \in Shown(b)
            /\ \A i \in 1..Len(marks[b]) :
                 Precedes(b, KeyOf(pointer[Book[b]]), KeyOf(marks[b][i]))
        BY <3>2 DEF MarksInOrder, FramesInOrder
      <4>2. CASE b = t
        BY <1>4, <3>2, <4>1, <4>2
      <4>3. CASE b # t
        BY <1>3, <3>2, <4>1, <4>3
      <4> QED
        BY <4>2, <4>3
    <3>3. \/ b = t /\ pointer'[Book[t]] = marks[t][1]
          \/ setter[Book[b]] = b /\ pointer'[Book[b]] = pointer[Book[b]]
      <4>1. /\ pointer \in [Conversations -> Messages \cup {None}]
            /\ setter \in [Conversations -> Tabs \cup {None}]
            /\ Book[b] \in Conversations
        BY DEF TypeOK, PagingAssumption
      <4> HIDE DEF PagingInvariant
      <4>2. CASE UNCHANGED <<pointer, setter>>
        BY <2>3, <4>2
      <4>3. CASE /\ pointer' = [pointer EXCEPT ![Book[t]] = marks[t][1]]
                 /\ setter' = [setter EXCEPT ![Book[t]] = t]
        <5>1. CASE Book[b] = Book[t]
          BY <1>2, <2>3, <4>1, <4>3, <5>1
        <5>2. CASE Book[b] # Book[t]
          BY <1>2, <2>3, <4>1, <4>3, <5>2
        <5> QED
          BY <5>1, <5>2
      <4> QED
        BY <1>1, <4>2, <4>3
    <3> QED
      BY <3>1, <3>2, <3>3
  <2> QED
    BY <2>1, <2>2, <2>3
<1> QED
  BY <1>1, <1>6, <1>7, MarkFrame

-----------------------------------------------------------------------------
LEMMA StutterKeeps ==
  ASSUME PagingInvariant, UNCHANGED vars
  PROVE  PagingInvariant'
<1>1. UNCHANGED <<clock, stamp, stored, last, created, listed, after, page, seen, done, overlapped,
                  marks, pointer, setter, owed>>
  BY DEF vars, database, reading, marking
<1>2. UNCHANGED <<database, reading, owed>>
  BY DEF vars
<1>3. TypeOK'
  BY <1>1 DEF PagingInvariant, TypeOK
<1>4. \A t \in Tabs : Shown(t) \subseteq Shown(t)'
  BY <1>1 DEF Shown
<1>5. MarksInOrder'
  BY <1>1, <1>2, <1>4, MarkFrame, MarksFrame DEF PagingInvariant
<1> QED
  BY <1>2, <1>3, <1>5, MarkFrame DEF PagingInvariant

LEMMA NextKeeps ==
  ASSUME PagingAssumption, PagingInvariant, [Next]_vars
  PROVE  PagingInvariant'
  BY BeginKeeps, CommitKeeps, CreateKeeps, PageKeeps, MarkKeeps, MarkReadKeeps, StutterKeeps DEF Next

(* The invariant that the runs check holds of every behaviour. *)
THEOREM InvariantHolds == Spec => []PagingInvariant
<1>1. Init => PagingInvariant
  BY PagingAssumption, InitInvariant
<1>2. PagingInvariant /\ [Next]_vars => PagingInvariant'
  BY PagingAssumption, NextKeeps
<1> QED
  BY <1>1, <1>2, PTL DEF Spec
(* Every variable keeps its type. *)
THEOREM Typing == Spec => []TypeOK
<1>1. PagingInvariant => TypeOK
  BY DEF PagingInvariant
<1> QED
  BY <1>1, InvariantHolds, PTL

(* No page shows what an earlier one showed, or what sorts before it,       *)
(* whatever is committed, created or touched between the queries.          *)
THEOREM PagesAdvance == Spec => []PagesInOrder
<1>1. PagingInvariant => PagesInOrder
  BY DEF PagingInvariant
<1> QED
  BY <1>1, InvariantHolds, PTL

(* A client that reaches a short page was shown all that was there when it  *)
(* began and did not change, except conversations without messages.        *)
THEOREM PagesCover == Spec => []NothingSkipped
<1>1. PagingInvariant => NothingSkipped
  BY DEF PagingInvariant
<1> QED
  BY <1>1, InvariantHolds, PTL

(* A message that is neither shown nor ahead of the cursor was being sent   *)
(* while a page was read, or shares its timestamp with one that was shown. *)
THEOREM MissesOverlap == Spec => []MissedOverlapped
<1>1. PagingInvariant => MissedOverlapped
  <2> SUFFICES ASSUME PagingInvariant, NEW t \in Tabs, after[t] # None,
                      NEW m \in stored, Home[m] = Book[t]
               PROVE  \/ <<stamp[m], m>> \in Shown(t)
                      \/ stamp[m] > after[t][1]
                      \/ m \in overlapped[t]
                      \/ \E k \in Shown(t) : k[1] = stamp[m]
    BY DEF MissedOverlapped
  <2>1. m \in Messages /\ stamp[m] # 0
    BY DEF PagingInvariant, TypeOK
  <2> QED
    BY <2>1 DEF PagingInvariant, SentIsAhead, KeyOf
<1> QED
  BY <1>1, InvariantHolds, PTL

(* The read pointer moves back only from one tab's frame to another's.      *)
THEOREM PointerForward == Spec => OneTabForward
<1> DEFINE Forward ==
      \A c \in Conversations :
        pointer'[c] # pointer[c] /\ setter[c] = setter'[c]
          => Precedes(setter[c], <<stamp[pointer[c]], pointer[c]>>,
                                 <<stamp[pointer'[c]], pointer'[c]>>)
<1>1. PagingInvariant /\ Next => Forward
  <2> SUFFICES ASSUME PagingInvariant, Next, NEW c \in Conversations,
                      pointer'[c] # pointer[c], setter[c] = setter'[c]
               PROVE  Precedes(setter[c], KeyOf(pointer[c]), KeyOf(pointer'[c]))
    BY DEF KeyOf
  <2>1. PICK t \in Tabs : MarkRead(t)
    BY DEF Next, Begin, Commit, Create, NextPage, Mark, marking
  <2>2. /\ marks[t] # <<>> /\ pointer' = [pointer EXCEPT ![Book[t]] = marks[t][1]]
        /\ setter' = [setter EXCEPT ![Book[t]] = t]
    BY <2>1 DEF MarkRead, Upsert
  <2>3. c = Book[t] /\ pointer'[c] = marks[t][1] /\ setter'[c] = t
    BY <2>2 DEF PagingInvariant, TypeOK
  <2>4. 1 \in 1..Len(marks[t])
    BY <2>2 DEF PagingInvariant, TypeOK
  <2> QED
    BY <2>3, <2>4 DEF PagingInvariant, MarksInOrder, FramesInOrder
<1>2. PagingInvariant /\ [Next]_vars => [Forward]_vars
  BY <1>1
<1>3. OneTabForward <=> [][Forward]_vars
  BY DEF OneTabForward
<1> HIDE DEF Forward
<1> QED
  BY <1>2, <1>3, InvariantHolds, PTL DEF Spec
=============================================================================
