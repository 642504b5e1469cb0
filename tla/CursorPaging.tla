---------------------------- MODULE CursorPaging ----------------------------
(***************************************************************************)
(* Clients that read a message history or a list of conversations page by  *)
(* page (the list queries of repositories/message.py and conversation.py)  *)
(* while messages are being committed, and that mark what they have shown  *)
(* as read (read_state_service.py).                                        *)
(*                                                                         *)
(* A row is its sort key <<timestamp, id>>. The client holds the cursor,   *)
(* the key of the last row it was given. Each page is one query of its own *)
(* transaction and sees what is committed at that instant. A service reads *)
(* the clock for created_at first and commits later, so keys do not become *)
(* visible in their order; clocks of different processes are taken to      *)
(* agree. Ids are random: any order of ids among equal timestamps is met.  *)
(***************************************************************************)
EXTENDS Integers, Sequences, FiniteSets

CONSTANTS
  Messages,       \* ids of the messages that will be written
  Conversations,  \* ids of conversations
  Home,           \* the conversation of each message
  Tabs,           \* clients of one user, each reads one history
  Book,           \* the conversation that a tab reads
  Listers,        \* clients that read the list of conversations
  Limit,          \* rows of a page
  None            \* no cursor, no message, nobody

ASSUME PagingAssumption ==
  /\ Messages \subseteq Nat /\ Conversations \subseteq Nat
  /\ IsFiniteSet(Messages) /\ IsFiniteSet(Conversations)
  /\ Home \in [Messages -> Conversations]
  /\ Tabs \cap Listers = {}
  /\ Book \in [Tabs -> Conversations]
  /\ Limit \in Nat \ {0}
  /\ None \notin Messages \cup Tabs \cup (Nat \X Nat)

Readers == Tabs \cup Listers

VARIABLES
  clock,    \* the time; 0 is before every time, and what NULL is encoded as
  stamp,    \* created_at of each message, 0 until its service reads the clock
  stored,   \* committed messages
  last,     \* last_message_at of each conversation, 0 while it is NULL
  created,  \* committed conversations
  listed,   \* those that the list is about: by participant, or by the filters
  after,    \* the cursor of each reader
  page,     \* the rows of the last page it got
  seen,     \* the rows of its pages before that
  done,     \* its last page was short
  marks,    \* mark_read frames of a tab that are not handled yet
  pointer,  \* last_read_message_id of the user in each conversation
  setter,   \* history: the tab whose frame set it
  owed,     \* history: rows there at the first page and not changed since
  overlapped \* history: messages that were being sent while a page was read

database == <<clock, stamp, stored, last, created, listed>>
reading == <<after, page, seen, done, overlapped>>
marking == <<marks, pointer, setter>>
vars == <<database, reading, marking, owed>>

Init ==
  /\ clock = 1
  /\ stamp = [m \in Messages |-> 0]
  /\ stored = {}
  /\ last = [c \in Conversations |-> 0]
  /\ created \in SUBSET Conversations
  /\ listed \in SUBSET created
  /\ after = [r \in Readers |-> None]
  /\ page = [r \in Readers |-> {}]
  /\ seen = [r \in Readers |-> {}]
  /\ done = [r \in Readers |-> FALSE]
  /\ marks = [t \in Tabs |-> <<>>]
  /\ pointer = [c \in Conversations |-> None]
  /\ setter = [c \in Conversations |-> None]
  /\ owed = [r \in Readers |-> {}]
  /\ overlapped = [r \in Readers |-> {}]

-----------------------------------------------------------------------------
(* Writers. *)

(* A service reads the clock for a message; time may have passed. *)
Begin(m) ==
  /\ stamp[m] = 0 /\ Home[m] \in created
  /\ clock' \in {clock, clock + 1}
  /\ stamp' = [stamp EXCEPT ![m] = clock']
  /\ UNCHANGED <<stored, last, created, listed, reading, marking, owed>>

(* Its transaction commits: with touch_last_message_at, and, if it closes   *)
(* or assigns the conversation, perhaps into or out of an admin's filter.  *)
(* A message that is never committed was rolled back.                      *)
Commit(m) ==
  /\ stamp[m] # 0 /\ m \notin stored
  /\ stored' = stored \cup {m}
  /\ last' = [last EXCEPT ![Home[m]] = stamp[m]]
  /\ listed' \in {listed, listed \cup {Home[m]}, listed \ {Home[m]}}
  /\ owed' = [r \in Readers |-> IF r \in Tabs THEN owed[r]
                                ELSE {k \in owed[r] : k[2] # Home[m]}]
  /\ UNCHANGED <<clock, stamp, created, reading, marking>>

Create(c) ==
  /\ c \notin created
  /\ created' = created \cup {c}
  /\ listed' \in {listed, listed \cup {c}}
  /\ UNCHANGED <<clock, stamp, stored, last, reading, marking, owed>>

-----------------------------------------------------------------------------
(* Pages. *)

Rows(r) ==
  IF r \in Tabs THEN {<<stamp[m], m>> : m \in {n \in stored : Home[n] = Book[r]}}
                ELSE {<<last[c], c>> : c \in listed}

\* A slip: the history is ordered with the newest message first.
PrecedesNewestFirst(r, j, k) == j[1] > k[1] \/ (j[1] = k[1] /\ j[2] < k[2])

(* ORDER BY: created_at, id; or last_message_at descending, NULLs last, id. *)
Precedes(r, j, k) ==
  \/ IF r \in Tabs THEN j[1] < k[1] ELSE j[1] > k[1]
  \/ j[1] = k[1] /\ j[2] < k[2]

\* A slip: ids are not compared when the timestamps are equal.
MatchesNewer(r, k) ==
  k[1] # 0 /\ (IF r \in Tabs THEN k[1] > after[r][1] ELSE k[1] < after[r][1])
\* A slip: the row of the cursor matches it.
MatchesInclusive(r, k) ==
  /\ k[1] # 0
  /\ \/ IF r \in Tabs THEN k[1] > after[r][1] ELSE k[1] < after[r][1]
     \/ k[1] = after[r][1] /\ k[2] >= after[r][2]

(* WHERE: the row lies beyond the cursor. A comparison with NULL is not     *)
(* true.                                                                   *)
Matches(r, k) ==
  /\ k[1] # 0
  /\ \/ IF r \in Tabs THEN k[1] > after[r][1] ELSE k[1] < after[r][1]
     \/ k[1] = after[r][1] /\ k[2] > after[r][2]

(* ORDER BY and LIMIT: the first rows of S, all of them if they are few. *)
IsPage(r, P, S) ==
  /\ Cardinality(P) <= Limit
  /\ Cardinality(P) < Limit => P = S
  /\ \A j \in P, k \in S \ P : Precedes(r, j, k)

(* encode_cursor of the last row of the page. *)
Advance(r, P) ==
  \/ P = {} /\ UNCHANGED after
  \/ \E k \in P : /\ \A j \in P \ {k} : Precedes(r, j, k)
                  /\ after' = [after EXCEPT ![r] = k]

Shown(r) == seen[r] \cup page[r]

(* list_messages, list_for_user, list_for_admin: a client asks for its      *)
(* next page, also once more after a short one.                            *)
NextPage(r) ==
  LET S == IF after[r] = None THEN Rows(r) ELSE {k \in Rows(r) : Matches(r, k)}
  IN  \E P \in SUBSET S :
        /\ IsPage(r, P, S)
        /\ Advance(r, P)
        /\ page' = [page EXCEPT ![r] = P]
        /\ seen' = [seen EXCEPT ![r] = Shown(r)]
        /\ done' = [done EXCEPT ![r] = Cardinality(P) < Limit]
        /\ owed' = [owed EXCEPT ![r] = IF after[r] = None THEN S ELSE @]
        /\ overlapped' = [overlapped EXCEPT
                            ![r] = @ \cup {m \in Messages : stamp[m] # 0 /\ m \notin stored}]
        /\ UNCHANGED <<database, marking>>

-----------------------------------------------------------------------------
(* The read pointer. *)

(* A tab tells the service the last message of the page it shows. *)
Mark(t) ==
  /\ page[t] # {}
  /\ \A i \in 1..Len(marks[t]) : marks[t][i] # after[t][2]
  /\ setter[Book[t]] = t => pointer[Book[t]] # after[t][2]
  /\ marks' = [marks EXCEPT ![t] = Append(@, after[t][2])]
  /\ UNCHANGED <<database, reading, pointer, setter, owed>>

(* upsert_last_read: one statement that overwrites whatever is there. *)
Upsert(t, m) ==
  /\ pointer' = [pointer EXCEPT ![Book[t]] = m]
  /\ setter' = [setter EXCEPT ![Book[t]] = t]

\* A slip: each frame gets a task of its own.
MarkReadConcurrently(t) ==
  \E i \in 1..Len(marks[t]) :
    /\ Upsert(t, marks[t][i])
    /\ marks' = [marks EXCEPT ![t] = SubSeq(@, 1, i - 1) \o SubSeq(@, i + 1, Len(@))]
    /\ UNCHANGED <<database, reading, owed>>

(* The read loop of the socket handles its frames one after the other; an   *)
(* exception is logged and the frame forgotten.                            *)
MarkRead(t) ==
  /\ marks[t] # <<>>
  /\ Upsert(t, Head(marks[t])) \/ UNCHANGED <<pointer, setter>>
  /\ marks' = [marks EXCEPT ![t] = Tail(@)]
  /\ UNCHANGED <<database, reading, owed>>

Next ==
  \/ \E m \in Messages : Begin(m) \/ Commit(m)
  \/ \E c \in Conversations : Create(c)
  \/ \E r \in Readers : NextPage(r)
  \/ \E t \in Tabs : Mark(t) \/ MarkRead(t)

Spec == Init /\ [][Next]_vars

-----------------------------------------------------------------------------
Key == Nat \X Nat

TypeOK ==
  /\ clock \in Nat \ {0}
  /\ stamp \in [Messages -> 0..clock]
  /\ stored \subseteq {m \in Messages : stamp[m] # 0}
  /\ last \in [Conversations -> 0..clock]
  /\ created \subseteq Conversations /\ listed \subseteq Conversations
  /\ after \in [Readers -> Key \cup {None}]
  /\ page \in [Readers -> SUBSET Key]
  /\ seen \in [Readers -> SUBSET Key]
  /\ done \in [Readers -> BOOLEAN]
  /\ marks \in [Tabs -> Seq(Messages)]
  /\ pointer \in [Conversations -> Messages \cup {None}]
  /\ setter \in [Conversations -> Tabs \cup {None}]
  /\ owed \in [Readers -> SUBSET Key]
  /\ overlapped \in [Readers -> SUBSET Messages]

(* However rows come and move between two pages, each page begins after all *)
(* that was shown before: no message is shown twice, and a conversation    *)
(* only if its last_message_at has moved back in the meantime.             *)
PagesInOrder ==
  \A r \in Readers : \A j \in seen[r], k \in page[r] : Precedes(r, j, k)

(* Stability under inserts: a client that has come to a short page has been *)
(* shown every row that was there when it began and was not changed since, *)
(* except conversations without messages.                                  *)
NothingSkipped ==
  \A r \in Readers : done[r] => \A k \in owed[r] : k \in Shown(r) \/ k[1] = 0

(* A client loses a message behind its cursor only if the message was being *)
(* sent while a page was read, or has the very timestamp of another one    *)
(* that was shown: whatever is sent after a page was read stays ahead.     *)
MissedOverlapped ==
  \A t \in Tabs : after[t] # None =>
    \A m \in stored :
      Home[m] = Book[t] =>
        \/ <<stamp[m], m>> \in Shown(t)
        \/ stamp[m] > after[t][1]
        \/ m \in overlapped[t]
        \/ \E k \in Shown(t) : k[1] = stamp[m]

(* The pointer of a conversation moves back only from one tab's frame to    *)
(* another's: frames of one tab take effect in the order of its pages.     *)
OneTabForward ==
  [][\A c \in Conversations :
       pointer'[c] # pointer[c] /\ setter[c] = setter'[c]
         => Precedes(setter[c], <<stamp[pointer[c]], pointer[c]>>,
                                <<stamp[pointer'[c]], pointer'[c]>>)]_vars

-----------------------------------------------------------------------------
(* What the properties rest on. *)

KeyOf(m) == <<stamp[m], m>>

(* What a tab has been shown are the keys of committed messages. *)
ShownAreMessages ==
  \A t \in Tabs : \A k \in Shown(t) : k[2] \in stored /\ k = KeyOf(k[2])

(* The cursor is the last of all the rows shown, and no time is ahead. *)
CursorIsLast ==
  \A r \in Readers :
    /\ after[r] = None => Shown(r) = {}
    /\ after[r] # None => after[r] \in Shown(r)
    /\ \A k \in Shown(r) : k = after[r] \/ Precedes(r, k, after[r])
    /\ \A k \in Shown(r) : k[1] <= clock

(* What is owed is still there, and was shown or lies ahead. *)
OwedIsAhead ==
  \A r \in Readers : \A k \in owed[r] :
    /\ k \in Rows(r) /\ after[r] # None
    /\ k \in Shown(r) \/ k[1] = 0 \/ Precedes(r, after[r], k)

(* MissedOverlapped, for messages that are still being sent as well. *)
SentIsAhead ==
  \A t \in Tabs : after[t] # None =>
    \A m \in Messages :
      stamp[m] # 0 /\ Home[m] = Book[t] =>
        \/ KeyOf(m) \in Shown(t)
        \/ stamp[m] > after[t][1]
        \/ m \in overlapped[t]
        \/ \E k \in Shown(t) : k[1] = stamp[m]

(* The frames of a tab, and what the last of them set, are in order. *)
FramesInOrder(t) ==
  /\ \A i \in 1..Len(marks[t]) : KeyOf(marks[t][i]) \in Shown(t)
  /\ \A i, j \in 1..Len(marks[t]) :
       i < j => Precedes(t, KeyOf(marks[t][i]), KeyOf(marks[t][j]))
  /\ setter[Book[t]] = t =>
       /\ pointer[Book[t]] \in Messages /\ KeyOf(pointer[Book[t]]) \in Shown(t)
       /\ \A i \in 1..Len(marks[t]) :
            Precedes(t, KeyOf(pointer[Book[t]]), KeyOf(marks[t][i]))

MarksInOrder == \A t \in Tabs : FramesInOrder(t)

PagingInvariant ==
  /\ TypeOK /\ ShownAreMessages /\ CursorIsLast /\ PagesInOrder
  /\ OwedIsAhead /\ NothingSkipped /\ SentIsAhead /\ MarksInOrder

(* What README.md says of GET /admin/conversations ("all conversations ...   *)
(* cursor, limit"): page by page a client is shown all that was there.     *)
AllListed ==
  \A r \in Listers : done[r] => owed[r] \subseteq Shown(r)
=============================================================================
