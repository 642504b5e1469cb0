--------------------------- MODULE MCCursorPaging ---------------------------
(***************************************************************************)
(* Small instances of CursorPaging for TLC.                                *)
(***************************************************************************)
EXTENDS CursorPaging, TLC

CONSTANTS t1, t2, l

TwoTabs == {t1, t2}
Lister == {l}
NoTabs == {}

(* Three messages in the conversation of both tabs, one in another, none in *)
(* the third.                                                              *)
Sends == 1..4
Chats == 1..3
HomeOf == [m \in Sends |-> IF m = 4 THEN 2 ELSE 1]
BothReadFirst == [t \in TwoTabs |-> 1]

Reading(R) == {r \in R : done[r] \/ page[r] # {}}

(* Pages change nothing that other readers see: tabs and listers are        *)
(* examined one kind at a time. Two tabs read while two messages are sent  *)
(* to their conversation, one tab while three are, a lister while two are  *)
(* sent there and one elsewhere.                                           *)
OneKindReads ==
  \/ Reading(Tabs) = {} /\ stamp[3] = 0
  \/ /\ Reading(Listers) = {} /\ (stamp[3] = 0 \/ Cardinality(Reading(Tabs)) <= 1)
     /\ stamp[4] = 0 /\ created = Conversations /\ listed = Conversations

TabSymmetry == Permutations(TwoTabs)
=============================================================================
