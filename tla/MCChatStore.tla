---------------------------- MODULE MCChatStore ----------------------------
(***************************************************************************)
(* Small instances of ChatStore for TLC: two users, two admins and the     *)
(* consumer's system principal around one support conversation that exists *)
(* from the start and one order.                                           *)
(***************************************************************************)
EXTENDS ChatStore

CONSTANTS r1, r2, r3, u1, u2, a1, a2, sys, order

ThreeRequests == {r1, r2, r3}
TwoUsers == {u1, u2}
AllAdmins == {a1, a2, sys}
BothTopics == {Support, order}

Ours == <<Support, u1>>
OneExisting == {Ours}
NoneExisting == {}

Do(kind, on, who, key) == [kind |-> kind, on |-> on, who |-> who, key |-> key]

Posts == {Do("send", Ours, u1, 1), Do("send", Ours, u1, 2)}
Outsiders == {Do("send", Ours, u2, 1), Do("send", None, u1, 1)}
AdminTasks == {Do("assign", Ours, a1, Fresh), Do("close", Ours, a1, Fresh)}
Assigns == {Do("assign", Ours, a1, Fresh), Do("assign", Ours, a2, Fresh)}
Lost == {Do("assign", None, a1, Fresh)}
Opens == {Do("open", Support, u1, Fresh), Do("open", Support, u2, Fresh)}
Orders == {Do("open", order, u1, Fresh), Do("open", order, u2, Fresh),
           Do("notify", order, sys, Fresh)}

AllTasks == Posts \cup Outsiders \cup AdminTasks \cup Assigns \cup Lost \cup Opens \cup Orders
OpenTasks == {Do("open", Support, u1, Fresh)}
=============================================================================
