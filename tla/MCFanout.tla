------------------------------ MODULE MCFanout ------------------------------
(***************************************************************************)
(* Small instances of Fanout for TLC: sockets of one principal, who may    *)
(* meet at one instance or use two. Messages share nothing but the order   *)
(* of a queue, which no property here is about, and one message can be on  *)
(* its way any number of times.                                            *)
(***************************************************************************)
EXTENDS Fanout

CONSTANTS m, i1, i2, w1, w2, p

OneMessage == {m}
TwoInstances == {i1, i2}
TwoSockets == {w1, w2}
OnePrincipal == {p}
OneOwner == [w \in TwoSockets |-> p]
=============================================================================
