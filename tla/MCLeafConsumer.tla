-------------------------- MODULE MCLeafConsumer --------------------------
(***************************************************************************)
(* Small instances of LeafConsumer for TLC: one order and up to two        *)
(* consumers of its events.                                                *)
(***************************************************************************)
EXTENDS LeafConsumer

CONSTANTS c1, c2, o1

OneConsumer == {c1}
TwoConsumers == {c1, c2}
OneOrder == {o1}
=============================================================================
