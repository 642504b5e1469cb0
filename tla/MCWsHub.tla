------------------------------ MODULE MCWsHub ------------------------------
(***************************************************************************)
(* Small instances of WsHub for TLC: one principal with two sockets and    *)
(* another with one, around one conversation.                              *)
(***************************************************************************)
EXTENDS WsHub, TLC

CONSTANTS s1, s2, s3, p, q, conv

ThreeSockets == {s1, s2, s3}
TwoPrincipals == {p, q}
OnePrincipal == {p}
OneConversation == {conv}
TwoTabs == [w \in ThreeSockets |-> IF w = s3 THEN q ELSE p]

(* For liveness: the two sockets of one principal. *)
TwoSockets == {s1, s2}
AllOfP == [w \in TwoSockets |-> p]

(* The two sockets of p are alike; used for safety only. *)
TabSymmetry == Permutations({s1, s2})
=============================================================================
