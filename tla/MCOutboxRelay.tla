--------------------------- MODULE MCOutboxRelay ---------------------------
(***************************************************************************)
(* Small instances of OutboxRelay for TLC.                                 *)
(***************************************************************************)
EXTENDS OutboxRelay

CONSTANTS w1, w2

TwoWorkers == {w1, w2}
OneWorker == {w1}
=============================================================================
