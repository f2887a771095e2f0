------------------------------ MODULE OutboxMC ------------------------------
(***************************************************************************)
(* Small instances of Outbox for TLC.                                      *)
(***************************************************************************)
EXTENDS Outbox, TLC

CONSTANTS w1, w2, m1, m2

TwoWorkers == {w1, w2}
OneMessage == {m1}
TwoMessages == {m1, m2}
=============================================================================
