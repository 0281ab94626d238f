----------------------------- MODULE MCWorkQueue -----------------------------
(***************************************************************************)
(* The work queue with three keys, so that two can be queued in an order   *)
(* while a third is processed, and two workers, so that one can sleep, be  *)
(* woken or be overtaken while the other runs.  The state space is finite  *)
(* without any bound: a key is queued at most once.                        *)
(***************************************************************************)
EXTENDS WorkQueue
=============================================================================
