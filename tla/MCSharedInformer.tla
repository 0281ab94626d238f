-------------------------- MODULE MCSharedInformer --------------------------
(***************************************************************************)
(* Two keys, so that one is queued behind the other; two changes, enough   *)
(* to create an object and to change or delete it, and a list that takes   *)
(* one or both back; three pending deltas, enough for a change, a relist   *)
(* and another change; one handler with a resync period, which is or is    *)
(* not due when a resync happens.                                          *)
(***************************************************************************)
EXTENDS SharedInformer
=============================================================================
