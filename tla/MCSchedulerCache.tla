--------------------------- MODULE MCSchedulerCache ---------------------------
(***************************************************************************)
(* Two pods of one name, one after the other, and two nodes.  One change   *)
(* (a pod bound by another scheduler, or a node that comes or goes) and    *)
(* one fault (a call that fails, or a relist).                             *)
(***************************************************************************)
EXTENDS SchedulerCache
=============================================================================
