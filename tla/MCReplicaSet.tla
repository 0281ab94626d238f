----------------------------- MODULE MCReplicaSet -----------------------------
(***************************************************************************)
(* One to three replicas, two of which are created or deleted at a time:   *)
(* when three are to become one, the second deletion can be in the cache   *)
(* after the first was told twice.  One change and one fault.  A pod that  *)
(* is there when the controller starts takes the place of the fault, and   *)
(* if it was deleted by then, of the change as well.                       *)
(***************************************************************************)
EXTENDS ReplicaSet
=============================================================================
