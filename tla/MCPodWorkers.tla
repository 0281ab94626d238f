----------------------------- MODULE MCPodWorkers -----------------------------
(***************************************************************************)
(* One pod with two goroutines: one at work when it is forgotten, and one  *)
(* made when the pod comes back.  Two calls to kill it.                    *)
(***************************************************************************)
EXTENDS PodWorkers
=============================================================================
