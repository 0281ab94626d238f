------------------------------- MODULE MCCacher -------------------------------
(***************************************************************************)
(* One object of two values and one goroutine, which handles an update or  *)
(* a watch.  The channels hold one event and the window two, so that all   *)
(* of them are full within the four revisions.                             *)
(***************************************************************************)
EXTENDS Cacher
=============================================================================
