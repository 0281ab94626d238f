--------------------------- MODULE MCLeaderElection ---------------------------
(***************************************************************************)
(* Two clients; the clock runs long enough for one to lead and either to   *)
(* renew, and give up when that fails, or to fall silent and be succeeded. *)
(* Longer histories are left to the proofs, which bound no time.           *)
(***************************************************************************)
EXTENDS LeaderElection, TLC

Symmetry == Permutations(Candidate)
=============================================================================
