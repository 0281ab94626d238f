------------------------------- MODULE WorkSet -------------------------------
(***************************************************************************)
(* What a client-go work queue promises its users, without queues, locks   *)
(* or condition variables (package comment of util/workqueue/doc.go):      *)
(* marking an item pending any number of times before it is started asks   *)
(* for one run; an item is never run twice at the same time; an item that  *)
(* is marked while it runs is run again; every pending item is eventually  *)
(* started, also when the set has been closed in the meantime.             *)
(***************************************************************************)
CONSTANT Item

VARIABLES pending,   \* items that still have to be run
          active,    \* items being run
          closed     \* no new work is accepted any more

vars == <<pending, active, closed>>

Init == pending = {} /\ active = {} /\ closed = FALSE

Mark(x) == /\ ~closed
           /\ pending' = pending \cup {x}
           /\ UNCHANGED <<active, closed>>

Start(x) == /\ x \in pending \ active
            /\ pending' = pending \ {x}
            /\ active' = active \cup {x}
            /\ UNCHANGED closed

Finish(x) == /\ x \in active
             /\ active' = active \ {x}
             /\ UNCHANGED <<pending, closed>>

Close == closed' = TRUE /\ UNCHANGED <<pending, active>>

Next == Close \/ \E x \in Item : Mark(x) \/ Start(x) \/ Finish(x)

\* The safety part of the promise.
Safety == Init /\ [][Next]_vars

\* Every item is run again and again as long as it keeps being marked.
Fairness == \A x \in Item : WF_vars(Start(x))

Spec == Safety /\ Fairness
=============================================================================
