------------------------------ MODULE ReplicaSet ------------------------------
(***************************************************************************)
(* The ReplicaSet controller (pkg/controller/replicaset) and the           *)
(* expectations that keep it from acting on a cache that does not show yet *)
(* what it has done itself (pkg/controller/controller_utils.go).           *)
(*                                                                         *)
(* One ReplicaSet and its pods.  The pod informer (module SharedInformer)  *)
(* is seen from the controller: the cache shows a pod after the server     *)
(* does, and the handlers are called after that.  What is told of one pod  *)
(* is in order; nothing is said of the order of different pods.  The       *)
(* queue (module WorkQueue) gives the key to one worker at a time.         *)
(* Orphans, and pods that have ended but are not deleted, are left out.    *)
(***************************************************************************)
EXTENDS Integers, Sequences, FiniteSets, FiniteSetsExt

CONSTANTS Pod,        \* names of pods; one that is gone can be used again
          Replicas,   \* what spec.replicas can be
          Burst,      \* burstReplicas
          Inherited,  \* bound: pods that can be there when it starts
          MaxChanges, \* bound: changes that others make, or have made
          MaxFaults   \* bound: pods inherited, calls that fail, lists that
                      \* skip, and expiries

ASSUME RSAssumption ==
  /\ Pod \in SUBSET Nat /\ IsFiniteSet(Pod) /\ Replicas \in SUBSET Nat
  /\ Burst \in Nat \ {0} /\ Inherited \subseteq Pod
  /\ MaxChanges \in Nat /\ MaxFaults \in Nat

VARIABLES server,     \* the pods in the API server
          cache,      \* the pods in the cache of the informer
          notes,      \* the notifications of a pod that are to be handled
          external,   \* history: pods somebody else has deleted
          startup,    \* history: pods whose "add" was to be handled at the start
          carried,    \* history: creations before the start that mislead it
          replicas,   \* spec.replicas, in the cache
          phase,      \* whether the ReplicaSet is there, or being deleted
          exp,        \* the ControlleeExpectations
          uids,       \* the UIDSet
          dirty,      \* the key is in the queue
          pc,         \* where syncReplicaSet is
          manage,     \* rsNeedsSync, and the ReplicaSet is not being deleted
          want,       \* the replicas it has read
          listed,     \* filteredPods, less those to be deleted
          toDelete,   \* pods whose deletion is to be called
          left,       \* creations that have not succeeded
          batch,      \* batchSize of slowStartBatch
          todo,       \* calls of the batch that have not returned
          failed,     \* a call has returned an error
          blind,      \* history: the controller acts on less than it did
          missed,     \* history: a creation it waits for will not be told
          changes, faults

serverVars == <<server, external>>
rsVars     == <<replicas, phase>>
expVars    == <<exp, uids>>
callVars   == <<toDelete, left, batch, todo, failed>>
syncVars   == <<pc, manage, want, listed>>
startVars  == <<startup, carried>>
rscVars == <<server, cache, notes, external, startup, carried, replicas, phase,
             exp, uids, dirty, pc, manage, want, listed, toDelete, left, batch,
             todo, failed, blind, missed, changes, faults>>

NoExp == [set |-> FALSE, add |-> 0, del |-> 0, expired |-> FALSE]

\* Creations the informer has not told the controller yet.
Untold == {p \in Pod : \/ server[p] # "none" /\ cache[p] = "none"
                       \/ \E i \in DOMAIN notes[p] : notes[p][i] = "add"}

\* What the first list, which can be old, may show of a pod.
Shown(s) == {"none"} \cup (IF s = "none" THEN {} ELSE {"live"})
                     \cup (IF s \in {"dying", "gone"} THEN {"dying"} ELSE {})

\* The caches have synced and the workers start.  There can be pods already, and
\* the handlers have yet to be told of those in the cache.
RSInit ==
  /\ server \in [Pod -> {"none", "live", "dying", "gone"}]
  /\ \A p \in Pod \ Inherited : server[p] = "none"
  /\ cache \in [Pod -> {"none", "live", "dying"}]
  /\ \A p \in Pod : cache[p] \in Shown(server[p])
  /\ notes = [p \in Pod |-> CASE cache[p] = "none" -> <<>>
                            [] cache[p] = "live" -> <<"add">>
                            [] cache[p] = "dying" -> <<"update">>]
  /\ external = {p \in Pod : server[p] \in {"dying", "gone"}}
  /\ startup = {p \in Pod : cache[p] = "live"}
  /\ carried = Cardinality(Untold \ startup)
  /\ uids = {} /\ listed = {} /\ toDelete = {}
  /\ replicas \in Replicas /\ phase = "present"
  /\ exp = NoExp
  /\ dirty = TRUE
  /\ pc = "idle" /\ manage = FALSE /\ want = 0
  /\ left = 0 /\ batch = 0 /\ todo = 0 /\ failed = FALSE
  /\ blind = FALSE /\ missed = FALSE
  /\ changes = Cardinality(external) /\ changes <= MaxChanges
  /\ faults = Cardinality({p \in Pod : server[p] # "none"}) /\ faults <= MaxFaults

Fault == faults < MaxFaults /\ faults' = faults + 1

Change == changes < MaxChanges /\ changes' = changes + 1

-----------------------------------------------------------------------------
(* ControllerExpectations *)

\* SetExpectations forgets what was expected.
SetExpectations(add, del) ==
  exp' = [set |-> TRUE, add |-> add, del |-> del, expired |-> FALSE]

LowerExpectations(add, del) ==
  exp' = IF exp.set THEN [exp EXCEPT !.add = @ - add, !.del = @ - del] ELSE exp

\* Slip: one kind of events is enough.
FulfilledEither == exp.add <= 0 \/ exp.del <= 0

Fulfilled == exp.add <= 0 /\ exp.del <= 0

SatisfiedExpectations == ~exp.set \/ Fulfilled \/ exp.expired

CreationObserved == LowerExpectations(1, 0) /\ UNCHANGED uids

\* Slip: every event of a deletion counts.
DeletionObservedAlways(p) ==
  /\ LowerExpectations(0, 1)
  /\ uids' = uids \ {p}

\* The deletion of a pod is counted once, although it is told twice.
DeletionObserved(p) ==
  IF p \in uids THEN LowerExpectations(0, 1) /\ uids' = uids \ {p}
                ELSE UNCHANGED expVars

\* ExpectationsTimeout has passed.  That the events take longer is a fault.
Expire ==
  /\ exp.set /\ ~exp.expired /\ ~Fulfilled
  /\ exp' = [exp EXCEPT !.expired = TRUE]
  /\ (missed /\ UNCHANGED faults) \/ Fault
  /\ UNCHANGED <<serverVars, cache, notes, startVars, rsVars, uids, dirty, syncVars, callVars,
                 blind, missed, changes>>

-----------------------------------------------------------------------------
(* The world: users, the kubelet, the informers *)

Live(view) == {p \in Pod : view[p] = "live"}

\* Somebody else deletes a pod, gracefully or at once.
DeletedByOthers(p) ==
  /\ server[p] = "live" /\ Change
  /\ \E s \in {"dying", "gone"} : server' = [server EXCEPT ![p] = s]
  /\ external' = external \cup {p}
  /\ UNCHANGED <<cache, notes, startVars, rsVars, expVars, dirty, syncVars, callVars, blind,
                 missed, faults>>

\* The kubelet has stopped the containers and removes the pod.
Removed(p) ==
  /\ server[p] = "dying"
  /\ server' = [server EXCEPT ![p] = "gone"]
  /\ UNCHANGED <<external, cache, notes, startVars, rsVars, expVars, dirty, syncVars, callVars,
                 blind, missed, changes, faults>>

\* The cache shows state s of a pod, and a notification n is on its way.  A pod
\* the cache has seen go is forgotten.
Shows(p, s, n) ==
  /\ cache' = [cache EXCEPT ![p] = s]
  /\ notes' = [notes EXCEPT ![p] = @ \o n]
  /\ server' = IF s = "none" THEN [server EXCEPT ![p] = "none"] ELSE server
  /\ UNCHANGED <<external, startVars, rsVars, expVars, dirty, syncVars, callVars, blind,
                 changes>>

\* The events of a pod: it is created, its deletion has begun, it is gone.
Watch(p) ==
  /\ \/ cache[p] = "none" /\ server[p] # "none" /\ Shows(p, "live", <<"add">>)
     \/ cache[p] = "live" /\ server[p] \in {"dying", "gone"} /\ Shows(p, "dying", <<"update">>)
     \/ cache[p] \in {"live", "dying"} /\ server[p] = "gone" /\ Shows(p, "none", <<"delete">>)
  /\ UNCHANGED <<missed, faults>>

\* The watch has broken, and the list that follows no longer shows how the pod
\* was created: it is being deleted already, or has come and gone.
Relist(p) ==
  /\ cache[p] = "none" /\ Fault
  /\ \/ server[p] = "dying" /\ Shows(p, "dying", <<"update">>)
     \/ server[p] = "gone" /\ Shows(p, "none", <<>>)
  /\ missed' = TRUE

\* addPod, updatePod and deletePod.  The ReplicaSet is looked up; a pod that is
\* being deleted counts as deleted, even if it is new.  A pod that was there at
\* the start can be taken for one that was created since.
HandlePod(p) ==
  /\ notes[p] # <<>>
  /\ notes' = [notes EXCEPT ![p] = Tail(@)]
  /\ IF Head(notes[p]) = "add" /\ p \in startup
     THEN /\ startup' = startup \ {p}
          /\ carried' = carried + IF phase # "absent" /\ exp.add > 0 THEN 1 ELSE 0
     ELSE UNCHANGED startVars
  /\ IF phase = "absent"
     THEN UNCHANGED <<expVars, dirty>>
     ELSE /\ IF Head(notes[p]) = "add" THEN CreationObserved ELSE DeletionObserved(p)
          /\ dirty' = TRUE
  /\ UNCHANGED <<serverVars, cache, rsVars, syncVars, callVars, blind, missed, changes,
                 faults>>

\* updateRS: spec.replicas has changed, or it is a resync.
UpdateRS ==
  /\ phase # "absent"
  /\ dirty' = TRUE
  /\ \/ UNCHANGED <<replicas, changes>>
     \/ Change /\ replicas' \in Replicas \ {replicas}
  /\ UNCHANGED <<serverVars, cache, notes, startVars, phase, expVars, syncVars, callVars, blind,
                 missed, faults>>

\* The deletion of the ReplicaSet begins, or it is gone.
DeleteRS ==
  /\ \/ phase = "present" /\ Change /\ phase' = "deleting"
     \/ phase = "deleting" /\ UNCHANGED changes /\ phase' = "absent"
  /\ dirty' = TRUE
  /\ UNCHANGED <<serverVars, cache, notes, startVars, replicas, expVars, syncVars, callVars, blind,
                 missed, faults>>

-----------------------------------------------------------------------------
(* syncReplicaSet *)

\* A worker takes the key.  A ReplicaSet that is gone expects nothing more.  The
\* expectations are looked at before the pods are.
SyncBegins ==
  /\ pc = "idle" /\ dirty
  /\ dirty' = FALSE
  /\ IF phase = "absent"
     THEN /\ exp' = NoExp /\ uids' = {}
          /\ UNCHANGED <<syncVars, blind>>
     ELSE /\ pc' = "list"
          /\ manage' = (SatisfiedExpectations /\ phase = "present")
          /\ want' = replicas
          /\ blind' = (blind \/ (exp.set /\ exp.expired /\ ~Fulfilled))
          /\ UNCHANGED <<expVars, listed>>
  /\ UNCHANGED <<serverVars, cache, notes, startVars, rsVars, callVars, missed, changes, faults>>

\* Names no one remembers.  They are all alike, and the least is given.
Fresh == {p \in Pod : server[p] = "none" /\ notes[p] = <<>> /\ p \notin listed \cup uids}

\* The pods are listed (and claimed).  When all of its own creations have been
\* told, what went before misleads it no more.  (Bound: there are names for the
\* missing.)
ListPods ==
  /\ pc = "list" /\ want - Cardinality(Live(cache)) <= Cardinality(Fresh)
  /\ listed' = Live(cache)
  /\ pc' = IF manage /\ Cardinality(Live(cache)) # want THEN "expect" ELSE "status"
  /\ carried' = IF Untold \subseteq startup THEN 0 ELSE carried
  /\ UNCHANGED <<serverVars, cache, notes, startup, rsVars, expVars, dirty, manage, want, callVars,
                 blind, missed, changes, faults>>

AtMost(n, m) == IF n < m THEN n ELSE m

\* manageReplicas finds too few pods.
ExpectCreations ==
  LET diff == AtMost(want - Cardinality(listed), Burst) IN
  /\ pc = "expect" /\ Cardinality(listed) < want
  /\ SetExpectations(diff, 0)
  /\ left' = diff /\ batch' = 1 /\ todo' = 1
  /\ pc' = "create"
  /\ missed' = FALSE
  /\ UNCHANGED <<serverVars, cache, notes, startVars, rsVars, uids, dirty, manage, want, listed,
                 toDelete, failed, blind, changes, faults>>

\* manageReplicas finds too many, and chooses some.
ExpectDeletions ==
  LET diff == AtMost(Cardinality(listed) - want, Burst) IN
  /\ pc = "expect" /\ Cardinality(listed) > want
  /\ \E D \in kSubset(diff, listed) :
       /\ toDelete' = D /\ listed' = listed \ D
       /\ uids' = D
  /\ SetExpectations(0, diff)
  /\ pc' = "delete"
  /\ missed' = FALSE
  /\ UNCHANGED <<serverVars, cache, notes, startVars, rsVars, dirty, manage, want, left, batch,
                 todo, failed, blind, changes, faults>>

Created == \E p \in Fresh : /\ \A q \in Fresh : p <= q
                            /\ server' = [server EXCEPT ![p] = "live"]
                            /\ external' = external \ {p}

\* One call of a batch returns: the pod is created; or the call has timed out,
\* which counts as a success, and there is a pod or not; or it has failed, and
\* there is no pod, or, the answer being lost, there is one.
CreatePod ==
  /\ pc = "create" /\ todo > 0
  /\ todo' = todo - 1
  /\ \/ Created /\ left' = left - 1 /\ UNCHANGED <<failed, missed, blind, faults>>
     \/ /\ Fault /\ left' = left - 1 /\ missed' = TRUE
        /\ UNCHANGED <<serverVars, failed, blind>>
     \/ /\ Fault /\ failed' = TRUE
        /\ \/ Created /\ blind' = TRUE
           \/ UNCHANGED <<serverVars, blind>>
        /\ UNCHANGED <<left, missed>>
  /\ UNCHANGED <<cache, notes, startVars, rsVars, expVars, dirty, syncVars,
                 toDelete, batch, changes>>

\* Slip: what was skipped is still expected.
BatchEndsKeeps ==
  /\ pc = "create" /\ todo = 0
  /\ IF failed \/ left = 0
     THEN pc' = "status" /\ left' = 0 /\ batch' = 0 /\ todo' = 0
     ELSE /\ batch' = AtMost(2 * batch, left) /\ todo' = batch'
          /\ UNCHANGED <<pc, left>>
  /\ UNCHANGED <<serverVars, cache, notes, startVars, rsVars, expVars, dirty, manage, want, listed,
                 toDelete, failed, blind, missed, changes, faults>>

\* A batch of slowStartBatch is over.  The next one is twice as large, unless a
\* call has failed: then what was skipped or has failed is no longer expected.
BatchEnds ==
  /\ pc = "create" /\ todo = 0
  /\ IF failed \/ left = 0
     THEN /\ LowerExpectations(left, 0)
          /\ pc' = "status" /\ left' = 0 /\ batch' = 0 /\ todo' = 0
     ELSE /\ batch' = AtMost(2 * batch, left) /\ todo' = batch'
          /\ UNCHANGED <<exp, pc, left>>
  /\ UNCHANGED <<serverVars, cache, notes, startVars, rsVars, uids, dirty, manage, want, listed,
                 toDelete, failed, blind, missed, changes, faults>>

\* Slip: a deletion that has failed is still expected.
DeletePodKeeps(p) ==
  /\ pc = "delete" /\ p \in toDelete
  /\ toDelete' = toDelete \ {p}
  /\ \/ /\ server[p] = "live"
        /\ \E s \in {"dying", "gone"} : server' = [server EXCEPT ![p] = s]
        /\ UNCHANGED <<failed, faults>>
     \/ server[p] = "live" /\ Fault /\ failed' = TRUE /\ UNCHANGED server
     \/ server[p] # "live" /\ UNCHANGED <<server, failed, faults>>
  /\ UNCHANGED <<external, cache, notes, startVars, rsVars, expVars, dirty, syncVars, left, batch,
                 todo, blind, missed, changes>>

\* DeletePod returns: the deletion has begun; or the call has failed, because the
\* pod is gone or else, and the deletion is not expected, though it may come.
DeletePod(p) ==
  /\ pc = "delete" /\ p \in toDelete
  /\ toDelete' = toDelete \ {p}
  /\ \/ /\ server[p] = "live"
        /\ \E s \in {"dying", "gone"} : server' = [server EXCEPT ![p] = s]
        /\ UNCHANGED <<expVars, failed, blind, faults>>
     \/ server[p] = "dying" /\ UNCHANGED <<server, expVars, failed, blind, faults>>
     \/ /\ server[p] \in {"none", "gone"}
        /\ failed' = TRUE /\ DeletionObserved(p)
        /\ UNCHANGED <<server, blind, faults>>
     \/ /\ server[p] = "live" /\ Fault
        /\ failed' = TRUE /\ DeletionObserved(p)
        /\ \/ server' = [server EXCEPT ![p] = "dying"] /\ blind' = TRUE
           \/ UNCHANGED <<server, blind>>
  /\ UNCHANGED <<external, cache, notes, startVars, rsVars, dirty, syncVars, left, batch, todo,
                 missed, changes>>

DeletionsEnd ==
  /\ pc = "delete" /\ toDelete = {}
  /\ pc' = "status"
  /\ UNCHANGED <<serverVars, cache, notes, startVars, rsVars, expVars, dirty, manage, want, listed,
                 callVars, blind, missed, changes, faults>>

\* The status is updated, which may fail, and the worker is done.  After an
\* error the key is added again.
SyncEnds ==
  /\ pc = "status"
  /\ pc' = "idle" /\ manage' = FALSE /\ want' = 0 /\ listed' = {} /\ failed' = FALSE
  /\ \/ dirty' = (dirty \/ failed) /\ UNCHANGED faults
     \/ Fault /\ dirty' = TRUE
  /\ UNCHANGED <<serverVars, cache, notes, startVars, rsVars, expVars, toDelete, left, batch, todo,
                 blind, missed, changes>>

-----------------------------------------------------------------------------
Sync == SyncBegins \/ ListPods \/ ExpectCreations \/ ExpectDeletions \/ CreatePod
        \/ BatchEnds \/ (\E p \in Pod : DeletePod(p)) \/ DeletionsEnd \/ SyncEnds

RSNext == \/ Sync \/ Expire \/ UpdateRS \/ DeleteRS
          \/ \E p \in Pod : DeletedByOthers(p) \/ Removed(p) \/ Watch(p) \/ Relist(p)
                            \/ HandlePod(p)

RSSafety == RSInit /\ [][RSNext]_rscVars

\* The worker goes on, events arrive and are handled, time passes, the informer
\* resyncs and the kubelet removes pods.
RSSpec == /\ RSSafety
          /\ WF_rscVars(Sync) /\ WF_rscVars(Expire) /\ WF_rscVars(UpdateRS)
          /\ \A p \in Pod : /\ WF_rscVars(Watch(p)) /\ WF_rscVars(HandlePod(p))
                            /\ WF_rscVars(Removed(p))

-----------------------------------------------------------------------------
(* Properties *)

\* The controller never creates more pods than are missing, though its cache may
\* not show those it has created: unless an answer was lost, expectations that
\* were not fulfilled have expired, or it has just started.  Then it creates at
\* most one too many for each pod that the first list did not show, and for each
\* addPod of the start that lowered what a sync had expected meanwhile.
NoOverCreation ==
  pc = "create" /\ ~blind => Cardinality(Live(server)) + left <= want + carried

\* When it deletes pods, those it means to keep are not ones it has deleted
\* itself before.
KeepsNoDoomedPod ==
  pc = "delete" /\ ~blind => \A p \in listed : server[p] = "live" \/ p \in external

\* Everything it waits for is to come: a creation that is under way or was not
\* told yet, or a deletion that is under way or was not told to the end.
NoVainWait ==
  phase # "absent" =>
    /\ ~missed => exp.add <= left + Cardinality(Untold)
    /\ exp.del <= Cardinality(uids)
    /\ \A p \in uids : p \in toDelete \/ server[p] \in {"dying", "gone"}
                       \/ \E i \in DOMAIN notes[p] : notes[p][i] # "add"

\* When nothing changes any more and calls succeed, there are as many pods as
\* the specification says, for good.
ReplicasConverge ==
  <>[](phase = "present" => Cardinality(Live(server)) = replicas)
=============================================================================
