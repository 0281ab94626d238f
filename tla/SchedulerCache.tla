---------------------------- MODULE SchedulerCache ----------------------------
(***************************************************************************)
(* The cache of the scheduler (pkg/scheduler/internal/cache), and those    *)
(* who change it: scheduleOne and the goroutines that bind, the handlers   *)
(* of the pod and the node informer, the loop that lets assumed pods       *)
(* expire, and the error function (pkg/scheduler/factory).                 *)
(*                                                                         *)
(* There is one name of a pod, under which one pod after another is        *)
(* created; the cache knows them by their UIDs.  The informer tells the    *)
(* handlers every state of the object under that name, unless it has to    *)
(* list again: then what came between is skipped.                          *)
(***************************************************************************)
EXTENDS Naturals, Sequences, FiniteSets

CONSTANTS Uid,         \* the pods that are created: 1..n
          Node,
          NoNode,      \* spec.nodeName is empty
          MaxChanges,  \* bound: changes of nodes, and of pods otherwise
          MaxFaults    \* bound: calls that fail, lists that skip

ASSUME SCAssumption ==
  /\ Uid \in SUBSET (Nat \ {0}) /\ IsFiniteSet(Uid) /\ NoNode \notin Node
  /\ MaxChanges \in Nat /\ MaxFaults \in Nat

VARIABLES c,        \* the schedulerCache; see Cache
          object,   \* the pod in the API server
          born,     \* the UIDs given so far
          seen,     \* the state of the object the handlers were told last
          stream,   \* the states they are to be told
          up,       \* the nodes in the API server
          told,     \* the nodes the handlers believe in
          queued,   \* the pod in the scheduling queue, which goes by names
          sched,    \* what scheduleOne is about to assume
          pc,       \* where the goroutine is that binds a pod
          host,     \* where it binds it to
          failed,   \* whether that has failed
          retry,    \* the error function is to look at the pod again
          lost,     \* a node the error function has not found
          merged,   \* history: the informer has made one pod of two
          removed,  \* history: the error function has removed a node
          changes, faults

schedVars  == <<queued, sched, retry, lost, removed>>
bindVars   == <<pc, host, failed>>
objectVars == <<object, born, stream>>
nodeVars   == <<up, told>>
scVars == <<c, object, born, seen, stream, up, told, queued, sched, pc, host, failed,
            retry, lost, merged, removed, changes, faults>>

\* A state of the object: its UID, or 0 if there is none, and its node.
Pod == [uid : Uid \cup {0}, node : Node \cup {NoNode}]

Gone == [uid |-> 0, node |-> NoNode]

Assigned(o) == o.node # NoNode

(***************************************************************************)
(* podStates gives the node of a pod; nodes are the NodeInfos there are,   *)
(* hasNode those whose Node is set, and pods counts how often a pod is in  *)
(* the list of a NodeInfo.  finished are the pods with a deadline.  The    *)
(* process is down after a nil dereference or klog.Fatalf.                 *)
(***************************************************************************)
Cache == [podStates : [Uid -> Node \cup {NoNode}], assumedPods : SUBSET Uid,
          finished : SUBSET Uid, nodes : SUBSET Node, hasNode : SUBSET Node,
          pods : [Node -> [Uid -> Nat]], down : BOOLEAN]

SCInit ==
  /\ c = [podStates |-> [u \in Uid |-> NoNode], assumedPods |-> {}, finished |-> {},
          nodes |-> {}, hasNode |-> {}, pods |-> [n \in Node |-> [u \in Uid |-> 0]],
          down |-> FALSE]
  /\ object = Gone /\ born = {} /\ seen = Gone /\ stream = <<>>
  /\ up = Node /\ told = {}
  /\ queued = 0 /\ sched = Gone /\ retry = FALSE /\ lost = NoNode
  /\ pc = [u \in Uid |-> "none"] /\ host = [u \in Uid |-> NoNode]
  /\ failed = [u \in Uid |-> FALSE]
  /\ merged = FALSE /\ removed = FALSE
  /\ changes = 0 /\ faults = 0

Fault == faults < MaxFaults /\ faults' = faults + 1

Change == changes < MaxChanges /\ changes' = changes + 1

-----------------------------------------------------------------------------
(* schedulerCache.  Each operation, on a cache k, returns what becomes of it. *)

\* A NodeInfo is made for a pod whose node is not known.
addPod(k, u, n) ==
  [k EXCEPT !.nodes = @ \cup {n}, !.pods[n][u] = @ + 1]

\* Slip: a NodeInfo that has no Node is removed with its pods.
SweptAlways(k, n) == IF n \notin k.hasNode THEN [k EXCEPT !.nodes = @ \ {n}] ELSE k

\* A NodeInfo that has neither pods nor a Node is removed.
Swept(k, n) ==
  IF n \notin k.hasNode /\ \A u \in Uid : k.pods[n][u] = 0
  THEN [k EXCEPT !.nodes = @ \ {n}] ELSE k

\* NodeInfo.RemovePod finds the pod; or it returns an error, for which it needs
\* the name of the Node; or there is no NodeInfo.
CanRemove(k, u, n) == n \in k.nodes /\ k.pods[n][u] > 0

Crashes(k, u, n) == n \notin k.nodes \/ (k.pods[n][u] = 0 /\ n \notin k.hasNode)

Crash(k) == [k EXCEPT !.down = TRUE]

removePod(k, u, n) == Swept([k EXCEPT !.pods[n][u] = @ - 1], n)

\* The pod leaves podStates too, unless it could not be removed.
Drop(k, u, n) ==
  IF CanRemove(k, u, n)
  THEN [removePod(k, u, n) EXCEPT !.podStates[u] = NoNode, !.assumedPods = @ \ {u},
                                  !.finished = @ \ {u}]
  ELSE IF Crashes(k, u, n) THEN Crash(k) ELSE k

Known(k, u) == k.podStates[u] # NoNode

AssumePod(k, u, n) ==
  [addPod(k, u, n) EXCEPT !.podStates[u] = n, !.assumedPods = @ \cup {u},
                          !.finished = @ \ {u}]

\* Slip: no deadline is set.
FinishBindingNot(k, u) == k

FinishBinding(k, u) ==
  IF u \in k.assumedPods THEN [k EXCEPT !.finished = @ \cup {u}] ELSE k

\* Slip: a pod that was confirmed is forgotten, too.
ForgetPodAny(k, u, n) == IF k.podStates[u] = n THEN Drop(k, u, n) ELSE k

\* Only an assumed pod is forgotten.
ForgetPod(k, u, n) ==
  IF k.podStates[u] = n /\ u \in k.assumedPods THEN Drop(k, u, n) ELSE k

\* Slip: a pod that is confirmed on another node stays where it was assumed.
AddPodStays(k, u, n) ==
  IF Known(k, u) /\ u \notin k.assumedPods THEN k
  ELSE [k EXCEPT !.nodes = @ \cup {n}, !.podStates[u] = n, !.assumedPods = @ \ {u},
                 !.finished = @ \ {u}, !.pods[n][u] = 1]

\* A pod is confirmed, on the node it was assumed on or another; or it is added,
\* perhaps again; or it was added before.
AddPod(k, u, n) ==
  LET m == k.podStates[u] IN
  CASE u \in k.assumedPods ->
         LET moved == IF m = n THEN k
                      ELSE IF CanRemove(k, u, m) THEN addPod(removePod(k, u, m), u, n)
                      ELSE IF Crashes(k, u, m) THEN Crash(k) ELSE addPod(k, u, n)
         IN  [moved EXCEPT !.podStates[u] = n, !.assumedPods = @ \ {u},
                           !.finished = @ \ {u}]
    [] u \notin k.assumedPods /\ m = NoNode ->
         [addPod(k, u, n) EXCEPT !.podStates[u] = n]
    [] OTHER -> k

\* The update of a pod that was added: its node must not have changed.
UpdatePod(k, old, new) ==
  IF ~Known(k, old.uid) \/ old.uid \in k.assumedPods THEN k
  ELSE IF k.podStates[old.uid] # new.node \/ Crashes(k, old.uid, old.node) THEN Crash(k)
  ELSE IF CanRemove(k, old.uid, old.node)
  THEN addPod(removePod(k, old.uid, old.node), new.uid, new.node)
  ELSE k

RemovePod(k, u, n) ==
  IF ~Known(k, u) \/ u \in k.assumedPods THEN k
  ELSE IF k.podStates[u] # n THEN Crash(k)
  ELSE Drop(k, u, n)

\* AddNode and UpdateNode.
AddNode(k, n) == [k EXCEPT !.nodes = @ \cup {n}, !.hasNode = @ \cup {n}]

\* The NodeInfo is not looked for.
RemoveNode(k, n) ==
  IF n \notin k.nodes THEN Crash(k) ELSE Swept([k EXCEPT !.hasNode = @ \ {n}], n)

-----------------------------------------------------------------------------
(* The API server *)

Becomes(o) == object' = o /\ stream' = Append(stream, o)

\* A pod is created, to be scheduled or with its node set.
Create(n) ==
  /\ object = Gone
  /\ \E u \in Uid \ born : /\ \A v \in Uid \ born : u <= v
                           /\ born' = born \cup {u}
                           /\ Becomes([uid |-> u, node |-> n])
  /\ UNCHANGED <<c, seen, nodeVars, schedVars, bindVars, merged, changes, faults>>

Delete ==
  /\ object # Gone
  /\ Becomes(Gone)
  /\ UNCHANGED <<c, born, seen, nodeVars, schedVars, bindVars, merged, changes, faults>>

\* The pod is changed otherwise, or bound by another scheduler.
ChangePod(n) ==
  /\ object # Gone /\ Change
  /\ n = object.node \/ ~Assigned(object)
  /\ Becomes([object EXCEPT !.node = n])
  /\ UNCHANGED <<c, born, seen, nodeVars, schedVars, bindVars, merged, faults>>

ChangeNode(n) ==
  /\ Change
  /\ up' = IF n \in up THEN up \ {n} ELSE up \cup {n}
  /\ UNCHANGED <<c, objectVars, seen, told, schedVars, bindVars, merged, faults>>

-----------------------------------------------------------------------------
(* The informers and their handlers *)

\* The pods are listed again: states between two are skipped, and another pod
\* under the same name looks like an update of the first.
Relist ==
  /\ Len(stream) >= 2 /\ Fault
  /\ \E i \in 0..Len(stream) - 2 :
       LET before == IF i = 0 THEN seen ELSE stream[i]
           last   == stream[Len(stream)] IN
       /\ stream' = Append(SubSeq(stream, 1, i), last)
       /\ merged' = (merged \/ (before # Gone /\ last # Gone /\ before.uid # last.uid))
  /\ UNCHANGED <<c, object, born, seen, nodeVars, schedVars, bindVars, changes>>

\* The handlers of assigned pods; the informer adds and deletes a pod that comes
\* to be assigned, or ceases to be.
Handled(k, old, new) ==
  CASE Assigned(old) /\ Assigned(new) -> UpdatePod(k, old, new)
    [] ~Assigned(old) /\ Assigned(new) -> AddPod(k, new.uid, new.node)
    [] Assigned(old) /\ ~Assigned(new) -> RemovePod(k, old.uid, old.node)
    [] OTHER -> k

Pending(o) == o # Gone /\ ~Assigned(o)

\* The handlers of pods to be scheduled; an update that is only the assumption
\* of the pod is skipped.
Queued(old, new) ==
  \/ Pending(new) /\ queued' = new.uid
  \/ Pending(new) /\ Pending(old) /\ new.uid \in c.assumedPods /\ UNCHANGED queued
  \/ ~Pending(new) /\ queued' = IF Pending(old) THEN 0 ELSE queued

HandlePod ==
  /\ stream # <<>>
  /\ seen' = Head(stream) /\ stream' = Tail(stream)
  /\ c' = Handled(c, seen, Head(stream))
  /\ Queued(seen, Head(stream))
  /\ UNCHANGED <<object, born, nodeVars, sched, retry, lost, removed, bindVars, merged,
                 changes, faults>>

\* A node is added, updated or deleted.
HandleNode(n) ==
  /\ n \in up \cup told
  /\ c' = IF n \in up THEN AddNode(c, n) ELSE RemoveNode(c, n)
  /\ told' = IF n \in up THEN told \cup {n} ELSE told \ {n}
  /\ UNCHANGED <<objectVars, seen, up, schedVars, bindVars, merged, changes, faults>>

-----------------------------------------------------------------------------
(* scheduleOne, bind and the error function *)

\* A pod is taken from the queue and a node found for it; or no node fits; or a
\* node turns out not to be there, and is looked for in the API server.
Schedule ==
  /\ queued # 0 /\ sched = Gone /\ lost = NoNode
  /\ queued' = 0
  /\ \/ /\ \E n \in c.hasNode : sched' = [uid |-> queued, node |-> n]
        /\ UNCHANGED <<retry, lost, faults>>
     \/ /\ (c.hasNode = {} /\ UNCHANGED faults) \/ Fault
        /\ retry' = TRUE /\ UNCHANGED <<sched, lost>>
     \/ /\ Fault /\ lost' \in c.hasNode \ up
        /\ UNCHANGED <<sched, retry>>
  /\ UNCHANGED <<c, objectVars, seen, nodeVars, removed, bindVars, merged, changes>>

\* (Bound: at most one goroutine is binding a pod.)
Assume ==
  LET u == sched.uid IN
  /\ sched # Gone /\ pc[u] = "none"
  /\ sched' = Gone
  /\ IF Known(c, u)
     THEN retry' = TRUE /\ UNCHANGED <<c, pc, host>>
     ELSE /\ c' = AssumePod(c, u, sched.node)
          /\ pc' = [pc EXCEPT ![u] = "bind"]
          /\ host' = [host EXCEPT ![u] = sched.node]
          /\ UNCHANGED retry
  /\ UNCHANGED <<objectVars, seen, nodeVars, queued, lost, removed, failed, merged,
                 changes, faults>>

\* The volumes could not be bound; or the binding was accepted; or it was not,
\* or the call has failed, perhaps after the binding was accepted.  A binding
\* names the pod, not its UID: that of a deleted pod binds its successor.
Bind(u) ==
  LET accepted == /\ Pending(object)
                  /\ Becomes([uid |-> object.uid, node |-> host[u]]) IN
  /\ pc[u] = "bind"
  /\ \/ /\ Fault /\ UNCHANGED <<object, stream>>
        /\ pc' = [pc EXCEPT ![u] = "forget"] /\ failed' = [failed EXCEPT ![u] = TRUE]
     \/ /\ pc' = [pc EXCEPT ![u] = "finish"]
        /\ \/ accepted /\ UNCHANGED faults /\ failed' = [failed EXCEPT ![u] = FALSE]
           \/ /\ failed' = [failed EXCEPT ![u] = TRUE]
              /\ \/ /\ ~Pending(object)
                    /\ UNCHANGED <<object, stream, faults>>
                 \/ Fault /\ (accepted \/ UNCHANGED <<object, stream>>)
  /\ UNCHANGED <<c, born, seen, nodeVars, schedVars, host, merged, changes>>

Finish(u) ==
  /\ pc[u] = "finish"
  /\ c' = FinishBinding(c, u)
  /\ pc' = [pc EXCEPT ![u] = IF failed[u] THEN "forget" ELSE "none"]
  /\ UNCHANGED <<objectVars, seen, nodeVars, schedVars, host, failed, merged, changes,
                 faults>>

Forget(u) ==
  /\ pc[u] = "forget"
  /\ c' = ForgetPod(c, u, host[u])
  /\ pc' = [pc EXCEPT ![u] = "none"]
  /\ retry' = TRUE
  /\ UNCHANGED <<objectVars, seen, nodeVars, queued, sched, lost, removed, host, failed,
                 merged, changes, faults>>

\* The pod is read again, and queued if it is still to be scheduled.
Retry ==
  /\ retry
  /\ retry' = FALSE
  /\ queued' = IF Pending(object) /\ queued = 0 THEN object.uid ELSE queued
  /\ UNCHANGED <<c, objectVars, seen, nodeVars, sched, lost, removed, bindVars, merged,
                 changes, faults>>

\* The node was not found in the API server either.
ErrorRemovesNode ==
  /\ lost # NoNode
  /\ c' = RemoveNode(c, lost)
  /\ lost' = NoNode /\ retry' = TRUE /\ removed' = TRUE
  /\ UNCHANGED <<objectVars, seen, nodeVars, queued, sched, bindVars, merged, changes,
                 faults>>

\* cleanupAssumedPods.  A goroutine that is about to forget the pod does so
\* before the deadline it has just set.
Expire(u) ==
  /\ u \in c.assumedPods \cap c.finished /\ pc[u] # "forget"
  /\ c' = Drop(c, u, c.podStates[u])
  /\ UNCHANGED <<objectVars, seen, nodeVars, schedVars, bindVars, merged, changes, faults>>

-----------------------------------------------------------------------------
Binding(u) == Bind(u) \/ Finish(u) \/ Forget(u)

World == \/ Delete \/ Relist
         \/ \E n \in Node \cup {NoNode} : Create(n) \/ ChangePod(n)
         \/ \E n \in Node : ChangeNode(n)

SCNext == /\ ~c.down
          /\ \/ World \/ HandlePod \/ Schedule \/ Assume \/ Retry \/ ErrorRemovesNode
             \/ \E n \in Node : HandleNode(n)
             \/ \E u \in Uid : Binding(u) \/ Expire(u)

SCSafety == SCInit /\ [][SCNext]_scVars

\* Goroutines go on, notifications arrive, and time passes.
SCSpec == /\ SCSafety
          /\ WF_scVars(~c.down /\ HandlePod) /\ WF_scVars(~c.down /\ Schedule)
          /\ WF_scVars(~c.down /\ Assume) /\ WF_scVars(~c.down /\ Retry)
          /\ WF_scVars(~c.down /\ ErrorRemovesNode)
          /\ \A n \in Node : WF_scVars(~c.down /\ HandleNode(n))
          /\ \A u \in Uid : /\ WF_scVars(~c.down /\ Binding(u))
                            /\ WF_scVars(~c.down /\ Expire(u))

-----------------------------------------------------------------------------
(* Properties *)

\* Each pod the cache knows, and no other, is counted once, on its node: what
\* was assumed is taken back exactly when it was not confirmed.
PodsCountedOnce ==
  ~merged =>
    /\ \A n \in Node, u \in Uid : c.pods[n][u] = IF c.podStates[u] = n THEN 1 ELSE 0
    /\ \A u \in c.assumedPods : Known(c, u)
    /\ c.nodes = c.hasNode \cup {n \in Node : \E u \in Uid : c.podStates[u] = n}

\* The pods that are added are those the informer has told as assigned, on the
\* node it has told: none is left behind by a binding that fails late, by an
\* expiry or by another scheduler.
AddedIsWhatWasTold ==
  ~merged =>
    \A u \in Uid :
      IF seen.uid = u /\ Assigned(seen)
      THEN c.podStates[u] = seen.node /\ u \notin c.assumedPods
      ELSE Known(c, u) => u \in c.assumedPods

\* The scheduler does not stop: no pod is found on another node than it was
\* added to (klog.Fatalf), and what is removed is there.  But it does when the
\* informer makes one pod of two, or a node is removed twice.
NoCrash == c.down => merged \/ removed

\* No pod is left half-way.  One that is assumed is confirmed, forgotten or
\* expires, whatever fails, so that it does not hold resources of the node for
\* ever; and one that is to be scheduled is, as long as there is a node.
PodsSettle ==
  /\ \A u \in Uid : u \in c.assumedPods ~> (u \notin c.assumedPods \/ c.down)
  /\ []<>(~Pending(object) \/ up = {} \/ c.down)
=============================================================================
