------------------------------ MODULE PodWorkers ------------------------------
(***************************************************************************)
(* The pod workers of the kubelet (pkg/kubelet/pod_workers.go): one        *)
(* goroutine and one channel per pod, through which the sync loop and the  *)
(* callers of killPodNow have the pod synced.                              *)
(*                                                                         *)
(* A worker stands for a goroutine and the channel it ranges over.  What   *)
(* is done under podLock is one step.  A send does not wait in the model:  *)
(* SendsFindRoom says that it need not.                                    *)
(***************************************************************************)
EXTENDS Naturals, Sequences

CONSTANTS Pod,         \* UIDs of pods
          NoPod,
          Worker,      \* bound: the goroutines that can exist at a time
          NoWorker,    \* podUpdates has no channel for the pod
          Call,        \* bound: the calls of killPodNow
          NoCall,      \* the update was sent by the sync loop
          NoUpdate,
          MaxVersion   \* bound: how often the specification of a pod changes

\* An UpdatePodOptions.  Create, update and sync are treated alike here.
Update == [pod : Pod, kind : {"sync", "kill"}, version : 0..MaxVersion,
           by : Call \cup {NoCall}]

ASSUME PWAssumption ==
  /\ NoPod \notin Pod /\ NoWorker \notin Worker /\ NoCall \notin Call
  /\ NoUpdate \notin Update
  /\ MaxVersion \in Nat \ {0}

VARIABLES known,        \* podManager: the pods of the config sources
          version,      \* their latest specification
          terminated,   \* pods whose status (statusManager) is a final one
          podUpdates,   \* the worker of a pod
          isWorking,    \* p.isWorking
          undelivered,  \* p.lastUndeliveredWorkUpdate
          inbox,        \* what the channel of a worker holds
          closed,       \* whether it is closed
          pc,           \* where managePodLoop is
          current,      \* the update it is at
          workQueue,    \* pods to be synced again after a while
          taken,        \* history: the version of the last sync begun
          call,         \* where a call of killPodNow is
          target,       \* the pod it is to kill
          fate          \* history: what became of the update it sent

podVars     == <<known, version, terminated>>
channelVars == <<podUpdates, isWorking, undelivered, inbox, closed>>
workerVars  == <<pc, current, taken>>
callVars    == <<call, target, fate>>
pwVars == <<known, version, terminated, podUpdates, isWorking, undelivered, inbox,
            closed, pc, current, workQueue, taken, call, target, fate>>

PWInit ==
  /\ known = {} /\ terminated = {} /\ workQueue = {}
  /\ version = [p \in Pod |-> 1]
  /\ podUpdates = [p \in Pod |-> NoWorker]
  /\ isWorking = [p \in Pod |-> FALSE]
  /\ undelivered = [p \in Pod |-> NoUpdate]
  /\ inbox = [w \in Worker |-> <<>>]
  /\ closed = [w \in Worker |-> FALSE]
  /\ pc = [w \in Worker |-> "free"]
  /\ current = [w \in Worker |-> NoUpdate]
  /\ taken = [p \in Pod |-> 0]
  /\ call = [c \in Call |-> "unused"]
  /\ target = [c \in Call |-> NoPod]
  /\ fate = [c \in Call |-> "none"]

SyncUpdate(p, v) == [pod |-> p, kind |-> "sync", version |-> v, by |-> NoCall]

KillUpdate(p, c) == [pod |-> p, kind |-> "kill", version |-> 0, by |-> c]

IsKill(u) == u # NoUpdate /\ u.kind = "kill"

-----------------------------------------------------------------------------
(* podWorkers *)

\* What becomes of the call that sent update u.
Fate(u, f) == IF IsKill(u) THEN [fate EXCEPT ![u.by] = f] ELSE fate

\* Slip: a kill that waits is replaced like any other update.
KeepsOverwritten(p) == FALSE

\* A pending kill is not replaced.
Keeps(p) == IsKill(undelivered[p])

\* UpdatePod finds the pod's worker w, or makes it: the update is sent if no
\* other is being worked on, and kept for later if one is.
Deliver(u, w) ==
  LET p == u.pod IN
  IF ~isWorking[p]
  THEN /\ isWorking' = [isWorking EXCEPT ![p] = TRUE]
       /\ inbox' = [inbox EXCEPT ![w] = Append(@, u)]
       /\ fate' = Fate(u, "pending")
       /\ UNCHANGED undelivered
  ELSE /\ undelivered' = [undelivered EXCEPT ![p] = IF Keeps(p) THEN @ ELSE u]
       /\ fate' = Fate(u, IF Keeps(p) THEN "lost" ELSE "pending")
       /\ UNCHANGED <<isWorking, inbox>>

UpdatePod(u) ==
  \/ /\ podUpdates[u.pod] # NoWorker
     /\ Deliver(u, podUpdates[u.pod])
     /\ UNCHANGED <<podUpdates, closed, pc>>
  \/ /\ podUpdates[u.pod] = NoWorker
     /\ \E w \in Worker : /\ pc[w] = "free"
                          /\ podUpdates' = [podUpdates EXCEPT ![u.pod] = w]
                          /\ closed' = [closed EXCEPT ![w] = FALSE]
                          /\ pc' = [pc EXCEPT ![w] = "idle"]
                          /\ Deliver(u, w)

\* The workers of the pods P that have one.
WorkersOf(P) == {podUpdates[p] : p \in {q \in P : podUpdates[q] # NoWorker}}

\* Slip: the next worker does not wait for the one that is forgotten.
removeWorkersAtOnce(P) ==
  /\ closed' = [w \in Worker |-> closed[w] \/ w \in WorkersOf(P)]
  /\ podUpdates' = [p \in Pod |-> IF p \in P THEN NoWorker ELSE podUpdates[p]]
  /\ undelivered' = [p \in Pod |-> IF p \in P THEN NoUpdate ELSE undelivered[p]]
  /\ isWorking' = [p \in Pod |-> p \notin P /\ isWorking[p]]
  /\ fate' = [c \in Call |->
                IF \E p \in P : IsKill(undelivered[p]) /\ undelivered[p].by = c
                THEN "lost" ELSE fate[c]]
  /\ UNCHANGED inbox

\* Slip: the update that waits is not removed with the worker.
removeWorkersOnly(P) ==
  /\ closed' = [w \in Worker |-> closed[w] \/ w \in WorkersOf(P)]
  /\ podUpdates' = [p \in Pod |-> IF p \in P THEN NoWorker ELSE podUpdates[p]]
  /\ UNCHANGED <<isWorking, inbox, undelivered, fate>>

\* removeWorker, for every pod of P.  The goroutine goes on until its channel
\* is empty, and isWorking stays as it is.
removeWorkers(P) ==
  /\ closed' = [w \in Worker |-> closed[w] \/ w \in WorkersOf(P)]
  /\ podUpdates' = [p \in Pod |-> IF p \in P THEN NoWorker ELSE podUpdates[p]]
  /\ undelivered' = [p \in Pod |-> IF p \in P THEN NoUpdate ELSE undelivered[p]]
  /\ fate' = [c \in Call |->
                IF \E p \in P : IsKill(undelivered[p]) /\ undelivered[p].by = c
                THEN "lost" ELSE fate[c]]
  /\ UNCHANGED <<isWorking, inbox>>

-----------------------------------------------------------------------------
(* managePodLoop *)

Receive(w) ==
  /\ pc[w] = "idle" /\ inbox[w] # <<>>
  /\ current' = [current EXCEPT ![w] = Head(inbox[w])]
  /\ inbox' = [inbox EXCEPT ![w] = Tail(@)]
  /\ pc' = [pc EXCEPT ![w] = "status"]
  /\ UNCHANGED <<podVars, podUpdates, isWorking, undelivered, closed, taken,
                 workQueue, callVars>>

\* The channel is closed and empty: the goroutine ends.
Exit(w) ==
  /\ pc[w] = "idle" /\ inbox[w] = <<>> /\ closed[w]
  /\ pc' = [pc EXCEPT ![w] = "free"]
  /\ closed' = [closed EXCEPT ![w] = FALSE]
  /\ UNCHANGED <<podVars, podUpdates, isWorking, undelivered, inbox, current, taken,
                 workQueue, callVars>>

\* GetNewerThan has returned a status, and syncPod has set the status of the
\* pod, which may be a final one, as that of a pod to be killed is.
SyncBegins(w) ==
  LET u == current[w] IN
  /\ pc[w] = "status"
  /\ pc' = [pc EXCEPT ![w] = "sync"]
  /\ \/ terminated' = terminated \cup {u.pod}
     \/ ~IsKill(u) /\ UNCHANGED terminated
  /\ taken' = IF IsKill(u) THEN taken ELSE [taken EXCEPT ![u.pod] = u.version]
  /\ UNCHANGED <<known, version, channelVars, current, workQueue, callVars>>

\* Slip: a sync that failed is not tried again.
WrapUpOnSuccess(w) ==
  LET u == current[w] IN
  /\ pc[w] \in {"status", "sync"}
  /\ pc' = [pc EXCEPT ![w] = "wrapUp"]
  /\ workQueue' = IF pc[w] = "sync" THEN workQueue \cup {u.pod} ELSE workQueue
  /\ call' = IF IsKill(u) /\ call[u.by] = "waiting"
             THEN [call EXCEPT ![u.by] = "returned"] ELSE call
  /\ fate' = Fate(u, "answered")
  /\ UNCHANGED <<podVars, channelVars, current, taken, target>>

\* There is no status, or syncPod has returned, with an error or without: the
\* caller is told, who may have given up (the channel of the answer has room),
\* and the pod is to be synced again, sooner or later.
WrapUp(w) ==
  LET u == current[w] IN
  /\ pc[w] \in {"status", "sync"}
  /\ pc' = [pc EXCEPT ![w] = "wrapUp"]
  /\ workQueue' = workQueue \cup {u.pod}
  /\ call' = IF IsKill(u) /\ call[u.by] = "waiting"
             THEN [call EXCEPT ![u.by] = "returned"] ELSE call
  /\ fate' = Fate(u, "answered")
  /\ UNCHANGED <<podVars, channelVars, current, taken, target>>

\* The update that has come meanwhile is sent to the worker the pod has now,
\* which may be another one.
checkForUpdates(w) ==
  LET p == current[w].pod IN
  /\ pc[w] = "wrapUp"
  /\ pc' = [pc EXCEPT ![w] = "idle"]
  /\ current' = [current EXCEPT ![w] = NoUpdate]
  /\ IF undelivered[p] # NoUpdate
     THEN /\ inbox' = [inbox EXCEPT ![podUpdates[p]] = Append(@, undelivered[p])]
          /\ undelivered' = [undelivered EXCEPT ![p] = NoUpdate]
          /\ UNCHANGED isWorking
     ELSE /\ isWorking' = [isWorking EXCEPT ![p] = FALSE]
          /\ UNCHANGED <<inbox, undelivered>>
  /\ UNCHANGED <<podVars, podUpdates, closed, taken, workQueue, callVars>>

-----------------------------------------------------------------------------
(* The sync loop *)

\* A pod that has terminated is not handed to a worker.
dispatchWork(p, v) ==
  /\ IF p \in terminated
     THEN UNCHANGED <<channelVars, pc, fate>>
     ELSE UpdatePod(SyncUpdate(p, v))
  /\ UNCHANGED <<current, call, target>>

\* A pod of a config source; one that is not admitted is given a final status.
\* (The pod of a file has the UID it had when it comes back.)
HandlePodAdditions(p) ==
  /\ p \notin known
  /\ known' = known \cup {p}
  /\ \/ dispatchWork(p, version[p]) /\ UNCHANGED terminated
     \/ /\ p \notin terminated
        /\ terminated' = terminated \cup {p}
        /\ UNCHANGED <<channelVars, pc, current, callVars>>
  /\ taken' = [taken EXCEPT ![p] = 0]
  /\ UNCHANGED <<version, workQueue>>

HandlePodUpdates(p) ==
  /\ p \in known /\ version[p] < MaxVersion
  /\ version' = [version EXCEPT ![p] = @ + 1]
  /\ dispatchWork(p, version'[p])
  /\ UNCHANGED <<known, terminated, taken, workQueue>>

\* deletePod does nothing before all sources are ready.
HandlePodRemoves(p) ==
  /\ p \in known
  /\ known' = known \ {p}
  /\ \/ removeWorkers({p})
     \/ UNCHANGED <<channelVars, fate>>
  /\ UNCHANGED <<version, terminated, workerVars, workQueue, call, target>>

\* An event of the container runtime or of a liveness probe.
HandlePodSyncs(p) ==
  /\ p \in known
  /\ dispatchWork(p, version[p])
  /\ UNCHANGED <<podVars, taken, workQueue>>

\* The time of a pod in the work queue has come (getPodsToSync).
SyncAgain(p) ==
  /\ p \in workQueue
  /\ workQueue' = workQueue \ {p}
  /\ IF p \in known THEN dispatchWork(p, version[p])
                    ELSE UNCHANGED <<channelVars, pc, current, callVars>>
  /\ UNCHANGED <<podVars, taken>>

\* ForgetNonExistingPodWorkers, and the statuses of pods that are gone.
HandlePodCleanups ==
  /\ removeWorkers(Pod \ (known \ terminated))
  /\ terminated' = terminated \cap known
  /\ UNCHANGED <<known, version, workerVars, workQueue, call, target>>

-----------------------------------------------------------------------------
(* killPodNow, called to evict or to preempt a pod *)

\* The caller chooses among the pods that are active.
Choose(c, p) ==
  /\ call[c] = "unused" /\ p \in known \ terminated
  /\ call' = [call EXCEPT ![c] = "chosen"]
  /\ target' = [target EXCEPT ![c] = p]
  /\ UNCHANGED <<podVars, channelVars, workerVars, workQueue, fate>>

killPodNow(c) ==
  /\ call[c] = "chosen"
  /\ call' = [call EXCEPT ![c] = "waiting"]
  /\ UpdatePod(KillUpdate(target[c], c))
  /\ UNCHANGED <<podVars, current, taken, workQueue, target>>

\* The caller waits no longer.
TimedOut(c) ==
  /\ call[c] = "waiting"
  /\ call' = [call EXCEPT ![c] = "returned"]
  /\ UNCHANGED <<podVars, channelVars, workerVars, workQueue, target, fate>>

-----------------------------------------------------------------------------
ManagePodLoop(w) == Receive(w) \/ Exit(w) \/ SyncBegins(w) \/ WrapUp(w)
                    \/ checkForUpdates(w)

SyncLoop(p) == HandlePodAdditions(p) \/ HandlePodUpdates(p) \/ HandlePodRemoves(p)
               \/ HandlePodSyncs(p) \/ SyncAgain(p)

PWNext == \/ \E w \in Worker : ManagePodLoop(w)
          \/ \E p \in Pod : SyncLoop(p)
          \/ HandlePodCleanups
          \/ \E c \in Call : killPodNow(c) \/ TimedOut(c) \/ \E p \in Pod : Choose(c, p)

PWSafety == PWInit /\ [][PWNext]_pwVars

\* Goroutines run on, a pod in the work queue is synced again in its time, and
\* a call that has begun goes on.  Nothing is said of the rest of the world.
PWSpec == /\ PWSafety
          /\ \A w \in Worker : WF_pwVars(ManagePodLoop(w))
          /\ \A w \in Worker : SF_pwVars(SyncBegins(w))
          /\ \A p \in Pod : WF_pwVars(SyncAgain(p))
          /\ \A c \in Call : WF_pwVars(killPodNow(c))

-----------------------------------------------------------------------------
(* Properties *)

\* podLock is never held by a goroutine that waits: whenever UpdatePod would
\* send to the channel of a pod, or checkForUpdates the update it finds, the
\* channel is there, open and empty, as the comment on its buffer says.
SendsFindRoom ==
  /\ \A p \in Pod :
       ~isWorking[p] /\ podUpdates[p] # NoWorker =>
         inbox[podUpdates[p]] = <<>> /\ ~closed[podUpdates[p]]
  /\ \A w \in Worker :
       pc[w] = "wrapUp" /\ undelivered[current[w].pod] # NoUpdate =>
         LET v == podUpdates[current[w].pod] IN
         v # NoWorker /\ inbox[v] = <<>> /\ ~closed[v]

\* No two goroutines sync one pod at a time, although a worker that has been
\* forgotten goes on beside the one that is made when the pod comes back.
OneSyncAtATime ==
  \A w1, w2 \in Worker :
    /\ pc[w1] \in {"status", "sync", "wrapUp"} /\ pc[w2] \in {"status", "sync", "wrapUp"}
    /\ current[w1].pod = current[w2].pod
    => w1 = w2

\* The latest specification of a pod is synced in the end, whatever updates
\* were replaced, or dropped for a kill: unless the pod is removed or ends.
LatestIsSynced ==
  \A p \in Pod :
    (p \in known /\ taken[p] # version[p])
      ~> (taken[p] = version[p] \/ p \notin known \/ p \in terminated)

\* A kill that was accepted is tried and answered, unless the worker of the pod
\* is forgotten before it is its turn.
KillsAreDelivered ==
  \A c \in Call : fate[c] = "pending" ~> fate[c] \in {"answered", "lost"}
=============================================================================
