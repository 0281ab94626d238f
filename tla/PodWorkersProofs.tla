--------------------------- MODULE PodWorkersProofs ---------------------------
(***************************************************************************)
(* The pod workers of the kubelet, for any pods, goroutines, calls and     *)
(* versions: whoever sends under podLock finds room (the comment on the    *)
(* buffer in UpdatePod, pod_workers.go:208-211), and no pod is synced by   *)
(* two goroutines at a time.                                               *)
(*                                                                         *)
(* The reason is one invariant: isWorking[p] guards a token, the update of *)
(* p that is in a channel or in the hands of a goroutine, and there is     *)
(* never more than one.                                                    *)
(***************************************************************************)
EXTENDS PodWorkers, SequenceTheorems, TLAPS

Busy == {"status", "sync", "wrapUp"}

WorkersTypeOK ==
  /\ podUpdates \in [Pod -> Worker \cup {NoWorker}]
  /\ isWorking \in [Pod -> BOOLEAN]
  /\ undelivered \in [Pod -> Update \cup {NoUpdate}]
  /\ inbox \in [Worker -> Seq(Update)]
  /\ closed \in [Worker -> BOOLEAN]
  /\ pc \in [Worker -> Busy \cup {"free", "idle"}]
  /\ current \in [Worker -> Update \cup {NoUpdate}]

RestTypeOK ==
  /\ known \subseteq Pod /\ terminated \subseteq Pod
  /\ version \in [Pod -> 0..MaxVersion]
  /\ workQueue \subseteq Pod
  /\ call \in [Call -> {"unused", "chosen", "waiting", "returned"}]
  /\ target \in [Call -> Pod \cup {NoPod}]
  /\ \A c \in Call : call[c] = "chosen" => target[c] \in Pod

\* Worker w is at an update of pod p, or has one in its channel.
AtWork(w, p) == pc[w] \in Busy /\ current[w].pod = p

Waits(w, p) == inbox[w] # <<>> /\ inbox[w][1].pod = p

Holds(w, p) == AtWork(w, p) \/ Waits(w, p)

(***************************************************************************)
(* A worker that has a pod is alive, its channel open and its own, and it  *)
(* holds nothing of other pods; a goroutine that has ended holds nothing.  *)
(***************************************************************************)
OwnInv ==
  /\ \A w \in Worker : Len(inbox[w]) <= 1
  /\ \A w \in Worker : pc[w] # "idle" => inbox[w] = <<>>
  /\ \A w \in Worker : pc[w] \in Busy => current[w] \in Update
  /\ \A p, q \in Pod : podUpdates[p] = podUpdates[q] /\ podUpdates[p] # NoWorker => p = q
  /\ \A p \in Pod : podUpdates[p] # NoWorker =>
       pc[podUpdates[p]] # "free" /\ ~closed[podUpdates[p]]
  /\ \A p, q \in Pod : podUpdates[p] # NoWorker /\ Holds(podUpdates[p], q) => p = q

\* There is at most one token of a pod, isWorking tells that there is one, and
\* an update waits only behind it, for a worker the pod has.
TokenInv ==
  /\ \A p \in Pod, w \in Worker : Holds(w, p) => isWorking[p]
  /\ \A p \in Pod, w1, w2 \in Worker : Holds(w1, p) /\ Holds(w2, p) => w1 = w2
  /\ \A p \in Pod : undelivered[p] # NoUpdate =>
       undelivered[p].pod = p /\ podUpdates[p] # NoWorker /\ isWorking[p]

WorkersInv == WorkersTypeOK /\ OwnInv /\ TokenInv

PodInv == WorkersInv /\ RestTypeOK

\* The invariant holds what the comments of the code promise.
LEMMA PodInvSuffices == PodInv => SendsFindRoom /\ OneSyncAtATime
<1> SUFFICES ASSUME PodInv PROVE SendsFindRoom /\ OneSyncAtATime
  OBVIOUS
<1> USE DEF PodInv, WorkersInv, WorkersTypeOK, OwnInv, TokenInv, Holds, AtWork, Waits, Busy
<1>1. ASSUME NEW p \in Pod, NEW v \in Worker, podUpdates[p] = v, inbox[v] # <<>>
      PROVE  Waits(v, p)
  <2>1. inbox[v][1] \in Update
    BY <1>1
  <2>2. Holds(v, inbox[v][1].pod) /\ inbox[v][1].pod \in Pod
    BY <1>1, <2>1 DEF Update
  <2> QED BY <1>1, <2>2, PWAssumption
<1>2. ASSUME NEW p \in Pod, ~isWorking[p], podUpdates[p] # NoWorker
      PROVE  inbox[podUpdates[p]] = <<>> /\ ~closed[podUpdates[p]]
  BY <1>1, <1>2
<1>3. ASSUME NEW w \in Worker, pc[w] = "wrapUp", undelivered[current[w].pod] # NoUpdate
      PROVE  LET v == podUpdates[current[w].pod] IN
             v # NoWorker /\ inbox[v] = <<>> /\ ~closed[v]
  <2> DEFINE p == current[w].pod
             v == podUpdates[p]
  <2>1. p \in Pod /\ Holds(w, p)
    BY <1>3 DEF Update
  <2>2. v # NoWorker /\ v \in Worker /\ ~closed[v]
    BY <1>3, <2>1
  <2>3. inbox[v] = <<>>
    BY <1>1, <1>3, <2>1, <2>2
  <2> QED BY <2>2, <2>3
<1>4. OneSyncAtATime
  BY DEF OneSyncAtATime, Update
<1> QED BY <1>2, <1>3, <1>4 DEF SendsFindRoom

LEMMA PodInit == PWInit => PodInv
BY PWAssumption DEF PWInit, PodInv, WorkersInv, WorkersTypeOK, RestTypeOK, OwnInv, TokenInv, Holds, AtWork, Waits, Busy

-----------------------------------------------------------------------------
(* What UpdatePod and removeWorker do to the workers *)

\* An update is given to the worker w of its pod, made just now or before.
LEMMA DeliverStep ==
  ASSUME WorkersInv, NEW u \in Update, NEW w \in Worker, Deliver(u, w),
         UNCHANGED current,
         \/ podUpdates[u.pod] = w /\ UNCHANGED <<podUpdates, closed, pc>>
         \/ /\ podUpdates[u.pod] = NoWorker
            /\ pc[w] = "free"
            /\ podUpdates' = [podUpdates EXCEPT ![u.pod] = w]
            /\ closed' = [closed EXCEPT ![w] = FALSE]
            /\ pc' = [pc EXCEPT ![w] = "idle"]
  PROVE  WorkersInv'
<1> DEFINE p == u.pod
<1> USE PWAssumption DEF WorkersInv
<1>0. p \in Pod
  BY DEF Update
<1>1. /\ \A q \in Pod : ~Holds(w, q) \/ q = p
      /\ inbox[w] # <<>> \/ pc[w] \in Busy => isWorking[p]
  <2>1. inbox[w] # <<>> => inbox[w][1] \in Update
    BY DEF WorkersTypeOK
  <2>2. pc[w] \in Busy => current[w] \in Update
    BY DEF OwnInv
  <2>3. CASE podUpdates[p] = w
    BY <1>0, <2>1, <2>2, <2>3 DEF OwnInv, TokenInv, Holds, AtWork, Waits, Update
  <2>4. CASE pc[w] = "free"
    BY <2>4 DEF OwnInv, Holds, AtWork, Waits, Busy
  <2> QED BY <2>3, <2>4
<1>2. /\ podUpdates' \in [Pod -> Worker \cup {NoWorker}]
      /\ closed' \in [Worker -> BOOLEAN]
      /\ pc' \in [Worker -> Busy \cup {"free", "idle"}]
      /\ current' \in [Worker -> Update \cup {NoUpdate}]
  <2>1. CASE podUpdates[p] = w /\ UNCHANGED <<podUpdates, closed, pc>>
    BY <2>1 DEF WorkersTypeOK
  <2>2. CASE /\ podUpdates[p] = NoWorker /\ pc[w] = "free"
             /\ podUpdates' = [podUpdates EXCEPT ![p] = w]
             /\ closed' = [closed EXCEPT ![w] = FALSE]
             /\ pc' = [pc EXCEPT ![w] = "idle"]
    BY <1>0, <2>2 DEF WorkersTypeOK
  <2> QED BY <2>1, <2>2
<1>3. /\ \A v \in Worker : v # w => pc'[v] = pc[v] /\ (closed'[v] <=> closed[v])
      /\ \A q \in Pod : q # p => podUpdates'[q] = podUpdates[q]
      /\ podUpdates'[p] = w
      /\ pc'[w] # "free" /\ (pc'[w] = pc[w] \/ (pc'[w] = "idle" /\ pc[w] \notin Busy))
      /\ ~closed'[w]
      /\ \A q \in Pod : podUpdates[q] = w => q = p
  <2>1. CASE podUpdates[p] = w /\ UNCHANGED <<podUpdates, closed, pc>>
    BY <1>0, <2>1 DEF OwnInv
  <2>2. CASE /\ podUpdates[p] = NoWorker /\ pc[w] = "free"
             /\ podUpdates' = [podUpdates EXCEPT ![p] = w]
             /\ closed' = [closed EXCEPT ![w] = FALSE]
             /\ pc' = [pc EXCEPT ![w] = "idle"]
    BY <1>0, <2>2 DEF WorkersTypeOK, Busy, OwnInv
  <2> QED BY <2>1, <2>2
<1>4. /\ isWorking' \in [Pod -> BOOLEAN]
      /\ undelivered' \in [Pod -> Update \cup {NoUpdate}]
      /\ inbox' \in [Worker -> Seq(Update)]
      /\ \A v \in Worker : v # w => inbox'[v] = inbox[v]
      /\ \A q \in Pod : isWorking[q] => isWorking'[q]
      /\ isWorking'[p]
      /\ \A q \in Pod : q # p => undelivered'[q] = undelivered[q]
      /\ undelivered'[p] \in {undelivered[p], u}
      /\ \/ isWorking[p] /\ inbox'[w] = inbox[w]
         \/ ~isWorking[p] /\ inbox[w] = <<>> /\ inbox'[w] = <<u>> /\ pc'[w] = "idle"
  <2>1. CASE isWorking[p]
    BY <1>0, <2>1 DEF Deliver, WorkersTypeOK
  <2>2. CASE ~isWorking[p]
    <3>1. inbox[w] = <<>> /\ pc[w] \notin Busy
      BY <1>1, <2>2
    <3>2. pc'[w] = "idle"
      BY <1>2, <1>3, <3>1
    <3>3. /\ isWorking' = [isWorking EXCEPT ![p] = TRUE]
          /\ inbox' = [inbox EXCEPT ![w] = Append(@, u)]
          /\ undelivered' = undelivered
      BY <2>2 DEF Deliver
    <3>4. inbox'[w] = <<u>> /\ inbox' \in [Worker -> Seq(Update)]
          /\ \A v \in Worker : v # w => inbox'[v] = inbox[v]
      BY <3>1, <3>3 DEF WorkersTypeOK
    <3>5. /\ isWorking' \in [Pod -> BOOLEAN]
          /\ \A q \in Pod : isWorking[q] => isWorking'[q]
          /\ isWorking'[p]
      BY <1>0, <3>3 DEF WorkersTypeOK
    <3> QED BY <2>2, <3>1, <3>2, <3>3, <3>4, <3>5 DEF WorkersTypeOK
  <2> QED BY <2>1, <2>2
<1>5. \A v \in Worker, q \in Pod :
        Holds(v, q)' => Holds(v, q) \/ (v = w /\ q = p /\ ~isWorking[p])
  BY <1>0, <1>3, <1>4 DEF Holds, AtWork, Waits, Busy
<1>6. OwnInv'
  <2>1. \A v \in Worker : Len(inbox'[v]) <= 1 /\ (pc'[v] # "idle" => inbox'[v] = <<>>)
    <3>1. Len(<<u>>) = 1
      OBVIOUS
    <3>2. ASSUME NEW v \in Worker, v # w
          PROVE  Len(inbox'[v]) <= 1 /\ (pc'[v] # "idle" => inbox'[v] = <<>>)
      BY <1>3, <1>4, <3>2 DEF OwnInv
    <3>3. Len(inbox'[w]) <= 1 /\ (pc'[w] # "idle" => inbox'[w] = <<>>)
      <4>1. CASE inbox'[w] = inbox[w]
        BY <1>3, <4>1 DEF OwnInv
      <4>2. CASE inbox'[w] = <<u>> /\ pc'[w] = "idle"
        BY <3>1, <4>2
      <4> QED BY <1>4, <4>1, <4>2
    <3> QED BY <3>2, <3>3
  <2>2. \A v \in Worker : pc'[v] \in Busy => current'[v] \in Update
    BY <1>3 DEF OwnInv, Busy
  <2>3. \A q1, q2 \in Pod : podUpdates'[q1] = podUpdates'[q2] /\ podUpdates'[q1] # NoWorker
             => q1 = q2
    BY <1>0, <1>3 DEF OwnInv
  <2>4. ASSUME NEW q \in Pod, podUpdates'[q] # NoWorker
        PROVE  /\ pc'[podUpdates'[q]] # "free" /\ ~closed'[podUpdates'[q]]
               /\ podUpdates'[q] \in Worker
               /\ q # p => podUpdates'[q] = podUpdates[q] /\ podUpdates[q] # w
    <3>1. CASE q = p
      BY <1>3, <3>1
    <3>2. CASE q # p
      BY <1>2, <1>3, <2>4, <3>2 DEF OwnInv
    <3> QED BY <3>1, <3>2
  <2>5. ASSUME NEW q1 \in Pod, NEW q2 \in Pod, podUpdates'[q1] # NoWorker,
               Holds(podUpdates[q1], q2)'
        PROVE  q1 = q2
    <3>1. PICK v \in Worker : v = podUpdates'[q1]
      BY <2>4, <2>5
    <3>2. Holds(v, q2)'
      BY <2>5, <3>1 DEF Holds, AtWork, Waits
    <3>3. Holds(v, q2) \/ (v = w /\ q2 = p)
      BY <1>5, <3>2
    <3> QED BY <1>0, <1>1, <1>3, <2>4, <2>5, <3>1, <3>3 DEF OwnInv
  <2> QED BY <2>1, <2>2, <2>3, <2>4, <2>5 DEF OwnInv
<1>7. TokenInv'
  <2>1. \A q \in Pod, v \in Worker : Holds(v, q)' => isWorking'[q]
    BY <1>0, <1>4, <1>5 DEF TokenInv
  <2>2. \A q \in Pod, v1, v2 \in Worker : Holds(v1, q)' /\ Holds(v2, q)' => v1 = v2
    BY <1>5 DEF TokenInv
  <2>3. \A q \in Pod : undelivered'[q] # NoUpdate =>
          undelivered'[q].pod = q /\ podUpdates'[q] # NoWorker /\ isWorking'[q]
    BY <1>0, <1>3, <1>4 DEF TokenInv
  <2> QED BY <2>1, <2>2, <2>3 DEF TokenInv
<1>8. WorkersTypeOK'
  BY <1>2, <1>4 DEF WorkersTypeOK
<1> QED BY <1>6, <1>7, <1>8

LEMMA UpdatePodStep ==
  ASSUME WorkersInv, NEW u \in Update, UpdatePod(u), UNCHANGED current
  PROVE  WorkersInv'
<1>0. u.pod \in Pod
  BY DEF Update
<1>1. CASE podUpdates[u.pod] # NoWorker
  <2>1. podUpdates[u.pod] \in Worker
    BY <1>0, <1>1 DEF WorkersInv, WorkersTypeOK
  <2> QED BY <1>1, <2>1, DeliverStep DEF UpdatePod
<1>2. CASE podUpdates[u.pod] = NoWorker
  BY <1>2, DeliverStep DEF UpdatePod
<1> QED BY <1>1, <1>2

\* The workers of some pods are forgotten, whatever they are at.
LEMMA RemoveStep ==
  ASSUME WorkersInv, NEW P \in SUBSET Pod, removeWorkers(P), UNCHANGED <<pc, current>>
  PROVE  WorkersInv'
<1> USE PWAssumption DEF WorkersInv
<1>1. WorkersTypeOK'
  BY DEF WorkersTypeOK, removeWorkers
<1>2. \A v \in Worker, q \in Pod : Holds(v, q)' <=> Holds(v, q)
  BY DEF Holds, AtWork, Waits, removeWorkers
<1>3. \A q \in Pod : podUpdates'[q] # NoWorker =>
        q \notin P /\ podUpdates'[q] = podUpdates[q] /\ closed'[podUpdates[q]] = closed[podUpdates[q]]
  BY DEF removeWorkers, WorkersOf, WorkersTypeOK, OwnInv
<1>4. OwnInv'
  BY <1>1, <1>2, <1>3 DEF OwnInv, removeWorkers, WorkersTypeOK
<1>5. TokenInv'
  BY <1>1, <1>2, <1>3 DEF TokenInv, removeWorkers, WorkersTypeOK
<1> QED BY <1>1, <1>4, <1>5

-----------------------------------------------------------------------------
(* managePodLoop *)

\* A goroutine takes its token from the channel, works on it, and passes it on
\* or lets it go.
LEMMA LoopStep ==
  ASSUME PodInv, NEW w \in Worker, ManagePodLoop(w)
  PROVE  PodInv'
<1> USE PWAssumption DEF PodInv, WorkersInv
<1>1. CASE Receive(w)
  <2>1. /\ inbox[w] # <<>> /\ Len(inbox[w]) = 1 /\ inbox[w][1] \in Update
        /\ Head(inbox[w]) = inbox[w][1] /\ Tail(inbox[w]) = <<>>
    <3>1. inbox[w] \in Seq(Update) /\ inbox[w] # <<>> /\ Len(inbox[w]) <= 1
      BY <1>1 DEF Receive, OwnInv, WorkersTypeOK, RestTypeOK
    <3>2. Len(inbox[w]) = 1
      <4>1. Len(inbox[w]) \in Nat /\ Len(inbox[w]) # 0
        BY <3>1, EmptySeq
      <4>2. ASSUME NEW n \in Nat, n # 0, n <= 1 PROVE n = 1
        BY <4>2
      <4> QED BY <3>1, <4>1, <4>2
    <3>3. Tail(inbox[w]) \in Seq(Update) /\ Len(Tail(inbox[w])) = 0
      BY <3>1, <3>2
    <3>4. Tail(inbox[w]) = <<>>
      BY <3>3, EmptySeq
    <3> QED BY <3>1, <3>2, <3>4
  <2>2. /\ current' = [current EXCEPT ![w] = inbox[w][1]]
        /\ inbox' = [inbox EXCEPT ![w] = <<>>]
        /\ pc' = [pc EXCEPT ![w] = "status"]
        /\ pc[w] = "idle"
        /\ UNCHANGED <<podVars, podUpdates, isWorking, undelivered, closed, workQueue, callVars>>
    BY <1>1, <2>1 DEF Receive
  <2>3. (WorkersTypeOK /\ RestTypeOK)'
    BY <2>1, <2>2 DEF WorkersTypeOK, RestTypeOK, podVars, callVars, Busy
  <2>4. \A v \in Worker, q \in Pod : Holds(v, q)' => Holds(v, q)
    BY <2>1, <2>2 DEF Holds, AtWork, Waits, Busy, WorkersTypeOK, RestTypeOK
  <2>5. OwnInv'
    BY <2>1, <2>2, <2>3, <2>4 DEF OwnInv, WorkersTypeOK, RestTypeOK, Busy
  <2>6. TokenInv'
    BY <2>2, <2>4 DEF TokenInv
  <2> QED BY <2>3, <2>5, <2>6
<1>2. CASE Exit(w)
  <2>1. (WorkersTypeOK /\ RestTypeOK)'
    BY <1>2 DEF Exit, WorkersTypeOK, RestTypeOK, podVars, callVars
  <2>2. \A v \in Worker, q \in Pod : Holds(v, q)' => Holds(v, q)
    BY <1>2 DEF Exit, Holds, AtWork, Waits, Busy, WorkersTypeOK, RestTypeOK
  <2>3. \A q \in Pod : podUpdates[q] # w
    BY <1>2 DEF Exit, OwnInv
  <2>4. OwnInv'
    BY <1>2, <2>1, <2>2, <2>3 DEF Exit, OwnInv, WorkersTypeOK, RestTypeOK, Busy
  <2>5. TokenInv'
    BY <1>2, <2>2 DEF Exit, TokenInv
  <2> QED BY <2>1, <2>4, <2>5
<1>3. CASE SyncBegins(w) \/ WrapUp(w)
  <2>1. /\ pc[w] \in Busy
        /\ \E x \in Busy : pc' = [pc EXCEPT ![w] = x]
        /\ UNCHANGED <<podUpdates, isWorking, undelivered, inbox, closed, current>>
    BY <1>3 DEF SyncBegins, WrapUp, channelVars, Busy
  <2>2. current[w] \in Update /\ current[w].pod \in Pod
    BY <2>1 DEF OwnInv, Update
  <2>3. (WorkersTypeOK /\ RestTypeOK)'
    <3>1. /\ pc' \in [Worker -> Busy \cup {"free", "idle"}]
          /\ terminated' \subseteq Pod /\ workQueue' \subseteq Pod
          /\ UNCHANGED <<known, version, target>>
      BY <1>3, <2>1, <2>2 DEF WorkersTypeOK, RestTypeOK, SyncBegins, WrapUp, podVars, callVars
    <3>2. call' = call \/ call' = [call EXCEPT ![current[w].by] = "returned"]
      BY <1>3 DEF SyncBegins, WrapUp, callVars
    <3>3. /\ call' \in [Call -> {"unused", "chosen", "waiting", "returned"}]
          /\ \A c \in Call : call'[c] = "chosen" => call[c] = "chosen"
      BY <3>2 DEF WorkersTypeOK, RestTypeOK
    <3> QED BY <2>1, <3>1, <3>3 DEF WorkersTypeOK, RestTypeOK
  <2>4. \A v \in Worker, q \in Pod : Holds(v, q)' => Holds(v, q)
    BY <2>1 DEF Holds, AtWork, Waits, WorkersTypeOK, RestTypeOK
  <2>5. OwnInv'
    BY <2>1, <2>3, <2>4 DEF OwnInv, WorkersTypeOK, RestTypeOK, Busy
  <2>6. TokenInv'
    BY <2>1, <2>4 DEF TokenInv
  <2> QED BY <2>3, <2>5, <2>6
<1>4. CASE checkForUpdates(w)
  <2>0. PICK p \in Pod : p = current[w].pod
    BY <1>4 DEF checkForUpdates, OwnInv, Update, Busy
  <2>1. pc[w] = "wrapUp" /\ Holds(w, p) /\ inbox[w] = <<>>
    BY <1>4, <2>0 DEF checkForUpdates, OwnInv, Holds, AtWork, Busy
  <2>2. CASE undelivered[p] # NoUpdate
    <3>0. PICK v \in Worker, u \in Update : v = podUpdates[p] /\ u = undelivered[p]
      BY <2>2 DEF WorkersTypeOK, RestTypeOK, TokenInv
    <3>1. inbox[v] = <<>> /\ ~closed[v] /\ u.pod = p /\ isWorking[p]
      BY <2>0, <2>1, <2>2, <3>0, PodInvSuffices DEF SendsFindRoom, TokenInv
    <3>2. pc[v] \notin Busy \/ v = w
      <4>1. pc[v] \in Busy => Holds(v, current[v].pod) /\ current[v].pod \in Pod
        BY <3>1 DEF Holds, AtWork, OwnInv, Update
      <4> QED BY <2>1, <3>0, <3>1, <4>1 DEF OwnInv, TokenInv
    <3>3. /\ inbox' = [inbox EXCEPT ![v] = <<u>>]
          /\ undelivered' = [undelivered EXCEPT ![p] = NoUpdate]
          /\ pc' = [pc EXCEPT ![w] = "idle"]
          /\ current' = [current EXCEPT ![w] = NoUpdate]
          /\ UNCHANGED <<isWorking, podVars, podUpdates, closed, workQueue, callVars>>
      BY <1>4, <2>0, <2>2, <3>0, <3>1 DEF checkForUpdates, WorkersTypeOK, RestTypeOK
    <3>4. (WorkersTypeOK /\ RestTypeOK)'
      BY <3>1, <3>3 DEF WorkersTypeOK, RestTypeOK, podVars, callVars
    <3>5. /\ pc'[v] = "idle" /\ inbox'[v] = <<u>>
          /\ inbox'[v][1] = u /\ Len(inbox'[v]) = 1
          /\ \A x \in Worker : x # v => inbox'[x] = inbox[x]
          /\ \A x \in Worker : x # w => pc'[x] = pc[x] /\ current'[x] = current[x]
          /\ pc'[w] = "idle"
      BY <2>1, <3>0, <3>1, <3>2, <3>3 DEF WorkersTypeOK, RestTypeOK, Busy, OwnInv
    <3>6. \A x \in Worker, q \in Pod : Holds(x, q)' => Holds(x, q) \/ (x = v /\ q = p)
      BY <3>1, <3>5 DEF Holds, AtWork, Waits, Busy
    <3>7. \A x \in Worker : Holds(x, p)' => x = v
      BY <2>1, <3>0, <3>1, <3>5 DEF Holds, AtWork, Waits, Busy, TokenInv
    <3>8. OwnInv'
      BY <2>1, <3>0, <3>1, <3>3, <3>4, <3>5, <3>6 DEF OwnInv, WorkersTypeOK, RestTypeOK, Busy
    <3>9. TokenInv'
      <4>1. \A q \in Pod : undelivered'[q] # NoUpdate => q # p /\ undelivered'[q] = undelivered[q]
        BY <3>3 DEF WorkersTypeOK, RestTypeOK
      <4> QED BY <3>1, <3>3, <3>6, <3>7, <4>1 DEF TokenInv
    <3> QED BY <3>4, <3>8, <3>9
  <2>3. CASE undelivered[p] = NoUpdate
    <3>1. /\ isWorking' = [isWorking EXCEPT ![p] = FALSE]
          /\ pc' = [pc EXCEPT ![w] = "idle"]
          /\ current' = [current EXCEPT ![w] = NoUpdate]
          /\ UNCHANGED <<inbox, undelivered, podVars, podUpdates, closed, workQueue, callVars>>
      BY <1>4, <2>0, <2>3 DEF checkForUpdates
    <3>2. (WorkersTypeOK /\ RestTypeOK)'
      BY <2>1, <3>1 DEF WorkersTypeOK, RestTypeOK, podVars, callVars, Busy
    <3>3. \A x \in Worker, q \in Pod : Holds(x, q)' => Holds(x, q) /\ x # w
      BY <2>1, <3>1 DEF Holds, AtWork, Waits, Busy, WorkersTypeOK, RestTypeOK
    <3>4. \A x \in Worker : ~Holds(x, p)'
      BY <2>1, <3>3 DEF TokenInv
    <3>5. \A q \in Pod : q # p => (isWorking'[q] <=> isWorking[q])
      BY <3>1 DEF WorkersTypeOK, RestTypeOK
    <3>6. OwnInv'
      BY <3>1, <3>2, <3>3 DEF OwnInv, WorkersTypeOK, RestTypeOK, Busy
    <3>7. TokenInv'
      BY <2>3, <3>1, <3>3, <3>4, <3>5 DEF TokenInv
    <3> QED BY <3>2, <3>6, <3>7
  <2> QED BY <2>2, <2>3
<1> QED BY <1>1, <1>2, <1>3, <1>4 DEF ManagePodLoop

-----------------------------------------------------------------------------
(* The sync loop and killPodNow *)

\* Whoever calls dispatchWork leaves everything else to it.
LEMMA DispatchStep ==
  ASSUME WorkersInv, NEW p \in Pod, NEW v \in 0..MaxVersion, dispatchWork(p, v)
  PROVE  WorkersInv' /\ UNCHANGED <<current, call, target>>
<1>1. SyncUpdate(p, v) \in Update
  BY DEF SyncUpdate, Update
<1>2. CASE p \in terminated
  BY <1>2 DEF dispatchWork, channelVars, WorkersInv, WorkersTypeOK, OwnInv, TokenInv,
              Holds, AtWork, Waits
<1>3. CASE p \notin terminated
  BY <1>1, <1>3, UpdatePodStep DEF dispatchWork
<1> QED BY <1>2, <1>3 DEF dispatchWork

LEMMA WorkersUnchanged ==
  ASSUME WorkersInv, UNCHANGED <<channelVars, pc, current>>
  PROVE  WorkersInv'
BY DEF channelVars, WorkersInv, WorkersTypeOK, OwnInv, TokenInv, Holds, AtWork, Waits

LEMMA SyncLoopStep ==
  ASSUME PodInv, NEW p \in Pod, SyncLoop(p)
  PROVE  PodInv'
<1> USE DEF PodInv
<1>0. WorkersInv /\ RestTypeOK /\ version[p] \in 0..MaxVersion
  BY DEF RestTypeOK
<1>1. CASE HandlePodAdditions(p)
  <2>1. WorkersInv' /\ UNCHANGED <<call, target>>
    BY <1>0, <1>1, DispatchStep, WorkersUnchanged DEF HandlePodAdditions, callVars
  <2>2. RestTypeOK'
    BY <1>0, <1>1, <2>1 DEF RestTypeOK, HandlePodAdditions
  <2> QED BY <2>1, <2>2
<1>2. CASE HandlePodUpdates(p)
  <2>1. version'[p] \in 0..MaxVersion /\ version' \in [Pod -> 0..MaxVersion]
    BY <1>0, <1>2, PWAssumption DEF HandlePodUpdates, RestTypeOK
  <2>2. WorkersInv' /\ UNCHANGED <<call, target>>
    BY <1>0, <1>2, <2>1, DispatchStep DEF HandlePodUpdates
  <2>3. RestTypeOK'
    BY <1>0, <1>2, <2>1, <2>2 DEF RestTypeOK, HandlePodUpdates
  <2> QED BY <2>2, <2>3
<1>3. CASE HandlePodRemoves(p)
  <2>1. WorkersInv'
    BY <1>0, <1>3, RemoveStep, WorkersUnchanged DEF HandlePodRemoves, workerVars
  <2>2. RestTypeOK'
    BY <1>0, <1>3 DEF RestTypeOK, HandlePodRemoves
  <2> QED BY <2>1, <2>2
<1>4. CASE HandlePodSyncs(p)
  <2>1. WorkersInv' /\ UNCHANGED <<call, target>>
    BY <1>0, <1>4, DispatchStep DEF HandlePodSyncs
  <2>2. RestTypeOK'
    BY <1>0, <1>4, <2>1 DEF RestTypeOK, HandlePodSyncs, podVars
  <2> QED BY <2>1, <2>2
<1>5. CASE SyncAgain(p)
  <2>1. WorkersInv' /\ UNCHANGED <<call, target>>
    BY <1>0, <1>5, DispatchStep, WorkersUnchanged DEF SyncAgain, callVars
  <2>2. RestTypeOK'
    BY <1>0, <1>5, <2>1 DEF RestTypeOK, SyncAgain, podVars
  <2> QED BY <2>1, <2>2
<1> QED BY <1>1, <1>2, <1>3, <1>4, <1>5 DEF SyncLoop

LEMMA CleanupStep ==
  ASSUME PodInv, HandlePodCleanups
  PROVE  PodInv'
<1> USE DEF PodInv
<1>1. WorkersInv'
  BY RemoveStep DEF HandlePodCleanups, workerVars
<1>2. RestTypeOK'
  BY DEF RestTypeOK, HandlePodCleanups
<1> QED BY <1>1, <1>2

LEMMA CallStep ==
  ASSUME PodInv, NEW c \in Call,
         killPodNow(c) \/ TimedOut(c) \/ \E p \in Pod : Choose(c, p)
  PROVE  PodInv'
<1> USE DEF PodInv
<1>1. CASE killPodNow(c)
  <2>1. target[c] \in Pod
    BY <1>1 DEF killPodNow, RestTypeOK
  <2>2. KillUpdate(target[c], c) \in Update
    BY <2>1, PWAssumption DEF KillUpdate, Update
  <2>3. WorkersInv'
    BY <1>1, <2>2, UpdatePodStep DEF killPodNow
  <2>4. RestTypeOK'
    BY <1>1 DEF killPodNow, RestTypeOK, podVars
  <2> QED BY <2>3, <2>4
<1>2. CASE TimedOut(c)
  <2>1. WorkersInv'
    BY <1>2, WorkersUnchanged DEF TimedOut, workerVars
  <2>2. RestTypeOK'
    BY <1>2 DEF TimedOut, RestTypeOK, podVars
  <2> QED BY <2>1, <2>2
<1>3. ASSUME NEW p \in Pod, Choose(c, p) PROVE PodInv'
  <2>1. WorkersInv'
    BY <1>3, WorkersUnchanged DEF Choose, workerVars
  <2>2. RestTypeOK'
    BY <1>3 DEF Choose, RestTypeOK, podVars
  <2> QED BY <2>1, <2>2
<1> QED BY <1>1, <1>2, <1>3

-----------------------------------------------------------------------------
\* However workers are forgotten and made again, the token of a pod is unique.
LEMMA PodInvariant == PWSafety => []PodInv
<1>1. PodInv /\ [PWNext]_pwVars => PodInv'
  <2> SUFFICES ASSUME PodInv, [PWNext]_pwVars PROVE PodInv'
    OBVIOUS
  <2>1. CASE UNCHANGED pwVars
    BY <2>1, WorkersUnchanged DEF PodInv, pwVars, channelVars, RestTypeOK
  <2>2. CASE PWNext
    BY <2>2, LoopStep, SyncLoopStep, CleanupStep, CallStep DEF PWNext
  <2> QED BY <2>1, <2>2
<1> QED BY <1>1, PodInit, PTL DEF PWSafety

\* Whatever is sent under podLock finds its channel there, open and empty, so
\* that nobody waits while the lock is held (pod_workers.go:208-211, 284).
THEOREM SendsNeverBlock == PWSafety => []SendsFindRoom
BY PodInvariant, PodInvSuffices, PTL

\* No pod is synced by two goroutines at a time, although a worker that was
\* forgotten goes on beside its successor (pod_workers.go:180, 237-246).
THEOREM SyncsExclude == PWSafety => []OneSyncAtATime
BY PodInvariant, PodInvSuffices, PTL
=============================================================================
