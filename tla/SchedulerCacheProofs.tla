------------------------- MODULE SchedulerCacheProofs -------------------------
(***************************************************************************)
(* The cache of the scheduler, for any pods and nodes, any number of       *)
(* changes and faults: each pod is counted once, on its node; what is      *)
(* added is what the informer told; and the scheduler ends itself only in  *)
(* the two ways NoCrash names.                                             *)
(***************************************************************************)
EXTENDS SchedulerCache, TLAPS

-----------------------------------------------------------------------------
(* The invariant, which holds until the informer makes one pod of two.  It *)
(* is stated for a cache k and a state o of the object where operations of *)
(* the cache are to be shown to preserve it.                               *)

\* Each pod of k is counted once, on its node.
Counted(k) ==
  /\ k \in Cache
  /\ \A n \in Node, u \in Uid : k.pods[n][u] = IF k.podStates[u] = n THEN 1 ELSE 0
  /\ \A u \in k.assumedPods : Known(k, u)
  /\ k.nodes = k.hasNode \cup {n \in Node : \E u \in Uid : k.podStates[u] = n}

\* The pod that is added to k is o; every other is only assumed.
Agrees(k, o) ==
  \A u \in Uid :
    IF o.uid = u /\ Assigned(o)
    THEN k.podStates[u] = o.node /\ u \notin k.assumedPods
    ELSE Known(k, u) => u \in k.assumedPods

\* A state of the object that can be: a pod, or none.
Real(o) == o \in Pod /\ (o.uid = 0 => o = Gone)

\* What the handlers were told, and what they will be.
Tell(i) == IF i = 0 THEN seen ELSE stream[i]

\* A UID is not given twice, a pod that is assigned stays where it is, and
\* between two pods of one name the handlers are told that there is none.
StreamInv ==
  /\ stream \in Seq(Pod) /\ born \subseteq Uid
  /\ \A i \in 0..Len(stream) : Real(Tell(i)) /\ Tell(i).uid \in born \cup {0}
  /\ \A i, j \in 0..Len(stream) :
       i < j /\ Tell(i).uid = Tell(j).uid /\ Assigned(Tell(i)) => Tell(j).node = Tell(i).node
  /\ \A i \in 1..Len(stream) :
       Tell(i - 1) # Gone /\ Tell(i) # Gone => Tell(i - 1).uid = Tell(i).uid
  /\ Tell(Len(stream)) = object

\* What is on its way through the scheduler.
WayInv ==
  /\ queued \in Uid \cup {0}
  /\ sched # Gone => sched.uid \in Uid /\ sched.node \in Node
  /\ host \in [Uid -> Node \cup {NoNode}]
  /\ lost \in Node \cup {NoNode}

\* The cache has the nodes the handlers were told, unless one was taken away
\* behind their back.
NodesInv == ~removed => told = c.hasNode /\ ~c.down

SCInv == ~merged => Counted(c) /\ Agrees(c, seen) /\ StreamInv /\ WayInv /\ NodesInv

-----------------------------------------------------------------------------
(* The operations of the cache, field by field *)

\* r is k with one pod more in the list of a NodeInfo, or one less.
Puts(k, u, n, r) ==
  /\ r \in Cache
  /\ r.podStates = k.podStates /\ r.assumedPods = k.assumedPods
  /\ r.finished = k.finished /\ r.hasNode = k.hasNode /\ r.down = k.down
  /\ r.nodes = k.nodes \cup {n}
  /\ r.pods = [k.pods EXCEPT ![n] = [k.pods[n] EXCEPT ![u] = k.pods[n][u] + 1]]

Takes(k, u, n, r) ==
  /\ r \in Cache
  /\ r.podStates = k.podStates /\ r.assumedPods = k.assumedPods
  /\ r.finished = k.finished /\ r.hasNode = k.hasNode /\ r.down = k.down
  /\ r.pods = [k.pods EXCEPT ![n] = [k.pods[n] EXCEPT ![u] = k.pods[n][u] - 1]]
  /\ r.nodes = IF n \notin k.hasNode /\ \A v \in Uid : r.pods[n][v] = 0
               THEN k.nodes \ {n} ELSE k.nodes

LEMMA addPodPuts ==
  ASSUME NEW k \in Cache, NEW u \in Uid, NEW n \in Node
  PROVE  Puts(k, u, n, addPod(k, u, n))
<1> DEFINE p == [k.pods EXCEPT ![n] = [k.pods[n] EXCEPT ![u] = k.pods[n][u] + 1]]
<1>1. addPod(k, u, n) = [k EXCEPT !.nodes = k.nodes \cup {n}, !.pods = p]
  BY DEF addPod, Cache
<1>2. p \in [Node -> [Uid -> Nat]]
  BY DEF Cache
<1>3. [k EXCEPT !.nodes = k.nodes \cup {n}, !.pods = p] \in Cache
  <2> HIDE DEF p
  <2> QED  BY <1>2 DEF Cache
<1> HIDE DEF p
<1>4. /\ addPod(k, u, n).podStates = k.podStates
      /\ addPod(k, u, n).assumedPods = k.assumedPods
      /\ addPod(k, u, n).finished = k.finished /\ addPod(k, u, n).hasNode = k.hasNode
      /\ addPod(k, u, n).down = k.down /\ addPod(k, u, n).nodes = k.nodes \cup {n}
      /\ addPod(k, u, n).pods = p
  BY <1>1 DEF Cache
<1> QED  BY <1>1, <1>3, <1>4 DEF p, Puts

LEMMA removePodTakes ==
  ASSUME NEW k \in Cache, NEW u \in Uid, NEW n \in Node, CanRemove(k, u, n)
  PROVE  Takes(k, u, n, removePod(k, u, n))
<1> DEFINE p == [k.pods EXCEPT ![n] = [k.pods[n] EXCEPT ![u] = k.pods[n][u] - 1]]
           s == [k EXCEPT !.pods = p]
           r == removePod(k, u, n)
<1>1. removePod(k, u, n) = Swept(s, n)
  BY DEF removePod, Cache
<1>2. p \in [Node -> [Uid -> Nat]]
  BY DEF Cache, CanRemove
<1>3. s \in Cache /\ s.pods = p /\ s.podStates = k.podStates
      /\ s.assumedPods = k.assumedPods /\ s.finished = k.finished
      /\ s.hasNode = k.hasNode /\ s.down = k.down /\ s.nodes = k.nodes
  <2> HIDE DEF p
  <2> QED  BY <1>2 DEF Cache
<1> HIDE DEF p, s
<1>4. Swept(s, n) \in Cache
  BY <1>3 DEF Cache, Swept
<1>5. /\ Swept(s, n).podStates = s.podStates /\ Swept(s, n).assumedPods = s.assumedPods
      /\ Swept(s, n).finished = s.finished /\ Swept(s, n).hasNode = s.hasNode
      /\ Swept(s, n).down = s.down /\ Swept(s, n).pods = s.pods
      /\ Swept(s, n).nodes = IF n \notin s.hasNode /\ \A v \in Uid : s.pods[n][v] = 0
                             THEN s.nodes \ {n} ELSE s.nodes
  BY <1>3 DEF Cache, Swept
<1>6. r = Swept(s, n)
  BY <1>1
<1> HIDE DEF r
<1>7. /\ r \in Cache /\ r.podStates = k.podStates /\ r.assumedPods = k.assumedPods
      /\ r.finished = k.finished /\ r.hasNode = k.hasNode /\ r.down = k.down
      /\ r.pods = p /\ r.pods = s.pods
  BY <1>3, <1>4, <1>5, <1>6, Zenon
<1>8. r.nodes = IF n \notin k.hasNode /\ \A v \in Uid : r.pods[n][v] = 0
                THEN k.nodes \ {n} ELSE k.nodes
  BY <1>3, <1>5, <1>6, <1>7, Zenon
<1>9. Takes(k, u, n, r)
  BY <1>7, <1>8 DEF p, Takes
<1> QED  BY <1>9 DEF r

\* A pod that is not known is put on a node.
LEMMA PutCounted ==
  ASSUME NEW k, Counted(k), NEW u \in Uid, NEW n \in Node, ~Known(k, u),
         NEW r \in Cache, r.hasNode = k.hasNode, r.nodes = k.nodes \cup {n},
         r.podStates = [k.podStates EXCEPT ![u] = n],
         r.pods = [k.pods EXCEPT ![n] = [k.pods[n] EXCEPT ![u] = k.pods[n][u] + 1]],
         r.assumedPods \subseteq k.assumedPods \cup {u}
  PROVE  Counted(r)
<1> USE SCAssumption
<1>1. k.podStates \in [Uid -> Node \cup {NoNode}] /\ k.pods \in [Node -> [Uid -> Nat]]
      /\ k.podStates[u] = NoNode /\ k.assumedPods \subseteq Uid
      /\ k.nodes \subseteq Node
  BY DEF Counted, Known, Cache
<1>2. ASSUME NEW m \in Node, NEW v \in Uid
      PROVE  r.pods[m][v] = IF r.podStates[v] = m THEN 1 ELSE 0
  <2>1. k.pods[m][v] = IF k.podStates[v] = m THEN 1 ELSE 0
    BY DEF Counted
  <2>2. CASE v = u /\ m = n
    BY <1>1, <2>1, <2>2
  <2>3. CASE v = u /\ m # n
    BY <1>1, <2>1, <2>3
  <2>4. CASE v # u
    BY <1>1, <2>1, <2>4
  <2> QED  BY <2>2, <2>3, <2>4
<1>3. \A v \in r.assumedPods : Known(r, v)
  BY <1>1 DEF Counted, Known
<1>4. {m \in Node : \E v \in Uid : r.podStates[v] = m}
        = {m \in Node : \E v \in Uid : k.podStates[v] = m} \cup {n}
  BY <1>1
<1>5. r.nodes = r.hasNode \cup {m \in Node : \E v \in Uid : r.podStates[v] = m}
  BY <1>4 DEF Counted
<1> QED  BY <1>2, <1>3, <1>5 DEF Counted

\* A pod is taken from its node.
LEMMA TakeCounted ==
  ASSUME NEW k, Counted(k), NEW u \in Uid, NEW n \in Node, k.podStates[u] = n,
         NEW r \in Cache, r.hasNode = k.hasNode,
         r.podStates = [k.podStates EXCEPT ![u] = NoNode],
         r.pods = [k.pods EXCEPT ![n] = [k.pods[n] EXCEPT ![u] = k.pods[n][u] - 1]],
         r.nodes = IF n \notin k.hasNode /\ \A v \in Uid : r.pods[n][v] = 0
                   THEN k.nodes \ {n} ELSE k.nodes,
         r.assumedPods \subseteq k.assumedPods \ {u}
  PROVE  Counted(r)
<1> USE SCAssumption
<1>1. k.podStates \in [Uid -> Node \cup {NoNode}] /\ k.pods \in [Node -> [Uid -> Nat]]
      /\ k.assumedPods \subseteq Uid /\ k.nodes \subseteq Node
  BY DEF Counted, Cache
<1>2. ASSUME NEW m \in Node, NEW v \in Uid
      PROVE  r.pods[m][v] = IF r.podStates[v] = m THEN 1 ELSE 0
  <2>1. k.pods[m][v] = IF k.podStates[v] = m THEN 1 ELSE 0
    BY DEF Counted
  <2>2. CASE v = u /\ m = n
    BY <1>1, <2>1, <2>2
  <2>3. CASE v = u /\ m # n
    BY <1>1, <2>1, <2>3
  <2>4. CASE v # u
    BY <1>1, <2>1, <2>4
  <2> QED  BY <2>2, <2>3, <2>4
<1>3. \A v \in r.assumedPods : Known(r, v)
  BY <1>1 DEF Counted, Known
<1>4. (\A v \in Uid : r.pods[n][v] = 0) <=> ~(\E v \in Uid : r.podStates[v] = n)
  <2>1. ASSUME NEW v \in Uid PROVE r.pods[n][v] = 0 <=> r.podStates[v] # n
    <3>1. r.pods[n][v] = IF r.podStates[v] = n THEN 1 ELSE 0
      BY <1>2
    <3>2. CASE r.podStates[v] = n
      <4>1. r.pods[n][v] = 1
        BY <3>1, <3>2, Zenon
      <4> QED  BY <3>2, <4>1
    <3>3. CASE r.podStates[v] # n
      BY <3>1, <3>3, Zenon
    <3> QED  BY <3>2, <3>3, Zenon
  <2> QED  BY <2>1, Zenon
<1>5. \A m \in Node \ {n} :
        (\E v \in Uid : r.podStates[v] = m) <=> (\E v \in Uid : k.podStates[v] = m)
  BY <1>1
<1>6. k.nodes = k.hasNode \cup {m \in Node : \E v \in Uid : k.podStates[v] = m}
  BY DEF Counted
<1>7. \A m \in Node : m \in r.nodes <=> m \in r.hasNode \/ \E v \in Uid : r.podStates[v] = m
  BY <1>4, <1>5, <1>6
<1>8. r.nodes \subseteq Node /\ r.hasNode \subseteq Node
  BY DEF Cache
<1>9. r.nodes = r.hasNode \cup {m \in Node : \E v \in Uid : r.podStates[v] = m}
  BY <1>7, <1>8
<1> QED  BY <1>2, <1>3, <1>9 DEF Counted

\* Drop takes the pod from podStates, too.
Drops(k, u, n, r) ==
  /\ CanRemove(k, u, n) /\ Counted(r)
  /\ r.podStates = [k.podStates EXCEPT ![u] = NoNode]
  /\ r.assumedPods = k.assumedPods \ {u}
  /\ r.hasNode = k.hasNode /\ r.down = k.down
  /\ r.pods = removePod(k, u, n).pods /\ r.nodes = removePod(k, u, n).nodes

\* What is counted once can be removed.
LEMMA DropDrops ==
  ASSUME NEW k, Counted(k), NEW u \in Uid, NEW n \in Node, k.podStates[u] = n
  PROVE  Drops(k, u, n, Drop(k, u, n))
<1>1. CanRemove(k, u, n) /\ k \in Cache
  BY DEF Counted, CanRemove
<1> DEFINE s == removePod(k, u, n)
           r == Drop(k, u, n)
<1>2. Takes(k, u, n, s)
  BY <1>1, removePodTakes
<1>3. r = [s EXCEPT !.podStates = [s.podStates EXCEPT ![u] = NoNode],
                    !.assumedPods = s.assumedPods \ {u}, !.finished = s.finished \ {u}]
  <2>1. r = [s EXCEPT !.podStates[u] = NoNode, !.assumedPods = @ \ {u},
                      !.finished = @ \ {u}]
    BY <1>1 DEF Drop
  <2> HIDE DEF r, s
  <2>2. s \in Cache
    BY <1>2 DEF Takes
  <2> QED  BY <2>1, <2>2 DEF Cache
<1> HIDE DEF s, r
<1> USE DEF Takes
<1>4. [s.podStates EXCEPT ![u] = NoNode] \in [Uid -> Node \cup {NoNode}]
  BY <1>2 DEF Cache
<1>5. r \in Cache
  BY <1>2, <1>3, <1>4 DEF Cache
<1>6. /\ r.podStates = [s.podStates EXCEPT ![u] = NoNode]
      /\ r.assumedPods = s.assumedPods \ {u} /\ r.hasNode = s.hasNode
      /\ r.down = s.down /\ r.pods = s.pods /\ r.nodes = s.nodes
  BY <1>2, <1>3 DEF Cache
<1>7. /\ r.hasNode = k.hasNode /\ r.podStates = [k.podStates EXCEPT ![u] = NoNode]
      /\ r.pods = [k.pods EXCEPT ![n] = [k.pods[n] EXCEPT ![u] = k.pods[n][u] - 1]]
      /\ r.nodes = IF n \notin k.hasNode /\ \A v \in Uid : r.pods[n][v] = 0
                   THEN k.nodes \ {n} ELSE k.nodes
      /\ r.assumedPods \subseteq k.assumedPods \ {u}
  BY <1>2, <1>6, Zenon
<1>8. Counted(r)
  BY <1>5, <1>7, TakeCounted, Zenon
<1> QED  BY <1>1, <1>2, <1>6, <1>8 DEF s, r, Drops

\* r is a with another state of one pod, and other pods that are assumed.
Sets(a, u, x, A, r) ==
  /\ r \in Cache
  /\ r.podStates = [a.podStates EXCEPT ![u] = x] /\ r.assumedPods = A
  /\ r.hasNode = a.hasNode /\ r.down = a.down /\ r.pods = a.pods /\ r.nodes = a.nodes

LEMMA SetFields ==
  ASSUME NEW a \in Cache, NEW u \in Uid, NEW x \in Node \cup {NoNode},
         NEW A \in SUBSET Uid, NEW F \in SUBSET Uid
  PROVE  Sets(a, u, x, A, [a EXCEPT !.podStates[u] = x, !.assumedPods = A, !.finished = F])
<1> DEFINE q == [a.podStates EXCEPT ![u] = x]
           r == [a EXCEPT !.podStates = q, !.assumedPods = A, !.finished = F]
<1>1. [a EXCEPT !.podStates[u] = x, !.assumedPods = A, !.finished = F] = r
  BY DEF Cache
<1>2. q \in [Uid -> Node \cup {NoNode}]
  BY DEF Cache
<1> HIDE DEF q
<1>3. r \in Cache
  BY <1>2 DEF Cache
<1>4. /\ r.podStates = q /\ r.assumedPods = A /\ r.hasNode = a.hasNode
      /\ r.down = a.down /\ r.pods = a.pods /\ r.nodes = a.nodes
  BY DEF Cache
<1> HIDE DEF r
<1>5. Sets(a, u, x, A, r)
  BY <1>3, <1>4 DEF Sets, q
<1> QED  BY <1>1, <1>5, Zenon

\* A pod that is not known, or was just taken from its node, is put on one: d is
\* without the pod, and k has the same NodeInfos.
LEMMA PutFields ==
  ASSUME NEW d, Counted(d), NEW u \in Uid, NEW n \in Node, ~Known(d, u),
         NEW k, k.hasNode = d.hasNode, k.pods = d.pods, k.nodes = d.nodes,
         NEW a, Puts(k, u, n, a),
         NEW r, r \in Cache, r.hasNode = a.hasNode, r.pods = a.pods, r.nodes = a.nodes,
         r.podStates = [d.podStates EXCEPT ![u] = n],
         r.assumedPods \subseteq d.assumedPods \cup {u}
  PROVE  Counted(r)
<1>1. /\ a.hasNode = k.hasNode /\ a.nodes = k.nodes \cup {n}
      /\ a.pods = [k.pods EXCEPT ![n] = [k.pods[n] EXCEPT ![u] = k.pods[n][u] + 1]]
  BY DEF Puts
<1>2. /\ r.hasNode = d.hasNode /\ r.nodes = d.nodes \cup {n}
      /\ r.pods = [d.pods EXCEPT ![n] = [d.pods[n] EXCEPT ![u] = d.pods[n][u] + 1]]
  BY <1>1, Zenon
<1> QED  BY <1>2, PutCounted, Zenon

\* A pod has come to a node, and A are now assumed.
Comes(k, u, n, A, r) ==
  /\ Counted(r)
  /\ r.podStates = [k.podStates EXCEPT ![u] = n] /\ r.assumedPods = A
  /\ r.hasNode = k.hasNode /\ r.down = k.down

LEMMA AssumePodComes ==
  ASSUME NEW k, Counted(k), NEW u \in Uid, NEW n \in Node, ~Known(k, u)
  PROVE  Comes(k, u, n, k.assumedPods \cup {u}, AssumePod(k, u, n))
<1> DEFINE a == addPod(k, u, n)
           r == AssumePod(k, u, n)
<1>1. k \in Cache
  BY DEF Counted
<1>2. Puts(k, u, n, a)
  BY <1>1, addPodPuts
<1>3. r = [a EXCEPT !.podStates[u] = n, !.assumedPods = a.assumedPods \cup {u},
                    !.finished = a.finished \ {u}]
  <2>1. r = [a EXCEPT !.podStates[u] = n, !.assumedPods = @ \cup {u},
                      !.finished = @ \ {u}]
    BY DEF AssumePod
  <2> HIDE DEF r, a
  <2>2. a \in Cache
    BY <1>2 DEF Puts
  <2> QED  BY <2>1, <2>2 DEF Cache
<1> HIDE DEF a, r
<1>4. a \in Cache /\ a.assumedPods \cup {u} \in SUBSET Uid /\ a.finished \ {u} \in SUBSET Uid
  BY <1>2 DEF Puts, Cache
<1>5. Sets(a, u, n, a.assumedPods \cup {u}, r)
  BY <1>3, <1>4, SetFields
<1>6. /\ r \in Cache /\ r.podStates = [k.podStates EXCEPT ![u] = n]
      /\ r.assumedPods = k.assumedPods \cup {u} /\ r.down = k.down /\ r.hasNode = k.hasNode
      /\ r.hasNode = a.hasNode /\ r.pods = a.pods /\ r.nodes = a.nodes
  BY <1>2, <1>5, Zenon DEF Sets, Puts
<1>7. Counted(r)
  BY <1>2, <1>6, PutFields
<1> QED  BY <1>6, <1>7 DEF Comes, r

\* AddPod confirms a pod that was assumed, here or elsewhere, or adds it.
LEMMA AddPodComes ==
  ASSUME NEW k, Counted(k), NEW u \in Uid, NEW n \in Node,
         Known(k, u) => u \in k.assumedPods
  PROVE  Comes(k, u, n, k.assumedPods \ {u}, AddPod(k, u, n))
<1> DEFINE r == AddPod(k, u, n)
<1>1. k \in Cache /\ k.podStates \in [Uid -> Node \cup {NoNode}]
      /\ k.assumedPods \subseteq Uid /\ k.finished \subseteq Uid
      /\ \A v \in k.assumedPods : k.podStates[v] # NoNode
  BY DEF Counted, Cache, Known
<1>2. CASE u \notin k.assumedPods
  <2> DEFINE a == addPod(k, u, n)
  <2>1. ~Known(k, u) /\ k.podStates[u] = NoNode /\ k.assumedPods \ {u} = k.assumedPods
    BY <1>2 DEF Known
  <2>2. Puts(k, u, n, a)
    BY <1>1, addPodPuts
  <2>3. r = [a EXCEPT !.podStates[u] = n]
    BY <1>2, <2>1 DEF AddPod
  <2> HIDE DEF r, a
  <2>4. a \in Cache /\ a.assumedPods \in SUBSET Uid /\ a.finished \in SUBSET Uid
    BY <2>2 DEF Puts, Cache
  <2>5. r = [a EXCEPT !.podStates[u] = n, !.assumedPods = a.assumedPods,
                      !.finished = a.finished]
    BY <2>3, <2>4 DEF Cache
  <2>6. Sets(a, u, n, a.assumedPods, r)
    BY <2>4, <2>5, SetFields
  <2>7. /\ r \in Cache /\ r.podStates = [k.podStates EXCEPT ![u] = n]
        /\ r.assumedPods = k.assumedPods /\ r.down = k.down /\ r.hasNode = k.hasNode
        /\ r.hasNode = a.hasNode /\ r.pods = a.pods /\ r.nodes = a.nodes
    BY <2>2, <2>6, Zenon DEF Sets, Puts
  <2>8. Counted(r)
    BY <2>1, <2>2, <2>7, PutFields
  <2>9. Comes(k, u, n, k.assumedPods \ {u}, r)
    BY <2>1, <2>7, <2>8 DEF Comes
  <2> QED  BY <2>9 DEF r
<1>3. CASE u \in k.assumedPods /\ k.podStates[u] = n
  <2>1. r = [k EXCEPT !.podStates[u] = n, !.assumedPods = @ \ {u}, !.finished = @ \ {u}]
    BY <1>3 DEF AddPod
  <2> HIDE DEF r
  <2>2. r = [k EXCEPT !.podStates[u] = n, !.assumedPods = k.assumedPods \ {u},
                      !.finished = k.finished \ {u}]
    BY <1>1, <2>1 DEF Cache
  <2>3. Sets(k, u, n, k.assumedPods \ {u}, r)
    BY <1>1, <2>2, SetFields
  <2>4. [k.podStates EXCEPT ![u] = n] = k.podStates
    BY <1>1, <1>3
  <2>5. /\ r \in Cache /\ r.podStates = k.podStates /\ r.assumedPods = k.assumedPods \ {u}
        /\ r.down = k.down /\ r.hasNode = k.hasNode /\ r.pods = k.pods /\ r.nodes = k.nodes
    BY <2>3, <2>4, Zenon DEF Sets
  <2>6. Counted(r)
    BY <2>5, SMTT(30) DEF Counted, Known
  <2>7. Comes(k, u, n, k.assumedPods \ {u}, r)
    BY <2>4, <2>5, <2>6 DEF Comes
  <2> QED  BY <2>7 DEF r
<1>4. CASE u \in k.assumedPods /\ k.podStates[u] # n
  <2> DEFINE m == k.podStates[u]
             d == Drop(k, u, m)
             s == removePod(k, u, m)
             a == addPod(s, u, n)
  <2>1. m \in Node
    BY <1>1, <1>4
  <2>2. Drops(k, u, m, d)
    BY <2>1, DropDrops
  <2>3. CanRemove(k, u, m)
    BY <2>2 DEF Drops
  <2>4. r = [a EXCEPT !.podStates[u] = n, !.assumedPods = @ \ {u}, !.finished = @ \ {u}]
    BY <1>4, <2>3, Zenon DEF AddPod
  <2>5. Takes(k, u, m, s)
    BY <1>1, <2>1, <2>3, removePodTakes
  <2>6. s \in Cache
    BY <2>5, Zenon DEF Takes
  <2>7. Puts(s, u, n, a)
    BY <2>6, addPodPuts
  <2>8. /\ d.podStates = [k.podStates EXCEPT ![u] = NoNode]
        /\ d.assumedPods = k.assumedPods \ {u} /\ d.hasNode = k.hasNode
        /\ d.pods = s.pods /\ d.nodes = s.nodes /\ Counted(d)
    BY <2>2, Zenon DEF Drops
  <2> HIDE DEF m, d, s, a, r
  <2>9. a \in Cache /\ a.assumedPods \ {u} \in SUBSET Uid /\ a.finished \ {u} \in SUBSET Uid
    BY <2>7 DEF Puts, Cache
  <2>10. r = [a EXCEPT !.podStates[u] = n, !.assumedPods = a.assumedPods \ {u},
                       !.finished = a.finished \ {u}]
    BY <2>4, <2>9 DEF Cache
  <2>11. Sets(a, u, n, a.assumedPods \ {u}, r)
    BY <2>9, <2>10, SetFields
  <2>12. /\ r \in Cache /\ r.podStates = [k.podStates EXCEPT ![u] = n]
         /\ r.assumedPods = k.assumedPods \ {u} /\ r.down = k.down /\ r.hasNode = k.hasNode
         /\ r.hasNode = a.hasNode /\ r.pods = a.pods /\ r.nodes = a.nodes
         /\ s.hasNode = d.hasNode
    BY <2>5, <2>7, <2>8, <2>11, Zenon DEF Sets, Puts, Takes
  <2>13. ~Known(d, u) /\ r.podStates = [d.podStates EXCEPT ![u] = n]
    BY <1>1, <2>8, <2>12 DEF Known
  <2>14. Counted(r)
    BY <2>7, <2>8, <2>12, <2>13, PutFields
  <2>15. Comes(k, u, n, k.assumedPods \ {u}, r)
    BY <2>12, <2>14 DEF Comes
  <2> QED  BY <2>15 DEF r
<1> QED  BY <1>2, <1>3, <1>4

\* UpdatePod takes a pod that was added from its node, and puts it there again.
LEMMA UpdatePodComes ==
  ASSUME NEW k, Counted(k), NEW o \in Pod, NEW p \in Pod, o.uid = p.uid, o.node = p.node,
         o.uid \in Uid, o.node \in Node, k.podStates[o.uid] = o.node,
         o.uid \notin k.assumedPods
  PROVE  Comes(k, o.uid, o.node, k.assumedPods, UpdatePod(k, o, p))
<1> DEFINE u == o.uid
           n == o.node
           d == Drop(k, u, n)
           s == removePod(k, u, n)
           r == addPod(s, u, n)
<1>1. k \in Cache /\ k.podStates \in [Uid -> Node \cup {NoNode}] /\ Known(k, u)
  BY SCAssumption DEF Counted, Cache, Known
<1>2. Drops(k, u, n, d)
  BY DropDrops
<1>3. CanRemove(k, u, n) /\ ~Crashes(k, u, n)
  <2>1. CanRemove(k, u, n)
    BY <1>2 DEF Drops
  <2>2. k.pods[n][u] \in Nat
    BY <1>1 DEF Cache
  <2> QED  BY <2>1, <2>2 DEF CanRemove, Crashes
<1>4. UpdatePod(k, o, p) = r
  BY <1>1, <1>3, Zenon DEF UpdatePod
<1>5. Takes(k, u, n, s)
  BY <1>1, <1>3, removePodTakes
<1>6. s \in Cache
  BY <1>5, Zenon DEF Takes
<1>7. Puts(s, u, n, r)
  BY <1>6, addPodPuts
<1>8. /\ d.podStates = [k.podStates EXCEPT ![u] = NoNode]
      /\ d.assumedPods = k.assumedPods \ {u} /\ d.hasNode = k.hasNode
      /\ d.pods = s.pods /\ d.nodes = s.nodes /\ Counted(d)
  BY <1>2, Zenon DEF Drops
<1>9. /\ r \in Cache /\ r.podStates = k.podStates /\ r.assumedPods = k.assumedPods
      /\ r.down = k.down /\ r.hasNode = k.hasNode /\ s.hasNode = d.hasNode
  BY <1>5, <1>7, <1>8, Zenon DEF Puts, Takes
<1> HIDE DEF d, s, r
<1>10. /\ ~Known(d, u) /\ r.podStates = [d.podStates EXCEPT ![u] = n]
       /\ r.podStates = [k.podStates EXCEPT ![u] = n]
       /\ r.assumedPods \subseteq d.assumedPods \cup {u}
  BY <1>1, <1>8, <1>9 DEF Known
<1>11. Counted(r)
  BY <1>7, <1>8, <1>9, <1>10, PutFields
<1>12. Comes(k, u, n, k.assumedPods, r)
  BY <1>9, <1>10, <1>11 DEF Comes
<1> QED  BY <1>4, <1>12

\* r is k with the Nodes H set, or down.
Alike(k, H, r) ==
  /\ Counted(r) /\ r.podStates = k.podStates /\ r.assumedPods = k.assumedPods
  /\ r.hasNode = H

LEMMA CrashAlike ==
  ASSUME NEW k, Counted(k)
  PROVE  Alike(k, k.hasNode, Crash(k))
<1>1. k \in Cache
  BY DEF Counted
<1> DEFINE r == [k EXCEPT !.down = TRUE]
<1>2. r \in Cache
  BY <1>1 DEF Cache
<1>3. /\ r.podStates = k.podStates /\ r.assumedPods = k.assumedPods
      /\ r.hasNode = k.hasNode /\ r.pods = k.pods /\ r.nodes = k.nodes
  BY <1>1 DEF Cache
<1> HIDE DEF r
<1>4. Counted(r)
  BY <1>2, <1>3 DEF Counted, Known
<1>5. Alike(k, k.hasNode, r)
  BY <1>3, <1>4 DEF Alike
<1> QED  BY <1>5 DEF r, Crash

LEMMA FinishBindingAlike ==
  ASSUME NEW k, Counted(k), NEW u \in Uid
  PROVE  Alike(k, k.hasNode, FinishBinding(k, u)) /\ FinishBinding(k, u).down = k.down
<1>1. k \in Cache
  BY DEF Counted
<1>2. CASE u \notin k.assumedPods
  BY <1>2 DEF FinishBinding, Alike
<1>3. CASE u \in k.assumedPods
  <2> DEFINE r == [k EXCEPT !.finished = k.finished \cup {u}]
  <2>1. FinishBinding(k, u) = r
    BY <1>1, <1>3 DEF FinishBinding, Cache
  <2>2. r \in Cache
    BY <1>1 DEF Cache
  <2>3. /\ r.podStates = k.podStates /\ r.assumedPods = k.assumedPods
        /\ r.hasNode = k.hasNode /\ r.pods = k.pods /\ r.nodes = k.nodes /\ r.down = k.down
    BY <1>1 DEF Cache
  <2> HIDE DEF r
  <2>4. Counted(r)
    BY <2>2, <2>3 DEF Counted, Known
  <2> QED  BY <2>1, <2>3, <2>4 DEF Alike
<1> QED  BY <1>2, <1>3

LEMMA AddNodeAlike ==
  ASSUME NEW k, Counted(k), NEW n \in Node
  PROVE  Alike(k, k.hasNode \cup {n}, AddNode(k, n)) /\ AddNode(k, n).down = k.down
<1>1. k \in Cache
  BY DEF Counted
<1> DEFINE r == AddNode(k, n)
<1>2. r = [k EXCEPT !.nodes = k.nodes \cup {n}, !.hasNode = k.hasNode \cup {n}]
  BY <1>1 DEF AddNode, Cache
<1> HIDE DEF r
<1>3. r \in Cache
  BY <1>1, <1>2 DEF Cache
<1>4. /\ r.podStates = k.podStates /\ r.assumedPods = k.assumedPods
      /\ r.hasNode = k.hasNode \cup {n} /\ r.pods = k.pods /\ r.nodes = k.nodes \cup {n}
      /\ r.down = k.down
  BY <1>1, <1>2 DEF Cache
<1>5. Counted(r)
  BY <1>3, <1>4 DEF Counted, Known
<1>6. Alike(k, k.hasNode \cup {n}, r) /\ r.down = k.down
  BY <1>4, <1>5 DEF Alike
<1> QED  BY <1>6 DEF r

\* RemoveNode ends the process if there is no NodeInfo.
LEMMA RemoveNodeAlike ==
  ASSUME NEW k, Counted(k), NEW n \in Node
  PROVE  /\ Alike(k, k.hasNode \ {n}, RemoveNode(k, n))
         /\ n \in k.hasNode => RemoveNode(k, n).down = k.down
<1>1. k \in Cache /\ k.hasNode \subseteq k.nodes /\ k.nodes \subseteq Node
  BY DEF Counted, Cache
<1>2. CASE n \notin k.nodes
  <2>1. RemoveNode(k, n) = Crash(k) /\ n \notin k.hasNode /\ k.hasNode \ {n} = k.hasNode
    BY <1>1, <1>2 DEF RemoveNode
  <2> QED  BY <2>1, CrashAlike
<1>3. CASE n \in k.nodes
  <2> DEFINE s == [k EXCEPT !.hasNode = k.hasNode \ {n}]
             r == RemoveNode(k, n)
  <2>1. r = Swept(s, n)
    BY <1>1, <1>3 DEF RemoveNode, Cache
  <2>2. s \in Cache
    BY <1>1 DEF Cache
  <2>3. /\ s.podStates = k.podStates /\ s.assumedPods = k.assumedPods /\ s.down = k.down
        /\ s.hasNode = k.hasNode \ {n} /\ s.pods = k.pods /\ s.nodes = k.nodes
    BY <1>1 DEF Cache
  <2> HIDE DEF r, s
  <2>4. r \in Cache
    BY <2>1, <2>2 DEF Swept, Cache
  <2>5. /\ r.podStates = s.podStates /\ r.assumedPods = s.assumedPods /\ r.down = s.down
        /\ r.hasNode = s.hasNode /\ r.pods = s.pods
        /\ r.nodes = IF n \notin s.hasNode /\ \A u \in Uid : s.pods[n][u] = 0
                     THEN s.nodes \ {n} ELSE s.nodes
    BY <2>1, <2>2 DEF Swept, Cache
  <2>6. (\A u \in Uid : k.pods[n][u] = 0) <=> ~(\E u \in Uid : k.podStates[u] = n)
    <3>1. ASSUME NEW u \in Uid PROVE k.pods[n][u] = 0 <=> k.podStates[u] # n
      <4>1. k.pods[n][u] = IF k.podStates[u] = n THEN 1 ELSE 0
        BY DEF Counted
      <4> QED  BY <4>1
    <3> QED  BY <3>1, Zenon
  <2>7. k.nodes = k.hasNode \cup {m \in Node : \E u \in Uid : k.podStates[u] = m}
    BY DEF Counted
  <2>8. r.nodes = IF ~(\E u \in Uid : k.podStates[u] = n) THEN k.nodes \ {n} ELSE k.nodes
    BY <2>3, <2>5, <2>6
  <2>9. r.nodes = r.hasNode \cup {m \in Node : \E u \in Uid : r.podStates[u] = m}
    <3>1. r.podStates = k.podStates /\ r.hasNode = k.hasNode \ {n}
      BY <2>3, <2>5
    <3>2. CASE \E u \in Uid : k.podStates[u] = n
      BY <1>1, <2>7, <2>8, <3>1, <3>2
    <3>3. CASE ~(\E u \in Uid : k.podStates[u] = n)
      BY <1>1, <2>7, <2>8, <3>1, <3>3
    <3> QED  BY <3>2, <3>3
  <2>10. Counted(r)
    BY <2>3, <2>4, <2>5, <2>9 DEF Counted, Known
  <2>11. Alike(k, k.hasNode \ {n}, r) /\ r.down = k.down
    BY <2>3, <2>5, <2>10 DEF Alike
  <2> QED  BY <2>11 DEF r
<1> QED  BY <1>2, <1>3

-----------------------------------------------------------------------------
(* What the handlers and the goroutines do to the cache *)

\* r is what k may become when the handlers know of o.
Good(k, o, r) ==
  Counted(r) /\ Agrees(r, o) /\ r.hasNode = k.hasNode /\ r.down = k.down

LEMMA AlikeAgrees ==
  ASSUME NEW k, NEW o, Agrees(k, o), NEW H, NEW r, Alike(k, H, r)
  PROVE  Agrees(r, o)
BY DEF Alike, Agrees, Known

\* A pod that is only assumed is dropped.
LEMMA DropGood ==
  ASSUME NEW k, Counted(k), NEW o \in Pod, Agrees(k, o), NEW u \in k.assumedPods
  PROVE  Good(k, o, Drop(k, u, k.podStates[u]))
<1> DEFINE n == k.podStates[u]
           r == Drop(k, u, n)
<1>1. /\ k.podStates \in [Uid -> Node \cup {NoNode}] /\ k.assumedPods \subseteq Uid
      /\ u \in Uid /\ n \in Node
  BY DEF Counted, Cache, Known
<1>2. Drops(k, u, n, r)
  BY <1>1, DropDrops
<1> HIDE DEF r
<1>3. /\ Counted(r) /\ r.podStates = [k.podStates EXCEPT ![u] = NoNode]
      /\ r.assumedPods = k.assumedPods \ {u} /\ r.hasNode = k.hasNode /\ r.down = k.down
  BY <1>2 DEF Drops
<1>4. Agrees(r, o)
  BY <1>1, <1>3 DEF Agrees, Known
<1> QED  BY <1>3, <1>4 DEF Good, r

LEMMA ForgetPodGood ==
  ASSUME NEW k, Counted(k), NEW o \in Pod, Agrees(k, o), NEW u \in Uid, NEW n
  PROVE  Good(k, o, ForgetPod(k, u, n))
<1>1. CASE k.podStates[u] = n /\ u \in k.assumedPods
  BY <1>1, DropGood DEF ForgetPod
<1>2. CASE ~(k.podStates[u] = n /\ u \in k.assumedPods)
  BY <1>2 DEF ForgetPod, Good
<1> QED  BY <1>1, <1>2

LEMMA AssumePodGood ==
  ASSUME NEW k, Counted(k), NEW o \in Pod, Agrees(k, o), NEW u \in Uid, NEW n \in Node,
         ~Known(k, u)
  PROVE  Good(k, o, AssumePod(k, u, n))
<1> DEFINE r == AssumePod(k, u, n)
<1>1. Comes(k, u, n, k.assumedPods \cup {u}, r)
  BY AssumePodComes
<1> HIDE DEF r
<1>2. k.podStates \in [Uid -> Node \cup {NoNode}]
  BY DEF Counted, Cache
<1>3. Agrees(r, o)
  BY <1>1, <1>2 DEF Comes, Agrees, Known, Assigned
<1> QED  BY <1>1, <1>3 DEF Good, Comes, r

\* The handlers are told that old has become new: another pod only after there
\* was none, and a pod that is assigned stays where it is.
LEMMA HandledGood ==
  ASSUME NEW k, Counted(k), NEW old, NEW new, Real(old), Real(new), Agrees(k, old),
         old # Gone /\ new # Gone => old.uid = new.uid,
         old.uid = new.uid /\ Assigned(old) => new.node = old.node
  PROVE  Good(k, new, Handled(k, old, new))
<1> USE SCAssumption
<1>1. /\ k.podStates \in [Uid -> Node \cup {NoNode}] /\ k.assumedPods \subseteq Uid
      /\ Gone = [uid |-> 0, node |-> NoNode]
  BY DEF Counted, Cache, Gone
<1>2. ASSUME NEW p, Real(p), Assigned(p)
      PROVE  p \in Pod /\ p.uid \in Uid /\ p.node \in Node /\ p # Gone
  BY <1>1, <1>2 DEF Real, Assigned, Pod
<1>3. CASE Assigned(old) /\ Assigned(new)
  <2>1. old.uid = new.uid /\ old.node = new.node
    BY <1>2, <1>3
  <2>2. k.podStates[old.uid] = old.node /\ old.uid \notin k.assumedPods
    BY <1>2, <1>3 DEF Agrees
  <2> DEFINE r == UpdatePod(k, old, new)
  <2>3. Comes(k, old.uid, old.node, k.assumedPods, r)
    BY <1>2, <1>3, <2>1, <2>2, UpdatePodComes
  <2>4. Handled(k, old, new) = r
    BY <1>3 DEF Handled
  <2> HIDE DEF r
  <2>5. Agrees(r, new)
    BY <1>1, <1>2, <1>3, <2>1, <2>2, <2>3 DEF Comes, Agrees, Known
  <2> QED  BY <2>3, <2>4, <2>5 DEF Good, Comes
<1>4. CASE ~Assigned(old) /\ Assigned(new)
  <2> DEFINE r == AddPod(k, new.uid, new.node)
  <2>1. Known(k, new.uid) => new.uid \in k.assumedPods
    BY <1>2, <1>4 DEF Agrees
  <2>2. Comes(k, new.uid, new.node, k.assumedPods \ {new.uid}, r)
    BY <1>2, <1>4, <2>1, AddPodComes
  <2>3. Handled(k, old, new) = r
    BY <1>4 DEF Handled
  <2> HIDE DEF r
  <2>4. Agrees(r, new)
    BY <1>1, <1>2, <1>4, <2>2 DEF Comes, Agrees, Known
  <2> QED  BY <2>2, <2>3, <2>4 DEF Good, Comes
<1>5. CASE Assigned(old) /\ ~Assigned(new)
  <2>1. k.podStates[old.uid] = old.node /\ old.uid \notin k.assumedPods
        /\ old.uid \in Uid /\ old.node \in Node
    BY <1>2, <1>5 DEF Agrees
  <2> DEFINE r == Drop(k, old.uid, old.node)
  <2>2. Drops(k, old.uid, old.node, r)
    BY <2>1, DropDrops
  <2>3. Handled(k, old, new) = r
    BY <1>5, <2>1 DEF Handled, RemovePod, Known
  <2> HIDE DEF r
  <2>4. Agrees(r, new)
    BY <1>1, <1>5, <2>1, <2>2 DEF Drops, Agrees, Known
  <2> QED  BY <2>2, <2>3, <2>4 DEF Good, Drops
<1>6. CASE ~Assigned(old) /\ ~Assigned(new)
  <2>1. Handled(k, old, new) = k
    BY <1>6 DEF Handled
  <2> QED  BY <1>6, <2>1 DEF Good, Agrees
<1> QED  BY <1>3, <1>4, <1>5, <1>6

-----------------------------------------------------------------------------
(* What the API server and the informer do to the stream *)

LEMMA StreamKept ==
  ASSUME StreamInv, UNCHANGED <<object, born, stream, seen>>
  PROVE  StreamInv'
BY DEF StreamInv, Tell, Real

\* The object becomes o, which is the pod it was, or there was none.
LEMMA StreamGrows ==
  ASSUME StreamInv, NEW o, Real(o), Becomes(o), UNCHANGED seen,
         born \subseteq born', born' \subseteq Uid, o.uid \in born' \cup {0},
         object # Gone /\ o # Gone => object.uid = o.uid,
         \A i \in 0..Len(stream) :
           Tell(i).uid = o.uid /\ Assigned(Tell(i)) => o.node = Tell(i).node
  PROVE  StreamInv'
<1> PICK n \in Nat : n = Len(stream)
  BY DEF StreamInv
<1>1. /\ stream \in Seq(Pod) /\ stream' \in Seq(Pod) /\ Len(stream') = n + 1
      /\ \A i \in 1..n : stream'[i] = stream[i]
      /\ stream'[n + 1] = o
  BY DEF StreamInv, Becomes, Real
<1>2. /\ \A i \in 0..n : Tell(i)' = Tell(i)
      /\ Tell(n + 1)' = o
  BY <1>1 DEF Tell
<1>3. \A i \in 0..n + 1 : i \in 0..n \/ i = n + 1
  BY <1>1
<1>4. \A i \in 0..n + 1 : Real(Tell(i)') /\ Tell(i)'.uid \in born' \cup {0}
  BY <1>2, <1>3 DEF StreamInv
<1>5. ASSUME NEW i \in 0..n + 1, NEW j \in 0..n + 1, i < j,
             Tell(i)'.uid = Tell(j)'.uid, Assigned(Tell(i)')
      PROVE  Tell(j)'.node = Tell(i)'.node
  <2>1. i \in 0..n
    BY <1>1, <1>5
  <2>2. CASE j = n + 1
    BY <1>2, <1>5, <2>1, <2>2
  <2>3. CASE j \in 0..n
    BY <1>2, <1>5, <2>1, <2>3 DEF StreamInv
  <2> QED  BY <1>3, <2>2, <2>3
<1>6. ASSUME NEW i \in 1..n + 1, Tell(i - 1)' # Gone, Tell(i)' # Gone
      PROVE  Tell(i - 1)'.uid = Tell(i)'.uid
  <2>1. i - 1 \in 0..n
    BY <1>1
  <2>2. CASE i = n + 1
    <3>1. i - 1 = n /\ n \in 0..n
      BY <1>1, <2>2
    <3>2. Tell(i - 1)' = object
      BY <1>2, <3>1 DEF StreamInv
    <3> QED  BY <1>2, <1>6, <2>2, <3>2
  <2>3. CASE i # n + 1
    <3>1. i \in 1..n /\ i \in 0..n
      BY <1>1, <2>3
    <3> QED  BY <1>2, <1>6, <2>1, <3>1 DEF StreamInv
  <2> QED  BY <2>2, <2>3
<1>7. Tell(n + 1)' = object'
  BY <1>2 DEF Becomes
<1> QED  BY <1>1, <1>4, <1>5, <1>6, <1>7, Zenon DEF StreamInv, Real

\* A UID that is given is new, so no pod that was told had it.
LEMMA CreateStream ==
  ASSUME StreamInv, NEW n \in Node \cup {NoNode}, Create(n)
  PROVE  StreamInv'
<1>1. PICK u \in Uid \ born : born' = born \cup {u} /\ Becomes([uid |-> u, node |-> n])
  BY DEF Create
<1>2. Real([uid |-> u, node |-> n])
  BY SCAssumption DEF Real, Pod
<1>3. \A i \in 0..Len(stream) : Tell(i).uid # u
  BY SCAssumption DEF StreamInv
<1>4. object = Gone /\ UNCHANGED seen /\ born \subseteq Uid
  BY DEF Create, StreamInv
<1> QED  BY <1>1, <1>2, <1>3, <1>4, StreamGrows

LEMMA LastIsObject ==
  ASSUME StreamInv
  PROVE  /\ Real(object) /\ object.uid \in born \cup {0} /\ born \subseteq Uid
         /\ \A i \in 0..Len(stream) :
              Tell(i).uid = object.uid /\ Assigned(Tell(i)) => object.node = Tell(i).node
<1>1. Len(stream) \in 0..Len(stream) /\ Tell(Len(stream)) = object
  BY DEF StreamInv
<1>2. \A i \in 0..Len(stream) : i < Len(stream) \/ i = Len(stream)
  BY DEF StreamInv
<1> QED  BY <1>1, <1>2 DEF StreamInv

LEMMA DeleteStream ==
  ASSUME StreamInv, Delete
  PROVE  StreamInv'
<1>1. Real(Gone) /\ Gone.uid = 0
  BY DEF Real, Gone, Pod
<1>2. \A i \in 0..Len(stream) : Tell(i).uid = 0 => ~Assigned(Tell(i))
  BY DEF StreamInv, Real, Gone, Assigned
<1>3. Becomes(Gone) /\ UNCHANGED <<seen, born>>
  BY DEF Delete
<1> QED  BY <1>1, <1>2, <1>3, LastIsObject, StreamGrows

\* A pod that is not assigned may come to be; no other change matters here.
LEMMA AssignStream ==
  ASSUME StreamInv, NEW o, NEW n \in Node \cup {NoNode}, object # Gone,
         o = [uid |-> object.uid, node |-> n], n = object.node \/ ~Assigned(object),
         Becomes(o), UNCHANGED <<seen, born>>
  PROVE  StreamInv'
<1>1. Real(object) /\ object.uid \in born \cup {0} /\ born \subseteq Uid
  BY LastIsObject
<1>2. Real(o) /\ o.uid = object.uid /\ o.node = n
  BY <1>1 DEF Real, Pod
<1>3. \A i \in 0..Len(stream) :
        Tell(i).uid = o.uid /\ Assigned(Tell(i)) => o.node = Tell(i).node
  BY <1>2, LastIsObject DEF Assigned
<1> QED  BY <1>1, <1>2, <1>3, StreamGrows

\* What is skipped does not matter, unless it was between two pods.
LEMMA RelistStream ==
  ASSUME StreamInv, Relist, ~merged'
  PROVE  StreamInv'
<1> DEFINE m == Len(stream)
<1>1. stream \in Seq(Pod) /\ m \in Nat /\ m >= 2 /\ UNCHANGED <<object, born, seen>>
  BY DEF StreamInv, Relist
<1>2. PICK k \in 0..m - 2 :
        /\ stream' = Append(SubSeq(stream, 1, k), stream[m])
        /\ ~(Tell(k) # Gone /\ stream[m] # Gone /\ Tell(k).uid # stream[m].uid)
  BY DEF Relist, Tell
<1>3. SubSeq(stream, 1, k) \in Seq(Pod) /\ Len(SubSeq(stream, 1, k)) = k
      /\ \A i \in 1..k : SubSeq(stream, 1, k)[i] = stream[i]
  BY <1>1, <1>2
<1>4. /\ stream' \in Seq(Pod) /\ Len(stream') = k + 1 /\ stream'[k + 1] = stream[m]
      /\ \A i \in 1..k : stream'[i] = stream[i]
  BY <1>1, <1>2, <1>3
<1>5. /\ \A i \in 0..k : Tell(i)' = Tell(i)
      /\ Tell(k + 1)' = Tell(m) /\ Tell(m) = stream[m]
  BY <1>1, <1>4 DEF Tell
<1>6. /\ \A i \in 0..k + 1 : i \in 0..k \/ i = k + 1
      /\ \A i \in 0..k : i \in 0..m /\ i < m
      /\ m \in 0..m
  BY <1>1
<1>7. \A i \in 0..k + 1 : Real(Tell(i)') /\ Tell(i)'.uid \in born \cup {0}
  BY <1>5, <1>6 DEF StreamInv
<1>8. ASSUME NEW i \in 0..k + 1, NEW j \in 0..k + 1, i < j,
             Tell(i)'.uid = Tell(j)'.uid, Assigned(Tell(i)')
      PROVE  Tell(j)'.node = Tell(i)'.node
  <2>1. i \in 0..k
    BY <1>1, <1>8
  <2>2. CASE j = k + 1
    BY <1>5, <1>6, <1>8, <2>1, <2>2 DEF StreamInv
  <2>3. CASE j \in 0..k
    BY <1>5, <1>6, <1>8, <2>1, <2>3 DEF StreamInv
  <2> QED  BY <1>6, <2>2, <2>3
<1>9. ASSUME NEW i \in 1..k + 1, Tell(i - 1)' # Gone, Tell(i)' # Gone
      PROVE  Tell(i - 1)'.uid = Tell(i)'.uid
  <2>1. i - 1 \in 0..k
    BY <1>1
  <2>2. CASE i = k + 1
    <3>1. i - 1 = k
      BY <1>1, <2>2
    <3> QED  BY <1>2, <1>5, <1>9, <2>1, <2>2, <3>1
  <2>3. CASE i # k + 1
    <3>1. i \in 1..m /\ i \in 0..k
      BY <1>1, <2>3
    <3> QED  BY <1>5, <1>9, <2>1, <3>1 DEF StreamInv
  <2> QED  BY <2>2, <2>3
<1>10. Tell(k + 1)' = object' /\ born' \subseteq Uid
  BY <1>1, <1>5 DEF StreamInv
<1> QED  BY <1>1, <1>4, <1>7, <1>8, <1>9, <1>10, Zenon DEF StreamInv, Real

LEMMA HandleStream ==
  ASSUME StreamInv, HandlePod
  PROVE  StreamInv'
<1> PICK m \in Nat : m = Len(stream)
  BY DEF StreamInv
<1>1. stream \in Seq(Pod) /\ m # 0 /\ UNCHANGED <<object, born>>
      /\ seen' = stream[1] /\ stream' = Tail(stream)
  BY DEF StreamInv, HandlePod
<1>2. /\ stream' \in Seq(Pod) /\ Len(stream') = m - 1
      /\ \A i \in 1..m - 1 : stream'[i] = stream[i + 1]
  BY <1>1
<1>3. \A i \in 0..m - 1 : Tell(i)' = Tell(i + 1) /\ i + 1 \in 0..m
  BY <1>1, <1>2 DEF Tell
<1>4. \A i \in 0..m - 1 : Real(Tell(i)') /\ Tell(i)'.uid \in born \cup {0}
  BY <1>3 DEF StreamInv
<1>5. ASSUME NEW i \in 0..m - 1, NEW j \in 0..m - 1, i < j,
             Tell(i)'.uid = Tell(j)'.uid, Assigned(Tell(i)')
      PROVE  Tell(j)'.node = Tell(i)'.node
  BY <1>1, <1>3, <1>5 DEF StreamInv
<1>6. ASSUME NEW i \in 1..m - 1, Tell(i - 1)' # Gone, Tell(i)' # Gone
      PROVE  Tell(i - 1)'.uid = Tell(i)'.uid
  <2>1. i - 1 \in 0..m - 1 /\ i \in 0..m - 1 /\ (i - 1) + 1 = (i + 1) - 1 /\ i + 1 \in 1..m
    BY <1>1
  <2> QED  BY <1>3, <1>6, <2>1 DEF StreamInv
<1>7. Tell(m - 1)' = object' /\ born' \subseteq Uid
  <2>1. m - 1 \in 0..m - 1 /\ (m - 1) + 1 = m
    BY <1>1
  <2> QED  BY <1>1, <1>3, <2>1 DEF StreamInv
<1> QED  BY <1>1, <1>2, <1>4, <1>5, <1>6, <1>7, Zenon DEF StreamInv, Real

-----------------------------------------------------------------------------
(* Every step preserves the invariant *)

SCParts == Counted(c) /\ Agrees(c, seen) /\ StreamInv /\ WayInv /\ NodesInv

LEMMA SCInvInit == SCInit => SCInv
<1> SUFFICES ASSUME SCInit PROVE SCParts
  BY DEF SCInv, SCParts
<1> USE SCAssumption
<1>1. c.podStates = [u \in Uid |-> NoNode] /\ c.assumedPods = {} /\ c.nodes = {}
      /\ c.hasNode = {} /\ c.pods = [n \in Node |-> [u \in Uid |-> 0]] /\ ~c.down
  BY DEF SCInit
<1>2. c \in Cache
  BY DEF SCInit, Cache
<1>3. Counted(c)
  BY <1>1, <1>2 DEF Counted
<1>4. Agrees(c, seen)
  BY <1>1 DEF SCInit, Agrees, Known, Assigned, Gone
<1>5. StreamInv
  <2>1. Len(stream) = 0 /\ stream \in Seq(Pod) /\ Tell(0) = Gone /\ object = Gone /\ born = {}
    BY DEF SCInit, Tell
  <2>2. Real(Gone) /\ Gone.uid = 0
    BY DEF Real, Gone, Pod
  <2> QED  BY <2>1, <2>2 DEF StreamInv
<1>6. WayInv /\ NodesInv
  BY <1>1 DEF SCInit, WayInv, NodesInv
<1> QED  BY <1>3, <1>4, <1>5, <1>6 DEF SCParts

\* Steps that do not touch the cache.
LEMMA CacheKept ==
  ASSUME SCParts, UNCHANGED <<c, seen, told, removed>>
  PROVE  (Counted(c) /\ Agrees(c, seen) /\ NodesInv)'
BY DEF SCParts, Counted, Agrees, Known, NodesInv

\* Steps after which the cache is good, with the nodes it had.
LEMMA CacheGood ==
  ASSUME SCParts, Good(c, seen', c'), UNCHANGED <<told, removed>>
  PROVE  (Counted(c) /\ Agrees(c, seen) /\ NodesInv)'
<1>1. Counted(c') /\ Agrees(c', seen') /\ c'.hasNode = c.hasNode /\ c'.down = c.down
  BY DEF Good
<1>2. NodesInv'
  BY <1>1 DEF SCParts, NodesInv
<1> QED  BY <1>1, <1>2 DEF Counted, Agrees, Known

\* The API server and the informer.
LEMMA WorldInv ==
  ASSUME SCParts, World, ~merged'
  PROVE  SCParts'
<1>1. CASE Delete
  BY <1>1, DeleteStream, CacheKept DEF SCParts, WayInv, Delete, schedVars, bindVars, nodeVars
<1>2. CASE Relist
  BY <1>2, RelistStream, CacheKept DEF SCParts, WayInv, Relist, schedVars, bindVars, nodeVars
<1>3. ASSUME NEW n \in Node \cup {NoNode}, Create(n) PROVE SCParts'
  BY <1>3, CreateStream, CacheKept DEF SCParts, WayInv, Create, schedVars, bindVars, nodeVars
<1>4. ASSUME NEW n \in Node \cup {NoNode}, ChangePod(n) PROVE SCParts'
  <2>1. Real(object)
    BY LastIsObject DEF SCParts
  <2>2. [object EXCEPT !.node = n] = [uid |-> object.uid, node |-> n]
    BY <2>1 DEF Real, Pod
  <2>3. StreamInv'
    BY <1>4, <2>2, AssignStream DEF SCParts, ChangePod
  <2> QED  BY <1>4, <2>3, CacheKept
           DEF SCParts, WayInv, ChangePod, schedVars, bindVars, nodeVars
<1>5. ASSUME NEW n \in Node, ChangeNode(n) PROVE SCParts'
  BY <1>5, StreamKept, CacheKept
  DEF SCParts, WayInv, ChangeNode, schedVars, bindVars, objectVars
<1> QED  BY <1>1, <1>2, <1>3, <1>4, <1>5 DEF World

\* The handlers of pods and of nodes.
LEMMA HandlePodInv ==
  ASSUME SCParts, HandlePod
  PROVE  SCParts'
<1>1. /\ stream \in Seq(Pod) /\ Len(stream) \in Nat /\ Len(stream) >= 1
      /\ Head(stream) = stream[1] /\ Tell(0) = seen /\ Tell(1) = stream[1]
  BY DEF SCParts, StreamInv, HandlePod, Tell
<1>2. 0 \in 0..Len(stream) /\ 1 \in 0..Len(stream) /\ 1 \in 1..Len(stream) /\ 1 - 1 = 0
  BY <1>1
<1>3. Real(seen) /\ Real(stream[1])
  BY <1>1, <1>2 DEF SCParts, StreamInv
<1>4. seen # Gone /\ stream[1] # Gone => seen.uid = stream[1].uid
  BY <1>1, <1>2 DEF SCParts, StreamInv
<1>5. seen.uid = stream[1].uid /\ Assigned(seen) => stream[1].node = seen.node
  BY <1>1, <1>2 DEF SCParts, StreamInv
<1>6. c' = Handled(c, seen, stream[1]) /\ seen' = stream[1]
  BY <1>1 DEF HandlePod
<1>7. Good(c, seen', c')
  BY <1>3, <1>4, <1>5, <1>6, HandledGood DEF SCParts
<1>8. (Counted(c) /\ Agrees(c, seen) /\ NodesInv)'
  BY <1>7, CacheGood DEF HandlePod, nodeVars
<1>9. queued' \in Uid \cup {0}
  BY <1>1, <1>3 DEF SCParts, WayInv, HandlePod, Queued, Real, Pod
<1>10. WayInv'
  BY <1>9 DEF SCParts, WayInv, HandlePod, bindVars
<1> QED  BY <1>8, <1>10, HandleStream DEF SCParts

LEMMA HandleNodeInv ==
  ASSUME SCParts, NEW n \in Node, HandleNode(n)
  PROVE  SCParts'
<1>1. StreamInv' /\ WayInv'
  BY StreamKept DEF SCParts, WayInv, HandleNode, objectVars, schedVars, bindVars
<1>2. CASE n \in up
  <2>1. c' = AddNode(c, n) /\ told' = told \cup {n} /\ UNCHANGED <<seen, removed>>
    BY <1>2 DEF HandleNode, schedVars
  <2>2. Alike(c, c.hasNode \cup {n}, c') /\ c'.down = c.down
    BY <2>1, AddNodeAlike DEF SCParts
  <2>3. Agrees(c', seen')
    BY <2>1, <2>2, AlikeAgrees DEF SCParts
  <2>4. Counted(c') /\ NodesInv'
    BY <2>1, <2>2 DEF SCParts, NodesInv, Alike
  <2> QED  BY <1>1, <2>3, <2>4 DEF SCParts, Counted, Agrees, Known
<1>3. CASE n \notin up
  <2>1. /\ c' = RemoveNode(c, n) /\ told' = told \ {n} /\ UNCHANGED <<seen, removed>>
        /\ n \in told
    BY <1>3 DEF HandleNode, schedVars
  <2>2. /\ Alike(c, c.hasNode \ {n}, c')
        /\ n \in c.hasNode => c'.down = c.down
    BY <2>1, RemoveNodeAlike DEF SCParts
  <2>3. Agrees(c', seen')
    BY <2>1, <2>2, AlikeAgrees DEF SCParts
  <2>4. Counted(c') /\ NodesInv'
    BY <2>1, <2>2 DEF SCParts, NodesInv, Alike
  <2> QED  BY <1>1, <2>3, <2>4 DEF SCParts, Counted, Agrees, Known
<1> QED  BY <1>2, <1>3

\* scheduleOne and the error function.
LEMMA SchedulingInv ==
  ASSUME SCParts, Schedule \/ Assume \/ Retry \/ ErrorRemovesNode
  PROVE  SCParts'
<1> USE SCAssumption
<1>1. seen \in Pod /\ Real(object)
  <2>1. 0 \in 0..Len(stream) /\ Tell(0) = seen
    BY DEF SCParts, StreamInv, Tell
  <2> QED  BY <2>1, LastIsObject DEF SCParts, StreamInv, Real
<1>2. CASE Schedule
  <2>1. c.hasNode \subseteq Node
    BY DEF SCParts, Counted, Cache
  <2>2. WayInv'
    BY <1>2, <2>1 DEF SCParts, WayInv, Schedule, bindVars
  <2>3. StreamInv'
    BY <1>2, StreamKept DEF SCParts, Schedule, objectVars
  <2> QED  BY <1>2, <2>2, <2>3, CacheKept DEF SCParts, Schedule, nodeVars
<1>3. CASE Assume
  <2>1. StreamInv'
    BY <1>3, StreamKept DEF SCParts, Assume, objectVars
  <2>2. sched.uid \in Uid /\ sched.node \in Node /\ sched' = Gone
        /\ UNCHANGED <<seen, told, removed>>
    BY <1>3 DEF SCParts, WayInv, Assume, nodeVars
  <2>3. WayInv'
    BY <1>3, <2>2 DEF SCParts, WayInv, Assume
  <2>4. CASE Known(c, sched.uid)
    BY <1>3, <2>1, <2>2, <2>3, <2>4, CacheKept DEF SCParts, Assume
  <2>5. CASE ~Known(c, sched.uid)
    <3>1. c' = AssumePod(c, sched.uid, sched.node)
      BY <1>3, <2>5 DEF Assume
    <3>2. Good(c, seen', c')
      BY <1>1, <2>2, <2>5, <3>1, AssumePodGood DEF SCParts
    <3> QED  BY <2>1, <2>2, <2>3, <3>2, CacheGood DEF SCParts
  <2> QED  BY <2>4, <2>5
<1>4. CASE Retry
  <2>1. StreamInv'
    BY <1>4, StreamKept DEF SCParts, Retry, objectVars
  <2>2. WayInv'
    BY <1>1, <1>4 DEF SCParts, WayInv, Retry, bindVars, Real, Pod
  <2> QED  BY <1>4, <2>1, <2>2, CacheKept DEF SCParts, Retry, nodeVars
<1>5. CASE ErrorRemovesNode
  <2>1. StreamInv' /\ WayInv'
    BY <1>5, StreamKept DEF SCParts, WayInv, ErrorRemovesNode, objectVars, bindVars
  <2>2. c' = RemoveNode(c, lost) /\ lost \in Node /\ seen' = seen /\ removed' = TRUE
    BY <1>5 DEF SCParts, WayInv, ErrorRemovesNode
  <2>3. Alike(c, c.hasNode \ {lost}, c')
    BY <2>2, RemoveNodeAlike DEF SCParts
  <2>4. Agrees(c', seen')
    BY <2>2, <2>3, AlikeAgrees DEF SCParts
  <2>5. Counted(c') /\ NodesInv'
    BY <2>2, <2>3 DEF NodesInv, Alike
  <2> QED  BY <2>1, <2>4, <2>5 DEF SCParts, Counted, Agrees, Known
<1> QED  BY <1>2, <1>3, <1>4, <1>5

\* The goroutine that binds a pod, and the loop that lets it expire.
LEMMA BindingInv ==
  ASSUME SCParts, NEW u \in Uid, Binding(u) \/ Expire(u)
  PROVE  SCParts'
<1>1. seen \in Pod
  <2>1. 0 \in 0..Len(stream) /\ Tell(0) = seen
    BY DEF SCParts, StreamInv, Tell
  <2> QED  BY <2>1 DEF SCParts, StreamInv, Real
<1>2. CASE Bind(u)
  <2>1. UNCHANGED <<c, born, seen, told, removed, queued, sched, host, lost>>
    BY <1>2 DEF Bind, nodeVars, schedVars
  <2>2. WayInv'
    BY <2>1 DEF SCParts, WayInv
  <2>3. \/ UNCHANGED <<object, stream>>
        \/ Pending(object) /\ Becomes([uid |-> object.uid, node |-> host[u]])
    BY <1>2 DEF Bind
  <2>4. CASE UNCHANGED <<object, stream>>
    BY <2>1, <2>2, <2>4, StreamKept, CacheKept DEF SCParts
  <2>5. CASE Pending(object) /\ Becomes([uid |-> object.uid, node |-> host[u]])
    <3>1. object # Gone /\ ~Assigned(object) /\ host[u] \in Node \cup {NoNode}
      BY <2>5 DEF SCParts, WayInv, Pending
    <3>2. StreamInv'
      BY <2>1, <2>5, <3>1, AssignStream DEF SCParts
    <3> QED  BY <2>1, <2>2, <3>2, CacheKept DEF SCParts
  <2> QED  BY <2>3, <2>4, <2>5
<1>3. CASE Finish(u)
  <2>1. StreamInv' /\ WayInv'
    BY <1>3, StreamKept DEF SCParts, WayInv, Finish, objectVars, schedVars
  <2>2. c' = FinishBinding(c, u) /\ UNCHANGED <<seen, told, removed>>
    BY <1>3 DEF Finish, nodeVars, schedVars
  <2>3. Alike(c, c.hasNode, c') /\ c'.down = c.down
    BY <2>2, FinishBindingAlike DEF SCParts
  <2>4. Agrees(c', seen')
    BY <2>2, <2>3, AlikeAgrees DEF SCParts
  <2>5. Good(c, seen', c')
    BY <2>3, <2>4 DEF Good, Alike
  <2> QED  BY <2>1, <2>2, <2>5, CacheGood DEF SCParts
<1>4. CASE Forget(u)
  <2>1. StreamInv' /\ WayInv'
    BY <1>4, StreamKept DEF SCParts, WayInv, Forget, objectVars
  <2>2. c' = ForgetPod(c, u, host[u]) /\ UNCHANGED <<seen, told, removed>>
    BY <1>4 DEF Forget, nodeVars
  <2>3. Good(c, seen', c')
    BY <1>1, <2>2, ForgetPodGood DEF SCParts
  <2> QED  BY <2>1, <2>2, <2>3, CacheGood DEF SCParts
<1>5. CASE Expire(u)
  <2>1. StreamInv' /\ WayInv'
    BY <1>5, StreamKept DEF SCParts, WayInv, Expire, objectVars, schedVars, bindVars
  <2>2. /\ u \in c.assumedPods /\ c' = Drop(c, u, c.podStates[u])
        /\ UNCHANGED <<seen, told, removed>>
    BY <1>5 DEF Expire, nodeVars, schedVars
  <2>3. Good(c, seen', c')
    BY <1>1, <2>2, DropGood DEF SCParts
  <2> QED  BY <2>1, <2>2, <2>3, CacheGood DEF SCParts
<1> QED  BY <1>2, <1>3, <1>4, <1>5 DEF Binding

LEMMA SCInvNext == SCInv /\ [SCNext]_scVars => SCInv'
<1> SUFFICES ASSUME SCInv, [SCNext]_scVars, ~merged' PROVE SCParts'
  BY DEF SCInv, SCParts
<1>1. CASE UNCHANGED scVars
  <2>1. SCParts
    BY <1>1 DEF scVars, SCInv, SCParts
  <2>2. StreamInv' /\ WayInv'
    BY <1>1, <2>1, StreamKept DEF scVars, SCParts, WayInv
  <2> QED  BY <1>1, <2>1, <2>2, CacheKept DEF scVars, SCParts
<1>2. CASE SCNext
  <2>1. ~merged
    BY <1>2 DEF SCNext, World, Delete, Relist, Create, ChangePod, ChangeNode, HandlePod,
             Schedule, Assume, Retry, ErrorRemovesNode, HandleNode, Binding, Bind, Finish,
             Forget, Expire
  <2>2. SCParts
    BY <2>1 DEF SCInv, SCParts
  <2> QED  BY <1>2, <2>2, WorldInv, HandlePodInv, HandleNodeInv, SchedulingInv, BindingInv
           DEF SCNext
<1> QED  BY <1>1, <1>2

LEMMA SCInvariant == SCSafety => []SCInv
BY SCInvInit, SCInvNext, PTL DEF SCSafety

-----------------------------------------------------------------------------
\* However the informer, the goroutines that bind and the expiry interleave, and
\* whatever calls fail, each pod the cache knows is counted once, on its node.
THEOREM CountsEachPodOnce == SCSafety => []PodsCountedOnce
<1>1. SCInv => PodsCountedOnce
  BY DEF SCInv, PodsCountedOnce, Counted
<1> QED  BY <1>1, SCInvariant, PTL

\* The pods that are added are those the informer has told as assigned.
THEOREM AddsWhatWasTold == SCSafety => []AddedIsWhatWasTold
<1>1. SCInv => AddedIsWhatWasTold
  BY DEF SCInv, AddedIsWhatWasTold, Agrees
<1> QED  BY <1>1, SCInvariant, PTL

\* The scheduler ends itself only if the informer has made one pod of two, or the
\* error function has removed a node behind the back of the handlers.
THEOREM CrashesOnlySo == SCSafety => []NoCrash
<1>1. SCInv => NoCrash
  BY DEF SCInv, NoCrash, NodesInv
<1> QED  BY <1>1, SCInvariant, PTL
=============================================================================
